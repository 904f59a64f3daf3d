SPECIFICATION Spec
CONSTANTS
  ann = ann
  bea = bea
  cid = cid
  r1 = r1
  r2 = r2
  NoUser = NoUser
  Users <- MCUsers
  Requests <- MCRequests
  Capacities = {1, 2}
  DtoStatuses = {"SCHEDULED", "COMPLETED"}
  StaffOverlap = FALSE
  MaxDrift = 3
SYMMETRY Symmetry
INVARIANTS TypeOK CountsMatchRoster NoOversubscription WaitlistIsDense
PROPERTIES ImplementsSeatQueue
CHECK_DEADLOCK FALSE
