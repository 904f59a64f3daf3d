SPECIFICATION Spec
CONSTANTS
  u1 = u1
  u2 = u2
  r1 = r1
  r2 = r2
  Users <- MCUsers
  BootUser = u1
  Roles = {"LEARNER", "PARTNER", "ADMIN", "SUPERADMIN"}
  Requests <- MCRequests
  MaxDisturbances = 1
SYMMETRY Symmetry
INVARIANTS ReferralsAreWhole ReferredHasReferral
PROPERTIES SuperadminRemains
CHECK_DEADLOCK FALSE
