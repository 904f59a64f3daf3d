SPECIFICATION Spec
CONSTANTS
  olga = olga
  pia = pia
  k1 = k1
  i1 = i1
  i2 = i2
  r1 = r1
  r2 = r2
  Users <- MCUsers
  Owner = olga
  Staff = staff
  StartRoles <- MCStartRoles
  Courses = {go, js}
  Published = {go}
  PackIds <- MCPackIds
  PackSizes = {1}
  InvitationIds <- MCInvitationIds
  Requests <- MCRequests
  NoUser = NoUser
  NoCourse = NoCourse
  NoInvitation = NoInvitation
  MaxFailures = 1
SYMMETRY Symmetry
INVARIANTS SeatsAreBacked MembersCameByInvitation
PROPERTIES InvitationsMoveForward
CHECK_DEADLOCK FALSE
