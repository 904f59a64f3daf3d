SPECIFICATION Spec
CONSTANTS
  u1 = u1
  u2 = u2
  r1 = r1
  r2 = r2
  Users = {u1, u2}
  MaxTokens = 3
  MaxCodes = 2
  MaxIssued = 3
  OtpMaxAttempts = 2
  Requests <- MCRequests
  MaxDisturbances = 1
SYMMETRY Symmetry
INVARIANTS FamiliesHaveOneOwner SessionsEnd CodesAreLimited
CHECK_DEADLOCK FALSE
