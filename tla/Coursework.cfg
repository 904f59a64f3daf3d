SPECIFICATION Spec
CONSTANTS
  r1 = r1
  r2 = r2
  MaxPoints = 2
  Settings <- MCSettings
  MaxAssignments = 2
  MaxSubmissions = 3
  MaxGrades = 2
  Requests <- MCRequests
  MaxDisturbances = 1
SYMMETRY Symmetry
INVARIANTS GradesTakeEffect SubmissionsStayInOrder
CHECK_DEADLOCK FALSE
