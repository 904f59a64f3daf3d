SPECIFICATION Spec
CONSTANTS
  r1 = r1
  r2 = r2
  MaxModules = 2
  MaxLessons = 2
  Minutes <- MCMinutes
  Prices <- MCPrices
  Requests <- MCRequests
  MaxDisturbances = 1
SYMMETRY Symmetry
INVARIANTS CourseIsInOrder
PROPERTIES LearnersKeepTheirCourse EditsRepair
CHECK_DEADLOCK FALSE
