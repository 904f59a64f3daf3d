SPECIFICATION Spec
CONSTANTS
  p1 = p1
  p2 = p2
  r1 = r1
  r2 = r2
  LastLesson = 2
  FirstLessons = 1
  QuizLesson = 1
  MaxAttempts = 1
  PurchaseIds <- MCPurchaseIds
  Requests <- MCRequests
  NoPurchase = NoPurchase
  MaxTries = 2
  MaxDisturbances = 1
SYMMETRY Symmetry
INVARIANTS EnrollmentIsCounted AccessIsPaidFor QuizzesGuardLessons CompletionIsCertified
PROPERTIES FinishedStaysFinished
CHECK_DEADLOCK FALSE
