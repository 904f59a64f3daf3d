SPECIFICATION FairSpec
CONSTANTS
  c1 = c1
  c2 = c2
  PurchaseIds = {p1}
  Courses = {c1}
  Drafts <- MCPackOrCourse
  Requests = {r1}
  NoPurchase = NoPurchase
  NoEvent = NoEvent
  MaxCrashes = 1
PROPERTIES PaidIsDelivered
CHECK_DEADLOCK FALSE
