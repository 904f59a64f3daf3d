SPECIFICATION Spec
CONSTANTS
  c1 = c1
  c2 = c2
  PurchaseIds = {p1}
  Courses = {c1}
  Drafts <- MCPackOrCourse
  Requests = {r1, r2}
  NoPurchase = NoPurchase
  NoEvent = NoEvent
  MaxCrashes = 1
INVARIANTS DeliveredOnlyIfPaid PaidEventsAreApplied
CHECK_DEADLOCK FALSE
