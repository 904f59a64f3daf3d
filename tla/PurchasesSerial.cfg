SPECIFICATION FairSpec
CONSTANTS
  c1 = c1
  c2 = c2
  PurchaseIds = {p1}
  Courses = {c1, c2}
  Drafts <- MCDrafts
  Requests = {r1}
  NoPurchase = NoPurchase
  NoEvent = NoEvent
  MaxCrashes = 0
INVARIANTS TypeOK SettledPurchasesMatch
PROPERTIES PaidIsDelivered RefundsStand
CHECK_DEADLOCK FALSE
