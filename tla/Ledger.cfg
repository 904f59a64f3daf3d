SPECIFICATION Spec
CONSTANTS
  p1 = p1
  p2 = p2
  p3 = p3
  k1 = k1
  k2 = k2
  r1 = r1
  r2 = r2
  PurchaseIds = {p1, p2, p3}
  Price <- MCPrice
  Profiles <- MCProfiles
  CycleIds = {k1, k2}
  Requests = {r1, r2}
  NoPurchase = NoPurchase
  NoCycle = NoCycle
  MaxDisturbances = 1
SYMMETRY Symmetry
INVARIANTS BalancesAddUp ReadyWhenDue CyclesOpenAndAlertOnce
PROPERTIES LedgerMovesForward ReversedIsNeverPaid
CHECK_DEADLOCK FALSE
