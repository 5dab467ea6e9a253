SPECIFICATION Spec
CONSTANTS
  o1 = o1
  o2 = o2
  c1 = c1
  c2 = c2
  w1 = w1
  w2 = w2
  None = None
  Orders = {o1}
  Calls = {c1, c2}
  Workers = {w1}
  OrderOf <- TwoCalls
  CashCalls = {}
  MerchantSales = {}
  HookIds = {"e1"}
  Faults = {"outage"}
CHECK_DEADLOCK FALSE
INVARIANTS AnnouncedOnce ExpiredWasNeverPaid
