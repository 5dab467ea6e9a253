SPECIFICATION Spec
CONSTANTS
  o1 = o1
  o2 = o2
  c1 = c1
  c2 = c2
  w1 = w1
  w2 = w2
  None = None
  Orders = {o1}
  Calls = {c1}
  Workers = {w1, w2}
  OrderOf <- OneCall
  CashCalls = {}
  MerchantSales = {}
  HookIds = {"e1", "e2"}
  Faults = {"crash", "outage"}
CHECK_DEADLOCK FALSE
SYMMETRY WorkerSymmetry
INVARIANTS EventsMatchState PaidIsBacked PaidInTimeNeverExpires NeverBothOutcomes
