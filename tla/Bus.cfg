SPECIFICATION DeskSpec
CONSTANTS
  e1 = e1
  e2 = e2
  d1 = d1
  d2 = d2
  g1 = g1
  r1 = r1
  r2 = r2
  NoOne = NoOne
  Events = {e1}
  Drainers = {d1, d2}
  Groups = {g1}
  Readers = {r1, r2}
  MaxAttempts = 2
  Batch = 2
  MaxLen = 2
  MaxCrashes = 2
  c1 = c1
  c2 = c2
  Nobody = Nobody
  Clients = {c1, c2}
  Attempts = 3
  MaxTokens = 3
CHECK_DEADLOCK FALSE
INVARIANTS RepeatsAreExplained RenewalIsReal
PROPERTIES IsChannel CommittedArrives OperationsEnd
