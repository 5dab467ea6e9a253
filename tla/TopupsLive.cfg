SPECIFICATION FairSpec
CONSTANTS
  f1 = f1
  f2 = f2
  p1 = p1
  p2 = p2
  p3 = p3
  NoOne = NoOne
  Fulfillments = {f1}
  Processes = {p1, p2}
  MaxQueue = 1
  Hazards = {}
CHECK_DEADLOCK FALSE
PROPERTIES PaidIsExecuted OutcomeIsTold
