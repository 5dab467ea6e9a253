SPECIFICATION FairSpec
CONSTANTS
  b1 = b1
  p1 = p1
  p2 = p2
  NoOne = NoOne
  Bills = {b1}
  Processes = {p1, p2}
  MaxQueue = 1
  MaxCrashes = 1
CHECK_DEADLOCK FALSE
INVARIANTS NobodyForgets
PROPERTIES DeliversLikeTopups PaidIsTaken ReviewEnds
