SPECIFICATION Spec
CONSTANTS
  f1 = f1
  f2 = f2
  p1 = p1
  p2 = p2
  p3 = p3
  NoOne = NoOne
  Fulfillments = {f1}
  Processes = {p1, p2, p3}
  MaxQueue = 2
  Hazards = {"crash", "transient", "misleading"}
CHECK_DEADLOCK FALSE
SYMMETRY ProcessSymmetry
INVARIANTS AtMostOneSend ToldOnceAndTrue ClosedWithTheTruth
PROPERTIES KeepsContract
