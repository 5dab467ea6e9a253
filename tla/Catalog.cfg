SPECIFICATION DeskSpec
CONSTANTS
  p1 = p1 q1 = q1 q2 = q2 s1 = s1 s2 = s2 l1 = l1 l2 = l2
  k1 = k1 k2 = k2
  None = None
  Products = {p1}
  Providers = {q1, q2}
  Main = q1
  Rank <- FirstThenSecond
  LineOf <- OneLine
  Lines = {l1, l2}
  Skus = {s1, s2}
  Amounts = {100, 200}
  Data = {1, 2}
  Feeds <- SmallFeeds
  FileStatus = {"AVAILABLE", "REVIEW_REQUIRED"}
  MaxSteps = 6
  Nothing = Nothing
  NotSaid = NotSaid
  Goods = {k1, k2}
  Values = {1, 2}
  Offers <- SmallOffers
  Sales = {i1, i2}
  Balance = 3
  Reserve = 0
  TTL = 1
  Production = TRUE
  Measured = FALSE
  MaxTime = 2
  MaxSyncs = 2
  g1 = g1 g2 = g2 oA = oA oB = oB r1 = r1 r2 = r2 r3 = r3 Nil = Nil
  Items = {g1, g2}
  Operators = {oA, oB}
  Runs = {r1, r2}
  Catalogues <- AllCatalogues
  MaxFetches = 4
CHECK_DEADLOCK FALSE
SYMMETRY Alike
INVARIANTS OperatorsHaveProducts SoldAsReviewed OneAtATimeIsServed
