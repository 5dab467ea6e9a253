SPECIFICATION TillSpec
CONSTANTS
  q1 = q1
  q2 = q2
  w1 = w1
  i1 = i1
  Nothing = Nothing
  Keys <- AllKeys
  Requests = {q1, q2}
  Whos = {w1}
  Items = {i1}
  MaxRetries = 1
  MaxOps = 2
  MaxFaults = 2
  Total = 2
  Amounts = {1, 2, 3}
SYMMETRY Threads
CHECK_DEADLOCK FALSE
INVARIANTS OnePerOperation SaleIsOne SoldWasShown PayPageIsPayable ChangeIsTrue
