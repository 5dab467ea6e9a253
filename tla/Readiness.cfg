SPECIFICATION Spec
CONSTANTS
  n1 = n1 n2 = n2 Nothing = Nothing
  Procs = {n1, n2}
  MaxRestarts = 1
  r1 = r1 r2 = r2 Absent = Absent
  Rows = {r1, r2}
  Values = {1, 2}
  Lowest = 1
  Highest = 2
  MaxReads = 2
  Base = 100
  Tariffs <- SmallTariffs
  Rates = {6, 20}
  Prices = {20, 100, 200}
  Deposits = {100, 333, 567}
  MaxDeposits = 2
  MaxSales = 3
  Tries = 20
  Unknown = Unknown
  sA = sA sB = sB oA = oA p1 = p1
  Stores = {sA, sB}
  Orgs = {oA}
  OrgOf <- OneOrg
  Products = {p1}
  Shapes <- SmallShapes
  MaxRules = 2
  Amounts = {0, 33, 150}
  MaxOrders = 1
  MaxTime = 1
  Unset = Unset
SYMMETRY Symmetry
CHECK_DEADLOCK FALSE
INVARIANTS WorldsNeverMix TokensStayHome GuardSawThePurse WhatWasPaidArrives BooksAgree MinimumFeePays SharesAddUp
