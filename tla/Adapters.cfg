SPECIFICATION AdaptersSpec
CONSTANTS
  a1 = a1 a2 = a2 phone = phone m1 = m1 m2 = m2
  Sales = {a1, a2}
  Phones = {phone}
  Amounts = {m1, m2}
  Gap = 1 Immediate = 0 Cutoff = 1 Skew = 1 MaxTime = 3
CHECK_DEADLOCK FALSE
SYMMETRY Alike
INVARIANTS ClosedTruly
