SPECIFICATION Spec
CONSTANTS
  c1 = c1
  c2 = c2
  c3 = c3
  k1 = k1
  b1 = b1
  b2 = b2
  Call = {c1, c2, c3}
  Key = {k1}
  Body = {b1, b2}
  NoClaim = NoClaim
  NoId = NoId
  Backends = {"memory", "redis"}
  Limits = {0, 5}
  Cost = 2
  MaxAttempts = 2
  FinalCosts = {1, 2}
  MaxPeriod = 2
INVARIANTS LedgerBalanced HardBudget
SYMMETRY CallSymmetry
CHECK_DEADLOCK FALSE
