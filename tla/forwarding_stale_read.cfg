SPECIFICATION Spec
CONSTANTS
  Workers = {w1}
  OpIds = {o1}
  Types = {t1, t2}
  Addrs = {a1}
  None = None
  MaxAttempts = 1
  QuotaMax = 1
  MaxCycles = 1
  MaxFaults = 2
  MaxOutside = 0
  SlowReads = TRUE
SYMMETRY Symmetry
INVARIANTS
  OneOrderAtATime
CHECK_DEADLOCK FALSE
