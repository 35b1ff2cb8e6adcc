SPECIFICATION Spec
CONSTANTS
  Workers = {w1}
  OpIds = {o1, o2}
  Types = {t1, t2}
  Addrs = {a1}
  None = None
  MaxAttempts = 1
  QuotaMax = 1
  MaxCycles = 2
  MaxFaults = 1
  MaxOutside = 0
  SlowReads = FALSE
SYMMETRY Symmetry
INVARIANTS
  TypeOK
  OneOrderAtATime
  CreateMeetsNoConflict
  EndsSettled
PROPERTIES
  DoneMeansApplied
CHECK_DEADLOCK FALSE
