SPECIFICATION FairSpec
CONSTANTS
  Workers = {w1}
  OpIds = {o1}
  Types = {t1, t2}
  Addrs = {a1}
  None = None
  MaxAttempts = 2
  QuotaMax = 1
  MaxCycles = 1
  MaxFaults = 1
  MaxOutside = 1
  SlowReads = TRUE
INVARIANTS
  SentOnce
PROPERTIES
  Ends
CHECK_DEADLOCK FALSE
