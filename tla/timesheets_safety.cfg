SPECIFICATION Spec
CONSTANTS
  Emps = {e1, e2}
  Reports = {e1}
  Corrected = {e1}
  Procs = {p1, p2}
  Managers = {m1}
  MaxTries = 2
  MaxRequests = 5
  None = None
SYMMETRY Symmetry
INVARIANTS
  TypeOK
  ClosedIsExact
  CountedOnce
PROPERTIES
  FrozenWhileClosed
CHECK_DEADLOCK FALSE
