SPECIFICATION Spec
CONSTANTS
  Runs = {x1, x2}
  Schedulers = {s1}
  WorkDepts = {d1}
  Archive = Archive
  Gone = Gone
  OpIds = {o1, o2, o3}
  Nobody = Nobody
  Portal = Portal
  MaxRevision = 4
  MaxFaults = 1
  Overrun = FALSE
  Stall = FALSE
  ManualSql = TRUE
  CardDeletes = FALSE
SYMMETRY Symmetry
PROPERTIES
  ConflictCancels
CHECK_DEADLOCK FALSE
