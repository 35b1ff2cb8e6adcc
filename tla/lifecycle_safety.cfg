SPECIFICATION Spec
CONSTANTS
  Runs = {x1, x2}
  Schedulers = {s1}
  WorkDepts = {d1, d2}
  Archive = Archive
  Gone = Gone
  OpIds = {o1, o2, o3}
  Nobody = Nobody
  Portal = Portal
  MaxRevision = 4
  MaxFaults = 2
  Overrun = FALSE
  Stall = FALSE
  ManualSql = FALSE
  CardDeletes = TRUE
SYMMETRY Symmetry
INVARIANTS
  PendingOwnsState
  OneExecutor
  ChangesAlternate
  CardFollowsStatus
  RightsFollowStatus
PROPERTIES
  UnblockedOnlyToRehire
  ImplementsEmployment
CHECK_DEADLOCK FALSE
