SPECIFICATION LinkedSpec
CONSTANTS
  Runs = {x1}
  Schedulers = {s1}
  WorkDepts = {d1, d2}
  Archive = Archive
  Gone = Gone
  OpIds = {o1, o2, o3}
  Nobody = Nobody
  Portal = Portal
  MaxRevision = 3
  MaxFaults = 2
  Overrun = FALSE
  Stall = FALSE
  ManualSql = FALSE
  CardDeletes = TRUE
  OperatorMoves = TRUE
  SyncCrashes = TRUE
CONSTRAINT Budget
SYMMETRY Symmetry
INVARIANTS
  SyncTypeOK
  CardSettles
  PendingOwnsState
PROPERTIES
  AutoFireJustified
  ScheduledNotPreempted
  ArchiveFireJustified
  ImplementsEmployment
CHECK_DEADLOCK FALSE
