SPECIFICATION FairSpec
CONSTANTS
  Runs = {x1, x2}
  Schedulers = {s1}
  WorkDepts = {d1}
  Archive = Archive
  Gone = Gone
  OpIds = {o1, o2}
  Nobody = Nobody
  Portal = Portal
  MaxRevision = 3
  MaxFaults = 1
  Overrun = FALSE
  Stall = FALSE
  ManualSql = FALSE
  CardDeletes = FALSE
PROPERTIES
  PendingEnds
  ScheduledEnds
CHECK_DEADLOCK FALSE
