SPECIFICATION Spec
CONSTANTS
  Cards = {c1}
  Bulks = {b1}
  Saves = {s1}
  Rollbacks = {r1}
  Syncs = {y1}
  None = None
  Terms = {1, 3, 5}
  Starts = {0, 1}
  Now = 2
  MassMin = 1
  MaxFaults = 1
  MaxOutside = 0
  MaxAssigns = 0
SYMMETRY Symmetry
CONSTRAINT Covered
INVARIANTS
  TypeOK
  PatchMeetsItsReading
  RollbackRestores
PROPERTIES
  PassFollowsCard
CHECK_DEADLOCK FALSE
