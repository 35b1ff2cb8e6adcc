SPECIFICATION FairSpec
CONSTANTS
  Cards = {c1, c2}
  Bulks = {}
  Saves = {}
  Rollbacks = {}
  Syncs = {y1, y2}
  None = None
  Terms = {1, 3}
  Starts = {0}
  Now = 2
  MassMin = 1
  MaxFaults = 1
  MaxOutside = 1
  MaxAssigns = 1
PROPERTIES
  MirrorCatchesUp
CHECK_DEADLOCK FALSE
