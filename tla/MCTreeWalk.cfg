CONSTANTS
  Keys = {0, 1, 2, 3, 4, 5, 6, 7}
  Blocks = {1, 2, 3, 4, 5, 6, 7}
  Root = 1
  Disks <- MCDisks
  MaxTreeDepth = 3
  U8Max = 5
  NoKey = 99
  OffsetSpan = 4
  FirstTarget = 0
  LastWanted = 3
  StopsAtOther = TRUE
SPECIFICATION WalkSpec
INVARIANTS
  KeysAscend
PROPERTIES
  WalkReturns
  ScanSpec
