CONSTANTS
  Keys = {0, 1, 2, 3, 4, 5, 6}
  Blocks = {1, 2, 3, 4, 5, 6, 7}
  Root = 1
  Disks <- MCDisks
  MaxTreeDepth = 3
  U8Max = 5
  NoKey = 99
SPECIFICATION FairBTreeSpec
INVARIANTS
  TypeOK
  AnswerIsSound
  SearchIsExact
PROPERTY SearchReturns
