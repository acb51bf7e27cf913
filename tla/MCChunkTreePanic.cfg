CONSTANTS
  MaxU64 = 7
  Devids = {1, 2}
  NoDevid = 0
  Chunks <- MCChunks
  Keys = {0, 1, 2, 3, 4, 5, 6, 7, 8, 9, 10, 11, 12, 13, 14, 15, 16, 17, 18, 19, 20, 21, 22, 23, 24, 25, 26, 27, 28, 29, 30, 31}
  Blocks = {0, 1, 2, 4}
  Root = 0
  Disks <- MCDisks
  MaxTreeDepth = 2
  U8Max = 4
  NoKey = 99
  FirstTarget = 8
  LastWanted = 23
  LocalDevid = 1
  SysArrays <- MCSysArrays
  UsedSizes = {0, 2, 3, 4, 6, 7, 9}
  ArrayLen = 7
  KeySize = 1
  HeaderSize = 1
  StripeSize = 1
  Payload <- MCPayload
  MalformedItems = {21}
  Home <- MCHome
SPECIFICATION Spec
INVARIANT
  ParserNeverPanics
