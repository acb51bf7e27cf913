CONSTANTS
  MaxU64 = 7
  Devids = {1, 2}
  NoDevid = 0
  Chunks <- LongChunks
  DeviceLen = 7
  UsizeSpan = 4
  Starts = {0, 1, 2, 3, 4, 5, 6, 7}
  Lens = {1, 2, 3}
  MaxMappings = 2
SPECIFICATION ReadSpec
PROPERTY ReadReturns
CHECK_DEADLOCK FALSE
