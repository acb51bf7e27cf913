CONSTANTS
  MaxU64 = 7
  Devids = {1, 2}
  NoDevid = 0
  Chunks <- MCChunks
  DeviceLen = 7
  UsizeSpan = 8
  Starts = {0, 1, 2, 3, 4, 5, 6, 7}
  Lens = {1, 2, 4, 6}
  MaxMappings = 3
SPECIFICATION ReadSpec
INVARIANTS
  TypeOK
  NonOverlapping
  ResolveIsExact
  ReadsLocalDevice
  RunIsLinear
  ReadIsExact
  RefusedForCause
PROPERTIES
  AddressesAreStable
  ReadReturns
CHECK_DEADLOCK FALSE
