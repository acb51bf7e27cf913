CONSTANTS
  Sectorsize = 8
  HeaderLen = 4
  BufLen = 3
  MaxDecompressed = 24
  Words = {0, 1, 2, 5, 9}
  Builds = {{"zlib", "lzo", "zstd"}, {"zstd"}}
  Extents <- MCExtents
SPECIFICATION Spec
INVARIANTS
  WrittenExtentDecodes
  OutputIsBounded
  StaysInInput
PROPERTY DecodeReturns
CHECK_DEADLOCK FALSE
