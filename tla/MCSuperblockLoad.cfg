CONSTANTS
  Offsets <- MCOffsets
  DeviceSizes = {64, 65537, 1048577}
  CopyImages <- MCCopyImages
  MinSectorSize = 4
  MaxSectorSize = 64
  MinNodeSize = 4
  MaxNodeSize = 64
SPECIFICATION Spec
INVARIANTS
  TypeOK
  NewestValidCopyWins
  RefusedFeatureNeverOpens
  OneGoodCopySuffices
  RefusalIsVerified
  ErrorIsTheEarliestReason
CHECK_DEADLOCK FALSE
