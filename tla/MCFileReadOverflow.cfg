SPECIFICATION Spec
CONSTANTS
    MaxU64 = 15
    MaxAlloc = 7
    MaxDecompressedExtentBytes = 8
    OverflowChecks = FALSE
    Files <- MCFiles
    Windows <- MCWindows
CHECK_DEADLOCK FALSE
INVARIANT OverflowIsRefused
