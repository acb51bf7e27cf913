SPECIFICATION FairSpec
CONSTANTS
    MaxU64 = 15
    MaxAlloc = 7
    MaxDecompressedExtentBytes = 8
    OverflowChecks = FALSE
    Files <- MCFiles
    Windows <- MCWindows
CHECK_DEADLOCK FALSE
INVARIANTS TypeOK AnswerIsContent LegalFileReads LinkIsTarget BufferIsBounded
PROPERTY ReadReturns
