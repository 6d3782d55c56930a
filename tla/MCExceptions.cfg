\* Up to three exceptions on top of one another, either convention; two fit.
SPECIFICATION FairSpec
CONSTANTS
    Piece = 16
    StubAt <- MCStubAt
    FirmwareSelectors = {8, 56}
    Vectors = {2, 14, 30, 32}
    Codes = {0, 5}
    Abis = {"sysv64", "win64"}
    StackWords = 24
    GuardWords = 4
    KernelWords = 2
    HandlerWords = 2
    MaxDepth = 3
INVARIANTS
    TypeOK
    StubsDeliver
    TablesCatch
    FramesIntact
    ReportTruthful
    GuardUntouched
PROPERTY
    ExceptionHalts
CHECK_DEADLOCK FALSE
