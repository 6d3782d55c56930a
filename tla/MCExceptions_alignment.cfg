\* One exception, with the convention the handler names.
SPECIFICATION Spec
CONSTANTS
    Piece = 16
    StubAt <- MCStubAt
    FirmwareSelectors = {8, 56}
    Vectors = {2, 8, 14, 30, 32}
    Codes = {0, 5}
    Abis = {"sysv64"}
    StackWords = 24
    GuardWords = 4
    KernelWords = 2
    HandlerWords = 2
    MaxDepth = 1
INVARIANT
    StackAlignedAtCall
CHECK_DEADLOCK FALSE
