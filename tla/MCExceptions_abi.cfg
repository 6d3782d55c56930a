\* The build as configured: extern "C" is the Microsoft convention.
SPECIFICATION Spec
CONSTANTS
    Piece = 16
    StubAt <- MCStubAt
    FirmwareSelectors = {8, 56}
    Vectors = {2, 8, 14, 30, 32}
    Codes = {0, 5}
    Abis = {"win64"}
    StackWords = 24
    GuardWords = 4
    KernelWords = 2
    HandlerWords = 2
    MaxDepth = 1
INVARIANT
    HandlerGetsStubArgs
CHECK_DEADLOCK FALSE
