\* The build as configured: x86_64-unknown-uefi.
SPECIFICATION FairSpec
CONSTANTS
    Pages = {p1, p2}
    Abi = "win64"
    NoMap = NoMap
INVARIANTS
    TypeOK
    KernelRunsOwned
    KernelUsesCollected
    FaultsCaughtOnceIdtLive
PROPERTIES
    BootInfoWrittenOnce
    NoFirmwareCallAfterExit
    BootEnds
    ImplementsBootContract
CHECK_DEADLOCK FALSE
