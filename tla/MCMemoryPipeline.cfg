\* Firmware maps of up to three entries into two slots, both build profiles.
SPECIFICATION Spec
CONSTANTS
    PageSize = 4
    MaxWord = 255
    MaxHalf = 15
    MaxDescriptors = 2
    Firmwares <- MCFirmwares
    None = None
INVARIANTS
    BTypeOK
    HandoverFaithful
    BootTotalsConsistent
    DevicesFaithful
    LogAgreesWithParse
    BootAgreesWithKernel
    KernelSizesNeverOverflow
PROPERTY
    MapGetsThrough
CHECK_DEADLOCK FALSE
