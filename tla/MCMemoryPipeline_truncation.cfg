\* More regions than the array has room for.
SPECIFICATION Spec
CONSTANTS
    PageSize = 4
    MaxWord = 255
    MaxHalf = 15
    MaxDescriptors = 2
    Firmwares <- MCFirmwares
    None = None
INVARIANTS
    TruncationStopsKernel
CHECK_DEADLOCK FALSE
