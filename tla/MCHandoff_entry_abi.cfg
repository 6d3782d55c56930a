SPECIFICATION Spec
CONSTANTS
    Pages = {p1, p2}
    Abi = "win64"
    NoMap = NoMap
INVARIANT
    EntryGetsBootInfo
CHECK_DEADLOCK FALSE
