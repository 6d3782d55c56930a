\* 5-bit words, 4-byte pages, up to three descriptors, both build profiles.
SPECIFICATION FairSpec
CONSTANTS
    PageSize = 4
    MaxWord = 31
    MaxDescriptors = 3
    Sources <- MCSources
INVARIANTS
    TypeOK
    StatsConsistent
    NoIndexPanic
    KeptExactly
    FirstUnalignedReported
    QueriesAgree
PROPERTIES
    ImplementsContract
    ParseReturns
CHECK_DEADLOCK FALSE
