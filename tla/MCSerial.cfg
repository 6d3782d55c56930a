\* Either driver, a FIFO of two, two calls and two handlers that cut in.
SPECIFICATION NFairSpec
CONSTANTS
    Messages <- MCMessages
    Numbers <- MCNumbers
    BufferSize <- MCBufferSize
    FifoDepth = 2
    MaxWrites = 2
    MaxTakeovers = 2
INVARIANTS
    NothingLost
    LinesReturn
    NumbersReadBack
PROPERTY
    WriteEnds
CHECK_DEADLOCK FALSE
