SPECIFICATION FairSpec
CONSTANTS
    Streams <- OneStream
    s1 = s1
    MaxAppends = 5
    MaxTears = 2
    MaxCrashes = 2
    LongLines = TRUE
CHECK_DEADLOCK FALSE
INVARIANTS
    TypeOK
    MemoryCoversLog
    StreamIsContiguous
PROPERTIES
    RestartForgetsNothing
    StreamCatchesUp
    CancelledStreamEnds
