SPECIFICATION Spec
CONSTANTS
    Streams <- OneStream
    s1 = s1
    MaxAppends = 3
    MaxTears = 1
    MaxCrashes = 0
    LongLines = FALSE
CHECK_DEADLOCK FALSE
INVARIANTS
    AppendedIsReadBack
