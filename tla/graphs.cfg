SPECIFICATION Spec
CONSTANTS
    Ids <- MCIds
    SubmittedIds <- MCSubmittedIds
    Generated <- MCGenerated
    NoId = NoId
    NoGraph = NoGraph
    MaxItems = 3
INVARIANTS
    FramesAreAPath
PROPERTIES
    VerdictIsRight
CHECK_DEADLOCK FALSE
