SPECIFICATION FairSpec
CONSTANTS
    Nodes <- MCNodes
    InitialNodes <- MCInitial
    Def <- MCDef
    Workers <- MCWorkers
    Activities <- MCActivities
    NoWorker = NoWorker
    NoActivity = NoActivity
    NoCompensation = NoCompensation
    Skills <- MCSkills
    Spawned <- MCSpawned
    Flaky <- MCFlaky
    Gate = 3
    Draft = 2
    Closed = Closed
    Empty = Empty
    planner = planner
    analyst1 = analyst1
    analyst2 = analyst2
    editor = editor
    MaxStalls = 1
    MaxForeign = 1
CHECK_DEADLOCK FALSE
INVARIANTS
    WatchingIsReading
