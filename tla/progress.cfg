SPECIFICATION FairSpec
CONSTANTS
    Nodes <- ProgressNodes
    InitialNodes <- ProgressNodes
    Def <- ProgressDef
    Workers <- OneWorker
    Activities <- MCActivities
    NoWorker = NoWorker
    NoActivity = NoActivity
    NoCompensation = NoCompensation
    Skills <- OneSkills
    SpawnRequests <- NoSpawns
    w1 = w1
    w2 = w2
    MaxAttempt = 2
    MaxDue = 2
    MaxCrashes = 1
    MaxIOErrors = 0
CHECK_DEADLOCK FALSE
INVARIANTS
    LimitsArmed
PROPERTIES
    EventuallySettles
    CancellationEnds
