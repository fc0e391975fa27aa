SPECIFICATION Spec
CONSTANTS
    Nodes <- SagaNodes
    InitialNodes <- SagaNodes
    Def <- SagaDef
    Workers <- MCWorkers
    Activities <- MCActivities
    NoWorker = NoWorker
    NoActivity = NoActivity
    NoCompensation = NoCompensation
    Skills <- MCSkills
    SpawnRequests <- NoSpawns
    w1 = w1
    w2 = w2
    MaxAttempt = 2
    MaxDue = 2
    MaxCrashes = 1
    MaxIOErrors = 1
SYMMETRY Symmetry
CHECK_DEADLOCK FALSE
INVARIANTS
    OutcomeJustified
    StackIsLedger
    ActiveCompensationSound
PROPERTIES
    CompensationIsLIFO
