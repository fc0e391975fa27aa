SPECIFICATION Spec
CONSTANTS
    Nodes <- PipelineNodes
    InitialNodes <- PipelineInitial
    Def <- PipelineDef
    Workers <- MCWorkers
    Activities <- MCActivities
    NoWorker = NoWorker
    NoActivity = NoActivity
    NoCompensation = NoCompensation
    Skills <- MCSkills
    SpawnRequests <- PipelineSpawns
    w1 = w1
    w2 = w2
    MaxAttempt = 2
    MaxDue = 2
    MaxCrashes = 1
    MaxIOErrors = 1
SYMMETRY Symmetry
CHECK_DEADLOCK FALSE
INVARIANTS
    TypeOK
    NothingLeftToReconcile
    DependenciesRespected
    RetryTimerSound
PROPERTIES
    StaleTimersAreHarmless
    EveryStartIsANewAttempt
    CompletionIsFinal
    NothingDispatchedAfterCancel
    ImplementsLedger
