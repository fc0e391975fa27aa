SPECIFICATION FairSpec
CONSTANTS
    Processes <- TwoProcesses
    Ids <- OneId
    IdOf <- SharedId
    Activities <- MCActivities
    Handlers <- AllHandlers
    Tasks <- TwoTasks
    RunOf <- TwoRuns
    ActivityOf <- TwoActivities
    Compensations <- LastCompensates
    p1 = p1
    p2 = p2
    id1 = id1
    NoWorker = NoWorker
    NoTask = NoTask
    Timeout = 1
    MaxAttempts = 2
    MaxFaults = 1
CHECK_DEADLOCK FALSE
INVARIANTS
    OneReportCounts
PROPERTIES
    HeardOfKeepLeases
    LostWorkersHoldNothing
    WaitingTasksAreHandedOut
