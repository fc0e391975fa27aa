SPECIFICATION FairSpec
CONSTANTS
    Processes <- OneProcess
    Ids <- OneId
    IdOf <- OwnId
    Activities <- MCActivities
    Handlers <- OwnHandlers
    Tasks <- OneTask
    RunOf <- OneRun
    ActivityOf <- OneActivity
    Compensations <- NoCompensations
    p1 = p1
    p2 = p2
    id1 = id1
    NoWorker = NoWorker
    NoTask = NoTask
    Timeout = 1
    MaxAttempts = 2
    MaxFaults = 1
CHECK_DEADLOCK FALSE
PROPERTIES
    AbandonedTasksComeBack
