SPECIFICATION FairSpec
CONSTANTS
    Runs <- TwoRuns
    Readers <- OneReader
    r1 = r1
    r2 = r2
    g1 = g1
    Absent = Absent
    NoSnapshot = NoSnapshot
    Broken = Broken
    NoRun = NoRun
    MaxActive = 1
    MaxEvents = 3
    MaxCrashes = 1
    MaxFaults = 1
CHECK_DEADLOCK FALSE
INVARIANTS
    LogComesFirst
    MemoryIsReplay
    MixedSnapshotsHeal
PROPERTIES
    StartRunReturns
