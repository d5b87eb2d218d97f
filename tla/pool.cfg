SPECIFICATION FairSpec
CONSTANTS
    j1 = j1
    j2 = j2
    j3 = j3
    NoJob = NoJob
    Job <- Jobs
    OwnedJob <- Owned
    ThreadCount = 3
    KeepRunning = FALSE
INVARIANTS
    QueueStates
    NoDanglingJob
    StoppedMeansQuiet
    OwnershipSettled
PROPERTIES
    OnlyTheOwnerWakesTheQueue
    ImplementsPool
    WaitTerminates
CHECK_DEADLOCK FALSE
