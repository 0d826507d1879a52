\* A new projector meets a log longer than the read limit.
SPECIFICATION Spec
CONSTANTS
    p1 = p1
    t1 = t1
    k1 = k1
    k2 = k2
    NoThread = NoThread
    NoCommand = NoCommand
    Projects <- MCProjects
    Threads <- MCThreads
    Callers <- MCCallers
    Commands <- MCOpenStore
    ProjectorOrder <- MCProjectorOrder
    InitialProjectors <- MCInitialProjectors
    ReadLimit = 2
    StoreInTransaction = TRUE
    MaxCrashes = 1
    LogBound = 6
INVARIANTS
    BootstrapReachesEndOfLog
