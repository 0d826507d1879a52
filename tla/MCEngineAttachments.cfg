\* A rolled-back deletion and the attachment files.
SPECIFICATION Spec
CONSTANTS
    p1 = p1
    t1 = t1
    k1 = k1
    k2 = k2
    NoThread = NoThread
    NoCommand = NoCommand
    Projects <- MCProjects
    Threads <- MCThreads
    Callers <- MCCallers
    Commands <- MCLifecycle
    ProjectorOrder <- MCProjectorOrder
    InitialProjectors <- MCInitialProjectors
    ReadLimit = 10
    StoreInTransaction = TRUE
    MaxCrashes = 1
    LogBound = 6
INVARIANTS
    AttachmentsOfLiveThreadsExist
