\* Event appends survive a rolled-back transaction: the reconciliation at work.
SPECIFICATION Spec
CONSTANTS
    p1 = p1
    t1 = t1
    k1 = k1
    k2 = k2
    NoThread = NoThread
    NoCommand = NoCommand
    Projects <- MCProjects
    Threads <- MCThreads
    Callers <- MCCallers
    Commands <- MCCommands
    ProjectorOrder <- MCProjectorOrder
    InitialProjectors <- MCInitialProjectors
    ReadLimit = 10
    StoreInTransaction = FALSE
    MaxCrashes = 0
    LogBound = 3
CHECK_DEADLOCK FALSE
SYMMETRY Symmetry
INVARIANTS
    ReconciliationIsComplete
