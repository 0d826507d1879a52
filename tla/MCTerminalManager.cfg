\* One terminal in each of two threads; room for one inactive session.
SPECIFICATION Spec
CONSTANTS
    a = a
    b = b
    c = c
    th1 = th1
    th2 = th2
    Terminals = {a, c}
    Threads = {th1, th2}
    ThreadOf <- MCThreadOf
    MaxRetained = 1
    MaxRequests = 3
    MaxOutputs = 1
    MaxFailures = 1
INVARIANTS
    TypeOK
    OwnersAgree
    NoProcessIsLost
    HistoryIsSaved
    InactiveSessionsAreFew
PROPERTIES
    OperationsFinish
    StoppedProcessesDie
CHECK_DEADLOCK FALSE
