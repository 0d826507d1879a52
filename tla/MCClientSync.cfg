\* Replays long enough for the log: the client follows it.
SPECIFICATION Spec
CONSTANTS
    ReplayLimit = 3
    MaxLog = 3
    MaxDisconnects = 2
    MaxFailures = 1
INVARIANTS
    TypeOK
    QuietClientIsInformed
PROPERTIES
    ImplementsReplica
    KnownEventsArrive
CHECK_DEADLOCK FALSE
