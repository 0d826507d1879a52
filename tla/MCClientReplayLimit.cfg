\* A replay returns fewer events than the client may lack.
SPECIFICATION Spec
CONSTANTS
    ReplayLimit = 1
    MaxLog = 3
    MaxDisconnects = 1
    MaxFailures = 1
INVARIANTS
    QuietClientIsInformed
CHECK_DEADLOCK FALSE
