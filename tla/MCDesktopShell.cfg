\* Two checks for updates, four failures.
SPECIFICATION Spec
CONSTANTS
    MaxChecks = 2
    MaxFailures = 4
INVARIANTS
    BackendsAreOwned
    OffersAreAccepted
PROPERTIES
    BackendComesBack
CHECK_DEADLOCK FALSE
