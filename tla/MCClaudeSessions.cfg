\* Two sessions and turns, an aside of a background agent, a request, a failure.
SPECIFICATION Spec
CONSTANTS
    MaxSessions = 2
    MaxSends = 2
    MaxAsides = 1
    MaxRequests = 1
    MaxFailures = 1
INVARIANTS
    TurnsEndOnce
    RequestsAreSettled
PROPERTIES
    TurnsEnd
CHECK_DEADLOCK FALSE
