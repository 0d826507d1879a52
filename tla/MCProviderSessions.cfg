\* Two turns, a change of mode; two of a stop, a failure and a crash.
SPECIFICATION Spec
CONSTANTS
    MaxTurns = 2
    MaxSwitches = 1
    MaxStops = 1
    MaxFailures = 1
    MaxCrashes = 1
CONSTRAINT
    TwoDisturbances
INVARIANTS
    TypeOK
    ProcessesAreRegistered
    TurnsAreAnswered
    SessionIsReal
PROPERTIES
    TurnsRunInTheirMode
    ConversationContinues
CHECK_DEADLOCK FALSE
