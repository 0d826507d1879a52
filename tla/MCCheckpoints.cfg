\* Two turns that overlap and a third, a limit of two checkpoints, a revert,
\* one failing call.
SPECIFICATION Spec
CONSTANTS
    MaxCheckpoints = 2
    MaxTurns = 3
    MaxReverts = 1
    MaxFailures = 1
ACTION_CONSTRAINT ThirdTurnLater
INVARIANTS
    TypeOK
    RefsMatchCheckpoints
    TurnsAreCaptured
    TableFollowsReadModel
PROPERTIES
    RevertsAreComplete
CHECK_DEADLOCK FALSE
