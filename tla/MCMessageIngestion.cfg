\* Two messages of a turn of up to three chunks, a buffer of one, two changes of mode.
SPECIFICATION Spec
CONSTANTS
    m1 = m1
    m2 = m2
    t1 = t1
    Messages = {m1, m2}
    Turns = {t1}
    TurnOf <- MessageTurns
    MaxBuffered = 1
    MaxChunks = 3
    MaxInputs = 3
    MaxStarts = 2
    MaxFailures = 1
INVARIANTS
    TypeOK
    TextIsConserved
    DrainedTurnsAreFinished
CHECK_DEADLOCK FALSE
