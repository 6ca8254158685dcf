SPECIFICATION Spec
CONSTANTS
    Names <- TwoNames
    PairsTogether = FALSE
    ReadMax = 3
    QueueMax = 5
    MaxOps = 4
    MaxFaults = 0
INVARIANTS WrittenNeverMissed CancelIsPrompt
PROPERTIES CancelEnds
CHECK_DEADLOCK FALSE
