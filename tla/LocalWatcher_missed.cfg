SPECIFICATION Spec
CONSTANTS
    Names <- TwoNames
    PairsTogether = FALSE
    ReadMax = 3
    QueueMax = 6
    MaxOps = 4
    MaxFaults = 0
INVARIANTS RenamesNoticed
CHECK_DEADLOCK FALSE
