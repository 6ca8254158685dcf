SPECIFICATION Spec
CONSTANTS
    Names <- TwoNames
    PairsTogether = TRUE
    ReadMax = 3
    QueueMax = 3
    MaxOps = 3
    MaxFaults = 1
INVARIANTS TypeOK CaughtUp
PROPERTIES FeedSpec ArrivalsReported
CHECK_DEADLOCK FALSE
