SPECIFICATION Spec
CONSTANTS
    Names <- MCNames
    Links <- MCLinks
    MaxChanges = 4
    MaxFaults = 1
INVARIANTS TypeOK KnownWasReported
PROPERTIES FeedSpec NewFilesNoticed InterruptEnds
CHECK_DEADLOCK FALSE
