SPECIFICATION Spec
CONSTANTS
    Names <- MCNames
    Links <- MCLinks
    MaxChanges = 1
    MaxFaults = 0
PROPERTIES CancelEnds
CHECK_DEADLOCK FALSE
