SPECIFICATION Spec
CONSTANTS
    Trees <- MCTrees
    Contents <- MCContents
    SourcePath <- MCSourcePath
    Requests <- MCRequests
    Placeholder = "t"
    Stamps <- MCStamps
    BufSize = 2
    MaxCalls = 2
    RivalPaths <- MCRivalPaths
    MaxRivalSteps = 1
    RivalByte = 9
INVARIANTS TypeOK Intact SourceFollowed CopyFaithful
PROPERTIES EveryCallEnds
CHECK_DEADLOCK FALSE
