SPECIFICATION Spec
CONSTANTS
    Trees <- MCTrees
    Contents <- MCContents
    SourcePath <- MCSourcePath
    Requests <- ParentRequests
    Placeholder = "t"
    Stamps <- MCStamps
    BufSize = 2
    MaxCalls = 1
    RivalPaths <- NoRivalPaths
    MaxRivalSteps = 0
    RivalByte = 9
INVARIANTS ExistingParentAccepted
CHECK_DEADLOCK FALSE
