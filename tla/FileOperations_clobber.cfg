SPECIFICATION Spec
CONSTANTS
    Trees <- MCTrees
    Contents <- MCContents
    SourcePath <- MCSourcePath
    Requests <- LocalRequests
    Placeholder = "t"
    Stamps <- MCStamps
    BufSize = 2
    MaxCalls = 1
    RivalPaths <- MCRivalPaths
    MaxRivalSteps = 1
    RivalByte = 9
PROPERTIES NoClobber
CHECK_DEADLOCK FALSE
