SPECIFICATION ClientSpec
CONSTANTS
    Options <- MCOptions
    HostKeys <- MCHostKeys
    NoKey = "no key"
    MaxIdentities = 2
    MaxSessions = 2
    MaxRivalSteps = 2
    Files <- MCFiles
    Watchers <- MCWatchers
INVARIANTS TypeOK OpenMeansAuthenticated HostIsKnownFirst HandlesInOrder InterruptIsPrompt ClientTypeOK ClosedInTime
PROPERTIES KeyPinned ConstructionEnds SharedSpec DroppedIsFreed
CHECK_DEADLOCK FALSE
