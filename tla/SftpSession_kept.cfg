SPECIFICATION Spec
CONSTANTS
    Options <- DefaultOptions
    HostKeys <- MCHostKeys
    NoKey = "no key"
    MaxIdentities = 2
    MaxSessions = 1
    MaxRivalSteps = 0
INVARIANTS SuccessIsKept
CHECK_DEADLOCK FALSE
