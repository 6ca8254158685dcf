SPECIFICATION Spec
CONSTANTS
    Clients <- TwoClients
    Remotes <- OneRemote
    Trees <- MCTrees
    Calls <- MCCalls
    MaxCalls = 3
    MaxFaults = 1
INVARIANTS TypeOK MkdirRefusesForCause AbsentWasAbsent
PROPERTIES MkdirMakes
CHECK_DEADLOCK FALSE
