SPECIFICATION FairShutdownSpec
CONSTANTS
    Requests = {r1}
    Faults = {"sql", "harden"}
    MaxItems = 2
    MaxCrashes = 1
    ActorMayStop = TRUE
    MayDisconnect = {"handler", "stream"}
INVARIANTS
    LogMatchesStatus
    ReplayFaithful
    ClientStreamWellFormed
    AnswerIsStored
    IInv
    OrderlyShutdown
PROPERTIES
    
    ShutdownEnds
CHECK_DEADLOCK FALSE
