SPECIFICATION FairSpec
CONSTANTS
    Requests = {r1}
    Faults = {"harden"}
    MaxItems = 2
    MaxCrashes = 0
    ActorMayStop = TRUE
    MayDisconnect = {"handler", "stream"}
PROPERTIES
    StreamLeavesInProgress
    EveryRequestEnds
