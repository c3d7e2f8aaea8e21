SPECIFICATION FairSpec
CONSTANTS
    Requests = {r1}
    Faults = {}
    MaxItems = 1
    MaxCrashes = 0
    ActorMayStop = FALSE
    MayDisconnect = {"handler", "stream"}
PROPERTIES
    DisconnectClosesRecord
