SPECIFICATION FairSpec
CONSTANTS
    Tasks = {t1, t2}
    Nobody = nobody
    Mishaps = {"error", "timeout", "cancel", "write", "crash", "reload"}
    MaxIssued = 2
    MaxCrashes = 1
INVARIANTS
    FetchIsNeeded
PROPERTIES
    EveryCallEnds
