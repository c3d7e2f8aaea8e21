SPECIFICATION TokenSpec
CONSTANTS
    Tasks = {t1, t2, t3}
    Nobody = nobody
    Mishaps = {"error", "timeout", "cancel", "write", "crash", "reload"}
    MaxIssued = 3
    MaxCrashes = 1
SYMMETRY Symmetry
INVARIANTS
    OnlyDueIsRefreshed
    LiveTokenUsed
    RestartCanRefresh
