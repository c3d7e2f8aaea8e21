SPECIFICATION Spec
CONSTANTS
    Tasks = {t1, t2}
    Nobody = nobody
    Mishaps = {"error", "reload"}
    MaxIssued = 3
    MaxCrashes = 0
INVARIANTS
    ReplacedModelsNotServed
