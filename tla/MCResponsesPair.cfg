SPECIFICATION Spec
CONSTANTS
    Requests = {r1, r2}
    Faults = {"sql"}
    MaxItems = 0
    MaxCrashes = 1
    ActorMayStop = TRUE
    MayDisconnect = {"handler", "stream"}
SYMMETRY Symmetry
INVARIANTS
    StorageErrorIsTrue
PROPERTIES
    ImplementsRecord
