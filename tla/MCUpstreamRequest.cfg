SPECIFICATION FairSpec
CONSTANTS
    Chunks <- MCChunks
    Bodies <- MCBodies
    MaxBodyBytes = 3
INVARIANTS
    EndIsHonest
    RetriesExhausted
PROPERTIES
    DeliversOnce
    EveryCallEnds
