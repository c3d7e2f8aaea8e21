CONSTANTS
    r1 = r1
    r2 = r2
    k1 = k1
    k2 = k2
    Requests <- MCRequests
    Keys <- MCKeys
    Limit = 2
    Window = 2
    Ttl = 2
    MaxTime = 5
    MaxSessions = 2
    MaxRestarts = 1
    FewLogins = 3
    Configs <- MCConfigs
    Files <- MCFiles
    Databases <- MCDatabases
    Granted = 3
    MaxIssued = 5
SPECIFICATION OperatorSpec
SYMMETRY Symmetric
INVARIANTS
    LoginsAreLimited
    RefusedForCause
    
PROPERTIES
    RequestsAreAuthorised
    RefusalsHaveACause
