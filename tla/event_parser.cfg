SPECIFICATION Spec
CONSTANTS
    NULL = NULL
    LSB_ARRAY_BASE = 10
    Records <- MCRecords
    Cluster = "local"
    MaxCalls = 2
INVARIANTS
    NothingLeft
    CrashesExplained
    UidIsJob
    StatusReachesGo
    ReasonNamesExitInfo
    HostsAgree
    BuffersFit
CHECK_DEADLOCK FALSE
