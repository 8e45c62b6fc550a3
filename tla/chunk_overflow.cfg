SPECIFICATION Spec
CONSTANTS
    NULL = NULL
    LSB_ARRAY_BASE = 10
    Records <- Chunks
    Cluster = "local"
    MaxCalls = 1
INVARIANTS
    MembersFit
CHECK_DEADLOCK FALSE
