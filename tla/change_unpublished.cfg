SPECIFICATION Spec
CONSTANTS
    Jobs <- MCJobs
    Logs <- MCOneLog
    Topics <- TraceOnly
    MaxStops = 1
    MaxCrashes = 0
INVARIANTS
    EveryChangePublished
