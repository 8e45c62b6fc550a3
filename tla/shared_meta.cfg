SPECIFICATION Spec
CONSTANTS
    Jobs <- MCJobs
    Logs <- MCOneLog
    Topics <- RawThenTrace
    MaxStops = 0
    MaxCrashes = 0
INVARIANTS
    OwnTopic
