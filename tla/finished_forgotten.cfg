SPECIFICATION Spec
CONSTANTS
    Jobs <- MCJobs
    PropVals <- MCProps
    Events <- MCEvents
    NoProp = NoProp
    Unreadable = Unreadable
    Harvesters = {h1}
    Tasks = {t1}
    MaxEvents = 2
    MaxFaults = 1
INVARIANTS
    NoFinishedTracked
