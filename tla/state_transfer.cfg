SPECIFICATION FairSpec
CONSTANTS
    Jobs <- MCJobs
    PropVals <- MCProps
    Events <- MCEvents
    NoProp = NoProp
    Unreadable = Unreadable
    Harvesters = {h1, h2}
    Tasks = {t1, t2}
    MaxEvents = 2
    MaxFaults = 1
INVARIANTS
    TypeOK
    PropsTracked
    CleanMeansSaved
    StoppedMeansSaved
PROPERTIES
    SnapshotIsCurrent
    ImplementsTrace
    Answered
    EventuallySaved
