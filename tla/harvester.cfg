SPECIFICATION FairSpec
CONSTANTS
    Jobs <- MCJobs
    Logs <- MCLogs
    Topics <- RawThenTrace
    MaxStops = 1
    MaxCrashes = 1
INVARIANTS
    TypeOK
    RegistryBehindDelivery
    FirstDeliveryInOrder
    TraceExact
PROPERTIES
    EveryLineArrives
