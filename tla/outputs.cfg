SPECIFICATION FairSpec
CONSTANTS
    Kinds <- MCKinds
    Topics <- MCTopics
    NoTopic = NoTopic
    Batches <- MCBatches
    Topicings <- MCTopicings
    Exchanges <- MCExchanges
    MaxFaults = 3
INVARIANTS
    TypeOK
    AckedWereSent
    AckedArrive
    DestinationKept
    FailedAreLast
PROPERTIES
    EveryBatchAcked
CHECK_DEADLOCK FALSE
