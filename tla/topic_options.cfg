SPECIFICATION Spec
CONSTANTS
    Harvesters = {h1}
    Fields <- MCFields
    Values <- MCValues
    Missing = Missing
    Null = Null
    NoRecord = NoRecord
    NoHarvester = NoHarvester
    Records <- MCRecords
    TopicLists <- MCTopicLists
    ChanSize = 1
    MaxKeyLength = 1
    MaxPosts = 2
INVARIANTS
    TopicOptionsOwn
