CHECK_DEADLOCK FALSE
CONSTANTS
    Threads = {"worker", "stranger"}
    Size = 2
    Owners = {"Network", "File"}
    Header <- MCHeader
    Inputs <- FileInputs
    Subscriptions <- TwoStreams
    Capacity = 2
    MaxPending = 0
    MaxRecords = 4
    MaxRenames = 0
SPECIFICATION FairSpec
INVARIANTS InRingOrder StreamInv
PROPERTIES ImplementsStreams RingDrains StreamsEnd
