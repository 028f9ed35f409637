CHECK_DEADLOCK FALSE
CONSTANTS
    Threads = {"worker", "stranger"}
    Size = 1
    Owners = {"Memory"}
    Header <- MCHeader
    Inputs <- FileInputs
    Subscriptions <- MemoryStream
    Capacity = 1
    MaxPending = 1
    MaxRecords = 2
    MaxRenames = 0
SPECIFICATION Spec
INVARIANT KeyIsHonoured
