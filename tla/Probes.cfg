CHECK_DEADLOCK FALSE
CONSTANTS
    Threads = {"worker", "stranger"}
    Size = 1
    Owners = {"Network", "Process", "File", "Memory"}
    Header <- MCHeader
    Inputs <- EveryInput
    Subscriptions <- FourSubscriptions
    Capacity = 1
    MaxPending = 1
    MaxRecords = 1
    MaxRenames = 0
SPECIFICATION Spec
INVARIANTS TypeOK OnlyWhatWasAskedFor UnwrapIsFine
