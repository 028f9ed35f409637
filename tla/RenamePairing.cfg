CHECK_DEADLOCK FALSE
CONSTANTS
    Threads = {"worker"}
    Size = 2
    Owners = {"File"}
    Header <- MCHeader
    Inputs <- FileInputs
    Subscriptions <- RenameStream
    Capacity = 1
    MaxPending = 1
    MaxRecords = 5
    MaxRenames = 3
SPECIFICATION Spec
INVARIANT RenameIsOneOperation
