CHECK_DEADLOCK FALSE
CONSTANTS
    Threads = {"worker", "sibling"}
    Size = 2
    Owners = {"File"}
    Header <- MCHeader
    Inputs <- FileInputs
    Subscriptions <- RenameStream
    Capacity = 1
    MaxPending = 2
    MaxRecords = 6
    MaxRenames = 4
SPECIFICATION Spec
INVARIANTS PairedOrLost PendingIsJustified EntryAwaitsExit RenameInv
PROPERTIES ImplementsStreams
