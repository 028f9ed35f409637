CHECK_DEADLOCK FALSE
CONSTANTS
    Owners = {"Network", "Process", "File", "Memory"}
    Filters <- FourTypes
    Capacities = {0, 1}
    Threads = {"worker", "stranger"}
    Header <- MCHeader
    Inputs <- TwoTypes
    RingSize = 1
    MaxCalls = 3
SPECIFICATION Spec
INVARIANTS Coexist FirstIsFiltered StartsLikeDelivery SubscribeInv
PROPERTIES FileOnce PanicLeavesNoTrace CutStreamsEnd
