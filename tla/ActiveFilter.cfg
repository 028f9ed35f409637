CHECK_DEADLOCK FALSE
CONSTANTS
    Owners = {"Process"}
    Filters <- SameMask
    Capacities = {1}
    Threads = {"worker", "stranger"}
    Header <- MCHeader
    Inputs <- OneType
    RingSize = 1
    MaxCalls = 2
SPECIFICATION Spec
INVARIANT ActiveFilter
