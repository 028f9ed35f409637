CONSTANTS
    Threads = {"t1", "t2"}
    Cpu <- OwnCpu
    Addrs = {"a1", "a2"}
    Names = {"etc", "tmp", "long"}
    TooLong = {"long"}
    MaxPaths = 1
SPECIFICATION Spec
INVARIANT PathIsTheFiles
