CONSTANTS
    Threads = {"t1", "t2"}
    Cpu <- OwnCpu
    Addrs = {"a1", "a2"}
    Names = {"etc", "tmp", "long"}
    TooLong = {"long"}
    MaxPaths = 1
SPECIFICATION FairSpec
INVARIANTS PathUnlessReleasing EntriesAreJustified TableInv
PROPERTIES PathsReclaimed PathIsTheFilesOrReleasing
