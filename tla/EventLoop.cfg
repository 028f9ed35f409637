CHECK_DEADLOCK FALSE
CONSTANTS
    Threads = {t1, t2}
    Size = 2
    Owners = {network, file}
SPECIFICATION FairSpec
INVARIANTS TypeOK NoLostWakeup BusyOwned WakeInv
PROPERTIES Consumed ExitsOnNextEvent ImplementsRingLoop
