SPECIFICATION FairSpec
CONSTANTS
    t1 = t1
    t2 = t2
    t3 = t3
    Thread <- Threads
    MaxChanges = 1
    MaxFaults = 2
CHECK_DEADLOCK FALSE
INVARIANT NoLeak
INVARIANT MadeFromCurrent
PROPERTY CallsEnd
