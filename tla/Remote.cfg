SPECIFICATION FairSpec
CONSTANTS
    r1 = r1
    r2 = r2
    r3 = r3
    redis = redis
    local = local
    Reader <- Readers
    Cache <- Caches
    CacheOf <- Own
    WorkerCache = redis
    Absent <- CreatedDeleted
    MaxVersion = 2
    MaxFaults = 1
INVARIANT TypeOK
INVARIANT MissIsFresh
INVARIANT StaleIsAnnounced
PROPERTY EventuallyFresh
