SPECIFICATION Spec
CONSTANTS
    r1 = r1
    r2 = r2
    r3 = r3
    redis = redis
    local = local
    Reader <- Readers
    Cache <- Caches
    CacheOf <- Own
    WorkerCache = redis
    Absent <- CreatedOnly
    MaxVersion = 2
    MaxFaults = 0
INVARIANT FreshAfterEvent
