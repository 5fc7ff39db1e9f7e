SPECIFICATION FairSpec
CONSTANTS
    t1 = t1
    t2 = t2
    t3 = t3
    users = users
    broken = broken
    unknown = unknown
    Thread <- Threads
    Service <- Services
    Refused <- WithoutEntry
    NoTarget <- WithoutTarget
    Callers <- OneOther
    MaxResets = 1
    MaxChannels = 4
INVARIANT ChannelsKept
INVARIANT SafeFromThreads
PROPERTY FetchesEnd
