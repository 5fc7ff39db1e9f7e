SPECIFICATION FairSpec
CONSTANTS
    w1 = w1
    w2 = w2
    r1 = r1
    r2 = r2
    e1 = e1
    bad = bad
    Event <- OneEvent
    Worker <- OneWorker
    Receiver <- OneReceiver
    Unreadable <- NoEvent
    MaxEntries = 1
    MaxLen = 0
    MaxRetries = 2
    ReadCount = 1
    ClaimCount = 1
    PublishRetries = 0
    MaxFaults = 1
    Within = 1
    GroupLoss = FALSE
PROPERTY StopEnds
