SPECIFICATION FairSpec
CONSTANTS
    w1 = w1
    w2 = w2
    r1 = r1
    r2 = r2
    e1 = e1
    bad = bad
    Event <- EventAndBad
    Worker <- TwoWorkers
    Receiver <- TwoReceivers
    Unreadable <- Bad
    MaxEntries = 2
    MaxLen = 0
    MaxRetries = 2
    ReadCount = 2
    ClaimCount = 1
    PublishRetries = 1
    MaxFaults = 1
    Within = 0
    GroupLoss = FALSE
INVARIANT PublishedIsAccounted
INVARIANT BuriedAfterMaxDeliveries
PROPERTY BusSpec
PROPERTY EventuallySettled
