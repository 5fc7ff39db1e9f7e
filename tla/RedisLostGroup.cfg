SPECIFICATION Spec
CONSTANTS
    w1 = w1
    w2 = w2
    r1 = r1
    r2 = r2
    e1 = e1
    bad = bad
    Event <- EventAndBad
    Worker <- TwoWorkers
    Receiver <- OneReceiver
    Unreadable <- Bad
    MaxEntries = 3
    MaxLen = 1
    MaxRetries = 2
    ReadCount = 2
    ClaimCount = 1
    PublishRetries = 0
    MaxFaults = 3
    Within = 2
    GroupLoss = TRUE
SYMMETRY Symmetry
INVARIANT NeverLost
INVARIANT OneHolder
INVARIANT BuriedOnce
