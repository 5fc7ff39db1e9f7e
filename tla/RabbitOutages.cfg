SPECIFICATION FairSpec
CHECK_DEADLOCK FALSE
CONSTANTS
    w1 = w1
    w2 = w2
    r1 = r1
    r2 = r2
    e1 = e1
    bad = bad
    orders = orders
    billing = billing
    Event <- EventAndBad
    Receiver <- TwoReceivers
    Unreadable <- Bad
    Service <- OneService
    Worker <- TwoWorkers
    ServiceOf <- SameService
    MaxRetries = 2
    PublishRetries = 1
    MaxQueue = 4
    MaxFaults = 3
INVARIANT TypeOK
INVARIANT AttemptsBounded
PROPERTY BusSpec
PROPERTY EventuallySettled
