SPECIFICATION FairSpec
CHECK_DEADLOCK FALSE
CONSTANTS
    w1 = w1
    w2 = w2
    w3 = w3
    r1 = r1
    e1 = e1
    bad = bad
    orders = orders
    billing = billing
    Event <- EventAndBad
    Receiver <- OneReceiver
    Unreadable <- Bad
    Service <- Services
    Worker <- Workers
    ServiceOf <- Owner
    MaxRetries = 2
    MaxRecords = 6
    MaxFaults = 1
    FlushTimeouts = TRUE
INVARIANT TypeOK
INVARIANT BuriedAfterMaxRetries
INVARIANT AttemptsBounded
PROPERTY BusSpec
PROPERTY EventuallySettled
