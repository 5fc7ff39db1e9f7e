SPECIFICATION Spec
CHECK_DEADLOCK FALSE
CONSTANTS
    w1 = w1
    w2 = w2
    r1 = r1
    r2 = r2
    e1 = e1
    bad = bad
    orders = orders
    billing = billing
    Event <- OneEvent
    Receiver <- OneReceiver
    Unreadable <- NoEvent
    Service <- TwoServices
    Worker <- TwoWorkers
    ServiceOf <- OwnService
    MaxRetries = 2
    PublishRetries = 1
    MaxQueue = 2
    MaxFaults = 0
INVARIANT BuriedAfterMaxRetries
INVARIANT AttemptsBounded
PROPERTY BusSpec
