SPECIFICATION FairSpec
CONSTANTS
    e1 = e1
    e2 = e2
    created = created
    deleted = deleted
    orders = orders
    billing = billing
    c1 = c1
    c2 = c2
    c3 = c3
    request = request
    Event <- Events2
    Emitter <- Emitters
    TypeOf <- KindOf
    Type <- Kinds
    Service <- Services
    Consumer <- Consumers
    ServiceOf <- Owner
    TypesOf <- Loops
    MaxBlocks = 2
    MaxFaults = 1
    MaxResets = 1
CHECK_DEADLOCK FALSE
INVARIANT PublishedIffCommitted
INVARIANT InSendOrder
INVARIANT ServedInSendOrder
INVARIANT OncePerService
PROPERTY EventuallyDelivered
