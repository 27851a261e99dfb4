CONSTANTS
    c1 = c1
    c2 = c2
    c3 = c3
    c4 = c4
    c5 = c5
    None = None
    Clients <- MCClients
    Capacity = 2
    QueueCapacity = 2

SPECIFICATION Spec

INVARIANTS
    TypeOK
    SlotOwnership
    NoIdleCapacityWhileWaiting

PROPERTIES
    FifoHandOut
    WaiterServed
    RefinesSemaphore
