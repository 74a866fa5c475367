SPECIFICATION Spec

CONSTANTS
    a1 = a1
    a2 = a2
    b1 = b1
    a = a
    b = b
    Clients = {a1, a2, b1}
    Principals = {a, b}
    Nobody = nobody
    Owner <- TabOwner
    LockExpires = TRUE
    BrokerFaults = TRUE
    MaxTasks = 3

INVARIANTS
    TypeOK
    WatchersOnRecord
    BackstopUnused
    WatchersShareOneTask

PROPERTIES
    AbortSparesWatchers
    WatchersAreServed

CHECK_DEADLOCK FALSE
