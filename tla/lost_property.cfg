SPECIFICATION Spec

CONSTANTS
    a1 = a1
    a2 = a2
    b1 = b1
    a = a
    b = b
    Clients = {a1, a2, b1}
    Principals = {a, b}
    Nobody = nobody
    Owner <- TabOwner
    LockExpires = FALSE
    BrokerFaults = FALSE
    MaxTasks = 3

PROPERTIES
    ExecutorWritesSurvive

CHECK_DEADLOCK FALSE
