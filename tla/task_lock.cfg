SPECIFICATION Spec

CONSTANTS
    Procs = {p1, p2}
    Free = free
    Orphan = orphan
    HasBackend = TRUE
    Overruns = TRUE
    Crashes = TRUE
    Faults = TRUE
    MaxRequests = 3

INVARIANTS
    TypeOK
    NoLostWakeup

PROPERTIES
    NobodyReleasesForAnother
    ImplementsLockContract
    WaitEnds

CHECK_DEADLOCK FALSE
