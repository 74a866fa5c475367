SPECIFICATION Spec

CONSTANTS
    Subscribers = {"u1","u2"}
    Admins = {"a"}
    HasTimeout = TRUE
    HasPrerequisites = TRUE
    Crashes = TRUE
    Outages = FALSE
    BrokerFaults = TRUE

INVARIANTS
    TypeOK
    TerminalFreesSlot
    AbortingHasHandler
    OutcomeHasCause
    HandlersHaveCause
    QuiescentIsAnnounced

PROPERTIES
    OnlyBlindWritesReopen

CHECK_DEADLOCK FALSE
