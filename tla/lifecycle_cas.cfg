SPECIFICATION Spec

CONSTANTS
    Subscribers = {}
    Admins = {}
    HasTimeout = FALSE
    HasPrerequisites = TRUE
    Crashes = TRUE
    Outages = FALSE
    BrokerFaults = TRUE

PROPERTIES
    ImplementsContract

CHECK_DEADLOCK FALSE
