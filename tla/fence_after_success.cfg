SPECIFICATION Spec

CONSTANTS
    Subscribers = {}
    Admins = {}
    HasTimeout = FALSE
    HasPrerequisites = FALSE
    Crashes = FALSE
    Outages = TRUE
    BrokerFaults = FALSE

PROPERTIES
    SuccessStands

CHECK_DEADLOCK FALSE
