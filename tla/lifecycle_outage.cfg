SPECIFICATION Spec

CONSTANTS
    Subscribers = {"u1"}
    Admins = {}
    HasTimeout = TRUE
    HasPrerequisites = FALSE
    Crashes = TRUE
    Outages = TRUE
    BrokerFaults = FALSE

PROPERTIES
    PickedUpTaskStaysEnded

CHECK_DEADLOCK FALSE
