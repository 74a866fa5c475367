SPECIFICATION Spec

CONSTANTS
    Subscribers = {"u1"}
    Admins = {}
    HasTimeout = FALSE
    HasPrerequisites = FALSE
    Crashes = FALSE
    Outages = FALSE
    BrokerFaults = FALSE

PROPERTIES
    TerminalIsFinal

CHECK_DEADLOCK FALSE
