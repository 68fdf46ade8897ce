SPECIFICATION Spec
CONSTANTS
    Adapter = "ably"
    Ops <- MCOps
    AcceptedKeys = {"active", "previous"}
    Credentials <- MCCredentials
    Authorized <- MCAuthorized
    Consumers = {"c", "d"}
    ScopeOf <- MCScopeOf
    ReplayWindow = 1
    MaxNow = 5
PROPERTIES
    ReplayExact
CHECK_DEADLOCK FALSE
