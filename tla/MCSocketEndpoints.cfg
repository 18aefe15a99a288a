CONSTANTS
    Settings <- Endpoints
    Prefixes <- TwoTopics
    Levels = {1, 8}
    MaxFail = 1
    MaxWire = 1
    ConnectFirst = FALSE
SPECIFICATION Spec
INVARIANTS NoCallForgotten ClosedEndpointStaysClosed CloseReleasesPipes
PROPERTIES EndpointKeepsPriority
CHECK_DEADLOCK FALSE
