CONSTANTS
    Settings <- OneRequest
    Prefixes <- TwoTopics
    Levels = {1, 8}
    MaxFail = 0
    MaxWire = 1
    ConnectFirst = TRUE
SPECIFICATION Spec
INVARIANTS PendingRequestIsTimed
CHECK_DEADLOCK FALSE
