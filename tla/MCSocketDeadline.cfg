CONSTANTS
    Settings <- OneSurvey
    Prefixes <- TwoTopics
    Levels = {1, 8}
    MaxFail = 0
    MaxWire = 1
    ConnectFirst = TRUE
SPECIFICATION Spec
INVARIANTS ResponseIsInTime
CHECK_DEADLOCK FALSE
