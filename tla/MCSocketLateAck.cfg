CONSTANTS
    Settings <- TimedReplies
    Prefixes <- TwoTopics
    Levels = {1, 8}
    MaxFail = 0
    MaxWire = 1
    ConnectFirst = TRUE
SPECIFICATION Spec
INVARIANTS ActiveKnowsRequester
CHECK_DEADLOCK FALSE
