CONSTANTS
    Settings <- BlockingCalls
    Prefixes <- TwoTopics
    Levels = {1, 8}
    MaxFail = 1
    MaxWire = 1
    ConnectFirst = TRUE
SPECIFICATION FairSpec
INVARIANTS ActiveKnowsRequester
PROPERTIES SendReturns RecvReturns
CHECK_DEADLOCK FALSE
