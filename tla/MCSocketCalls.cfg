CONSTANTS
    Settings <- Calls
    Prefixes <- TwoTopics
    Levels = {1, 8}
    MaxFail = 1
    MaxWire = 1
    ConnectFirst = TRUE
SPECIFICATION Spec
INVARIANTS TypeOK RepliesInTurn NoCallForgotten DeliveredIsWanted SendAckMeansWritten ReplyGoesToRequester TimeoutsBelongToCall NoOverlappingOperation OfferedPipesAreFree NoMessageDropped ReadinessReported
CHECK_DEADLOCK FALSE
