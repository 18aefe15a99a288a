CONSTANTS
    Messages <- FiveMessages
    HeaderSize <- HeaderSizes
    ProtocolId = 16
    Filler = 0
    Capacity = 12
    MaxSize = 7
SPECIFICATION FairSpec
INVARIANTS TypeOK SendPositionIsExact
PROPERTIES ImplementsChannel EveryMessageArrives
CHECK_DEADLOCK FALSE
