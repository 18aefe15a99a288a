CONSTANTS
    Left = L
    Right = R
    Sid = {L, R}
    Opts <- SharedSocket
    Scenes <- ThreeScenes
    MaxChange = 1
    MaxBus = 2
    MaxErr = 1
    MaxPoll = 1
SPECIFICATION FairSpec
INVARIANTS TypeOK PollRepliesInTurn VotesAreCurrent BridgeIsWoken BusIsReported
PROPERTIES DropReleasesThreads
CHECK_DEADLOCK FALSE
