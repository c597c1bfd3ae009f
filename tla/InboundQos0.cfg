CONSTANTS
    KeepAlive = 3
    SocketTimeout = 2
    LoopGap = 1
    IdModulus = 2
    MsgIds = {}
    MaxUp = 3
    MaxIn = 6
SPECIFICATION SpecSchedule
INVARIANT KeepsAlive
