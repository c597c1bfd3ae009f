SPECIFICATION PunctualSpec
CONSTANTS
    KeepAlive = 2
    SocketTimeout = 1
    LoopGap = 1
    IdModulus = 3
    MsgIds <- MCMsgIds
    MaxUp = 3
    MaxIn = 4
    MaxFaults = 2
    MaxSent = 1
INVARIANT ServesSubscribed
PROPERTY Recovers
