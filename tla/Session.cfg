CONSTANTS
    KeepAlive = 2
    SocketTimeout = 2
    LoopGap = 2
    IdModulus = 3
    MsgIds <- MCMsgIds
    MaxUp = 3
    MaxIn = 2
SPECIFICATION FairSpec
INVARIANTS
    TypeOK
    NoOrphanTransport
    ConnectedMeansAccepted
    PingAccounted
    QoS1Accounted
PROPERTIES
    ImplementsTimer
    HungIsNoticed
    ConnectReturns
