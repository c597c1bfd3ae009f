CONSTANTS
    BufSize = 4
    SizeT = 64
    Sizes = {2, 3}
    MaxPushed = 8
    p1 = p1
    p2 = p2
    Producers = {p1, p2}
    Messages = 3
    LockFree = FALSE
    BufCapacity = 4
    WordBits = 3
    DataBits = 3
    StopBits = 1
    Parity = TRUE
    RxCapacity = 1
    IsrBufCapacity = 6
    Frames <- MCFrames
    MaxFrames = 2
    MaxTime = 17
    MaxStall = 1
    TickMod = 64
SPECIFICATION MCSpec
CHECK_DEADLOCK FALSE
INVARIANTS
    TypeOK
    NoSharedSlot
    PoppedAsClaimed
    AcceptedIsReadable
    ReceivedUnlessOverflow
    EachHasItsOwn
PROPERTIES
    ImplementsFifo
    AllReceived
