CONSTANTS
    Radix = 3
    Width = 27
    BufferSize = 25
    TopicLengths <- MCTopicLengths
    PayloadLengths <- MCPayloadLengths
    MaxWrite = 3
    InBuffer = 6
    Lengths <- MCLengths
    Contents <- MCContents
    MaxWire = 13
SPECIFICATION MCSpec
INVARIANTS
    SentPacketsAreWhole
    SmallStreamsAreFramed
    StaysInStep
    ReadsWhatWasSent
