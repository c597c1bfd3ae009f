CONSTANTS
    MayFail <- MCMayFail
    MayBeLate <- MCMayBeLate
    MaxFaults = 5
    Kinds = {"rmc", "gga", "ggaNoFix"}
    MaxSentences = 3
    MaxGaps = 2
    Buffer = 18
SPECIFICATION MCSpec
CHECK_DEADLOCK FALSE
INVARIANTS
    LocationIsOneFix
    PostsAreCurrent
    WaitsInVainOnlyIf
PROPERTIES
    WholeFixesAreCommitted
    LocationFollowsTheReceiver
    PostsGoOn
