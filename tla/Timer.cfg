CONSTANTS
    Interval = 5
    ConnectWait = 2
    LoopGap = 2
    Backlog = 1
    AnswerDelay = 1
SPECIFICATION TimelySpec
INVARIANTS
    SilenceIsBounded
    NoFalseTimeout
