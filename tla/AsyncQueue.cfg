CONSTANTS
    c1 = c1
    c2 = c2
    Clients = {c1, c2}
    Reused = {c1, c2}
    QueueSize = 3
    MaxData = 1
    MaxPolls = 1
SPECIFICATION Spec
SYMMETRY MCSymmetry
CHECK_DEADLOCK FALSE
INVARIANTS
    TypeOK
    SoundUnlessRaced
    CoalescingSparesData
