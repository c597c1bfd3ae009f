CONSTANTS
    c1 = c1
    c2 = c2
    Clients = {c1, c2}
    Reused = {}
    QueueSize = 4
    MaxData = 2
    MaxPolls = 1
SPECIFICATION Spec
SYMMETRY MCSymmetry
CHECK_DEADLOCK FALSE
INVARIANTS
    KeepsOrder
