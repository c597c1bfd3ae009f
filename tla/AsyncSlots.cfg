CONSTANTS
    c1 = c1
    c2 = c2
    c3 = c3
    c4 = c4
    c5 = c5
    Clients = {c1, c2, c3, c4, c5}
    Slots = {0, 1, 2}
    MaxIndex = 9
SPECIFICATION Spec
SYMMETRY MCSymmetry
CHECK_DEADLOCK FALSE
INVARIANTS
    TypeOK
    SlotsAgree
    StaleCallsAreRefused
    SlotsSuffice
