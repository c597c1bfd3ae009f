CONSTANTS
    b1 = b1
    b2 = b2
    p1 = p1
    Bridges = {b1, b2}
    Publishers = {p1}
    MaxFailures = 2
SPECIFICATION FairSpec
INVARIANTS
    TypeOK
    ServedUnlessTaken
PROPERTIES
    EachReturns
