SPECIFICATION FairSpec
CONSTANTS
    Capacity = 3
    Shapes = {1, 2}
    MaxMessages = 2
    MaxBuffer = 8
INVARIANTS
    InOrder
    Conserved
    KeptToLineEnd
PROPERTIES
    EverythingArrives
CHECK_DEADLOCK FALSE
