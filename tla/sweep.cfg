SPECIFICATION SFairSpec
CONSTANTS
    Chans = {1, 2, 3, 4, 5}
INVARIANTS
    SweepResult
PROPERTIES
    SweepEnds
CHECK_DEADLOCK FALSE
