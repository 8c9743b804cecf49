SPECIFICATION FairSpec
CONSTANTS
    BufSize = 6
    MaxBytes = 9
    MaxLines = 3
INVARIANTS
    LinesWhole
    ShortLinesKeepConnection
PROPERTIES
    LinesServed
CHECK_DEADLOCK FALSE
