SPECIFICATION FairSpec
CONSTANTS
    BufSize = 4
    Room = 2
    Streams <- MCStreams
    MaxTexts = 1
INVARIANTS
    
    LinesApart

    
    
CHECK_DEADLOCK FALSE
