SPECIFICATION FairLSpec
CONSTANTS
    LimitUsers = 10
    MaxConns = 2
    Fds = {4, 5}
    Nicks = {1, 2}
    Chans = {1}
    Keys = {}
    MaxGroups = 10
    MaxJoin = 2
    PassRequired = FALSE
    EarlyDrop = TRUE
    Blocking = {1, 2}
PROPERTIES
    
    EverybodyAccepted
    RoundsEnd
CHECK_DEADLOCK FALSE
