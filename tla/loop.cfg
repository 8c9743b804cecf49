SPECIFICATION LSpec
CONSTANTS
    LimitUsers = 10
    MaxConns = 4
    Fds = {4, 5, 6}
    Nicks = {1, 2}
    Chans = {}
    Keys = {}
    MaxGroups = 10
    MaxJoin = 0
    PassRequired = FALSE
    EarlyDrop = TRUE
    Blocking = {1}
INVARIANTS
    WatchedIsOpen
    TurnsNotInherited
    StopDeafens
CONSTRAINT Narrow
CHECK_DEADLOCK FALSE
