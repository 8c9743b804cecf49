SPECIFICATION Spec
CONSTANTS
    LimitUsers = 0
    MaxConns = 4
    Fds = {4, 5, 6}
    Nicks = {1, 2}
    Chans = {1, 2}
    Keys = {}
    MaxGroups = 0
    MaxJoin = 1
    PassRequired = TRUE
    EarlyDrop = TRUE
INVARIANTS
    MembersLive
    NoNodeLeak
    LimitsHold
CHECK_DEADLOCK FALSE
