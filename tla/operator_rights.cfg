SPECIFICATION Spec
CONSTANTS
    LimitUsers = 10
    MaxConns = 2
    Fds = {4, 5}
    Nicks = {1, 2}
    Chans = {1}
    Keys = {}
    MaxGroups = 10
    MaxJoin = 1
    PassRequired = TRUE
    EarlyDrop = FALSE
INVARIANTS
    OperatorRightsEarned
CHECK_DEADLOCK FALSE
