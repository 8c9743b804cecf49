SPECIFICATION WSpec
CONSTANTS
    LimitUsers = 10
    MaxConns = 3
    Fds = {4, 5, 6}
    Nicks = {1, 2, 3}
    Chans = {1}
    Keys = {}
    MaxGroups = 10
    MaxJoin = 2
    PassRequired = FALSE
    EarlyDrop = FALSE
    Topics = {}
    OtherNames = {1}
    MaxTargets = 2
VIEW Seen
CONSTRAINT FewStrangers
INVARIANTS
    ListsExact
    OneSeesTheOther
PROPERTIES
    ImplementsConversation
    OnlyMembersTold
CHECK_DEADLOCK FALSE
