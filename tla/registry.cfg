SPECIFICATION Spec
CONSTANTS
    LimitUsers = 10
    MaxConns = 2
    Fds = {4, 5}
    Nicks = {1, 2, 3}
    Chans = {1, 2}
    Keys = {1}
    MaxGroups = 10
    MaxJoin = 2
    PassRequired = TRUE
    EarlyDrop = FALSE
INVARIANTS
    TypeOK
    NickUnique
    RegistrationOrder
    FounderKeepsChop
    OperKeepsRights
    AtMostOneEmptyChannel
    SocketOwned
PROPERTIES
    ImplementsChatRooms
CHECK_DEADLOCK FALSE
