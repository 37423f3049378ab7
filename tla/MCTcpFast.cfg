SPECIFICATION FairSpec
CONSTANTS
    None = None
    Roles = {"server", "client"}
    Sockets = {1, 2, 3, 4, 5}
    MaxFaults = 4
INVARIANTS
    TypeOK
    SocketsKept
PROPERTIES
    HealthyKept
    LinkReturns
CHECK_DEADLOCK FALSE
