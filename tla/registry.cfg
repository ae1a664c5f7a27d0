\* One server that runs twice, and a client that may get the numbers of its sockets.
CONSTANTS
    ss1 = ss1
    Ids = {ss1}
    Runs = {1, 2}
    IdOf <- OneServer
    Clients = {c1}
    Handlers = {}
    Fds = {1, 2, 3, 4, 5}
    NoFd = NoFd
    NoConn = NoConn
    NoOne = NoOne
    MaxSS = 1
    Grace = 1
    Timeout = 0
SPECIFICATION FairSpec
INVARIANTS
    TypeOK
    UndisturbedServerReachable
PROPERTIES
    UndisturbedGoneIsNoticed
CHECK_DEADLOCK FALSE
