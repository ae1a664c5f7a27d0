\* One server that runs twice, and a handler that has it create a file.
CONSTANTS
    ss1 = ss1
    Ids = {ss1}
    Runs = {1, 2}
    IdOf <- OneServer
    Clients = {}
    Handlers = {h1}
    Fds = {1, 2, 3, 4}
    NoFd = NoFd
    NoConn = NoConn
    NoOne = NoOne
    MaxSS = 1
    Grace = 1
    Timeout = 0
SPECIFICATION FairSpec
INVARIANTS
    UndisturbedEntryHasFile
PROPERTIES
    UndisturbedExchangesEnd
CHECK_DEADLOCK FALSE
