\* Two users, two files, two servers, a folder.
CONSTANTS
    alice = alice
    bob = bob
    f1 = f1
    f2 = f2
    d = d
    ss1 = ss1
    ss2 = ss2
    System = System
    Root = Root
    NoEntry = NoEntry
    NoText = NoText
    NoRequest = NoRequest
    Users <- MCUsers
    Files <- MCFiles
    Folders <- MCFolders
    Servers <- MCServers
    MaxRequests = 3
    MaxCommands = 9
SPECIFICATION Spec
SYMMETRY Symmetric
CHECK_DEADLOCK FALSE
INVARIANTS
    UndisturbedShownStaysTrue
    UndisturbedEntryNamesOwnersText
PROPERTIES
    UndisturbedApprovalRaises
