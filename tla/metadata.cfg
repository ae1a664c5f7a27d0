\* Every request on one file name, four of them.
CONSTANTS
    alice = alice
    bob = bob
    carol = carol
    ss1 = ss1
    ss2 = ss2
    Users <- ThreeUsers
    Servers <- MCServers
    NoMeta = NoMeta
    NoUser = NoUser
    Requests = {"create", "delete", "access", "request", "approve", "read", "look", "view", "move"}
    MaxAcl = 1
    MaxQueue = 2
    MaxRequests = 5
SPECIFICATION Spec
SYMMETRY Symmetric
INVARIANTS
    TypeOK
    UndisturbedGrantsPersist
    UndisturbedEntryHasFile
PROPERTIES
    UndisturbedRouting
CHECK_DEADLOCK FALSE
