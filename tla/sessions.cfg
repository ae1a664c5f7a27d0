\* Four users, three sockets, room for two clients and three registered users.
CONSTANTS
    alice = alice
    bob = bob
    carol = carol
    dave = dave
    s1 = s1
    s2 = s2
    s3 = s3
    Users <- MCUsers
    Socks <- MCSocks
    NoSock = NoSock
    NoUser = NoUser
    MaxClients = 2
    MaxUsers = 3
SPECIFICATION Spec
SYMMETRY Symmetric
INVARIANTS
    TypeOK
    SessionIsRegistered
    SingleSession
    ClientListExact
    UnmovedNotLockedOut
