\* Full session and queue tables, a disk that fails, a restart.
CONSTANTS
    alice = alice
    bob = bob
    NM = NM
    NoUser = NoUser
    NoFile = NoFile
    Users <- MCUsers
    SourceIds <- MCSources
    InitialFiles <- SecondOpenOnly
    WriteKinds = {"word", "after", "newline"}
    Commands = {"cancel"}
    MaxSentence = 1
    MaxSessions = 1
    ReallocMoves = TRUE
    QueueRoom = {TRUE, FALSE}
    DiskFails = TRUE
    MaxLocks = 2
    MaxWrites = 1
    MaxCommands = 0
    MaxCrashes = 1
SPECIFICATION FairSpec
INVARIANTS
    TypeOK
    NoLeakedLock
    QueueOwnership
PROPERTIES
    UndisturbedImplementsLocking
    RequestsAnswered
