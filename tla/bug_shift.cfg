\* Two commits, one of which changes the number of sentences.
CONSTANTS
    alice = alice
    bob = bob
    NM = NM
    NoUser = NoUser
    NoFile = NoFile
    Users <- MCUsers
    SourceIds <- MCSources
    InitialFiles <- TwoEndedOnly
    WriteKinds = {"word", "split"}
    Commands = {}
    MaxSentence = 1
    MaxSessions = 2
    ReallocMoves = FALSE
    QueueRoom = {TRUE}
    DiskFails = FALSE
    MaxLocks = 2
    MaxWrites = 2
    MaxCommands = 0
    MaxCrashes = 0
SPECIFICATION Spec
SYMMETRY Symmetric
PROPERTIES
    MergeKeepsOthers
