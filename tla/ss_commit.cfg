\* Two users, three sentence indices, plain and sentence-splitting words.
CONSTANTS
    alice = alice
    bob = bob
    NM = NM
    NoUser = NoUser
    NoFile = NoFile
    Users <- MCUsers
    SourceIds <- MCSources
    InitialFiles <- TwoEndedOnly
    WriteKinds = {"word", "split"}
    Commands = {}
    MaxSentence = 2
    MaxSessions = 2
    ReallocMoves = TRUE
    QueueRoom = {TRUE}
    DiskFails = FALSE
    MaxLocks = 2
    MaxWrites = 2
    MaxCommands = 0
    MaxCrashes = 0
SPECIFICATION Spec
SYMMETRY Symmetric
INVARIANTS
    UndisturbedLockGuardsSession
    UndisturbedOneSessionPerSentence
    ClosedBeforeRelease
    UndisturbedSentenceExclusion
    EntriesAreOwn
PROPERTIES
    UndisturbedMergeKeepsOthers
    UndisturbedCommittedWordsArrive
    UndisturbedTempIsolation
