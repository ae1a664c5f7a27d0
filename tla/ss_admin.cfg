\* UNDO and the name server's commands beside the commits.
CONSTANTS
    alice = alice
    bob = bob
    NM = NM
    NoUser = NoUser
    NoFile = NoFile
    Users <- MCUsers
    SourceIds <- MCSources
    InitialFiles <- TwoEndedOnly
    WriteKinds = {"end"}
    Commands = {"undo", "delete", "create", "checkpoint"}
    MaxSentence = 1
    MaxSessions = 2
    ReallocMoves = TRUE
    QueueRoom = {TRUE}
    DiskFails = FALSE
    MaxLocks = 2
    MaxWrites = 1
    MaxCommands = 2
    MaxCrashes = 0
SPECIFICATION Spec
SYMMETRY Symmetric
INVARIANTS
    AcknowledgedIsOnDisk
PROPERTIES
    RevertIsUndoable
