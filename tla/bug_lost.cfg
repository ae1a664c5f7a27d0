\* A client reports words as written that its reconnection has lost.
CONSTANTS
    alice = alice
    bob = bob
    Nobody = Nobody
    NoTemp = NoTemp
    NoWord = NoWord
    Clients <- OneUser
    MaxRetries = 2
    MaxEdits <- OneEdit
    MaxLines <- TwoLines
    MaxFaults = 1
CHECK_DEADLOCK FALSE
SPECIFICATION Spec
INVARIANTS
    ConfirmedWritesArrive
