\* Two users edit a sentence; connections break, users press Ctrl-C.
CONSTANTS
    alice = alice
    bob = bob
    Nobody = Nobody
    NoTemp = NoTemp
    NoWord = NoWord
    Clients <- Both
    MaxRetries = 2
    MaxEdits <- TwoOne
    MaxLines <- OneTwo
    MaxFaults = 2
CHECK_DEADLOCK FALSE
SPECIFICATION FairSpec
INVARIANTS
    UndisturbedReportsArrive
    UndisturbedWordsOnce
    UndisturbedCancelledStayOut
    UndisturbedLockComesBack
PROPERTIES
    ClientsGoOn
