\* As many keys as slots, which collide.
CONSTANTS
    nm1 = nm1
    nm2 = nm2
    a = a
    b = b
    c = c
    v = v
    Threads <- MCThreads
    Keys <- MCKeys
    Values <- MCValues
    Capacity = 3
    Hash <- MCHash
    NoThread = NoThread
    NoNode = NoNode
    Absent = Absent
SPECIFICATION FairSpec
INVARIANTS
    ListMatchesTable
PROPERTIES
    ImplementsMap
    UnbrokenOperationsEnd
