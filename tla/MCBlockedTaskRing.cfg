SPECIFICATION Spec
CONSTANTS
    t1 = t1
    t2 = t2
    t3 = t3
    t4 = t4
    Signatures <- MCSignatures
    Capacity = 3
    Reasons <- MCReasons
    Delay <- MCDelay
    BackoffBase = 1
    BackoffMax = 3
    MaxGameLoop = 2
    MaxRevision = 2
    MaxRetry = 1
SYMMETRY MCSymmetry
INVARIANTS
    TypeOK
    DistinctTasks
    RoomToPushBack
PROPERTIES
    MustRunKept
    CollectedAllWoken
    OnlyDiscardableEvicted
    OrderKept
