\* Two allocations of a batch of two pairs, each started up to three times, with every fault.
SPECIFICATION FairSpec
CONSTANTS
    Alloc = {a1, a2}
    T = 2
    PlacementRetries = 1
    RestartBound = 2
    Faults = {"kill", "write", "read"}
INVARIANTS
    TypeOK
    ResultHasArchive
    NothingAhead
    SuccessMeansComplete
    IndexCurrentUnlessLost
PROPERTIES
    KeepsCompleted
    AllocationsEnd
CHECK_DEADLOCK FALSE
