\* One allocation of a batch of one pair that SLURM may kill.
SPECIFICATION Spec
CONSTANTS
    Alloc = {a1, a2}
    T = 1
    PlacementRetries = 1
    RestartBound = 1
    Faults = {"kill"}
INVARIANT IndexCurrent
CHECK_DEADLOCK FALSE
