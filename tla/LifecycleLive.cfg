\* Two of: a submission, a competing submission, a Stop, without faults, under fairness.
SPECIFICATION FairSpec
CONSTANTS
    Client = {p1, p2}
    N = 3
    Kinds = {"dispatch", "stop"}
    Faults = FALSE
INVARIANT NoSecondAllocation
PROPERTIES
    StopDrains
    LaunchSubmitsAll
CHECK_DEADLOCK FALSE
