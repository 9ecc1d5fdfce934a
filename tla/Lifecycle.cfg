\* Every operation, with faults: three invocations over two batches.
SPECIFICATION Spec
CONSTANTS
    Client = {p1, p2, p3}
    N = 2
    Kinds = {"dispatch", "stop", "resume", "recover", "monitor"}
    Faults = TRUE
SYMMETRY ClientSymmetry
INVARIANTS
    TypeOK
    AcceptedPrefix
    CompleteMeansRecorded
    StateNeverAhead
    StopAdmitsAtMostOne
CHECK_DEADLOCK FALSE
