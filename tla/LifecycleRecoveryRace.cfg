\* A submission that ends, a Stop and an automatic recovery, without any fault.
SPECIFICATION Spec
CONSTANTS
    Client = {p1, p2, p3}
    N = 2
    Kinds = {"dispatch", "stop", "recover"}
    Faults = FALSE
PROPERTY RecoveryKeepsStop
CHECK_DEADLOCK FALSE
