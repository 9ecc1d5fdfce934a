\* One submission and one Stop, without any fault.
SPECIFICATION Spec
CONSTANTS
    Client = {p1, p2}
    N = 2
    Kinds = {"dispatch", "stop"}
    Faults = FALSE
PROPERTY StopConfirmsQuiet
CHECK_DEADLOCK FALSE
