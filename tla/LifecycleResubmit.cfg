\* A submission and its retry with SLURMY_RESUME_JOB_ID, with faults.
SPECIFICATION Spec
CONSTANTS
    Client = {p1, p2}
    N = 2
    Kinds = {"dispatch"}
    Faults = TRUE
INVARIANT NoSecondAllocation
CHECK_DEADLOCK FALSE
