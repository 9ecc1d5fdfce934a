SPECIFICATION Spec
CONSTANTS
    Clients = {c1, c2}
    MaxAttempts = 2
    MaxLaunches = 1
INVARIANTS TypeOK PartialIsMarked DeletedMeansGone WorkKeepsInputs OneRemoval
SYMMETRY ClientSymmetry
CHECK_DEADLOCK FALSE
