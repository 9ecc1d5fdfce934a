\* Two submitting jobs with every combination of demands up to two, with faults.
SPECIFICATION Spec
CONSTANTS
    Job = {1, 2}
    MaxRequested = 2
    Limit = 3
    MaxOther = 1
    TurnCycle = 2
    Faults = TRUE
INVARIANTS
    TypeOK
    OneClaimPerSlot
    WorkConserving
PROPERTIES
    FairAdmission
    RefusalLowers
