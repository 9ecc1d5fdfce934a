\* Three jobs with demands up to two share two slots, without faults.
SPECIFICATION FairSpec
CONSTANTS
    Job = {1, 2, 3}
    MaxRequested = 2
    Limit = 2
    MaxOther = 0
    TurnCycle = 6
    Faults = FALSE
INVARIANTS
    MaxOutstandingKept
PROPERTIES
    NoStarvation
