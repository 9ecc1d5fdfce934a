SPECIFICATION Spec
CONSTANTS
    MaxAttempts = 2
    Total = 2
    NoEntry = NoEntry
INVARIANTS TypeOK RetryBudget  NoRevival ShutdownQuiet OneAtATime
CHECK_DEADLOCK FALSE
