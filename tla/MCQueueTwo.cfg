SPECIFICATION FairSpec
CONSTANTS
    Jobs = {j1}
    Instances = {a, b}
    MaxAttempts = 2
    BatchSize = 2
    ContextWait <- LinkDelay
    StaleAfter <- StaleClaim
    BaseBackoff <- FirstBackoff
    MaxBackoff <- BackoffCap
    MaxShift <- ShiftClamp
    Overdue = 1
    MaxFaults = 2
PROPERTIES
    SettledForGood
