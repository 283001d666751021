SPECIFICATION FairSpec
CONSTANTS
    Jobs = {j1, j2}
    Instances = {a}
    MaxAttempts = 2
    BatchSize = 2
    ContextWait <- LinkDelay
    StaleAfter <- StaleClaim
    BaseBackoff <- FirstBackoff
    MaxBackoff <- BackoffCap
    MaxShift <- ShiftClamp
    Overdue = 1
    MaxFaults = 2
INVARIANTS
    HolderOwnsRow
    NothingLost
PROPERTIES
    LedgerSpec
    EventuallyDeleted
