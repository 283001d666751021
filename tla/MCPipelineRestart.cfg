SPECIFICATION Spec
CONSTANTS
    c1 = c1
    c2 = c2
    n1 = n1
    link = link
    note = note
    Captures <- OneLink
    Urls <- LinkUrl
    UrlOf <- OnlyLink
    Notes = {}
    Users = {u1}
    Sweepers = {s1}
    MaxAttempts = 2
    DedupDays = 7
    SweepLimit = 1
    MaxDay = 0
    MaxErrors = 0
    MaxCrashes = 1
INVARIANT RestartLosesNothing
CHECK_DEADLOCK FALSE
