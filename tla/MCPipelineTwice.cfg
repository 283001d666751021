SPECIFICATION Spec
CONSTANTS
    c1 = c1
    c2 = c2
    n1 = n1
    link = link
    note = note
    Captures <- TwoLinks
    Urls <- LinkUrl
    UrlOf <- SameLink
    Notes = {}
    Users = {u1}
    Sweepers = {s1}
    MaxAttempts = 2
    DedupDays = 1
    SweepLimit = 1
    MaxDay = 1
    MaxErrors = 1
    MaxCrashes = 1
INVARIANTS CapturedHasItem LearnedOnce UnlearnedArePaidFor ChunksNotAhead
CHECK_DEADLOCK FALSE
