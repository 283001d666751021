SPECIFICATION FairSpec
CONSTANTS
    c1 = c1
    c2 = c2
    n1 = n1
    link = link
    note = note
    Captures <- LinkAndNote
    Urls <- BothUrls
    UrlOf <- OwnUrl
    Notes <- JustTheNote
    Users = {}
    Sweepers = {s1, s2}
    MaxAttempts = 2
    DedupDays = 7
    SweepLimit = 1
    MaxDay = 0
    MaxErrors = 1
    MaxCrashes = 1
INVARIANT OneOutcomePerSweep
PROPERTIES StubsSettled CapturesSettled
CHECK_DEADLOCK FALSE
