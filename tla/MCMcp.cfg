SPECIFICATION Spec
CONSTANTS
    google = google
    x = x
    y = y
    c = c
    d = d
    mail = mail
    find = find
    dots = dots
    cursor1 = cursor1
    cursor2 = cursor2
    Servers <- InOrder
    Gsuite = google
    Tools = {mail, find, dots}
    Slug <- Slugs
    Word <- Words
    Reserved <- Own
    PagesOf <- Answers
    Cursors = {cursor1, cursor2}
    Callers = {c, d}
    MaxTools = 3
    MaxPages = 3
    MaxRequests = 2
    Lifetime = 4
    Slack = 2
    Timeout = 1
INVARIANT RoutesReachOwner
PROPERTIES TokenFresh RefreshOnlyWhenNeeded EveryCallEnds
CHECK_DEADLOCK FALSE
