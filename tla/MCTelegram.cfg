CONSTANTS
    m1 = m1
    m2 = m2
    m3 = m3
    m4 = m4
    l1 = l1
    l2 = l2
    Messages = {m1, m2, m3, m4}
    Links = {l1, l2}
    TelegramLinks = {}
    Shape <- MCShape
    MaxAttempts = 2
    MaxFaults = 2
SPECIFICATION Spec
CHECK_DEADLOCK FALSE
INVARIANTS
    AckedIsSafe
    OneAlertPerWindow
    AnsweredOnceOrNoted
PROPERTY SomethingHappens
