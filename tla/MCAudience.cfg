SPECIFICATION Spec
CONSTANTS
    u = u
    v = v
    w = w
    x = x
    y = y
    z = z
    Users = {u, v, w}
    Items = {x, y, z}
    SharedBy <- OneEach
    Top = 1
    DefaultThreshold = 1
    ColumnDefault = 1
    MaxTags = 2
    DismissLimit = 0
    MaxPresses = 0
    MaxCommands = 1
    MaxFaults = 1
INVARIANTS NobodySkipped
PROPERTIES MuteHoldsForLaterRuns
CHECK_DEADLOCK FALSE
