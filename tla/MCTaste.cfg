SPECIFICATION Spec
CONSTANTS
    u = u
    v = v
    w = w
    x = x
    y = y
    z = z
    Users = {u, v}
    Items = {x, y, z}
    SharedBy <- OneEach
    Top = 1
    DefaultThreshold = 0
    ColumnDefault = 0
    MaxTags = 2
    DismissLimit = 0
    MaxPresses = 1
    MaxCommands = 1
    MaxFaults = 1
INVARIANTS VectorHasWeight ThresholdEarned
PROPERTIES LostOnlyToOverlap DismissalKeepsVector
CHECK_DEADLOCK FALSE
