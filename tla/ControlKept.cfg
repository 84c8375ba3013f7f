CONSTANTS
    w1 = w1
    w2 = w2
    Workers = {w1, w2}
    Selections <- OnlyOne
    Ignoring = {}
    Total = 3
    PieceLength = 2
    Split = 2
    Continue = FALSE
    Preallocate = TRUE
    AutoSave = TRUE
    MaxStops = 1
SPECIFICATION Spec
PROPERTY ControlKept
CHECK_DEADLOCK FALSE
