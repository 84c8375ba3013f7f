CONSTANTS
    w1 = w1
    w2 = w2
    Workers = {w1, w2}
    Selections <- OnlyBoth
    Ignoring = {w1}
    Total = 4
    PieceLength = 2
    Split = 2
    Continue = FALSE
    Preallocate = TRUE
    AutoSave = TRUE
    MaxStops = 1
SPECIFICATION Spec
INVARIANT ControlSound
CHECK_DEADLOCK FALSE
