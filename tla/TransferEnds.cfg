CONSTANTS
    w1 = w1
    w2 = w2
    Workers = {w1, w2}
    Selections <- EitherOrBoth
    Ignoring = {}
    Total = 3
    PieceLength = 2
    Split = 2
    Continue = FALSE
    Preallocate = TRUE
    AutoSave = FALSE
    MaxStops = 2
SPECIFICATION Spec
PROPERTIES TransferEnds
CHECK_DEADLOCK FALSE
