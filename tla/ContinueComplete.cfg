CONSTANTS
    w1 = w1
    w2 = w2
    Workers = {w1, w2}
    Selections <- EitherOrBoth
    Ignoring = {}
    Total = 3
    PieceLength = 2
    Split = 2
    Continue = TRUE
    Preallocate = TRUE
    AutoSave = TRUE
    MaxStops = 1
SPECIFICATION Spec
INVARIANT CompleteMeansAllBytes
CHECK_DEADLOCK FALSE
