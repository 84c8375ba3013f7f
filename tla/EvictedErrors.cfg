SPECIFICATION Spec
CONSTANTS
    GID = {g1, g2, g3}
    Caller = {c1, c2}
    Outcome <- FailedOrNot
    Setting = {1}
    DefaultResults = 2
    Keeps = {"none"}
    MaxChanges = 0
    MaxEvicted = 3
    None = None
INVARIANT EvictedErrorsCounted
CHECK_DEADLOCK FALSE
