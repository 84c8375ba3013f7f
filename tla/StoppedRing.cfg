SPECIFICATION Spec
CONSTANTS
    GID = {g1, g2, g3}
    Caller = {c1, c2}
    Outcome <- FailedOrNot
    Setting = {0, 1}
    DefaultResults = 2
    Keeps = {"none", "unfinished"}
    MaxChanges = 1
    MaxEvicted = 3
    None = None
INVARIANTS TypeOK IndexAgrees
PROPERTIES RingIsLog StoppingEnds
CHECK_DEADLOCK FALSE
