CONSTANTS
    g1 = g1
    g2 = g2
    GID = {g1, g2}
    Startup <- StartupOne
    Modes = {TRUE}
    MaxActive = 2
    MaxCalls = 2
SPECIFICATION Spec
INVARIANTS TypeOK QueueConsistency OneFate
PROPERTIES NeverReturns
CHECK_DEADLOCK FALSE
