CONSTANTS
    g1 = g1
    g2 = g2
    GID = {g1}
    Startup <- StartupOne
    Modes = {FALSE}
    MaxActive = 1
    MaxCalls = 2
SPECIFICATION Spec
INVARIANT CompleteMeansDownloaded
CHECK_DEADLOCK FALSE
