SPECIFICATION Spec
CONSTANTS
    root = root
    Prom = {root}
    Root = root
    Micro = Micro
    Listener = FALSE
    Programs <- MCPrograms
    MaxDelay = 1
    MaxCalls = 2
    MaxTimers = 1
    MaxImms = 1
    MaxReady = 2
    MaxTicks = 1
PROPERTIES
    UncaughtStops
