SPECIFICATION FairSpec
CONSTANTS
    p1 = p1
    p2 = p2
    root = root
    Prom = {p1, p2, root}
    Root = root
    Micro = Micro
    Listener = TRUE
    Programs <- MCPrograms
    MaxDelay = 2
    MaxCalls = 2
    MaxTimers = 2
    MaxImms = 2
    MaxReady = 2
    MaxTicks = 1
INVARIANTS
    HandlesExact
PROPERTIES
    MacrotasksWaitForJobs
    ExitIsQuiescent
    
    ImmediatesServed
    
