SPECIFICATION FairSpec
CONSTANTS
    HWMs = {0, 1}
    Sizes <- MCSizes
    MaxCalls = 4
CHECK_DEADLOCK FALSE
INVARIANTS
    QueueExact
    FinishIsComplete
PROPERTIES
    CloseIsLast
    DrainComes
    HandedAnswered
    EndCompletes
