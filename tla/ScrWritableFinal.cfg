SPECIFICATION Spec
CONSTANTS
    HWMs = {1}
    Sizes <- MCSizes
    MaxCalls = 3
CHECK_DEADLOCK FALSE
INVARIANTS
    FinishAfterFinal
