SPECIFICATION FairSpec
CONSTANTS
    HWMs = {2}
    Sizes <- MCSizes
    ReadSizes = {0, 1, 3}
    Programs <- MCPrograms
    MaxCalls = 3
CHECK_DEADLOCK FALSE
INVARIANTS
    BytesInOrder
PROPERTIES
    EndIsLast
    FlowCompletes
    ReaderWakes
    NextSettles
