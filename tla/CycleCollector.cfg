SPECIFICATION Spec
CONSTANTS
    o1 = o1
    o2 = o2
    o3 = o3
    Obj = {o1, o2, o3}
    Null = Null
    NSlots = 2
    Shapes = {1, 2}
    Threshold = 3
    MaxRefs = 1
SYMMETRY Sym
CHECK_DEADLOCK FALSE
INVARIANTS
    NoUseAfterFree
    RcExact
    CandidatesSound
