SPECIFICATION Spec
CONSTANTS
    k1 = k1
    k2 = k2
    k3 = k3
    Key = {k1, k2, k3}
    v1 = v1
    v2 = v2
    Val = {v1, v2}
    w1 = w1
    w2 = w2
    Walk = {w1, w2}
    Hash <- MCHash
    MinCap = 2
    MinBuckets = 4
    MinCompact = 3
    LabelledJumps = TRUE
    MaxId = 4
    MaxDepth = 3
SYMMETRY Sym
CHECK_DEADLOCK FALSE
INVARIANTS
    LookupExact
PROPERTIES
    IndicesStable
    ImplementsLiveMap
