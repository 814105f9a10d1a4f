SPECIFICATION Spec
CONSTANTS
    f = f
    g = g
    Callbacks = {f, g}
    MaxNodes = 4
    MaxRemovals = 2
CHECK_DEADLOCK FALSE
INVARIANTS
    ListExact
PROPERTIES
    DispatchExact
