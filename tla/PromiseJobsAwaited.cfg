SPECIFICATION Spec
CONSTANTS
    p1 = p1
    p2 = p2
    root = root
    Prom = {p1, p2, root}
    Root = root
    NoProm = NoProm
    UnhandledDispatch = TRUE
    HandledDispatch = TRUE
    MaxCalls = 4
PROPERTIES
    AwaitedNeverReported
