SPECIFICATION Spec
CONSTANTS
    None = None
    MaxDeadline = 2
    MaxPush = 7
CHECK_DEADLOCK FALSE
PROPERTIES
    ImplementsTimerQueue
