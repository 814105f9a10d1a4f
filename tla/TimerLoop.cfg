SPECIFICATION FairSpec
CONSTANTS
    MaxTime = 2
    MaxCalls = 3
    TIMEOUT_MAX = 2
    DelayInputs <- MCDelays
INVARIANTS
    TypeOK
    ReffedExact
    QueuesExact
    AnswersSound
PROPERTIES
    MacrotasksWaitForJobs
    ClearedNeverFires
    OncePerTurn
    ArmedTimerServed
