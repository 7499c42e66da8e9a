\* The same instance with one restart.
SPECIFICATION Spec
CONSTANTS
    MaxHistory = 3
    ContextLimit = 2
    MaxSessions = 2
    MaxIterations = 2
    MaxTools = 1
    MaxMessages = 5
    MaxCrashes = 1
    Torn = Torn
    Freed = Freed
INVARIANT RestartRestoresHistory
CHECK_DEADLOCK FALSE
