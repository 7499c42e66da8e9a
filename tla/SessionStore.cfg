\* Two rounds of the model, one tool at most, two restarts: histories longer
\* than the context and than the limit, saved, trimmed, cleared and loaded.
SPECIFICATION Spec
CONSTANTS
    MaxHistory = 3
    ContextLimit = 2
    MaxSessions = 2
    MaxIterations = 2
    MaxTools = 1
    MaxMessages = 5
    MaxCrashes = 2
    Torn = Torn
    Freed = Freed
INVARIANTS
    ContextEndsWithConversation
    OneSession
CHECK_DEADLOCK FALSE
