\* Two channels share two pool threads and a pool queue of one job; two
\* submitters.  Three tasks are enough for a task to arrive in every phase of
\* the processing of an earlier one, with a third behind it.
SPECIFICATION FairSpec
CONSTANTS
    Channels = {c1, c2}
    Submitters = {s1, s2}
    Workers = {w1, w2}
    PoolSize = 1
    Contents = {text}
    MaxTasks = 3
    NoChannel = NoChannel
    NoTask = NoTask
INVARIANTS
    TypeOK
    OneProcessor
    FlagMeansClaimed
    UnattendedOnlyAfterEnd
PROPERTIES
    ImplementsSerialChannel
    ReleasedInTheEnd
\* The behaviour ends when the tasks of the bound are done.
CHECK_DEADLOCK FALSE
