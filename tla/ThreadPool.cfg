\* Two workers, two slots, two producers (as many as slots), four tasks: the
\* ring wraps around, fills up, and producers wait while the pool is destroyed.
SPECIFICATION FairSpec
CONSTANTS
    Workers = {w1, w2}
    Producers = {p1, p2}
    PoolSize = 2
    MaxTasks = 4
    NoTask = NoTask
INVARIANTS
    TypeOK
    DrainedWhenFreed
PROPERTIES
    ImplementsBoundedFifo
    AcceptedTasksRun
    DestroyReturns
    BlockedProducersReturn
\* The behaviour may end: with the pool idle and no call left, or freed.
CHECK_DEADLOCK FALSE
