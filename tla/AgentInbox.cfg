\* A thread that gateway_stop joins, one that nobody joins, and main; a queue
\* of two messages and four sends, so that the ring wraps and senders wait.
SPECIFICATION FairSpec
CONSTANTS
    Joined = {http}
    Detached = {weixin}
    Main = main
    Capacity = 2
    MaxMessages = 4
    NoItem = NoItem
INVARIANTS
    TypeOK
    NothingLostOrReordered
    OnlyDetachedLost
PROPERTIES
    BlockedSendersReturn
    EnqueuedIsProcessed
    
\* The behaviour ends when the program is down, and stops before that when the
\* worker could not be started and a sender that is joined waits for room.
CHECK_DEADLOCK FALSE
