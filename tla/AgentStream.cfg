\* One agent, two streaming channels, one pool thread less than channels so
\* that jobs wait; a pool queue of one job so that thread_pool_add_task blocks.
SPECIFICATION AgentFairSpec
CONSTANTS
    c1 = c1
    c2 = c2
    Channels = {c1, c2}
    ChannelList <- MCChannelList
    Streaming = {c1, c2}
    Submitters = {agent}
    Agent = agent
    Workers = {w1}
    PoolSize = 1
    Contents <- MCContents
    MaxTasks = 0
    MinChars = 2
    MaxText = 3
    MaxReplies = 2
    NoChannel = NoChannel
    NoTask = NoTask
INVARIANTS
    WellFormedStream
    RestBeforeEnd
PROPERTIES
    SubmissionsFinish
CHECK_DEADLOCK FALSE
