\* One streaming channel and two short replies.
SPECIFICATION AgentFairSpec
CONSTANTS
    c1 = c1
    c2 = c2
    Channels = {c1, c2}
    ChannelList <- MCChannelList
    Streaming = {c1}
    Submitters = {agent}
    Agent = agent
    Workers = {w1}
    PoolSize = 1
    Contents <- MCContents
    MaxTasks = 0
    MinChars = 2
    MaxText = 1
    MaxReplies = 2
    NoChannel = NoChannel
    NoTask = NoTask
PROPERTY EveryTaskProcessed
CHECK_DEADLOCK FALSE
