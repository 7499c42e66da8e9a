\* A streaming channel (Feishu) and one without stream callbacks (Telegram).
SPECIFICATION AgentFairSpec
CONSTANTS
    c1 = c1
    c2 = c2
    Channels = {c1, c2}
    ChannelList <- MCChannelList
    Streaming = {c1}
    Submitters = {agent}
    Agent = agent
    Workers = {w1}
    PoolSize = 1
    Contents <- MCContents
    MaxTasks = 0
    MinChars = 2
    MaxText = 1
    MaxReplies = 1
    NoChannel = NoChannel
    NoTask = NoTask
INVARIANT AnswerReachesChannels
CHECK_DEADLOCK FALSE
