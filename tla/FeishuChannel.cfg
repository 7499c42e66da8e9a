\* Two messages from two chats and a command of the second, any of them
\* delivered again; a ring of two ids forgets the first when the third comes.
SPECIFICATION Spec
CONSTANTS
    chatA = chatA
    chatB = chatB
    m1 = m1
    m2 = m2
    m3 = m3
    None = None
    Events = {m1, m2, m3}
    Commands = {m3}
    Chats = {chatA, chatB}
    ChatOf <- MCChatOf
    Configured = chatA
    CacheSize = 2
    Bounds <- MCBounds
    MaxLength = 2
INVARIANTS
    DropsExactlyTheRecent
    NeverToAnOlderChat
    ShowsItsOwnAnswer
    EndRepairsUpdates
    AbortsOnlyByOverlap
PROPERTIES
    TextNeverShrinks
CHECK_DEADLOCK FALSE
