\* The same instance where timed waits may end without a signal.
SPECIFICATION SpuriousFairSpec
CONSTANTS
    Joined = {http}
    Detached = {weixin}
    Main = main
    Capacity = 2
    MaxMessages = 4
    NoItem = NoItem
INVARIANT NeverPopsEmpty
CHECK_DEADLOCK FALSE
