\* Two messages are enough: the second arrives while the first is answered.
SPECIFICATION WxSpec
CONSTANTS
  Pollers = {p1}
  MaxArrivals = 2
  KindOf <- MCKindOf
  MaxFailures = 2
INVARIANTS
  ReplyReachesItsSender
CHECK_DEADLOCK FALSE
