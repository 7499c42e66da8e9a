\* Three Weixin messages, the second a command; three frames over the link, some of
\* two parts or too large; two WebSocket clients for one slot; two HTTP clients;
\* three skill files changed twice; three replies with tools; two switches of the
\* model and one request.
SPECIFICATION Spec
CONSTANTS
  Pollers = {p1}
  MaxArrivals = 3
  KindOf <- MCKindOf
  MaxFailures = 2
  MaxFrames = 3
  Events = {"a", "b"}
  BufferParts = 3
  Clients = {"c1", "c2"}
  Slots = {1}
  BufferSize = 4
  MaxMessages = 2
  Browsers = {"b1", "b2"}
  SkillFiles <- MCSkillFiles
  MaxChanges = 2
  MaxCommands = 1
  Replies <- MCReplies
  ToolRequests <- MCToolRequests
  MaxReplies = 3
  MaxFaults = 2
  ConfigFiles <- MCConfigFiles
  Bodies <- MCBodies
  NewNames = {"z"}
  LineSize = 3
  MaxSwitches = 2
  MaxRequests = 1
INVARIANTS
  EachMessageHandledOnce
  NeverToAnOlderSender
  
  PostedOnceThenAcked
  
  
  
  
  
  WholeAnswer

  
CHECK_DEADLOCK FALSE
