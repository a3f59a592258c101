SPECIFICATION FairSpec
CONSTANTS
  a = a
  b = b
  Conns = {a, b}
  BroadcastCap = 1
  MaxUpdates = 2
  Peers = {"leave", "fail"}
PROPERTIES
  HubReturns
CHECK_DEADLOCK FALSE
