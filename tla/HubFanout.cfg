SPECIFICATION FairSpec
CONSTANTS
  a = a
  b = b
  Conns = {a, b}
  BroadcastCap = 1
  MaxUpdates = 3
  Peers = {"leave", "stall", "fail"}
INVARIANTS
  TypeOK
  NoGaps
  NoLag
  ClientsServed
PROPERTIES
  UpdatesArrive
  GoneIsForgotten
CHECK_DEADLOCK FALSE
