SPECIFICATION FairSpec
CONSTANTS
  e1 = e1
  e2 = e2
  w1 = w1
  w2 = w2
  n1 = n1
  n2 = n2
  NoRow = NoRow
  NoPda = NoPda
  NoEntry = NoEntry
  Accounts = {e1, e2}
  Owners = {w1, w2}
  Nodes = {n1, n2}
  Claims <- TakenNode
  Places = {"here"}
  Handlers = {"h1"}
  Window = 1
  MaxChanges = 4
INVARIANTS
  TypeOK
  OnlineIsRecent
  DatabaseFirst
  PdaFits
PROPERTIES
  ProgressKept
  DeletedGoesOffline
CHECK_DEADLOCK FALSE
