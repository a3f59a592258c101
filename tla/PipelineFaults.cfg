SPECIFICATION FairPipeline
CONSTANTS
  c1 = c1
  c2 = c2
  m1 = m1
  m2 = m2
  u1 = u1
  NoMonitor = NoMonitor
  Malformed = Malformed
  Consumers = {c1}
  Monitors = {m1, m2}
  Poison = {}
  Bodies <- OutageBodies
  MaxPublish = 2
  Faults = {"lookup", "timeout", "crash", "close"}
  MaxFaults = 1
  Users = {u1}
  Owner <- SoleOwner
  FreePerDay = 2
  Packs = {1}
  MaxAlerts = 9
  MaxBuys = 0
  MaxDay = 0
  MaxEdits = 1
  GateFaults = {"enabled", "owner", "deduct", "reply", "ask", "mark", "send"}
  MaxGateFaults = 1
INVARIANTS
  GateFollowsWorker
  AlertIsNews
  OneReminder
PROPERTIES
  ImplementsConsumer
CHECK_DEADLOCK FALSE
