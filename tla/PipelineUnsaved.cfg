SPECIFICATION PipelineSpec
CONSTANTS
  c1 = c1
  c2 = c2
  m1 = m1
  m2 = m2
  u1 = u1
  NoMonitor = NoMonitor
  Malformed = Malformed
  Consumers = {c1}
  Monitors = {m1, m2}
  Poison = {}
  Bodies <- OutageBodies
  MaxPublish = 2
  Faults = {"upsert"}
  MaxFaults = 1
  Users = {u1}
  Owner <- SoleOwner
  FreePerDay = 3
  Packs = {1}
  MaxAlerts = 6
  MaxBuys = 0
  MaxDay = 0
  MaxEdits = 0
  GateFaults = {}
  MaxGateFaults = 0
INVARIANTS
  AlertIsNews
CHECK_DEADLOCK FALSE
