SPECIFICATION Spec
CONSTANTS
  c1 = c1
  c2 = c2
  m1 = m1
  m2 = m2
  NoMonitor = NoMonitor
  Malformed = Malformed
  Consumers = {c1}
  Monitors = {m1, m2}
  Poison = {}
  Bodies <- MixedBodies
  MaxPublish = 1
  Faults = {"lookup"}
  MaxFaults = 1
INVARIANTS
  TwoChecks
CHECK_DEADLOCK FALSE
