SPECIFICATION FairSpec
CONSTANTS
  c1 = c1
  c2 = c2
  m1 = m1
  m2 = m2
  NoMonitor = NoMonitor
  Malformed = Malformed
  Consumers = {c1, c2}
  Monitors = {m1, m2}
  Poison = {}
  Bodies <- MixedBodies
  MaxPublish = 2
  Faults = {"lookup", "upsert", "timeout", "crash", "close"}
  MaxFaults = 2
INVARIANTS
  HealthConsistent
  OnePlace
  AckedMeansJudged
PROPERTIES
  EventuallySettled
CHECK_DEADLOCK FALSE
