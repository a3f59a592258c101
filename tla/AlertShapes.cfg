SPECIFICATION FairSpec
CONSTANTS
  c1 = c1
  c2 = c2
  m1 = m1
  m2 = m2
  NoMonitor = NoMonitor
  Malformed = Malformed
  Consumers = {c1}
  Monitors = {m1, m2}
  Poison = {}
  Bodies <- ShapeBodies
  MaxPublish = 3
  Faults = {}
  MaxFaults = 0
INVARIANTS
  TwoChecks
PROPERTIES
  ImplementsRule
CHECK_DEADLOCK FALSE
