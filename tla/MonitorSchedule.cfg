SPECIFICATION Spec
CONSTANTS
  m1 = m1
  m2 = m2
  m3 = m3
  m4 = m4
  o1 = o1
  o2 = o2
  d1 = d1
  d2 = d2
  Monitors = {m1, m2, m3, m4}
  Existing = {m1, m3, m4}
  Owners = {o1, o2}
  Owner <- OwnerOf
  Domains = {d1, d2}
  Domain <- DomainOf
  Nodes = {n1, n2, n3}
  Handlers = {h1, h2}
  PerDomain = 2
  NoList = NoList
  NoNode = NoNode
  NoMonitor = NoMonitor
  MaxChanges = 2
  MaxFaults = 1
SYMMETRY Interchangeable
INVARIANTS
  CacheExplained
  Rotation
  BatchIsFull
CHECK_DEADLOCK FALSE
