SPECIFICATION Spec
CONSTANTS
  c1 = c1
  c2 = c2
  u1 = u1
  m1 = m1
  Callers = {c1}
  Users = {u1}
  Monitors = {m1}
  Owner <- OneOwner
  FreePerDay = 3
  Packs = {1}
  MaxAlerts = 1
  MaxBuys = 0
  MaxDay = 1
  MaxEdits = 0
  Faults = {}
  MaxFaults = 0
INVARIANTS
  ShownFreeIsFree
CHECK_DEADLOCK FALSE
