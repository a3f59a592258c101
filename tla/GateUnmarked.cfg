SPECIFICATION Spec
CONSTANTS
  c1 = c1
  c2 = c2
  u1 = u1
  m1 = m1
  Callers = {c1}
  Users = {u1}
  Monitors = {m1}
  Owner <- OneOwner
  FreePerDay = 1
  Packs = {1}
  MaxAlerts = 3
  MaxBuys = 0
  MaxDay = 0
  MaxEdits = 0
  Faults = {"mark"}
  MaxFaults = 1
INVARIANTS
  OneReminder
CHECK_DEADLOCK FALSE
