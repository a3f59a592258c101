SPECIFICATION FairSpec
CONSTANTS
  c1 = c1
  c2 = c2
  u1 = u1
  m1 = m1
  Callers = {c1, c2}
  Users = {u1}
  Monitors = {m1}
  Owner <- OneOwner
  FreePerDay = 2
  Packs <- SignedPacks
  MaxAlerts = 5
  MaxBuys = 2
  MaxDay = 1
  MaxEdits = 1
  Faults = {"enabled", "owner", "deduct", "reply", "send", "ask", "mark", "timeout", "crash"}
  MaxFaults = 1
INVARIANTS
  FreeQuota
  CreditsConserved
  PaidOnce
PROPERTIES
  WindowForward
  GateReturns
CHECK_DEADLOCK FALSE
