CONSTANTS
  t1 = t1
  t2 = t2
  t3 = t3
  Tickets = {t1, t2, t3}
  Batch = 1
  MaxClock = 2
  MaxFaults = 1
  MaxCrashes = 1
SPECIFICATION TriggerFairSpec
INVARIANTS
  FiredOnce
PROPERTIES
  OpenedIsFired
