CONSTANTS
  k1 = k1
  tick = tick
  r1 = r1
  Tickets = {k1}
  Tick = tick
  Requests = {r1}
  Scopes = 1
  High = 3
  MaxSeverity = 3
  NONE = NONE
  MaxScans = 2
  MaxFindings = 2
  MaxEdits = 1
  MaxFaults = 1
SPECIFICATION FairSpec
PROPERTIES
  DecisionsStand
  ScanIsSettled
