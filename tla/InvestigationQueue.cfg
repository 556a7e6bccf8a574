CONSTANTS
  t1 = t1
  t2 = t2
  c1 = c1
  c2 = c2
  NONE = NONE
  Tickets = {t1, t2}
  Callers = {c1, c2}
  MaxRequests = 3
  MaxFailures = 2
SPECIFICATION FairSpec
INVARIANTS
  NobodyIsForgotten
PROPERTIES
  QueuedIsSettled
