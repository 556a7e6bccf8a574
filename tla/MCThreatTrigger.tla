---- MODULE MCThreatTrigger ----
EXTENDS ThreatTrigger
CONSTANTS t1, t2, t3
====
