---- MODULE MCInvestigationQueue ----
EXTENDS InvestigationQueue
CONSTANTS t1, t2, c1, c2
====
