---- MODULE MCTicketScan ----
EXTENDS TicketScan
CONSTANTS k1, tick, r1
====
