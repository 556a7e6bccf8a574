---- MODULE MCEdgeApply ----
EXTENDS EdgeApply
CONSTANT x
====
