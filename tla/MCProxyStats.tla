---- MODULE MCProxyStats ----
(* Symmetry for ProxyStats: flows, hostnames and actions are interchangeable. *)
EXTENDS ProxyStats, TLC

StatsSymmetry == Permutations(Flows) \cup Permutations(Hosts) \cup Permutations(Labels)
=============================================================================
