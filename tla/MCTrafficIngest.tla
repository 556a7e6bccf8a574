---- MODULE MCTrafficIngest ----
(* Symmetry for TrafficIngest: pairs, and polls, are interchangeable. *)
EXTENDS TrafficIngest, TLC

IngestSymmetry == Permutations(Pairs) \cup Permutations(Pollers)
=============================================================================
