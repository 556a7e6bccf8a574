--------------------------- MODULE MCProxyWorker ---------------------------
(* ProxyWorker on a slab of a few slots. Redirected connections are           *)
(* interchangeable.                                                           *)
EXTENDS ProxyWorker, TLC

ConnSymmetry == Permutations(Redirected)
=============================================================================
