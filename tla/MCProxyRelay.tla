---------------------------- MODULE MCProxyRelay ----------------------------
(* ProxyRelay with buffers of a byte or two. *)
EXTENDS ProxyRelay
=============================================================================
