---------------------------- MODULE MCSyncEngine ----------------------------
(* SyncEngine on a few runs of two callers. *)
EXTENDS SyncEngine
=============================================================================
