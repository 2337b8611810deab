--------------------------- MODULE MCSyncSession ---------------------------
(* A small instance of SyncSession for TLC. *)
EXTENDS SyncSession
=============================================================================
