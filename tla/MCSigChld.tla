------------------------------ MODULE MCSigChld ------------------------------
(* SigChld with a few children.                                            *)
EXTENDS SigChld
=============================================================================
