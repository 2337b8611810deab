----------------------------- MODULE MCBufServer -----------------------------
(* BufServer on a small buffer, with lines that fit it like randclient's.  *)
EXTENDS BufServer
=============================================================================
