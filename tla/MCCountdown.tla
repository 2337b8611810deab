----------------------------- MODULE MCCountdown -----------------------------
(* Countdown with bytes of four values: 16 stands for 65536.               *)
EXTENDS Countdown
MCNumbers == {-1, 0, 2, 6}
=============================================================================
