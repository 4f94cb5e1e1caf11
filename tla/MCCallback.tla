----------------------------- MODULE MCCallback -----------------------------
(* Instances of Callback for TLC.                                          *)
EXTENDS Callback, TLC

CONSTANTS c1, c2, d1, d2

=============================================================================
