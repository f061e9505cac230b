---------------------------- MODULE MCWaitForDcos ----------------------------
(* Small instances of WaitForDcos. *)
EXTENDS WaitForDcos

CONSTANTS w1, w2
=============================================================================
