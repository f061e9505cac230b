----------------------------- MODULE MCMacNetwork -----------------------------
(* A small instance of MacNetwork. *)
EXTENDS MacNetwork

CONSTANTS c1, c2, c3
=============================================================================
