----------------------------- MODULE MCAwsCluster -----------------------------
(* A small instance of AwsCluster. *)
EXTENDS AwsCluster

CONSTANTS c1, c2, k1, k2, n1
=============================================================================
