--------------------------- MODULE MCVagrantCluster ---------------------------
(* A small instance of VagrantCluster. *)
EXTENDS VagrantCluster, TLC

CONSTANTS k1, k2, k3, k4

TwoMasters == (k1 :> 1) @@ (k2 :> 1) @@ (k3 :> 2) @@ (k4 :> 3)
=============================================================================
