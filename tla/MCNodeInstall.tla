---------------------------- MODULE MCNodeInstall ----------------------------
(* A small instance of NodeInstall. *)
EXTENDS NodeInstall, TLC

CONSTANTS j1, j2, c1, c2

\* Two jobs that install or upgrade a cluster each, or two that send files or
\* sync to the same one.
Mixes ==
  {f \in [Jobs -> Kinds \X Clusters] :
     \/ f[j1][1] \in Installers /\ f[j2][1] \in Installers /\ f[j1][2] # f[j2][2]
     \/ \A j \in Jobs : f[j][1] \notin Installers /\ f[j][2] = c1}

Symmetric == Permutations(Jobs)
=============================================================================
