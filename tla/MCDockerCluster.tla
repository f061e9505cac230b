--------------------------- MODULE MCDockerCluster ---------------------------
(* Small instances of DockerCluster. *)
EXTENDS DockerClusterInv, TLC

CONSTANTS c1, c2, a1, a2, a3, a4

SymmetricAddresses == Permutations(Addresses)
SymmetricHost == Permutations(Addresses) \cup Permutations(Clusters)
=============================================================================
