----------------------------- MODULE MCDockerCli -----------------------------
(* Small instances of DockerCli. *)
EXTENDS DockerCli, TLC

CONSTANTS p1, p2, p3, id1, id2

\* One call of `first` and two of `others`, whichever call it is.
Calling(first, others) ==
  {f \in [Calls -> Commands] :
     \E p \in Calls : f[p] = first /\ {f[q] : q \in Calls \ {p}} \subseteq others}

CreateAndTwo == Calling("create", {"install", "destroy", "clean"})
SidecarAndTwo ==
  Calling("create-loopback-sidecar",
          {"create-loopback-sidecar", "destroy-loopback-sidecar", "clean"})
ProvisionTwiceAndOne ==
  UNION {Calling(one, {"provision"}) : one \in {"install", "destroy", "clean"}}

ThreeCalls == CreateAndTwo \cup SidecarAndTwo \cup ProvisionTwiceAndOne

Symmetry == Permutations(Calls) \cup Permutations(Ids)
=============================================================================
