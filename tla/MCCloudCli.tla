------------------------------ MODULE MCCloudCli ------------------------------
EXTENDS CloudCli, TLC

CONSTANTS p1, p2, p3, c1, c2

\* Mixes of one or two creates and of other commands; at most one of them works
\* on several clusters.
Mixes ==
  Backends \X
    {f \in [Commands -> Kinds] :
       /\ Cardinality({p \in Commands : f[p] = "create"}) \in 1 .. 2
       /\ Cardinality({p \in Commands : f[p] \notin {"create", "destroy"}}) < 2
       /\ (\E p \in Commands : f[p] = "destroy-list") =>
            \E p \in Commands : f[p] = "destroy"}

Symmetric == Permutations(Commands) \cup Permutations(Ids)
=============================================================================
