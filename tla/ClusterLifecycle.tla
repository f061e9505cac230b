-------------------------- MODULE ClusterLifecycle --------------------------
(***************************************************************************)
(* What the library promises of clusters, without saying how: a cluster    *)
(* gets its nodes one by one, is handed to its user only when all of them  *)
(* are there, and has lost all of them when its block ends.  When anything *)
(* fails the cluster is given up, with the nodes it has at that moment;    *)
(* nothing that happens to one cluster touches another one's nodes.        *)
(***************************************************************************)
CONSTANTS Clusters, Nodes

VARIABLES
  stage,     \* of each cluster
  members    \* its running nodes

vars == <<stage, members>>

Stages == {"none", "building", "up", "ended", "givenUp"}

Init ==
  /\ stage = [c \in Clusters |-> "none"]
  /\ members = [c \in Clusters |-> {}]

Moves(c, from, to) == stage[c] = from /\ stage' = [stage EXCEPT ![c] = to]

Begin(c) == Moves(c, "none", "building") /\ UNCHANGED members

AddNode(c) ==
  /\ stage[c] = "building"
  /\ \E k \in Nodes \ members[c] :
       members' = [members EXCEPT ![c] = @ \cup {k}]
  /\ UNCHANGED stage

HandOver(c) ==
  /\ members[c] = Nodes
  /\ Moves(c, "building", "up")
  /\ UNCHANGED members

\* The node goes away; the call that stops it may also raise and leave the
\* block, without the rest of the nodes being stopped.
RemoveNode(c) ==
  /\ stage[c] = "up"
  /\ \E k \in members[c] : members' = [members EXCEPT ![c] = @ \ {k}]
  /\ \/ UNCHANGED stage
     \/ stage' = [stage EXCEPT ![c] = "givenUp"]

End(c) == members[c] = {} /\ Moves(c, "up", "ended") /\ UNCHANGED members

GiveUp(c) ==
  /\ Moves(c, "building", "givenUp") \/ Moves(c, "up", "givenUp")
  /\ UNCHANGED members

Next == \E c \in Clusters :
  Begin(c) \/ AddNode(c) \/ HandOver(c) \/ RemoveNode(c) \/ End(c) \/ GiveUp(c)

Spec == Init /\ [][Next]_vars
=============================================================================
