-------------------------- MODULE DockerClusterInv --------------------------
(***************************************************************************)
(* The inductive invariant behind the theorems about DockerCluster.  None  *)
(* of the properties of that module is inductive: what destroy_node may    *)
(* match depends on the addresses that the process has read before.        *)
(***************************************************************************)
EXTENDS DockerCluster

\* The daemon: exactly the running containers have an address, one each.
DaemonInv ==
  /\ \A x \in Containers : Running(x) <=> address[x] # NoAddress
  /\ \A x, y \in Containers :
       address[x] = address[y] /\ address[x] # NoAddress => x = y

ConstructorLabels == {"idle", "build", "create", "start", "provision", "ssh"}
DestroyNodeLabels == {"match", "inspect", "stop", "remove"}
OneNodeLabels == DestroyNodeLabels \cup {"ssh"}

\* Which phase a process can be in where.
PhaseInv ==
  \A c \in Clusters :
    /\ pc[c] \in ConstructorLabels => phase[c] = "init"
    /\ pc[c] \in DestroyNodeLabels => phase[c] # "init"
    /\ pc[c] \in {"list", "nodes"} => phase[c] # "user"
    /\ At(c, "body") => phase[c] = "user"
    /\ At(c, "rmtree") => phase[c] \in {"manual", "exit"}
    /\ At(c, "done") => phase[c] = "exit"

\* What the loop variables hold.
LoopInv ==
  \A c \in Clusters :
    /\ pc[c] \in {"idle", "build"} => i[c] = 1
    /\ pc[c] \in {"create", "start", "provision"} => i[c] \in Nodes
    /\ At(c, "list") => i[c] \in Roles
    /\ phase[c] = "user" \/ pc[c] \in {"rmtree", "done"} => nodes[c] = {}
    /\ pc[c] \notin OneNodeLabels => target[c] = NoAddress
    /\ ~ At(c, "inspect") => listed[c] = {}
    /\ pc[c] \notin {"stop", "remove"} => found[c] = {}
    /\ phase[c] = "init" /\ ~ At(c, "idle") => directory[c]

\* The constructor has not come to this container yet.
NotYet(x) ==
  \/ pc[x[1]] \in {"idle", "build"}
  \/ pc[x[1]] = "create" /\ x[2] >= i[x[1]]
  \/ pc[x[1]] \in {"start", "provision"} /\ x[2] > i[x[1]]

\* Containers are made in order, and destroy_node only holds containers that
\* have been running.
MadeInOrder(x) == NotYet(x) => status[x] = "absent"
StartsCreated(c) == At(c, "start") => status[<<c, i[c]>>] = "created"
Started(x) == x \in Containers /\ ~ NotYet(x) /\ status[x] # "created"

BuildInv ==
  /\ \A x \in Containers : MadeInOrder(x)
  /\ \A c \in Clusters :
       /\ StartsCreated(c)
       /\ \A x \in listed[c] \cup found[c] : Started(x)
       /\ At(c, "remove") => Started(victim[c]) /\ ~ Running(victim[c])

\* While the cluster is being destroyed, each of its running containers is
\* still to be listed, is among the nodes listed, or is the one at hand.
StillToDestroy(x) ==
  \/ At(x[1], "list") /\ i[x[1]] <= RoleOf(x[2])
  \/ address[x] \in nodes[x[1]]
  \/ At(x[1], "match") /\ address[x] = target[x[1]]
  \/ At(x[1], "inspect") /\ address[x] = target[x[1]] /\ x \in listed[x[1]]
  \/ pc[x[1]] \in {"stop", "remove"} /\ x \in found[x[1]]

DestroyInv ==
  \A x \in Containers :
    Running(x) /\ phase[x[1]] \in {"manual", "exit"} /\ ~ At(x[1], "failed")
      => StillToDestroy(x)

\* The addresses a process holds are those of running containers of its own.
Holds(c, a) == \E x \in Own(c) : address[x] = a

\* The process is looking for the container of the node at hand.
Aiming(c) == pc[c] \in {"match", "inspect"}

FreshInv ==
  \A c \in Clusters :
    /\ ~ At(c, "failed") => \A a \in nodes[c] : Holds(c, a)
    /\ Aiming(c) =>
         target[c] # NoAddress /\ Holds(c, target[c])
    /\ target[c] \notin nodes[c]
    /\ \A x \in found[c] :
         x \in Own(c) /\ address[x] = target[c] /\ address[x] # NoAddress
    /\ At(c, "remove") => victim[c] \in Own(c) /\ found[c] = {}

IInv ==
  /\ TypeOK
  /\ DaemonInv
  /\ PhaseInv
  /\ LoopInv
  /\ BuildInv
  /\ DestroyInv
  /\ KeyOutlivesNodes
  /\ exits = 0 => FreshInv
=============================================================================
