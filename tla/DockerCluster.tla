---------------------------- MODULE DockerCluster ----------------------------
(***************************************************************************)
(* The life of clusters of the Docker backend, as a program sees it that   *)
(* uses the library:                                                       *)
(*                                                                         *)
(*     with Cluster(cluster_backend=Docker(), masters=.., ..) as cluster:  *)
(*         ...  cluster.destroy_node(node) ...  cluster.destroy() ...      *)
(*                                                                         *)
(* Every element of Clusters is one such block, run by a process of its    *)
(* own; all of them talk to one Docker daemon, whose containers and bridge *)
(* addresses they share.  A step is one call of the Docker API or one step *)
(* on the host's file system, so the blocks interleave between calls.      *)
(***************************************************************************)
EXTENDS Naturals, FiniteSets

CONSTANTS
  Clusters,      \* the `with` blocks, each with one cluster
  Masters,       \* number of nodes of each role in each cluster
  Agents,
  PublicAgents,
  Addresses,     \* the addresses the Docker network can give out
  NoAddress,     \* a container that does not run has no address
  SshTries,      \* attempts of _wait_for_ssh for one node
  MaxFaults,     \* bound: calls that fail and processes that are killed
  MaxExits       \* bound: containers that stop running on their own

Size == Masters + Agents + PublicAgents
Nodes == 1 .. Size
Containers == Clusters \X Nodes
Roles == 1 .. 3    \* masters, agents, public agents

ASSUME CountsAssumption ==
  /\ Masters \in Nat /\ Agents \in Nat /\ PublicAgents \in Nat
  /\ SshTries \in Nat \ {0}
  /\ MaxFaults \in Nat /\ MaxExits \in Nat
ASSUME AddressAssumption == NoAddress \notin Addresses

\* Nodes are numbered in the order the constructor starts them.
RoleOf(k) == IF k <= Masters THEN 1 ELSE IF k <= Masters + Agents THEN 2 ELSE 3

Labels == {"idle", "build", "create", "start", "provision", "list", "nodes",
           "ssh", "body", "match", "inspect", "stop", "remove", "rmtree",
           "done", "failed"}
Phases == {"init", "user", "manual", "exit"}

VARIABLES
  status,     \* the daemon's view of each container
  address,    \* and its address on the network
  directory,  \* does the cluster's workspace directory (with the key) exist
  pc,         \* the call the process of the block makes next
  phase,      \* on whose behalf: the constructor, the body's destroy_node,
              \* the body's destroy, or __exit__
  i,          \* position of the loop the process is in
  nodes,      \* addresses of the Node objects still to be handled
  target,     \* address of the Node being handled
  listed,     \* the running containers of the host that destroy_node listed
  found,      \* those that it matched and has not handled yet
  victim,     \* the container that it is stopping and removing
  faults,     \* failures so far
  exits       \* containers that stopped on their own so far

daemon == <<status, address>>
locals == <<phase, i, nodes, target, listed, found, victim>>
vars == <<daemon, directory, pc, locals, faults, exits>>

NoContainer == <<>>
Running(x) == status[x] = "running"
Own(c) == {c} \X Nodes

Init ==
  /\ status = [x \in Containers |-> "absent"]
  /\ address = [x \in Containers |-> NoAddress]
  /\ directory = [c \in Clusters |-> FALSE]
  /\ pc = [c \in Clusters |-> "idle"]
  /\ phase = [c \in Clusters |-> "init"]
  /\ i = [c \in Clusters |-> 1]
  /\ nodes = [c \in Clusters |-> {}]
  /\ target = [c \in Clusters |-> NoAddress]
  /\ listed = [c \in Clusters |-> {}]
  /\ found = [c \in Clusters |-> {}]
  /\ victim = [c \in Clusters |-> NoContainer]
  /\ faults = 0
  /\ exits = 0

-----------------------------------------------------------------------------
(* Control flow shared by the operations.                                  *)

At(c, label) == pc[c] = label
Goto(c, label) == pc' = [pc EXCEPT ![c] = label]
NoFault == UNCHANGED <<faults, exits>>

Fault ==
  /\ faults < MaxFaults
  /\ faults' = faults + 1
  /\ UNCHANGED exits

\* Start collecting the nodes of the cluster, on behalf of phase p.
ListFor(c, p) ==
  /\ Goto(c, "list")
  /\ phase' = [phase EXCEPT ![c] = p]
  /\ i' = [i EXCEPT ![c] = 1]
  /\ nodes' = [nodes EXCEPT ![c] = {}]

\* The local variables of the function that an exception leaves are gone.
Forget(c) ==
  /\ i' = [i EXCEPT ![c] = 1]
  /\ nodes' = [nodes EXCEPT ![c] = {}]
  /\ target' = [target EXCEPT ![c] = NoAddress]
  /\ listed' = [listed EXCEPT ![c] = {}]
  /\ found' = [found EXCEPT ![c] = {}]
  /\ victim' = [victim EXCEPT ![c] = NoContainer]

\* Mutant of Raise: destroy removes the workspace in a `finally` clause.
RaiseWithFinally(c) ==
  /\ Forget(c)
  /\ CASE phase[c] = "init" -> Goto(c, "failed") /\ UNCHANGED phase
       [] phase[c] = "exit" -> Goto(c, "rmtree") /\ UNCHANGED phase
       [] OTHER -> Goto(c, "list") /\ phase' = [phase EXCEPT ![c] = "exit"]

\* An exception: out of the body it reaches __exit__, which destroys the
\* cluster; out of the constructor or of __exit__ itself nothing handles it.
Raise(c) ==
  /\ Forget(c)
  /\ IF phase[c] \in {"user", "manual"}
       THEN Goto(c, "list") /\ phase' = [phase EXCEPT ![c] = "exit"]
       ELSE Goto(c, "failed") /\ UNCHANGED phase

-----------------------------------------------------------------------------
(* The constructor.                                                        *)

\* The workspace directory, with the generated key pair, is made first.
MakeWorkspace(c) ==
  /\ At(c, "idle")
  /\ directory' = [directory EXCEPT ![c] = TRUE]
  /\ Goto(c, "build")
  /\ NoFault
  /\ UNCHANGED <<daemon, locals>>

BuildImage(c) ==
  /\ At(c, "build")
  /\ Goto(c, IF Size > 0 THEN "create" ELSE "list")
  /\ NoFault
  /\ UNCHANGED <<daemon, directory, locals>>

CreateContainer(c) ==
  /\ At(c, "create")
  /\ status' = [status EXCEPT ![<<c, i[c]>>] = "created"]
  /\ Goto(c, "start")
  /\ NoFault
  /\ UNCHANGED <<address, directory, locals>>

\* container.start(): the daemon gives the container a free address.
StartContainer(c) ==
  /\ At(c, "start")
  /\ \E a \in Addresses :
       /\ \A x \in Containers : address[x] # a
       /\ address' = [address EXCEPT ![<<c, i[c]>>] = a]
  /\ status' = [status EXCEPT ![<<c, i[c]>>] = "running"]
  /\ Goto(c, "provision")
  /\ NoFault
  /\ UNCHANGED <<directory, locals>>

NoAddressLeft(c) ==
  /\ At(c, "start")
  /\ \A a \in Addresses : \E x \in Containers : address[x] = a
  /\ Raise(c)
  /\ NoFault
  /\ UNCHANGED <<daemon, directory>>

\* Mutant of Provision: the loop stops one node early.
ProvisionAllButOne(c) ==
  /\ At(c, "provision")
  /\ Running(<<c, i[c]>>)
  /\ IF i[c] + 1 < Size
       THEN i' = [i EXCEPT ![c] = @ + 1] /\ Goto(c, "create")
       ELSE i' = [i EXCEPT ![c] = 1] /\ Goto(c, "list")
  /\ NoFault
  /\ UNCHANGED <<daemon, directory, phase, nodes, target>>
  /\ UNCHANGED <<listed, found, victim>>

\* The commands that configure Docker, Mesos and sshd in the container.  After
\* the last node the constructor of Cluster asks for all the nodes.
Provision(c) ==
  /\ At(c, "provision")
  /\ Running(<<c, i[c]>>)
  /\ IF i[c] < Size
       THEN i' = [i EXCEPT ![c] = @ + 1] /\ Goto(c, "create")
       ELSE i' = [i EXCEPT ![c] = 1] /\ Goto(c, "list")
  /\ NoFault
  /\ UNCHANGED <<daemon, directory, phase, nodes, target>>
  /\ UNCHANGED <<listed, found, victim>>

\* exec_run on a container that has stopped is an error of the API.
ProvisionStopped(c) ==
  /\ At(c, "provision")
  /\ ~ Running(<<c, i[c]>>)
  /\ Raise(c)
  /\ NoFault
  /\ UNCHANGED <<daemon, directory>>

-----------------------------------------------------------------------------
(* Listing nodes: masters, agents and public agents are three calls.       *)

\* Mutant of ListRole: the filter lacks the name of the cluster.
ListRoleAnyCluster(c) ==
  /\ At(c, "list")
  /\ nodes' = [nodes EXCEPT ![c] = @ \cup
       {address[x] : x \in {y \in Containers : Running(y) /\ RoleOf(y[2]) = i[c]}}]
  /\ IF i[c] < 3
       THEN i' = [i EXCEPT ![c] = @ + 1] /\ UNCHANGED pc
       ELSE i' = [i EXCEPT ![c] = 1] /\ Goto(c, "nodes")
  /\ NoFault
  /\ UNCHANGED <<daemon, directory, phase, target, listed, found, victim>>

\* Mutant of ListRole: public agents are forgotten.
ListRoleNoPublic(c) ==
  /\ At(c, "list")
  /\ nodes' = [nodes EXCEPT ![c] = @ \cup
       {address[x] : x \in {y \in Own(c) : Running(y) /\ RoleOf(y[2]) = i[c]}}]
  /\ IF i[c] < 2
       THEN i' = [i EXCEPT ![c] = @ + 1] /\ UNCHANGED pc
       ELSE i' = [i EXCEPT ![c] = 1] /\ Goto(c, "nodes")
  /\ NoFault
  /\ UNCHANGED <<daemon, directory, phase, target, listed, found, victim>>

\* client.containers.list(filters={'name': prefix}): running containers only.
ListRole(c) ==
  /\ At(c, "list")
  /\ nodes' = [nodes EXCEPT ![c] = @ \cup
       {address[x] : x \in {y \in Own(c) : Running(y) /\ RoleOf(y[2]) = i[c]}}]
  /\ IF i[c] < 3
       THEN i' = [i EXCEPT ![c] = @ + 1] /\ UNCHANGED pc
       ELSE i' = [i EXCEPT ![c] = 1] /\ Goto(c, "nodes")
  /\ NoFault
  /\ UNCHANGED <<daemon, directory, phase, target, listed, found, victim>>

\* The loops over the collected nodes, in the constructor and in destroy.
NextNode(c) ==
  /\ At(c, "nodes")
  /\ \E a \in nodes[c] :
       /\ target' = [target EXCEPT ![c] = a]
       /\ nodes' = [nodes EXCEPT ![c] = @ \ {a}]
  /\ Goto(c, IF phase[c] = "init" THEN "ssh" ELSE "match")
  /\ NoFault
  /\ UNCHANGED <<daemon, directory, phase, i, listed, found, victim>>

LastNodeDone(c) ==
  /\ At(c, "nodes")
  /\ nodes[c] = {}
  /\ Goto(c, IF phase[c] = "init" THEN "body" ELSE "rmtree")
  /\ phase' = [phase EXCEPT ![c] = IF @ = "init" THEN "user" ELSE @]
  /\ NoFault
  /\ UNCHANGED <<daemon, directory, i, nodes, target, listed, found, victim>>

-----------------------------------------------------------------------------
(* _wait_for_ssh: a fixed number of attempts for each node.                *)

SshAnswers(c) ==
  /\ At(c, "ssh")
  /\ \E x \in Containers : Running(x) /\ address[x] = target[c]
  /\ i' = [i EXCEPT ![c] = 1]
  /\ target' = [target EXCEPT ![c] = NoAddress]
  /\ Goto(c, "nodes")
  /\ NoFault
  /\ UNCHANGED <<daemon, directory, phase, nodes, listed, found, victim>>

\* Mutant of SshRefused: after the last attempt the attempts start over.
SshRefusedForever(c) ==
  /\ At(c, "ssh")
  /\ i' = [i EXCEPT ![c] = IF @ < SshTries THEN @ + 1 ELSE 1]
  /\ NoFault
  /\ UNCHANGED <<daemon, directory, pc, phase, nodes, target>>
  /\ UNCHANGED <<listed, found, victim>>

SshRefused(c) ==
  /\ At(c, "ssh")
  /\ IF i[c] < SshTries
       THEN /\ i' = [i EXCEPT ![c] = @ + 1]
            /\ UNCHANGED <<pc, phase, nodes, target, listed, found, victim>>
       ELSE Raise(c)
  /\ NoFault
  /\ UNCHANGED <<daemon, directory>>

-----------------------------------------------------------------------------
(* The body of the block.                                                  *)

\* The body picks one of the nodes and calls cluster.destroy_node(node).
BodyDestroysNode(c) ==
  /\ At(c, "body")
  /\ \E x \in Own(c) :
       /\ Running(x)
       /\ target' = [target EXCEPT ![c] = address[x]]
  /\ Goto(c, "match")
  /\ NoFault
  /\ UNCHANGED <<daemon, directory, phase, i, nodes, listed, found, victim>>

BodyDestroysCluster(c) ==
  /\ At(c, "body")
  /\ ListFor(c, "manual")
  /\ NoFault
  /\ UNCHANGED <<daemon, directory, target, listed, found, victim>>

\* Normally or with an exception of its own, the body ends in __exit__.
BodyEnds(c) ==
  /\ At(c, "body")
  /\ ListFor(c, "exit")
  /\ NoFault
  /\ UNCHANGED <<daemon, directory, target, listed, found, victim>>

-----------------------------------------------------------------------------
(* destroy_node and destroy.                                               *)

\* client.containers.list() asks for the running containers of the host ...
ListContainers(c) ==
  /\ At(c, "match")
  /\ listed' = [listed EXCEPT ![c] = {x \in Containers : Running(x)}]
  /\ Goto(c, "inspect")
  /\ NoFault
  /\ UNCHANGED <<daemon, directory, phase, i, nodes, target, found, victim>>

\* ... and then for the details of each one, whose addresses are compared with
\* that of the node.
MatchAddress(c) ==
  /\ At(c, "inspect")
  /\ \A x \in listed[c] : status[x] # "absent"
  /\ found' = [found EXCEPT ![c] = {x \in listed[c] : address[x] = target[c]}]
  /\ listed' = [listed EXCEPT ![c] = {}]
  /\ Goto(c, "stop")
  /\ NoFault
  /\ UNCHANGED <<daemon, directory, phase, i, nodes, target, victim>>

\* container.stop() gives the address back; on a container that has stopped
\* already it does nothing.
StopContainer(c) ==
  /\ At(c, "stop")
  /\ \E x \in found[c] :
       /\ status[x] # "absent"
       /\ status' = [status EXCEPT ![x] = "exited"]
       /\ address' = [address EXCEPT ![x] = NoAddress]
       /\ victim' = [victim EXCEPT ![c] = x]
       /\ found' = [found EXCEPT ![c] = @ \ {x}]
  /\ Goto(c, "remove")
  /\ NoFault
  /\ UNCHANGED <<directory, phase, i, nodes, target, listed>>

\* container.remove(v=True), by the identity of the container.
RemoveContainer(c) ==
  /\ At(c, "remove")
  /\ status[victim[c]] # "absent"
  /\ status' = [status EXCEPT ![victim[c]] = "absent"]
  /\ victim' = [victim EXCEPT ![c] = NoContainer]
  /\ Goto(c, "stop")
  /\ NoFault
  /\ UNCHANGED <<address, directory, phase, i, nodes, target, listed, found>>

\* Another process has removed the container: the daemon answers 404.
ContainerGone(c) ==
  /\ \/ At(c, "inspect") /\ \E x \in listed[c] : status[x] = "absent"
     \/ At(c, "stop") /\ \E x \in found[c] : status[x] = "absent"
     \/ At(c, "remove") /\ status[victim[c]] = "absent"
  /\ Raise(c)
  /\ NoFault
  /\ UNCHANGED <<daemon, directory>>

NodeDestroyed(c) ==
  /\ At(c, "stop")
  /\ found[c] = {}
  /\ target' = [target EXCEPT ![c] = NoAddress]
  /\ Goto(c, IF phase[c] = "user" THEN "body" ELSE "nodes")
  /\ NoFault
  /\ UNCHANGED <<daemon, directory, phase, i, nodes, listed, found, victim>>

\* The end of destroy: rmtree(path, ignore_errors=True).
RemoveWorkspace(c) ==
  /\ At(c, "rmtree")
  /\ directory' = [directory EXCEPT ![c] = FALSE]
  /\ Goto(c, IF phase[c] = "manual" THEN "body" ELSE "done")
  /\ phase' = [phase EXCEPT ![c] = IF @ = "manual" THEN "user" ELSE @]
  /\ NoFault
  /\ UNCHANGED <<daemon, i, nodes, target, listed, found, victim>>

-----------------------------------------------------------------------------
(* Failures.                                                               *)

\* A call of the Docker API raises and has had no effect.
CallFails(c) ==
  /\ pc[c] \in {"build", "create", "start", "provision", "list", "match",
                "inspect", "stop", "remove"}
  /\ At(c, "stop") => found[c] # {}
  /\ Raise(c)
  /\ Fault
  /\ UNCHANGED <<daemon, directory>>

\* container.stop() raises, for instance after a read timeout, although the
\* daemon does stop the container.
StopFailsLate(c) ==
  /\ At(c, "stop")
  /\ \E x \in found[c] :
       /\ Running(x)
       /\ status' = [status EXCEPT ![x] = "exited"]
       /\ address' = [address EXCEPT ![x] = NoAddress]
  /\ Raise(c)
  /\ Fault
  /\ UNCHANGED directory

\* The process is killed: not even __exit__ runs.
Killed(c) ==
  /\ pc[c] \notin {"idle", "done", "failed"}
  /\ Forget(c)
  /\ Goto(c, "failed")
  /\ Fault
  /\ UNCHANGED <<daemon, directory, phase>>

\* The init process of a container ends, or somebody stops the container.
ContainerExits(x) ==
  /\ exits < MaxExits
  /\ Running(x)
  /\ status' = [status EXCEPT ![x] = "exited"]
  /\ address' = [address EXCEPT ![x] = NoAddress]
  /\ exits' = exits + 1
  /\ UNCHANGED <<directory, pc, locals, faults>>

-----------------------------------------------------------------------------
Constructor(c) ==
  \/ MakeWorkspace(c) \/ BuildImage(c) \/ CreateContainer(c)
  \/ StartContainer(c) \/ NoAddressLeft(c)
  \/ Provision(c) \/ ProvisionStopped(c)

Listing(c) == ListRole(c) \/ NextNode(c) \/ LastNodeDone(c)

WaitForSsh(c) == SshAnswers(c) \/ SshRefused(c)

Body(c) == BodyDestroysNode(c) \/ BodyDestroysCluster(c) \/ BodyEnds(c)

Destroy(c) ==
  \/ ListContainers(c) \/ MatchAddress(c) \/ StopContainer(c)
  \/ RemoveContainer(c) \/ ContainerGone(c) \/ NodeDestroyed(c)
  \/ RemoveWorkspace(c)

Failure(c) == CallFails(c) \/ StopFailsLate(c) \/ Killed(c)

Progress(c) == Constructor(c) \/ Listing(c) \/ WaitForSsh(c) \/ Destroy(c)

\* Every block has ended: the programs stop.
AllEnded ==
  /\ \A c \in Clusters : pc[c] \in {"done", "failed"}
  /\ UNCHANGED vars

Next ==
  \/ \E c \in Clusters : Progress(c) \/ Body(c) \/ Failure(c)
  \/ \E x \in Containers : ContainerExits(x)
  \/ AllEnded

Spec == Init /\ [][Next]_vars

\* A process keeps running the library's code; what the body does, the
\* failures and the exits are up to the environment.
FairSpec == Spec /\ \A c \in Clusters : WF_vars(Progress(c))

-----------------------------------------------------------------------------
TypeOK ==
  /\ status \in [Containers -> {"absent", "created", "running", "exited"}]
  /\ address \in [Containers -> Addresses \cup {NoAddress}]
  /\ directory \in [Clusters -> BOOLEAN]
  /\ pc \in [Clusters -> Labels]
  /\ phase \in [Clusters -> Phases]
  /\ i \in [Clusters -> Nat \ {0}]
  /\ nodes \in [Clusters -> SUBSET Addresses]
  /\ target \in [Clusters -> Addresses \cup {NoAddress}]
  /\ listed \in [Clusters -> SUBSET Containers]
  /\ found \in [Clusters -> SUBSET Containers]
  /\ victim \in [Clusters -> Containers \cup {NoContainer}]
  /\ faults \in 0 .. MaxFaults
  /\ exits \in 0 .. MaxExits

-----------------------------------------------------------------------------
(* Correctness.                                                            *)

\* Destroying a cluster or one of its nodes never takes down a container of
\* another cluster, although destroy_node looks for its victim by address
\* among all the containers of the host: as long as containers do not stop on
\* their own, an address that the cluster has read still belongs to it.
OwnContainersOnly ==
  exits = 0 => \A c \in Clusters : found[c] \subseteq Own(c)

\* The workspace directory holds the key that opens the nodes: while a node of
\* the cluster runs, whatever fails, the directory is there.
KeyOutlivesNodes ==
  \A x \in Containers : Running(x) => directory[x[1]]

\* A `with` block that ends without an exception of the library leaves no node
\* running, also when an earlier call failed inside its body.
DoneLeavesNothingRunning ==
  \A c \in Clusters : At(c, "done") => \A x \in Own(c) : ~ Running(x)

\* "Destroy a node in the cluster" (the docstring of destroy_node), and of no
\* other cluster, whatever the nodes did.
DestroysInTheClusterOnly ==
  \A c \in Clusters : found[c] \subseteq Own(c)

\* The constructor comes to an end: with a cluster or with an exception.
ConstructorEnds ==
  \A c \in Clusters : At(c, "build") ~> pc[c] \in {"body", "failed"}

\* The stage of a cluster that the user of the library can tell.
StageOf(c) ==
  CASE At(c, "idle") -> "none"
    [] At(c, "failed") -> "givenUp"
    [] At(c, "done") -> "ended"
    [] OTHER -> IF phase[c] = "init" THEN "building" ELSE "up"

MembersOf(c) == {k \in Nodes : Running(<<c, k>>)}

Lifecycle == INSTANCE ClusterLifecycle WITH
  stage <- [c \in Clusters |-> StageOf(c)],
  members <- [c \in Clusters |-> MembersOf(c)]

\* As long as containers do not stop on their own the blocks keep the promise
\* of ClusterLifecycle, whichever calls fail and whoever is killed.
KeepsPromise == Lifecycle!Spec
=============================================================================
