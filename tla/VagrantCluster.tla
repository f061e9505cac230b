---------------------------- MODULE VagrantCluster ----------------------------
(***************************************************************************)
(* One `with Cluster(cluster_backend=Vagrant(..), ..)` block.  Its nodes   *)
(* are the VirtualBox VMs of a directory made for it, which Vagrant knows  *)
(* by that directory only; every question is a run of the vagrant command  *)
(* in it.  Blocks share nothing.  A VM may also stop on its own.           *)
(***************************************************************************)
EXTENDS Naturals

CONSTANTS
  Vms,
  Role,          \* of each VM: 1 a master, 2 an agent, 3 a public agent
  None,
  MaxFaults,     \* bound: commands that fail, processes killed
  MaxHalts       \* bound: VMs that stop on their own

ASSUME VagrantAssumption ==
  /\ Role \in [Vms -> 1 .. 3]
  /\ None \notin Vms
  /\ MaxFaults \in Nat /\ MaxHalts \in Nat

VARIABLES
  vm,         \* the state of each VM
  root,       \* is there the directory of the Vagrantfile
  pc,
  phase,      \* on whose behalf: the constructor, destroy_node, destroy, __exit__
  role,       \* whose nodes are listed
  asked,      \* VMs that status has named, still to be asked for their address
  nodes,      \* those that have answered
  target,     \* of destroy_node
  kept,       \* (history) the VMs that ran when the first one stopped on its own
  faults, halts

listing == <<role, asked, nodes>>
bounds == <<faults, halts>>
vars == <<vm, root, pc, phase, listing, target, kept, bounds>>

States == {"none", "running", "poweroff", "gone"}
Labels ==
  {"idle", "up", "list", "ask", "ssh", "body", "next", "status", "match",
   "destroy", "rmtree", "done", "failed"}
Phases == {"init", "body", "node", "manual", "exit"}

Running == {k \in Vms : vm[k] = "running"}

Init ==
  /\ vm = [k \in Vms |-> "none"]
  /\ root = FALSE
  /\ pc = "idle"
  /\ phase = "init"
  /\ role = 1 /\ asked = {} /\ nodes = {}
  /\ target = None
  /\ kept = {}
  /\ faults = 0 /\ halts = 0

-----------------------------------------------------------------------------

Goto(label) == pc' = label
GotoFor(label, p) == Goto(label) /\ phase' = p

\* masters, agents and public_agents are asked for.
ListNodes(p) ==
  GotoFor("list", p) /\ role' = 1 /\ asked' = {} /\ nodes' = {}

\* An exception of the body, or of what it calls, reaches __exit__.
Raise ==
  IF phase \in {"body", "node", "manual"}
    THEN ListNodes("exit")
    ELSE Goto("failed") /\ UNCHANGED <<phase, listing>>

\* A run of vagrant needs its directory: `step` is what it does.
Vagrant(step) ==
  IF root THEN step ELSE Raise /\ UNCHANGED <<vm, target>>

-----------------------------------------------------------------------------
(* The constructor.                                                        *)

MakeRoot ==
  /\ pc = "idle"
  /\ root' = TRUE
  /\ Goto("up")
  /\ UNCHANGED <<kept, vm, phase, listing, target, bounds>>

\* vagrant up makes one VM after the other.
BootVm ==
  /\ pc = "up"
  /\ \E k \in Vms : vm[k] = "none" /\ vm' = [vm EXCEPT ![k] = "running"]
  /\ UNCHANGED <<kept, root, pc, phase, listing, target, bounds>>

\* Mutant of UpEnds: vagrant up is not awaited.
UpEndsEarly ==
  /\ pc = "up"
  /\ ListNodes("init")
  /\ UNCHANGED <<kept, vm, root, target, bounds>>

UpEnds ==
  /\ pc = "up"
  /\ \A k \in Vms : vm[k] # "none"
  /\ ListNodes("init")
  /\ UNCHANGED <<kept, vm, root, target, bounds>>

\* _wait_for_ssh for every node: after five attempts it raises.
WaitForSsh ==
  /\ pc = "ssh"
  /\ IF nodes \subseteq Running
       THEN GotoFor("body", "body") /\ UNCHANGED listing
       ELSE Raise
  /\ UNCHANGED <<kept, vm, root, target, bounds>>

-----------------------------------------------------------------------------
(* _nodes, for each role.                                                  *)

AfterListing == IF phase = "init" THEN "ssh" ELSE "next"

ListRole ==
  /\ pc = "list"
  /\ Vagrant(
       /\ asked' = {k \in Running : Role[k] = role}
       /\ Goto("ask")
       /\ UNCHANGED <<vm, phase, role, nodes, target>>)
  /\ UNCHANGED <<kept, root, bounds>>

\* Its user, its key and its address: a VM that has stopped does not answer.
AskVm ==
  /\ pc = "ask"
  /\ \E k \in asked :
       IF k \in Running
         THEN /\ asked' = asked \ {k}
              /\ nodes' = nodes \cup {k}
              /\ UNCHANGED <<pc, phase, role>>
         ELSE Raise
  /\ UNCHANGED <<kept, vm, root, target, bounds>>

\* Mutant of RoleListed: public agents are forgotten.
TwoRolesListed ==
  /\ pc = "ask"
  /\ asked = {}
  /\ IF role < 2 THEN role' = role + 1 /\ Goto("list")
                 ELSE Goto(AfterListing) /\ UNCHANGED role
  /\ UNCHANGED <<kept, vm, root, phase, asked, nodes, target, bounds>>

RoleListed ==
  /\ pc = "ask"
  /\ asked = {}
  /\ IF role < 3 THEN role' = role + 1 /\ Goto("list")
                 ELSE Goto(AfterListing) /\ UNCHANGED role
  /\ UNCHANGED <<kept, vm, root, phase, asked, nodes, target, bounds>>

-----------------------------------------------------------------------------
(* The body.                                                               *)

\* The body has the node from the masters, agents and public agents before.
BodyDestroysNode ==
  /\ pc = "body"
  /\ \E k \in Vms : target' = k
  /\ GotoFor("status", "node")
  /\ UNCHANGED <<kept, vm, root, listing, bounds>>

BodyDestroysCluster ==
  /\ pc = "body"
  /\ ListNodes("manual")
  /\ UNCHANGED <<kept, vm, root, target, bounds>>

BodyEnds ==
  /\ pc = "body"
  /\ ListNodes("exit")
  /\ UNCHANGED <<kept, vm, root, target, bounds>>

-----------------------------------------------------------------------------
(* destroy and destroy_node.                                               *)

NextNode ==
  /\ pc = "next"
  /\ \E k \in nodes : target' = k /\ nodes' = nodes \ {k}
  /\ Goto("status")
  /\ UNCHANGED <<kept, vm, root, phase, role, asked, bounds>>

NodesDestroyed ==
  /\ pc = "next"
  /\ nodes = {}
  /\ Goto("rmtree")
  /\ UNCHANGED <<kept, vm, root, phase, listing, target, bounds>>

GetStatus ==
  /\ pc = "status"
  /\ Vagrant(
       /\ asked' = Running
       /\ Goto("match")
       /\ UNCHANGED <<vm, phase, role, nodes, target>>)
  /\ UNCHANGED <<kept, root, bounds>>

\* Mutant of MatchVm: the first VM is the last.
MatchFirstVm ==
  /\ pc = "match"
  /\ \E k \in asked :
       IF k \in Running
         THEN /\ asked' = {}
              /\ Goto(IF k = target THEN "destroy" ELSE "match")
              /\ UNCHANGED <<phase, role, nodes>>
         ELSE Raise
  /\ UNCHANGED <<kept, vm, root, target, bounds>>

\* Every running VM is asked for its address, and only the one that has the
\* node's is destroyed; the others are asked all the same.
MatchVm ==
  /\ pc = "match"
  /\ \E k \in asked :
       IF k \in Running
         THEN /\ asked' = asked \ {k}
              /\ Goto(IF k = target THEN "destroy" ELSE "match")
              /\ UNCHANGED <<phase, role, nodes>>
         ELSE Raise
  /\ UNCHANGED <<kept, vm, root, target, bounds>>

\* vagrant destroy, of a VM in any state.
DestroyVm ==
  /\ pc = "destroy"
  /\ vm' = [vm EXCEPT ![target] = "gone"]
  /\ Goto("match")
  /\ UNCHANGED <<kept, root, phase, listing, target, bounds>>

NodeDestroyed ==
  /\ pc = "match"
  /\ asked = {}
  /\ target' = None
  /\ IF phase = "node" THEN GotoFor("body", "body")
                       ELSE Goto("next") /\ UNCHANGED phase
  /\ UNCHANGED <<kept, vm, root, listing, bounds>>

RemoveRoot ==
  /\ pc = "rmtree"
  /\ root' = FALSE
  /\ IF phase = "manual" THEN GotoFor("body", "body")
                         ELSE Goto("done") /\ UNCHANGED phase
  /\ UNCHANGED <<kept, vm, listing, target, bounds>>

-----------------------------------------------------------------------------
(* Failures.                                                               *)

Fault == faults < MaxFaults /\ faults' = faults + 1 /\ UNCHANGED halts

\* A command fails, or in the body something else.
CommandFails ==
  /\ pc \in {"up", "list", "ask", "ssh", "body", "status", "match"}
  /\ Raise
  /\ Fault
  /\ UNCHANGED <<kept, vm, root, target>>

\* vagrant destroy fails, and the VM may be gone or not.
DestroyFails ==
  /\ pc = "destroy"
  /\ Raise
  /\ Fault
  /\ \/ UNCHANGED vm
     \/ vm' = [vm EXCEPT ![target] = "gone"]
  /\ UNCHANGED <<kept, root, target>>

\* rmtree removes less, or nothing, and says nothing about it.
RemovalFails ==
  /\ pc = "rmtree"
  /\ IF phase = "manual" THEN GotoFor("body", "body")
                         ELSE Goto("done") /\ UNCHANGED phase
  /\ Fault
  /\ UNCHANGED <<kept, vm, root, listing, target>>

\* Not even __exit__ runs.
Killed ==
  /\ pc \notin {"idle", "done", "failed"}
  /\ Goto("failed")
  /\ Fault
  /\ UNCHANGED <<kept, vm, root, phase, listing, target>>

\* The VM is shut down from within, or VirtualBox aborts it.
Halt ==
  /\ halts < MaxHalts
  /\ halts' = halts + 1
  /\ \E k \in Running : vm' = [vm EXCEPT ![k] = "poweroff"]
  /\ kept' = IF halts = 0 THEN Running ELSE kept
  /\ UNCHANGED <<root, pc, phase, listing, target, faults>>

-----------------------------------------------------------------------------

Constructor == MakeRoot \/ BootVm \/ UpEnds \/ WaitForSsh
Listing == ListRole \/ AskVm \/ RoleListed
Body == BodyDestroysNode \/ BodyDestroysCluster \/ BodyEnds
Destroy ==
  \/ NextNode \/ NodesDestroyed \/ GetStatus \/ MatchVm \/ DestroyVm
  \/ NodeDestroyed \/ RemoveRoot
Failure == CommandFails \/ DestroyFails \/ RemovalFails \/ Killed

Ended == pc \in {"done", "failed"} /\ UNCHANGED vars

Next == Constructor \/ Listing \/ Body \/ Destroy \/ Failure \/ Halt \/ Ended

Spec == Init /\ [][Next]_vars

-----------------------------------------------------------------------------
(* Properties.                                                             *)

\* Every variable has its type.
TypeOK ==
  /\ vm \in [Vms -> States]
  /\ root \in BOOLEAN
  /\ pc \in Labels
  /\ phase \in Phases
  /\ role \in 1 .. 3 /\ asked \subseteq Vms /\ nodes \subseteq Vms
  /\ target \in Vms \cup {None}
  /\ kept \subseteq Vms
  /\ faults \in 0 .. MaxFaults /\ halts \in 0 .. MaxHalts

\* A VM that runs has its directory, or no vagrant command would reach it any
\* more: destroy removes the directory only after the last VM that runs; and
\* when the block has ended none does.
RunningIsKnown == Running # {} => root /\ pc # "done"

\* destroy_node that returns has found its node among the VMs that run, in
\* whatever order they have answered, and it runs no more.
NodeIsGone ==
  [][phase = "node" /\ phase' = "body" => target \notin {k \in Vms : vm'[k] = "running"}]_vars

-----------------------------------------------------------------------------
(* The life of a cluster, until a VM stops on its own.                      *)

Stage ==
  IF pc = "failed" \/ halts > 0 THEN "givenUp"
  ELSE CASE pc = "idle" -> "none"
         [] pc = "done" -> "ended"
         [] OTHER -> IF phase = "init" THEN "building" ELSE "up"

Members == IF halts > 0 THEN kept ELSE Running

Lifecycle == INSTANCE ClusterLifecycle WITH
  Clusters <- {"cluster"},
  Nodes <- Vms,
  stage <- [c \in {"cluster"} |-> Stage],
  members <- [c \in {"cluster"} |-> Members]

\* The block is handed all its VMs or raises, loses one only by its own doing,
\* and has none left that runs when it ends (ClusterLifecycle).
KeepsPromise == Lifecycle!Spec
=============================================================================
