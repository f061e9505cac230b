------------------------------- MODULE CloudCli -------------------------------
(***************************************************************************)
(* Commands of `minidcos vagrant` and of `minidcos aws` that run at the    *)
(* same time: create (and provision), destroy, destroy-list, clean.  Both  *)
(* tools keep no record of their own: the machines say which cluster they  *)
(* are of.  A VirtualBox VM does in a description that it has before it    *)
(* boots, an EC2 instance in tags that it gets when its stack is complete. *)
(***************************************************************************)
EXTENDS Integers, FiniteSets

CONSTANTS
  Commands,
  Ids,          \* cluster IDs
  Masters,      \* number of machines of each role in each cluster
  Agents,
  PublicAgents,
  Given,        \* bound: the backends and kinds of commands that run together
  MaxFaults,    \* bound: failures, interrupted commands
  MaxReboots    \* bound: reboots of the host of the commands

Size == Masters + Agents + PublicAgents

\* A cluster is known by the command that creates it: two can have one ID.
Machines == Commands \X (1 .. Size)
MachinesOf(p) == {p} \X (1 .. Size)
Role(m) ==
  CASE m[2] <= Masters -> "master"
    [] m[2] \in Masters + 1 .. Masters + Agents -> "agent"
    [] OTHER -> "public_agent"

Backends == {"vagrant", "aws"}
Kinds == {"create", "destroy", "destroy-list", "clean", "clean-all"}

NoId == "none"

ASSUME CloudAssumption ==
  /\ Masters \in Nat \ {0} /\ Agents \in Nat /\ PublicAgents \in Nat
  /\ Given \subseteq Backends \X [Commands -> Kinds]
  /\ NoId \notin Ids
  /\ MaxFaults \in Nat /\ MaxReboots \in Nat

Ended == {"done", "failed", "interrupted"}
Roles == {"master", "agent", "public_agent"}
Labels == Ended \cup Roles \cup
  {"start", "import", "describe", "boot", "stack", "wait", "made", "install",
   "list", "check", "names", "destroying", "rmtree", "delete", "deleted", "all",
   "unregister"}

VARIABLES
  backend,
  kind,        \* of each command
  id,          \* the cluster ID that it works on, at first the one it is given
  todo,        \* the IDs that it still has to destroy
  pc,
  at,          \* the VM that `vagrant up` works on
  left,        \* the VMs (instances) that a command has listed and will destroy
  owner,       \* whose workspace or stack it destroys them with
  stale,       \* the VMs that clean will remove
  power,       \* absent, off or on
  marked,      \* the machines with a description (tags)
  workspace,   \* the clusters whose workspace directory exists
  stack,       \* the CloudFormation stack of each cluster, named by its ID
  raced,       \* (history) creates that met another command about their ID
  struck,      \* (history) clusters that a destroy met during their creation,
               \* or whose stack has been deleted
  building,    \* (history) creates that were active while a clean listed VMs
  aborted,     \* (history) what each clean should remove
  faults, reboots

args == <<backend, kind>>
command == <<id, todo, at, left, owner, stale>>
machines == <<power, marked>>
history == <<raced, struck, building, aborted>>
bounds == <<faults, reboots>>
vars == <<args, command, pc, machines, workspace, stack, history, bounds>>

At(p, label) == pc[p] = label
Goto(p, label) == pc' = [pc EXCEPT ![p] = label]
Active(p) == pc[p] \notin Ended \cup {"start"}
Creating(p) == kind[p] = "create" /\ Active(p)
IdOf(m) == id[m[1]]

\* The IDs that a command that runs is about.
About(p) == IF kind[p] \in {"clean", "clean-all"} THEN Ids ELSE {id[p]} \cup todo[p]

\* vm_names_by_cluster(running_only=True) and the filters of EC2: what is
\* running and marked.
Running(i) == {m \in marked : power[m] = "on" /\ IdOf(m) = i}
existing_cluster_ids == {i \in Ids : Running(i) # {}}

Init ==
  /\ \E g \in Given : backend = g[1] /\ kind = g[2]
  /\ id \in [Commands -> Ids \cup {NoId}]
  /\ \A p \in Commands : id[p] = NoId <=> kind[p] \notin {"create", "destroy"}
  /\ todo \in [Commands -> SUBSET Ids]
  /\ \A p \in Commands : kind[p] # "destroy-list" => todo[p] = {}
  /\ backend = "aws" => \A p \in Commands : kind[p] \notin {"clean", "clean-all"}
  /\ pc = [p \in Commands |-> "start"]
  /\ at = [p \in Commands |-> 1]
  /\ left = [p \in Commands |-> {}]
  /\ owner = [p \in Commands |-> p]
  /\ stale = [p \in Commands |-> {}]
  /\ power = [m \in Machines |-> "absent"]
  /\ marked = {}
  /\ workspace = {}
  /\ stack = [p \in Commands |-> "none"]
  /\ raced = {} /\ struck = {}
  /\ building = [p \in Commands |-> {}]
  /\ aborted = [p \in Commands |-> {}]
  /\ faults = 0 /\ reboots = 0

-----------------------------------------------------------------------------
(* create                                                                  *)

\* Mutant of Begin: check_cluster_id_unique is left out.
BeginUnchecked(p) ==
  /\ At(p, "start") /\ kind[p] = "create"
  /\ workspace' = workspace \cup {p}
  /\ LET met == {q \in Commands \ {p} : Active(q) /\ id[p] \in About(q)}
     IN  raced' = IF met = {} THEN raced
                  ELSE raced \cup {p} \cup {q \in met : Creating(q)}
  /\ building' = [q \in Commands |->
       IF At(q, "all") THEN building[q] \cup {p} ELSE building[q]]
  /\ Goto(p, IF backend = "vagrant" THEN "import" ELSE "stack")
  /\ UNCHANGED <<args, command, machines, stack, struck, aborted, bounds>>

\* The workspace is made while the options are read, the cluster ID is checked
\* after that.
Begin(p) ==
  /\ At(p, "start") /\ kind[p] = "create"
  /\ id[p] \notin existing_cluster_ids
  /\ workspace' = workspace \cup {p}
  /\ LET met == {q \in Commands \ {p} : Active(q) /\ id[p] \in About(q)}
     IN  raced' = IF met = {} THEN raced
                  ELSE raced \cup {p} \cup {q \in met : Creating(q)}
  /\ building' = [q \in Commands |->
       IF At(q, "all") THEN building[q] \cup {p} ELSE building[q]]
  /\ Goto(p, IF backend = "vagrant" THEN "import" ELSE "stack")
  /\ UNCHANGED <<args, command, machines, stack, struck, aborted, bounds>>

NotUnique(p) ==
  /\ At(p, "start") /\ kind[p] = "create"
  /\ id[p] \in existing_cluster_ids
  /\ workspace' = workspace \cup {p}
  /\ Goto(p, "failed")
  /\ UNCHANGED <<args, command, machines, stack, history, bounds>>

\* vagrant up: the VMs one after the other.
Import(p) ==
  /\ At(p, "import")
  /\ power' = [power EXCEPT ![<<p, at[p]>>] = "off"]
  /\ Goto(p, "describe")
  /\ UNCHANGED <<args, command, marked, workspace, stack, history, bounds>>

Describe(p) ==
  /\ At(p, "describe")
  /\ marked' = marked \cup {<<p, at[p]>>}
  /\ Goto(p, "boot")
  /\ UNCHANGED <<args, command, power, workspace, stack, history, bounds>>

\* Not if a clean has removed the VM.
Boot(p) ==
  /\ At(p, "boot")
  /\ power[<<p, at[p]>>] = "off"
  /\ power' = [power EXCEPT ![<<p, at[p]>>] = "on"]
  /\ at' = [at EXCEPT ![p] = IF @ < Size THEN @ + 1 ELSE 1]
  /\ Goto(p, IF at[p] < Size THEN "import" ELSE "made")
  /\ UNCHANGED <<args, id, todo, left, owner, stale, marked, workspace, stack>>
  /\ UNCHANGED <<history, bounds>>

\* AWS: the names of stacks are unique.
NameIsFree(p) ==
  \A q \in Commands : id[q] = id[p] => stack[q] = "none"

RequestStack(p) ==
  /\ At(p, "stack")
  /\ NameIsFree(p)
  /\ stack' = [stack EXCEPT ![p] = "creating"]
  /\ Goto(p, "wait")
  /\ UNCHANGED <<args, command, machines, workspace, history, bounds>>

\* launcher.wait(): it fails for every status that is not expected.
Waited(p) ==
  /\ At(p, "wait")
  /\ stack[p] # "creating"
  /\ Goto(p, IF stack[p] = "complete" THEN "master" ELSE "failed")
  /\ UNCHANGED <<args, command, machines, workspace, stack, history, bounds>>

AfterTagging(p) ==
  CASE pc[p] = "master" -> "agent"
    [] pc[p] = "agent" -> "public_agent"
    [] OTHER -> "made"

\* Mutant of Tag: the tags of the cluster are set on masters only.
TagMasters(p) ==
  /\ pc[p] \in Roles
  /\ marked' = marked \cup
       {m \in MachinesOf(p) : Role(m) = pc[p] /\ power[m] = "on" /\ At(p, "master")}
  /\ Goto(p, AfterTagging(p))
  /\ UNCHANGED <<args, command, power, workspace, stack, history, bounds>>

\* One call of create_tags for each role.
Tag(p) ==
  /\ pc[p] \in Roles
  /\ marked' = marked \cup
       {m \in MachinesOf(p) : Role(m) = pc[p] /\ power[m] = "on"}
  /\ Goto(p, AfterTagging(p))
  /\ UNCHANGED <<args, command, power, workspace, stack, history, bounds>>

\* provision ends here; create goes on to install DC/OS.
Provisioned(p) ==
  /\ At(p, "made")
  /\ Goto(p, "done")
  /\ UNCHANGED <<args, command, machines, workspace, stack, history, bounds>>

Installed(p) ==
  /\ At(p, "install")
  /\ Goto(p, "done")
  /\ UNCHANGED <<args, command, machines, workspace, stack, history, bounds>>

-----------------------------------------------------------------------------
(* destroy, destroy-list, and create when the installation fails           *)

\* What follows when a cluster has been destroyed.
Return(p) ==
  CASE kind[p] = "create" -> "failed"
    [] kind[p] = "destroy" -> "done"
    [] OTHER -> "list"

\* destroy_cluster; destroy-list and clean come here for each cluster.
CheckExists(p) ==
  /\ At(p, "check") \/ (At(p, "start") /\ kind[p] = "destroy")
  /\ Goto(p, IF id[p] \in existing_cluster_ids THEN "names" ELSE "failed")
  /\ UNCHANGED <<args, command, machines, workspace, stack, history, bounds>>

\* destroy-list only warns of a cluster that does not exist.
NextCluster(p) ==
  /\ At(p, "list") \/ (At(p, "start") /\ kind[p] = "destroy-list")
  /\ \E i \in todo[p] :
       /\ id' = [id EXCEPT ![p] = i]
       /\ todo' = [todo EXCEPT ![p] = @ \ {i}]
       /\ Goto(p, IF kind[p] = "clean-all" \/ i \in existing_cluster_ids
                    THEN "check" ELSE "list")
  /\ UNCHANGED <<args, at, left, owner, stale, machines, workspace, stack>>
  /\ UNCHANGED <<history, bounds>>

ListEnds(p) ==
  /\ At(p, "list") \/ (At(p, "start") /\ kind[p] = "destroy-list")
  /\ todo[p] = {}
  /\ Goto(p, IF kind[p] = "clean-all" THEN "unregister" ELSE "done")
  /\ UNCHANGED <<args, command, machines, workspace, stack, history, bounds>>

\* The next label of a command that has listed its VMs.
AfterNames(p) == IF At(p, "made") THEN "install" ELSE "destroying"

\* Mutant of Names: the workspace is removed first.
NamesRemove(p) ==
  /\ backend = "vagrant" /\ pc[p] \in {"made", "names"}
  /\ left' = [left EXCEPT ![p] = Running(id[p])]
  /\ \E m \in Running(id[p]) :
       /\ m[1] \in workspace
       /\ owner' = [owner EXCEPT ![p] = m[1]]
       /\ workspace' = IF At(p, "names") THEN workspace \ {m[1]} ELSE workspace
       /\ struck' = IF Creating(m[1]) /\ m[1] # p THEN struck \cup {m[1]} ELSE struck
  /\ Goto(p, AfterNames(p))
  /\ UNCHANGED <<args, id, todo, at, stale, machines, stack>>
  /\ UNCHANGED <<raced, building, aborted, bounds>>

\* ClusterVMs lists the running VMs and remembers them, takes the workspace of
\* one of them and looks for the Vagrantfile in it.  create does this before it
\* installs DC/OS.
Names(p) ==
  /\ backend = "vagrant" /\ pc[p] \in {"made", "names"}
  /\ left' = [left EXCEPT ![p] = Running(id[p])]
  /\ \E m \in Running(id[p]) :
       /\ m[1] \in workspace
       /\ owner' = [owner EXCEPT ![p] = m[1]]
       /\ struck' = IF Creating(m[1]) /\ m[1] # p THEN struck \cup {m[1]} ELSE struck
  /\ Goto(p, AfterNames(p))
  /\ UNCHANGED <<args, id, todo, at, stale, machines, workspace, stack>>
  /\ UNCHANGED <<raced, building, aborted, bounds>>

\* No VM runs, or the workspace is gone: an exception.
NoNames(p) ==
  /\ backend = "vagrant" /\ pc[p] \in {"made", "names"}
  /\ \/ Running(id[p]) = {}
     \/ \E m \in Running(id[p]) : m[1] \notin workspace
  /\ Goto(p, "failed")
  /\ UNCHANGED <<args, command, machines, workspace, stack, history, bounds>>

\* vagrant destroy in the directory of the owner's Vagrantfile: Vagrant knows
\* only the VMs that were made there.
DestroyVm(p) ==
  /\ At(p, "destroying")
  /\ \E m \in left[p] \cap MachinesOf(owner[p]) :
       /\ power' = [power EXCEPT ![m] = "absent"]
       /\ marked' = marked \ {m}
       /\ left' = [left EXCEPT ![p] = @ \ {m}]
  /\ UNCHANGED <<args, id, todo, pc, at, owner, stale, workspace, stack, history>>
  /\ UNCHANGED bounds

\* Mutant of VmsDestroyed: only the masters are destroyed.
MastersDestroyed(p) ==
  /\ At(p, "destroying")
  /\ \A m \in left[p] \cap MachinesOf(owner[p]) : Role(m) # "master"
  /\ Goto(p, "rmtree")
  /\ UNCHANGED <<args, command, machines, workspace, stack, history, bounds>>

\* vagrant destroy has come to its end.
VmsDestroyed(p) ==
  /\ At(p, "destroying")
  /\ left[p] \cap MachinesOf(owner[p]) = {}
  /\ Goto(p, "rmtree")
  /\ UNCHANGED <<args, command, machines, workspace, stack, history, bounds>>

RemoveWorkspace(p) ==
  /\ At(p, "rmtree")
  /\ workspace' = workspace \ {owner[p]}
  /\ Goto(p, Return(p))
  /\ UNCHANGED <<args, command, machines, stack, history, bounds>>

\* ClusterInstances.destroy: the configuration is valid if the number of
\* running masters is; then the stack is found by its name.
ListInstances(p) ==
  /\ backend = "aws" /\ At(p, "names")
  /\ Cardinality({m \in Running(id[p]) : Role(m) = "master"}) \in {1, 3, 5, 7, 9}
  /\ \E q \in Commands :
       /\ id[q] = id[p] /\ stack[q] # "none"
       /\ owner' = [owner EXCEPT ![p] = q]
  /\ left' = [left EXCEPT ![p] = Running(id[p])]
  /\ Goto(p, "delete")
  /\ UNCHANGED <<args, id, todo, at, stale, machines, workspace, stack, history>>
  /\ UNCHANGED bounds

NoInstances(p) ==
  /\ backend = "aws" /\ At(p, "names")
  /\ \/ Cardinality({m \in Running(id[p]) : Role(m) = "master"}) \notin {1, 3, 5, 7, 9}
     \/ NameIsFree(p)
  /\ Goto(p, "failed")
  /\ UNCHANGED <<args, command, machines, workspace, stack, history, bounds>>

\* DcosCloudformationLauncher.delete, of a stack that nobody updates
Delete(p) ==
  /\ At(p, "delete")
  /\ stack[owner[p]] \in {"complete", "stuck"}
  /\ stack' = [stack EXCEPT ![owner[p]] = "deleting"]
  /\ struck' = struck \cup {owner[p]}
  /\ Goto(p, "deleted")
  /\ UNCHANGED <<args, command, machines, workspace, raced, building, aborted>>
  /\ UNCHANGED bounds

\* Another command deletes it, or has deleted it (or its name has been taken
\* again: the stack is known by the ID that AWS gave it).
DeletedBefore(p) ==
  /\ At(p, "delete")
  /\ stack[owner[p]] \in {"deleting", "none"}
  /\ Goto(p, IF stack[owner[p]] = "none" THEN Return(p) ELSE "failed")
  /\ UNCHANGED <<args, command, machines, workspace, stack, history, bounds>>

DeleteWaited(p) ==
  /\ At(p, "deleted")
  /\ stack[owner[p]] # "deleting"
  /\ Goto(p, IF stack[owner[p]] = "none" THEN Return(p) ELSE "failed")
  /\ UNCHANGED <<args, command, machines, workspace, stack, history, bounds>>

-----------------------------------------------------------------------------
(* minidcos vagrant clean                                                  *)

\* Its first list: the clusters with a running VM.
ReadRunning(p) ==
  /\ At(p, "start") /\ kind[p] \in {"clean", "clean-all"}
  /\ todo' = [todo EXCEPT ![p] = existing_cluster_ids]
  /\ building' = [building EXCEPT ![p] = {q \in Commands : Creating(q)}]
  /\ aborted' = [aborted EXCEPT ![p] =
       {m \in marked : power[m] = "off" /\ IdOf(m) \notin existing_cluster_ids}]
  /\ Goto(p, "all")
  /\ UNCHANGED <<args, id, at, left, owner, stale, machines, workspace, stack>>
  /\ UNCHANGED <<raced, struck, bounds>>

\* Mutant of ReadAll: the VMs that do not run, of all clusters.
ReadAllOff(p) ==
  /\ At(p, "all")
  /\ stale' = [stale EXCEPT ![p] = {m \in marked : power[m] = "off"}]
  /\ Goto(p, IF kind[p] = "clean-all" THEN "list" ELSE "unregister")
  /\ UNCHANGED <<args, id, todo, at, left, owner, machines, workspace, stack>>
  /\ UNCHANGED <<history, bounds>>

\* Its second list: all VMs with a description, of the clusters that are not
\* in the first.
ReadAll(p) ==
  /\ At(p, "all")
  /\ stale' = [stale EXCEPT ![p] = {m \in marked : IdOf(m) \notin todo[p]}]
  /\ Goto(p, IF kind[p] = "clean-all" THEN "list" ELSE "unregister")
  /\ UNCHANGED <<args, id, todo, at, left, owner, machines, workspace, stack>>
  /\ UNCHANGED <<history, bounds>>

\* Mutant of CleanEnds: one VM of each cluster is removed.
CleanEndsEarly(p) ==
  /\ At(p, "unregister")
  /\ \A m, n \in stale[p] : m[1] = n[1] => m = n
  /\ Goto(p, "done")
  /\ UNCHANGED <<args, command, machines, workspace, stack, history, bounds>>

CleanEnds(p) ==
  /\ At(p, "unregister")
  /\ stale[p] = {}
  /\ Goto(p, "done")
  /\ UNCHANGED <<args, command, machines, workspace, stack, history, bounds>>

\* VBoxManage unregistervm --delete
Unregister(p) ==
  /\ At(p, "unregister")
  /\ \E m \in stale[p] :
       /\ power[m] = "off"
       /\ power' = [power EXCEPT ![m] = "absent"]
       /\ marked' = marked \ {m}
       /\ stale' = [stale EXCEPT ![p] = @ \ {m}]
  /\ UNCHANGED <<args, id, todo, pc, at, left, owner, workspace, stack, history>>
  /\ UNCHANGED bounds

\* It is not done to a VM that runs, or is not there any more: clean stops.
UnregisterFails(p) ==
  /\ At(p, "unregister")
  /\ \E m \in stale[p] : power[m] # "off"
  /\ Goto(p, "failed")
  /\ UNCHANGED <<args, command, machines, workspace, stack, history, bounds>>

-----------------------------------------------------------------------------
(* CloudFormation                                                          *)

Launch(m) ==
  /\ stack[m[1]] = "creating" /\ power[m] = "absent"
  /\ power' = [power EXCEPT ![m] = "on"]
  /\ UNCHANGED <<args, command, pc, marked, workspace, stack, history, bounds>>

StackComplete(p) ==
  /\ stack[p] = "creating"
  /\ \A m \in MachinesOf(p) : power[m] = "on"
  /\ stack' = [stack EXCEPT ![p] = "complete"]
  /\ UNCHANGED <<args, command, pc, machines, workspace, history, bounds>>

\* ROLLBACK_COMPLETE: its instances are gone, but not its name.
StackFails(p) ==
  /\ stack[p] = "creating"
  /\ faults < MaxFaults
  /\ stack' = [stack EXCEPT ![p] = "failed"]
  /\ power' = [m \in Machines |-> IF m[1] = p THEN "absent" ELSE power[m]]
  /\ faults' = faults + 1
  /\ UNCHANGED <<args, command, pc, marked, workspace, history, reboots>>

Terminate(m) ==
  /\ stack[m[1]] = "deleting" /\ power[m] = "on"
  /\ power' = [power EXCEPT ![m] = "absent"]
  /\ marked' = marked \ {m}
  /\ UNCHANGED <<args, command, pc, workspace, stack, history, bounds>>

StackDeleted(p) ==
  /\ stack[p] = "deleting"
  /\ \A m \in MachinesOf(p) : power[m] = "absent"
  /\ stack' = [stack EXCEPT ![p] = "none"]
  /\ UNCHANGED <<args, command, pc, machines, workspace, history, bounds>>

\* DELETE_FAILED
DeletionFails(p) ==
  /\ stack[p] = "deleting"
  /\ faults < MaxFaults
  /\ stack' = [stack EXCEPT ![p] = "stuck"]
  /\ faults' = faults + 1
  /\ UNCHANGED <<args, command, pc, machines, workspace, history, reboots>>

-----------------------------------------------------------------------------
(* Failures                                                                *)

\* What a command runs fails, or the command is interrupted.
Stops(p) ==
  /\ Active(p)
  /\ faults < MaxFaults
  /\ faults' = faults + 1
  /\ Goto(p, "interrupted")
  /\ UNCHANGED <<args, command, machines, workspace, stack, history, reboots>>

\* vagrant up cannot boot a VM that a clean has removed.
BootFails(p) ==
  /\ At(p, "boot")
  /\ power[<<p, at[p]>>] = "absent"
  /\ Goto(p, "failed")
  /\ UNCHANGED <<args, command, machines, workspace, stack, history, bounds>>

\* AWS: the name is taken.  LauncherError.
NameIsTaken(p) ==
  /\ At(p, "stack")
  /\ ~ NameIsFree(p)
  /\ Goto(p, "failed")
  /\ UNCHANGED <<args, command, machines, workspace, stack, history, bounds>>

BeginInstall(p) ==
  /\ backend = "aws" /\ At(p, "made")
  /\ Goto(p, "install")
  /\ UNCHANGED <<args, command, machines, workspace, stack, history, bounds>>

\* create destroys the cluster, without a check, and with the VMs that it has
\* listed before.
InstallFails(p) ==
  /\ At(p, "install")
  /\ faults < MaxFaults
  /\ faults' = faults + 1
  /\ Goto(p, IF backend = "vagrant" THEN "destroying" ELSE "names")
  /\ UNCHANGED <<args, command, machines, workspace, stack, history, reboots>>

\* The host of the commands reboots: commands end, VMs are aborted, and what
\* is in /tmp may be gone.
Reboot ==
  /\ reboots < MaxReboots
  /\ reboots' = reboots + 1
  /\ pc' = [p \in Commands |-> IF Active(p) THEN "interrupted" ELSE pc[p]]
  /\ power' = [m \in Machines |->
       IF backend = "vagrant" /\ power[m] = "on" THEN "off" ELSE power[m]]
  /\ workspace' \in {workspace, {}}
  /\ UNCHANGED <<args, command, marked, stack, history, faults>>

-----------------------------------------------------------------------------
Create(p) ==
  \/ Begin(p) \/ NotUnique(p) \/ Import(p) \/ Describe(p) \/ Boot(p) \/ BootFails(p)
  \/ RequestStack(p) \/ NameIsTaken(p) \/ Waited(p) \/ Tag(p) \/ Provisioned(p)
  \/ BeginInstall(p) \/ Installed(p) \/ InstallFails(p)

Destroy(p) ==
  \/ CheckExists(p) \/ NextCluster(p) \/ ListEnds(p) \/ Names(p) \/ NoNames(p)
  \/ DestroyVm(p) \/ VmsDestroyed(p) \/ RemoveWorkspace(p)
  \/ ListInstances(p) \/ NoInstances(p) \/ Delete(p) \/ DeletedBefore(p) \/ DeleteWaited(p)

Clean(p) ==
  ReadRunning(p) \/ ReadAll(p) \/ CleanEnds(p) \/ Unregister(p) \/ UnregisterFails(p)

CloudFormation ==
  \/ \E m \in Machines : Launch(m) \/ Terminate(m)
  \/ \E p \in Commands : \/ StackComplete(p) \/ StackFails(p)
                         \/ StackDeleted(p) \/ DeletionFails(p)

AllEnded == (\A p \in Commands : pc[p] \in Ended) /\ UNCHANGED vars

Next ==
  \/ \E p \in Commands : Create(p) \/ Destroy(p) \/ Clean(p) \/ Stops(p)
  \/ CloudFormation
  \/ Reboot
  \/ AllEnded

Spec == Init /\ [][Next]_vars

-----------------------------------------------------------------------------
TypeOK ==
  /\ backend \in Backends
  /\ kind \in [Commands -> Kinds]
  /\ id \in [Commands -> Ids \cup {NoId}]
  /\ todo \in [Commands -> SUBSET Ids]
  /\ pc \in [Commands -> Labels]
  /\ at \in [Commands -> 1 .. Size]
  /\ left \in [Commands -> SUBSET Machines]
  /\ owner \in [Commands -> Commands]
  /\ stale \in [Commands -> SUBSET Machines]
  /\ power \in [Machines -> {"absent", "off", "on"}]
  /\ marked \subseteq Machines
  /\ workspace \subseteq Commands
  /\ stack \in [Commands ->
       {"none", "creating", "complete", "failed", "deleting", "stuck"}]
  /\ raced \subseteq Commands /\ struck \subseteq Commands
  /\ building \in [Commands -> SUBSET Commands]
  /\ aborted \in [Commands -> SUBSET Machines]
  /\ faults \in 0 .. MaxFaults /\ reboots \in 0 .. MaxReboots

-----------------------------------------------------------------------------
(* Correctness                                                             *)

\* The machines that run under one ID are of one cluster, unless its creates
\* ran at the same time, or one of them did while the cluster was destroyed.
\* (On AWS they are even then: only one of the creates gets the stack.)
OneClusterPerId ==
  \A i \in Ids : \A m, n \in Running(i) :
    m[1] # n[1] => backend = "vagrant" /\ m[1] \in raced /\ n[1] \in raced

\* What is left of a cluster can still be destroyed with minidcos, unless a
\* destroy met its creation or its stack has been deleted in part: a VM that
\* runs has its workspace, a tagged instance that runs has a tagged master.
\* (A reboot may take the workspace, but then the VMs do not run.)
Destroyable ==
  \A m \in marked :
    power[m] = "on" /\ m[1] \notin struck =>
      IF backend = "vagrant"
        THEN m[1] \in workspace
        ELSE \E n \in marked : n[1] = m[1] /\ power[n] = "on" /\ Role(n) = "master"

\* A cluster that has been made is listed as a whole.  (On AWS one that is
\* interrupted before its tags is not.)
MadeIsListed ==
  \A p \in Commands : pc[p] \in {"made", "install"} =>
    \A m \in MachinesOf(p) : power[m] = "on" => m \in marked

\* When a cluster has been destroyed none of its machines runs, nor of any
\* cluster with its ID but one that met another command.
DestroyIsWhole ==
  [][\A p \in Commands :
       pc[p] \in {"rmtree", "deleted"} /\ pc'[p] \in {"done", "list"} =>
         \A m \in Machines : IdOf(m) = id[p] /\ power'[m] = "on" =>
           m[1] \in raced \/ (backend = "vagrant" /\ m[1] \in struck)]_vars

\* Clean removes no VM of a cluster of which a VM runs, unless it was being
\* created while clean listed the VMs.
CleanSparesRunning ==
  [][\A p \in Commands : \A m \in stale[p] \ stale'[p] :
       \A n \in MachinesOf(m[1]) :
         power[n] = "on" => m[1] \in building[p]]_vars

\* "This is useful in removing paused and aborted VMs" (clean.py:28): after a
\* clean the VMs are gone that did not run when it began, but for those whose
\* ID a running cluster had.
CleanRemovesAborted ==
  \A p \in Commands : At(p, "done") =>
    \A m \in aborted[p] : power[m] = "absent"
=============================================================================
