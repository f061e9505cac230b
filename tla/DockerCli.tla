------------------------------- MODULE DockerCli -------------------------------
(***************************************************************************)
(* Calls of `minidcos docker` that run at the same time on one host:       *)
(* create (and provision, its first part), install, destroy and clean, and *)
(* the commands that create and destroy a loopback sidecar.                *)
(* Each call is a process; what they share is the Docker daemon and the    *)
(* workspace directories.  A cluster is known to the other calls only by   *)
(* the labels of its running containers: its ID, the node type and the     *)
(* workspace directory of the call that created it.  The nodes are reached *)
(* with docker exec, the default transport, so that no key is needed.      *)
(***************************************************************************)
EXTENDS Naturals, FiniteSets

CONSTANTS
  Calls,       \* the calls of the command line tool
  Ids,         \* cluster IDs that they are given
  Masters,     \* number of nodes of each role in each cluster
  Agents,
  PublicAgents,
  NoCall,
  Given,       \* which command each call may be, as a set of functions
  MaxFaults    \* bound: commands that fail, calls that are interrupted and
               \* containers that stop running on their own, together

Size == Masters + Agents + PublicAgents
Nodes == 1 .. Size

Commands == {"provision", "create", "install", "destroy", "clean",
             "create-loopback-sidecar", "destroy-loopback-sidecar"}
Creators == {"provision", "create"}

ASSUME CliAssumption ==
  /\ Given \subseteq [Calls -> Commands]
  /\ Masters \in Nat \ {0} /\ Agents \in Nat /\ PublicAgents \in Nat
  /\ MaxFaults \in Nat
  /\ NoCall \notin Calls

\* The containers that a call of create or provision makes, in this order.
Containers == Calls \X Nodes
Own(p) == {p} \X Nodes
\* The one that a call of create-loopback-sidecar makes.
Sidecar(p) == <<p, 0>>
Sidecars == {Sidecar(p) : p \in Calls}
RoleOf(k) == IF k <= Masters THEN 1 ELSE IF k <= Masters + Agents THEN 2 ELSE 3
IsMaster(x) == RoleOf(x[2]) = 1

Ended == {"done", "failed", "refused", "noMaster"}
Labels == Ended \cup
  {"start", "unique", "create", "run", "ssh", "list", "mkdir", "move",
   "authorize", "install", "rmtree", "stop", "remove",
   "boot", "losetup", "record", "sidecars", "detach", "halt", "discard", "all"}

VARIABLES
  command,     \* what each call does ...
  id,          \* ... and to which cluster, or to the sidecar of which name
  status,      \* the daemon's view of each container
  dir,         \* does the workspace directory of a call exist
  files,       \* of the key pair, what is where write_key_pair put it
  placedKey,   \* whose private key is in the ssh directory of the workspace
  pc,          \* the next step of each call
  i,           \* position of the loop it is in
  held,        \* the containers that it has listed and not yet removed
  lead,        \* the master whose label tells it the workspace
  victim,      \* the container that it is removing
  attached,    \* the sidecars that have a loop device on the host ...
  recorded,    \* ... and that tell which one
  settled,     \* (history) the calls that had ended when it began to look
  faults,
  exits

args == <<command, id>>
workspaces == <<dir, files, placedKey>>
locals == <<i, held, lead, victim>>
devices == <<attached, recorded>>
counters == <<faults, exits>>
vars == <<args, status, workspaces, pc, locals, devices, settled, counters>>

NoContainer == <<>>
Running(x) == status[x] = "running"
At(p, label) == pc[p] = label
Goto(p, label) == pc' = [pc EXCEPT ![p] = label]
LookAround(p) == settled' = [settled EXCEPT ![p] = {q \in Calls : pc[q] \in Ended}]

\* existing_cluster_ids: the labels of the containers that run.
ExistingIds == {id[x[1]] : x \in {y \in Containers : Running(y)}}

Init ==
  /\ command \in Given
  /\ id \in [Calls -> Ids]
  /\ status = [x \in Containers \cup Sidecars |-> "absent"]
  /\ dir = [p \in Calls |-> FALSE]
  /\ files = [p \in Calls |-> {}]
  /\ placedKey = [p \in Calls |-> NoCall]
  /\ pc = [p \in Calls |-> "start"]
  /\ i = [p \in Calls |-> 1]
  /\ held = [p \in Calls |-> {}]
  /\ lead = [p \in Calls |-> NoContainer]
  /\ victim = [p \in Calls |-> NoContainer]
  /\ attached = {}
  /\ recorded = {}
  /\ settled = [p \in Calls |-> {}]
  /\ faults = 0
  /\ exits = 0

-----------------------------------------------------------------------------
(* create and provision.                                                   *)

\* The workspace directory is made while the options are parsed, also for a
\* call that is refused afterwards.
MakeWorkspace(p) ==
  /\ At(p, "start")
  /\ command[p] \in Creators
  /\ dir' = [dir EXCEPT ![p] = TRUE]
  /\ Goto(p, "unique")
  /\ UNCHANGED <<args, status, files, placedKey, locals, devices, settled, counters>>

\* Mutant of CheckUnique: IDs are not checked.
CheckUniqueNot(p) ==
  /\ At(p, "unique")
  /\ LookAround(p)
  /\ files' = [files EXCEPT ![p] = {"private", "public"}]
  /\ Goto(p, "create")
  /\ UNCHANGED <<args, status, dir, placedKey, locals, devices, counters>>

\* check_cluster_id_unique, and the key pair.
CheckUnique(p) ==
  /\ At(p, "unique")
  /\ id[p] \notin ExistingIds
  /\ LookAround(p)
  /\ files' = [files EXCEPT ![p] = {"private", "public"}]
  /\ Goto(p, "create")
  /\ UNCHANGED <<args, status, dir, placedKey, locals, devices, counters>>

IdTaken(p) ==
  /\ At(p, "unique")
  /\ id[p] \in ExistingIds
  /\ Goto(p, "refused")
  /\ UNCHANGED <<args, status, workspaces, locals, devices, settled, counters>>

\* The constructor of DockerCluster: the nodes one by one.
CreateContainer(p) ==
  /\ At(p, "create")
  /\ status' = [status EXCEPT ![<<p, i[p]>>] = "created"]
  /\ Goto(p, "run")
  /\ UNCHANGED <<args, workspaces, locals, devices, settled, counters>>

\* container.start() and the commands that configure the node; `clean` may have
\* removed the container before it is started.
StartContainer(p) ==
  /\ At(p, "run")
  /\ status[<<p, i[p]>>] = "created"
  /\ status' = [status EXCEPT ![<<p, i[p]>>] = "running"]
  /\ IF i[p] < Size
       THEN i' = [i EXCEPT ![p] = @ + 1] /\ Goto(p, "create")
       ELSE i' = [i EXCEPT ![p] = 1] /\ Goto(p, "ssh")
  /\ UNCHANGED <<args, workspaces, held, lead, victim, devices, settled, counters>>

StartGone(p) ==
  /\ At(p, "run")
  /\ status[<<p, i[p]>>] = "removed"
  /\ Goto(p, "failed")
  /\ UNCHANGED <<args, status, workspaces, locals, devices, settled, counters>>

\* The constructor of Cluster waits for the nodes that it lists.
SshAnswers(p) ==
  /\ At(p, "ssh")
  /\ Goto(p, "list")
  /\ UNCHANGED <<args, status, workspaces, locals, devices, settled, counters>>

\* A node has stopped while it is configured, or before it answers: the call
\* ends, and nothing is cleaned up.
NodeHasGone(p) ==
  /\ \/ At(p, "create") /\ i[p] > 1 /\ ~ Running(<<p, i[p] - 1>>)
     \/ At(p, "ssh") /\ \E x \in Own(p) : ~ Running(x)
  /\ Goto(p, "failed")
  /\ UNCHANGED <<args, status, workspaces, locals, devices, settled, counters>>

\* ssh_key_path: the workspace that the label of a master names.  Its ssh
\* directory must be new; parents that are missing are made again.
MakeKeyDir(p) ==
  /\ At(p, "mkdir")
  /\ lead[p] # NoContainer
  /\ placedKey[lead[p][1]] = NoCall
  /\ dir' = [dir EXCEPT ![lead[p][1]] = TRUE]
  /\ Goto(p, "move")
  /\ UNCHANGED <<args, status, files, placedKey, locals, devices, settled, counters>>

\* No master runs (StopIteration), or the ssh directory is there already.
MakeKeyDirFails(p) ==
  /\ At(p, "mkdir")
  /\ lead[p] # NoContainer => placedKey[lead[p][1]] # NoCall
  /\ Goto(p, "failed")
  /\ UNCHANGED <<args, status, workspaces, locals, devices, settled, counters>>

\* The private key moves into the ssh directory.
MoveKey(p) ==
  /\ At(p, "move")
  /\ "private" \in files[p] /\ dir[lead[p][1]]
  /\ files' = [files EXCEPT ![p] = @ \ {"private"}]
  /\ placedKey' = [placedKey EXCEPT ![lead[p][1]] = p]
  /\ Goto(p, "authorize")
  /\ UNCHANGED <<args, status, dir, locals, devices, settled, counters>>

MoveKeyFails(p) ==
  /\ At(p, "move")
  /\ ~ ("private" \in files[p] /\ dir[lead[p][1]])
  /\ Goto(p, "failed")
  /\ UNCHANGED <<args, status, workspaces, locals, devices, settled, counters>>

\* add_authorized_key reads the public key once for every running node.  Then
\* create looks for the other nodes, to configure the installation.
Authorize(p) ==
  /\ At(p, "authorize")
  /\ "public" \in files[p] \/ \A x \in Own(p) : ~ Running(x)
  /\ IF command[p] = "provision"
       THEN Goto(p, "done") /\ UNCHANGED i
       ELSE Goto(p, "list") /\ i' = [i EXCEPT ![p] = 2]
  /\ UNCHANGED <<args, status, workspaces, held, lead, victim>>
  /\ UNCHANGED <<devices, settled, counters>>

AuthorizeFails(p) ==
  /\ At(p, "authorize")
  /\ \/ "public" \notin files[p] /\ \E x \in Own(p) : Running(x)
     \/ \E x \in Own(p) : ~ Running(x)
  /\ Goto(p, "failed")
  /\ UNCHANGED <<args, status, workspaces, locals, devices, settled, counters>>

-----------------------------------------------------------------------------
(* ClusterContainers.                                                      *)

\* install and destroy first look whether the cluster exists.
CheckExists(p) ==
  /\ At(p, "start")
  /\ command[p] \in {"install", "destroy"}
  /\ id[p] \in ExistingIds
  /\ LookAround(p)
  /\ Goto(p, "list")
  /\ UNCHANGED <<args, status, workspaces, locals, devices, counters>>

NoSuchCluster(p) ==
  /\ At(p, "start")
  /\ command[p] \in {"install", "destroy"}
  /\ id[p] \notin ExistingIds
  /\ Goto(p, "refused")
  /\ UNCHANGED <<args, status, workspaces, locals, devices, settled, counters>>

\* Mutant of AfterListing: public agents are forgotten.
AfterTwoRoles(p, r) ==
  IF command[p] \in Creators /\ r = 1 THEN "mkdir"
  ELSE IF r < 2 THEN "list"
  ELSE IF command[p] = "destroy" THEN "rmtree" ELSE "install"

\* What a call does once it has listed the nodes of role r.
AfterListing(p, r) ==
  IF command[p] \in Creators /\ r = 1 THEN "mkdir"
  ELSE IF r < 3 THEN "list"
  ELSE IF command[p] = "destroy" THEN "rmtree" ELSE "install"

\* Mutant of WithRole: the filter lacks the label of the cluster.
WithRoleAnyId(p, r) == {x \in Containers : Running(x) /\ RoleOf(x[2]) = r}

\* _containers_by_role: the running containers with the ID and the node type.
WithRole(p, r) ==
  {x \in Containers : Running(x) /\ id[x[1]] = id[p] /\ RoleOf(x[2]) = r}

\* install makes a Node of each container in a map() that a StopIteration
\* ends without an error: without a master there are no nodes at all.
Found(p, r) ==
  IF command[p] = "install" /\ r > 1 /\ lead[p] = NoContainer
    THEN {} ELSE WithRole(p, r)

\* The answers are cached: each role is listed once, and it is always the same
\* master that next(iter(masters)) returns.
ListRole(p) ==
  /\ At(p, "list")
  /\ held' = [held EXCEPT ![p] = @ \cup Found(p, i[p])]
  /\ IF i[p] > 1 \/ Found(p, 1) = {}
       THEN UNCHANGED lead
       ELSE \E x \in Found(p, 1) : lead' = [lead EXCEPT ![p] = x]
  /\ Goto(p, AfterListing(p, i[p]))
  /\ i' = [i EXCEPT ![p] = IF @ < 3 THEN @ + 1 ELSE 1]
  /\ UNCHANGED <<args, status, workspaces, victim, devices, settled, counters>>

\* create installs on the nodes of its Cluster, install on those it has found.
Targets(p) == IF command[p] = "create" THEN Own(p) ELSE held[p]

Install(p) ==
  /\ At(p, "install")
  /\ Goto(p, "done")
  /\ UNCHANGED <<args, status, workspaces, locals, devices, settled, counters>>

\* A command fails on a node that has gone: CalledProcessError, after which
\* the cluster is destroyed, or an error that nothing handles.
InstallFails(p) ==
  /\ At(p, "install")
  /\ \E x \in Targets(p) : ~ Running(x)
  /\ Goto(p, "rmtree") \/ Goto(p, "failed")
  /\ UNCHANGED <<args, status, workspaces, locals, devices, settled, counters>>

\* ClusterContainers.destroy removes the workspace before the containers ...
RemoveWorkspace(p) ==
  /\ At(p, "rmtree")
  /\ lead[p] # NoContainer
  /\ dir' = [dir EXCEPT ![lead[p][1]] = FALSE]
  /\ files' = [files EXCEPT ![lead[p][1]] = {}]
  /\ placedKey' = [placedKey EXCEPT ![lead[p][1]] = NoCall]
  /\ Goto(p, "stop")
  /\ UNCHANGED <<args, status, locals, devices, settled, counters>>

\* ... and next(iter(self.masters)) raises StopIteration without masters.
NoMaster(p) ==
  /\ At(p, "rmtree")
  /\ lead[p] = NoContainer
  /\ Goto(p, "noMaster")
  /\ UNCHANGED <<args, status, workspaces, locals, devices, settled, counters>>

\* Mutant of ListAll: it lacks all=True.
ListAllRunning(p) ==
  /\ At(p, "all")
  /\ held' = [held EXCEPT ![p] = {x \in Containers \cup Sidecars : Running(x)}]
  /\ Goto(p, "stop")
  /\ UNCHANGED <<args, status, workspaces, i, lead, victim, devices, settled>>
  /\ UNCHANGED counters

\* clean lists the containers by the prefix of their names, running or not,
\* after the sidecars that run.
ListAll(p) ==
  /\ At(p, "all")
  /\ held' = [held EXCEPT ![p] =
       {x \in Containers \cup Sidecars : status[x] \notin {"absent", "removed"}}]
  /\ Goto(p, "stop")
  /\ UNCHANGED <<args, status, workspaces, i, lead, victim, devices, settled>>
  /\ UNCHANGED counters

\* A listing asks for the containers and then for the details of each one: it
\* raises when one of them has been removed in between.
ListingBreaks(p) ==
  /\ \/ pc[p] \in {"unique", "list", "sidecars", "all"}
     \/ At(p, "start") /\ command[p] \notin Creators
  /\ \E x \in Containers \cup Sidecars : status[x] = "removed"
  /\ Goto(p, "failed")
  /\ UNCHANGED <<args, status, workspaces, locals, devices, settled, counters>>

\* Stopping a container that does not run has no effect.
StopContainer(p) ==
  /\ At(p, "stop")
  /\ \E x \in held[p] :
       /\ status[x] # "removed"
       /\ status' = [status EXCEPT ![x] = IF @ = "running" THEN "exited" ELSE @]
       /\ victim' = [victim EXCEPT ![p] = x]
       /\ held' = [held EXCEPT ![p] = @ \ {x}]
  /\ Goto(p, "remove")
  /\ UNCHANGED <<args, workspaces, i, lead, devices, settled, counters>>

\* create may have started the container in the meantime: the daemon does not
\* remove a container that runs.
RemoveContainer(p) ==
  /\ At(p, "remove")
  /\ status[victim[p]] \in {"created", "exited"}
  /\ status' = [status EXCEPT ![victim[p]] = "removed"]
  /\ victim' = [victim EXCEPT ![p] = NoContainer]
  /\ Goto(p, "stop")
  /\ UNCHANGED <<args, workspaces, i, held, lead, devices, settled, counters>>

CannotRemove(p) ==
  /\ \/ At(p, "stop") /\ \E x \in held[p] : status[x] = "removed"
     \/ At(p, "remove") /\ status[victim[p]] \in {"removed", "running"}
  /\ Goto(p, "failed")
  /\ UNCHANGED <<args, status, workspaces, locals, devices, settled, counters>>

\* After a failed installation the call exits with the error.
AllRemoved(p) ==
  /\ At(p, "stop")
  /\ held[p] = {}
  /\ Goto(p, IF command[p] \in {"destroy", "clean"} THEN "done" ELSE "failed")
  /\ UNCHANGED <<args, status, workspaces, locals, devices, settled, counters>>

-----------------------------------------------------------------------------
(* Loopback sidecars: a container each, and a loop device of the host.      *)

\* loopback_sidecars_by_name: those that run.
SidecarsNamed(name) == {x \in Sidecars : Running(x) /\ id[x[1]] = name}

CreateSidecar(p) ==
  /\ At(p, "start") /\ command[p] = "create-loopback-sidecar"
  /\ SidecarsNamed(id[p]) = {}
  /\ status' = [status EXCEPT ![Sidecar(p)] = "created"]
  /\ Goto(p, "boot")
  /\ UNCHANGED <<args, workspaces, locals, devices, settled, counters>>

StartSidecar(p) ==
  /\ At(p, "boot")
  /\ status[Sidecar(p)] = "created"
  /\ status' = [status EXCEPT ![Sidecar(p)] = "running"]
  /\ Goto(p, "losetup")
  /\ UNCHANGED <<args, workspaces, locals, devices, settled, counters>>

\* dd, and losetup --find
AttachDevice(p) ==
  /\ At(p, "losetup")
  /\ Running(Sidecar(p))
  /\ attached' = attached \cup {Sidecar(p)}
  /\ Goto(p, "record")
  /\ UNCHANGED <<args, status, workspaces, locals, recorded, settled, counters>>

\* echo ... > loopback_device_path
RecordDevice(p) ==
  /\ At(p, "record")
  /\ Running(Sidecar(p))
  /\ recorded' = recorded \cup {Sidecar(p)}
  /\ Goto(p, "done")
  /\ UNCHANGED <<args, status, workspaces, locals, attached, settled, counters>>

\* Something has removed or stopped the container in the meantime.
SidecarGone(p) ==
  /\ \/ At(p, "boot") /\ status[Sidecar(p)] # "created"
     \/ pc[p] \in {"losetup", "record"} /\ ~ Running(Sidecar(p))
  /\ Goto(p, "failed")
  /\ UNCHANGED <<args, status, workspaces, locals, devices, settled, counters>>

\* The name is taken, or there is no sidecar of that name: BadParameter.  There
\* are several: ValueError.
SidecarRefused(p) ==
  /\ At(p, "start")
  /\ \/ command[p] = "create-loopback-sidecar" /\ SidecarsNamed(id[p]) # {}
     \/ /\ command[p] = "destroy-loopback-sidecar"
        /\ Cardinality(SidecarsNamed(id[p])) # 1
  /\ Goto(p, "refused")
  /\ UNCHANGED <<args, status, workspaces, locals, devices, settled, counters>>

FindSidecar(p) ==
  /\ At(p, "start") /\ command[p] = "destroy-loopback-sidecar"
  /\ Cardinality(SidecarsNamed(id[p])) = 1
  /\ held' = [held EXCEPT ![p] = SidecarsNamed(id[p])]
  /\ Goto(p, "detach")
  /\ UNCHANGED <<args, status, workspaces, i, lead, victim, devices, settled>>
  /\ UNCHANGED counters

\* Mutant of ListSidecars: the containers alone are cleaned.
ListSidecarsNot(p) ==
  /\ At(p, "start") /\ command[p] = "clean"
  /\ LookAround(p)
  /\ Goto(p, "all")
  /\ UNCHANGED <<args, status, workspaces, locals, devices, counters>>

\* clean begins with the sidecars that run.
ListSidecars(p) ==
  /\ At(p, "start") /\ command[p] = "clean"
  /\ LookAround(p)
  /\ held' = [held EXCEPT ![p] = {x \in Sidecars : Running(x)}]
  /\ Goto(p, "detach")
  /\ UNCHANGED <<args, status, workspaces, i, lead, victim, devices, counters>>

\* DockerLoopbackVolume.destroy: cat loopback_device_path, losetup -d, ...
Detach(p) ==
  /\ At(p, "detach")
  /\ \E x \in held[p] :
       /\ Running(x) /\ x \in recorded /\ x \in attached
       /\ attached' = attached \ {x}
       /\ victim' = [victim EXCEPT ![p] = x]
       /\ held' = [held EXCEPT ![p] = @ \ {x}]
  /\ Goto(p, "halt")
  /\ UNCHANGED <<args, status, workspaces, i, lead, recorded, settled, counters>>

\* Without the record, or when the device has been detached before, an
\* assertion fails: clean ends as well.
CannotDetach(p) ==
  /\ At(p, "detach")
  /\ \E x \in held[p] : ~ (Running(x) /\ x \in recorded /\ x \in attached)
  /\ Goto(p, "failed")
  /\ UNCHANGED <<args, status, workspaces, locals, devices, settled, counters>>

\* ... stop, ...
StopSidecar(p) ==
  /\ At(p, "halt")
  /\ status[victim[p]] # "removed"
  /\ status' = [status EXCEPT ![victim[p]] = "exited"]
  /\ Goto(p, "discard")
  /\ UNCHANGED <<args, workspaces, locals, devices, settled, counters>>

\* ... and remove.
RemoveSidecar(p) ==
  /\ At(p, "discard")
  /\ status[victim[p]] = "exited"
  /\ status' = [status EXCEPT ![victim[p]] = "removed"]
  /\ victim' = [victim EXCEPT ![p] = NoContainer]
  /\ Goto(p, "detach")
  /\ UNCHANGED <<args, workspaces, i, held, lead, devices, settled, counters>>

SidecarRemovedBefore(p) ==
  /\ pc[p] \in {"halt", "discard"}
  /\ status[victim[p]] = "removed"
  /\ Goto(p, "failed")
  /\ UNCHANGED <<args, status, workspaces, locals, devices, settled, counters>>

SidecarsDestroyed(p) ==
  /\ At(p, "detach")
  /\ held[p] = {}
  /\ Goto(p, IF command[p] = "clean" THEN "all" ELSE "done")
  /\ UNCHANGED <<args, status, workspaces, locals, devices, settled, counters>>

-----------------------------------------------------------------------------
(* Failures.                                                               *)

\* A call of the daemon raises, a file operation raises, or the call is
\* interrupted; a command of the installation that fails is handled.
Fails(p) ==
  /\ pc[p] \notin Ended
  /\ faults + exits < MaxFaults
  /\ faults' = faults + 1
  /\ Goto(p, "failed") \/ (At(p, "install") /\ Goto(p, "rmtree"))
  /\ UNCHANGED <<args, status, workspaces, locals, devices, settled, exits>>

ContainerExits(x) ==
  /\ Running(x)
  /\ faults + exits < MaxFaults
  /\ exits' = exits + 1
  /\ status' = [status EXCEPT ![x] = "exited"]
  /\ UNCHANGED <<args, workspaces, pc, locals, devices, settled, faults>>

-----------------------------------------------------------------------------
Create(p) ==
  \/ MakeWorkspace(p) \/ CheckUnique(p) \/ IdTaken(p)
  \/ CreateContainer(p) \/ StartContainer(p) \/ StartGone(p)
  \/ SshAnswers(p) \/ NodeHasGone(p)
  \/ MakeKeyDir(p) \/ MakeKeyDirFails(p) \/ MoveKey(p) \/ MoveKeyFails(p)
  \/ Authorize(p) \/ AuthorizeFails(p)

Represent(p) ==
  \/ CheckExists(p) \/ NoSuchCluster(p) \/ ListRole(p) \/ ListingBreaks(p)
  \/ Install(p) \/ InstallFails(p)

Remove(p) ==
  \/ RemoveWorkspace(p) \/ NoMaster(p) \/ ListAll(p) \/ StopContainer(p)
  \/ RemoveContainer(p) \/ CannotRemove(p) \/ AllRemoved(p)

Loopback(p) ==
  \/ CreateSidecar(p) \/ StartSidecar(p) \/ AttachDevice(p) \/ RecordDevice(p)
  \/ SidecarGone(p) \/ SidecarRefused(p) \/ FindSidecar(p) \/ ListSidecars(p)
  \/ Detach(p) \/ CannotDetach(p) \/ StopSidecar(p) \/ RemoveSidecar(p)
  \/ SidecarRemovedBefore(p) \/ SidecarsDestroyed(p)

AllEnded == (\A p \in Calls : pc[p] \in Ended) /\ UNCHANGED vars

Next ==
  \/ \E p \in Calls : Create(p) \/ Represent(p) \/ Remove(p) \/ Loopback(p) \/ Fails(p)
  \/ \E x \in Containers \cup Sidecars : ContainerExits(x)
  \/ AllEnded

Spec == Init /\ [][Next]_vars

-----------------------------------------------------------------------------
TypeOK ==
  /\ command \in [Calls -> Commands]
  /\ id \in [Calls -> Ids]
  /\ status \in [Containers \cup Sidecars ->
       {"absent", "created", "running", "exited", "removed"}]
  /\ dir \in [Calls -> BOOLEAN]
  /\ files \in [Calls -> SUBSET {"private", "public"}]
  /\ placedKey \in [Calls -> Calls \cup {NoCall}]
  /\ pc \in [Calls -> Labels]
  /\ i \in [Calls -> Nat \ {0}]
  /\ held \in [Calls -> SUBSET (Containers \cup Sidecars)]
  /\ lead \in [Calls -> {x \in Containers : IsMaster(x)} \cup {NoContainer}]
  /\ victim \in [Calls -> Containers \cup Sidecars \cup {NoContainer}]
  /\ attached \subseteq Sidecars /\ recorded \subseteq Sidecars
  /\ settled \in [Calls -> SUBSET Calls]
  /\ faults \in 0 .. MaxFaults
  /\ exits \in 0 .. MaxFaults

-----------------------------------------------------------------------------
(* Correctness.                                                            *)

\* No other call for the cluster has got past the check of the ID.
Alone(p) ==
  \A q \in Calls \ {p} :
    id[q] = id[p] => pc[q] \in {"start", "unique", "refused"}

\* IDs are unique as far as the check can see: a cluster is not created under
\* the ID of one whose call had ended before the check and that still runs.
UniqueUnlessConcurrent ==
  \A p, q \in Calls :
    /\ q \in settled[p] /\ id[q] = id[p]
    /\ \E x \in Own(p) : status[x] # "absent"
    => \A x \in Own(q) : ~ Running(x)

\* A cluster that was created or provisioned keeps its workspace, with its own
\* key in place, and its nodes, whatever is done to other clusters in the
\* meantime; only clean and exits take its nodes.
CreatedIsWhole ==
  \A p \in Calls :
    At(p, "done") /\ command[p] \in Creators /\ Alone(p) =>
      /\ dir[p] /\ placedKey[p] = p
      /\ \/ exits > 0
         \/ \E q \in Calls : command[q] = "clean" /\ ~ At(q, "start")
         \/ \A x \in Own(p) : Running(x)

\* A destroy that succeeds has reached every node, also of clusters whose call
\* failed half-way, and of clusters that share the ID.
DestroyReachesAll ==
  \A p \in Calls :
    At(p, "done") /\ command[p] = "destroy" =>
      \A q \in settled[p] : id[q] = id[p] => \A x \in Own(q) : ~ Running(x)

\* When nothing else happens to a complete cluster, it leaves nothing of it
\* behind.  (A container that a failed create did not get to start remains.)
DestroyLeavesNothing ==
  \A p, q \in Calls :
    /\ At(p, "done") /\ command[p] = "destroy"
    /\ At(q, "done") /\ command[q] \in Creators
    /\ q \in settled[p] /\ id[q] = id[p]
    /\ \A r \in Calls \ {p, q} : At(r, "start") \/ id[r] # id[p]
    /\ \A r \in Calls : command[r] = "clean" => At(r, "start")
    /\ exits = 0
    => ~ dir[q] /\ \A x \in Own(q) : status[x] \in {"absent", "removed"}

\* Destroying a cluster is complete, in both senses.
DestroyIsComplete == DestroyReachesAll /\ DestroyLeavesNothing

\* A clean that succeeds has removed every container of the calls that had
\* ended, running or not, labelled or not.
CleanLeavesNoContainer ==
  \A p \in Calls :
    At(p, "done") /\ command[p] = "clean" =>
      \A q \in settled[p] :
        \A x \in Own(q) \cup {Sidecar(q)} : status[x] \in {"absent", "removed"}

\* No sidecar is removed while its loop device is attached, which nothing would
\* detach after that; but for one that stopped on its own, or that a clean met
\* while it was created.
DeviceIsReleased ==
  \A x \in attached :
    status[x] = "removed" =>
      \/ exits > 0
      \/ \E p \in Calls :
           command[p] = "clean" /\ ~ At(p, "start") /\ x[1] \notin settled[p]
=============================================================================
