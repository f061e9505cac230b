----------------------------- MODULE NodeInstall -----------------------------
(***************************************************************************)
(* Jobs of one host on the nodes of clusters: install and upgrade DC/OS    *)
(* through Node (Cluster.from_nodes), send a file, sync a checkout.  Each  *)
(* job is a process.  All of them use Node.send_file, which takes over the *)
(* directory of the file and gives it back; jobs that install share a file *)
(* of the host, jobs that sync share a file of each node.                  *)
(***************************************************************************)
EXTENDS Naturals

CONSTANTS
  Jobs,
  Clusters,
  Masters,      \* number of nodes of each role in each cluster
  Agents,
  PublicAgents,
  Users,        \* users of the nodes that jobs communicate as
  Root,         \* the one who owns directories at first
  Nobody,       \* no content
  Garbled,      \* the content of a file that two jobs have written
  Before,       \* who installed the clusters that are installed at first
  Given,        \* bound: the kinds and clusters of jobs that run together
  ExtraFiles,   \* does the caller give files_to_copy_to_genconf_dir
  MaxFaults     \* bound: commands that fail and jobs that are interrupted

Size == Masters + Agents + PublicAgents
Nodes == Clusters \X (1 .. Size)

Kinds == {"install", "upgrade", "send", "sync"}
Installers == {"install", "upgrade"}

ASSUME NodeAssumption ==
  /\ Masters \in Nat \ {0} /\ Agents \in Nat /\ PublicAgents \in Nat
  /\ Root \in Users
  /\ Jobs \cap {Nobody, Garbled, Before} = {}
  /\ Nobody # Garbled /\ Nobody # Before /\ Garbled # Before
  /\ Given \subseteq [Jobs -> Kinds \X Clusters]
  /\ ExtraFiles \in BOOLEAN
  /\ MaxFaults \in Nat

Content == Jobs \cup {Nobody, Garbled}
Items == {"installer", "ip-detect", "config", "extra", "archive", "file"}
Ended == {"done", "failed", "interrupted", "destroyed"}
Labels == Ended \cup
  {"start", "next", "installer", "open", "write", "mkdir", "stat", "chown", "pack",
   "untar", "restore", "rmtar", "port", "genconf", "setup",
   "destroy", "clear", "extract", "rmarchive"}

VARIABLES
  kind, target, user,  \* the arguments of each job
  pc,
  at,          \* the node that the job works on
  item,        \* what it sends
  part,        \* sync: the part of the checkout that it sends
  original,    \* the owner that send_file has read
  parcel,      \* what is in the tar file of send_file
  genconf,     \* config.yaml in the job's directory on the node
  hostConfig,  \* config.yaml in the temporary directory of the host
  archive,     \* /tmp/dcos_e2e_tmp.tar on each node
  owner,       \* the owner of the directory of each node that files are sent to
  dcos,        \* who has installed each node, and with which configuration
  alive,       \* the nodes that have not been destroyed
  bootstrap,   \* whose bootstrap code was extracted last on each node ...
  tests,       \* ... and the jobs whose tests (dcos-integration-test/*.py) are there
  taken,       \* (history) where each job has taken over a directory
  misread,     \* (history) where a job has read the owner meanwhile
  disturbed,   \* (history) whose config.yaml others wrote over
  met,         \* (history) syncs of the cluster that a sync started during
  latest,      \* (history) the sync of each cluster that started last
  faults

args == <<kind, target, user>>
sending == <<item, original, parcel>>
nodes == <<dcos, alive>>
synced == <<part, archive, bootstrap, tests, met, latest>>
owners == <<owner, taken, misread>>
config == <<hostConfig, genconf, disturbed>>
vars == <<args, pc, at, sending, nodes, synced, owners, config, faults>>

At(j, label) == pc[j] = label
Goto(j, label) == pc' = [pc EXCEPT ![j] = label]
NodeOf(j) == <<target[j], at[j]>>
NodesOf(j) == {target[j]} \X (1 .. Size)
Active(j) == pc[j] \notin Ended \cup {"start"}
NotInstalled == [by |-> Nobody, config |-> Nobody]

\* One installation at a time in a cluster, and no sync during it.  (As whom
\* an installation communicates makes no difference to what is modelled.)
Init ==
  /\ \E f \in Given :
       /\ kind = [j \in Jobs |-> f[j][1]]
       /\ target = [j \in Jobs |-> f[j][2]]
  /\ \A j, q \in Jobs :
       j # q /\ target[j] = target[q] /\ kind[j] \in Installers =>
         kind[q] = "send"
  /\ user \in [Jobs -> Users]
  /\ \A j \in Jobs : kind[j] \in Installers => user[j] = Root
  /\ pc = [j \in Jobs |-> "start"]
  /\ at = [j \in Jobs |-> 1]
  /\ item = [j \in Jobs |-> "file"]
  /\ part = [j \in Jobs |-> "bootstrap"]
  /\ original = [j \in Jobs |-> Root]
  /\ parcel = [j \in Jobs |-> Nobody]
  /\ genconf = [j \in Jobs |-> Nobody]
  /\ hostConfig = Nobody
  /\ archive = [n \in Nodes |-> Nobody]
  /\ owner = [n \in Nodes |-> Root]
  /\ \E C \in SUBSET Clusters :
       /\ \A j \in Jobs : kind[j] = "install" => target[j] \notin C
       /\ dcos = [n \in Nodes |->
            IF n[1] \in C THEN [by |-> Before, config |-> Nobody]
                          ELSE NotInstalled]
  /\ alive = Nodes
  /\ bootstrap = [n \in Nodes |-> Nobody]
  /\ tests = [n \in Nodes |-> {}]
  /\ taken = [j \in Jobs |-> {}]
  /\ misread = {}
  /\ disturbed = {}
  /\ met = [j \in Jobs |-> {}]
  /\ latest = [c \in Clusters |-> Nobody]
  /\ faults = 0

-----------------------------------------------------------------------------
(* Node.send_file.  A job calls it as root or with sudo; otherwise its      *)
(* first chown fails.  Directories of the installation have names of their  *)
(* own: nobody else takes them over, and their owner is left out.           *)

InShared(j) == item[j] \in {"archive", "file"}

\* mkdir --parents
MakeParent(j) ==
  /\ At(j, "mkdir")
  /\ NodeOf(j) \in alive
  /\ Goto(j, IF InShared(j) THEN "stat" ELSE "pack")
  /\ UNCHANGED <<args, at, sending, nodes, synced, owners, config, faults>>

\* Mutant of ReadOwner: the owner is read after the chown.
ReadOwnerLate(j) ==
  /\ At(j, "stat")
  /\ NodeOf(j) \in alive
  /\ original' = [original EXCEPT ![j] = user[j]]
  /\ misread' = IF \E q \in Jobs \ {j} : NodeOf(j) \in taken[q]
                  THEN misread \cup {NodeOf(j)} ELSE misread
  /\ Goto(j, "chown")
  /\ UNCHANGED <<args, at, item, parcel, nodes, synced, owner, taken, config>>
  /\ UNCHANGED faults

\* stat -c "%U"
ReadOwner(j) ==
  /\ At(j, "stat")
  /\ NodeOf(j) \in alive
  /\ original' = [original EXCEPT ![j] = owner[NodeOf(j)]]
  /\ misread' = IF \E q \in Jobs \ {j} : NodeOf(j) \in taken[q]
                  THEN misread \cup {NodeOf(j)} ELSE misread
  /\ Goto(j, "chown")
  /\ UNCHANGED <<args, at, item, parcel, nodes, synced, owner, taken, config>>
  /\ UNCHANGED faults

\* chown to the user who sends
TakeOver(j) ==
  /\ At(j, "chown")
  /\ NodeOf(j) \in alive
  /\ owner' = [owner EXCEPT ![NodeOf(j)] = user[j]]
  /\ taken' = [taken EXCEPT ![j] = @ \cup {NodeOf(j)}]
  /\ Goto(j, "pack")
  /\ UNCHANGED <<args, at, sending, nodes, synced, misread, config, faults>>

\* What is in the tar file: config.yaml is read again here, from the host.
Pack(j) ==
  /\ At(j, "pack")
  /\ NodeOf(j) \in alive
  /\ parcel' = [parcel EXCEPT ![j] =
       IF item[j] = "config" THEN hostConfig ELSE j]
  /\ Goto(j, "untar")
  /\ UNCHANGED <<args, at, item, original, nodes, synced, owners, config>>
  /\ UNCHANGED faults

\* Mutant of Untar: a file that is there already is kept.
UntarKeep(j) ==
  /\ At(j, "untar")
  /\ NodeOf(j) \in alive
  /\ genconf' = [genconf EXCEPT ![j] = IF item[j] = "config" THEN parcel[j] ELSE @]
  /\ archive' = [archive EXCEPT ![NodeOf(j)] =
       IF item[j] = "archive" /\ @ = Nobody THEN parcel[j] ELSE @]
  /\ Goto(j, IF InShared(j) THEN "restore" ELSE "rmtar")
  /\ UNCHANGED <<args, at, sending, nodes, part, bootstrap, tests, met, latest>>
  /\ UNCHANGED <<owners, hostConfig, disturbed, faults>>

\* echo $HOME, send the tar file to the home directory under a name of its own,
\* remove the local one, and tar -x, without sudo.  In a directory that another
\* job has given away it works if everybody may write to it, as to /tmp.
Untar(j) ==
  /\ At(j, "untar")
  /\ NodeOf(j) \in alive
  /\ genconf' = [genconf EXCEPT ![j] = IF item[j] = "config" THEN parcel[j] ELSE @]
  /\ archive' = [archive EXCEPT ![NodeOf(j)] =
       IF item[j] = "archive" THEN parcel[j] ELSE @]
  /\ Goto(j, IF InShared(j) THEN "restore" ELSE "rmtar")
  /\ UNCHANGED <<args, at, sending, nodes, part, bootstrap, tests, met, latest>>
  /\ UNCHANGED <<owners, hostConfig, disturbed, faults>>

UntarRefused(j) ==
  /\ At(j, "untar")
  /\ InShared(j)
  /\ user[j] # Root /\ owner[NodeOf(j)] # user[j]
  /\ Goto(j, "failed")
  /\ UNCHANGED <<args, at, sending, nodes, synced, owners, config, faults>>

\* chown to the owner that was read
GiveBack(j) ==
  /\ At(j, "restore")
  /\ NodeOf(j) \in alive
  /\ owner' = [owner EXCEPT ![NodeOf(j)] = original[j]]
  /\ taken' = [taken EXCEPT ![j] = @ \ {NodeOf(j)}]
  /\ Goto(j, "rmtar")
  /\ UNCHANGED <<args, at, sending, nodes, synced, misread, config, faults>>

\* What follows each file that is sent.
AfterSending(j) ==
  CASE item[j] = "installer" -> <<"ip-detect", "mkdir">>
    [] item[j] = "ip-detect" -> <<"config", "open">>
    [] item[j] = "config" /\ ExtraFiles -> <<"extra", "mkdir">>
    [] item[j] = "archive" -> <<"archive", "extract">>
    [] item[j] = "file" -> <<"file", "done">>
    [] OTHER -> <<item[j], IF kind[j] = "upgrade" THEN "port" ELSE "genconf">>

RemoveTar(j) ==
  /\ At(j, "rmtar")
  /\ NodeOf(j) \in alive
  /\ item' = [item EXCEPT ![j] = AfterSending(j)[1]]
  /\ Goto(j, AfterSending(j)[2])
  /\ UNCHANGED <<args, at, original, parcel, nodes, synced, owners, config>>
  /\ UNCHANGED faults

\* minidcos send-file
Send(j) ==
  /\ At(j, "start")
  /\ kind[j] = "send"
  /\ \E k \in 1 .. Size : at' = [at EXCEPT ![j] = k]
  /\ Goto(j, "mkdir")
  /\ UNCHANGED <<args, sending, nodes, synced, owners, config, faults>>

-----------------------------------------------------------------------------
(* Installing and upgrading: the nodes one after the other.                *)

\* _node_installer_path: /dcos-install-dir/<uuid>
MakeWorkspace(j) ==
  /\ kind[j] \in Installers
  /\ pc[j] \in {"start", "next"}
  /\ NodeOf(j) \in alive
  /\ genconf' = [genconf EXCEPT ![j] = Nobody]
  /\ Goto(j, "installer")
  /\ UNCHANGED <<args, at, sending, nodes, synced, owners, hostConfig>>
  /\ UNCHANGED <<disturbed, faults>>

\* install_dcos_from_path sends the installer, install_dcos_from_url has the
\* node download it.
PutInstaller(j) ==
  /\ At(j, "installer")
  /\ NodeOf(j) \in alive
  /\ \E f \in {"installer", "ip-detect"} : item' = [item EXCEPT ![j] = f]
  /\ Goto(j, "mkdir")
  /\ UNCHANGED <<args, at, original, parcel, nodes, synced, owners, config>>
  /\ UNCHANGED faults

\* The jobs that have written, or begun to write, a config.yaml that they have
\* not packed yet.
NeedConfig ==
  {j \in Jobs : \/ pc[j] = "write"
                \/ item[j] = "config" /\ pc[j] \in {"mkdir", "pack"}}

\* Mutant of OpenConfig: the file is written for the first node only.
OpenConfigOnce(j) ==
  /\ At(j, "open")
  /\ IF at[j] > 1
       THEN Goto(j, "mkdir") /\ UNCHANGED config
       ELSE /\ hostConfig' = Nobody
            /\ disturbed' = disturbed \cup (NeedConfig \ {j})
            /\ Goto(j, "write")
            /\ UNCHANGED genconf
  /\ UNCHANGED <<args, at, sending, nodes, synced, owners, faults>>

\* Path(gettempdir()) / 'config.yaml': write_text opens and truncates the file,
\* which has the same name for every job of the host, ...
OpenConfig(j) ==
  /\ At(j, "open")
  /\ hostConfig' = Nobody
  /\ disturbed' = disturbed \cup (NeedConfig \ {j})
  /\ Goto(j, "write")
  /\ UNCHANGED <<args, at, sending, nodes, synced, owners, genconf, faults>>

\* ... and writes it from the beginning: the end of a longer text that another
\* job has written in the meantime stays.
WriteConfig(j) ==
  /\ At(j, "write")
  /\ \/ hostConfig' = j
     \/ hostConfig # Nobody /\ hostConfig' = Garbled
  /\ disturbed' = disturbed \cup (NeedConfig \ {j})
  /\ Goto(j, "mkdir")
  /\ UNCHANGED <<args, at, sending, nodes, synced, owners, genconf, faults>>

\* upgrade looks for an open port with the Python of DC/OS.
FindPort(j) ==
  /\ At(j, "port")
  /\ NodeOf(j) \in alive
  /\ dcos[NodeOf(j)] # NotInstalled
  /\ Goto(j, "genconf")
  /\ UNCHANGED <<args, at, sending, nodes, synced, owners, config, faults>>

\* --genconf, or --generate-node-upgrade-script after dcos_build_info; then the
\* installer is removed.
Genconf(j) ==
  /\ At(j, "genconf")
  /\ NodeOf(j) \in alive
  /\ Goto(j, "setup")
  /\ UNCHANGED <<args, at, sending, nodes, synced, owners, config, faults>>

\* dcos_install.sh, or the script that the upgrade generated (on agents after
\* a library file has been removed); then the next node.
Setup(j) ==
  /\ At(j, "setup")
  /\ NodeOf(j) \in alive
  /\ dcos' = [dcos EXCEPT ![NodeOf(j)] = [by |-> j, config |-> genconf[j]]]
  /\ at' = [at EXCEPT ![j] = IF @ < Size THEN @ + 1 ELSE 1]
  /\ Goto(j, IF at[j] < Size THEN "next" ELSE "done")
  /\ UNCHANGED <<args, sending, alive, synced, owners, config, faults>>

\* cluster_representation.destroy(), in the other modules call by call.
Destroy(j) ==
  /\ At(j, "destroy")
  /\ alive' = alive \ NodesOf(j)
  /\ Goto(j, "destroyed")
  /\ UNCHANGED <<args, at, sending, dcos, synced, owners, config, faults>>

-----------------------------------------------------------------------------
(* minidcos sync, of a checkout of the variant that is installed: the       *)
(* bootstrap code to all masters, then the tests to all masters.            *)

Sync(j) ==
  /\ At(j, "start")
  /\ kind[j] = "sync"
  /\ NodeOf(j) \in alive
  /\ dcos[NodeOf(j)] # NotInstalled
  /\ met' = [met EXCEPT ![j] =
       {q \in Jobs : kind[q] = "sync" /\ target[q] = target[j] /\ Active(q)}]
  /\ latest' = [latest EXCEPT ![target[j]] = j]
  /\ item' = [item EXCEPT ![j] = "archive"]
  /\ Goto(j, "mkdir")
  /\ UNCHANGED <<args, at, original, parcel, nodes, part, archive, bootstrap>>
  /\ UNCHANGED <<tests, owners, config, faults>>

\* The variant cannot be determined: exit code 1.
NoVariant(j) ==
  /\ At(j, "start")
  /\ kind[j] = "sync"
  /\ NodeOf(j) \in alive => dcos[NodeOf(j)] = NotInstalled
  /\ Goto(j, "failed")
  /\ UNCHANGED <<args, at, sending, nodes, synced, owners, config, faults>>

\* rm -rf dcos-integration-test/*.py on a master, before its tests are sent
ClearTests(j) ==
  /\ At(j, "clear")
  /\ NodeOf(j) \in alive
  /\ tests' = [tests EXCEPT ![NodeOf(j)] = {}]
  /\ Goto(j, "mkdir")
  /\ UNCHANGED <<args, at, sending, nodes, part, archive, bootstrap, met>>
  /\ UNCHANGED <<latest, owners, config, faults>>

\* tar -C <directory of the part> -xvf /tmp/dcos_e2e_tmp.tar
Extract(j) ==
  /\ At(j, "extract")
  /\ NodeOf(j) \in alive
  /\ archive[NodeOf(j)] # Nobody
  /\ IF part[j] = "bootstrap"
       THEN /\ bootstrap' = [bootstrap EXCEPT ![NodeOf(j)] = archive[NodeOf(j)]]
            /\ UNCHANGED tests
       ELSE /\ tests' = [tests EXCEPT ![NodeOf(j)] = @ \cup {archive[NodeOf(j)]}]
            /\ UNCHANGED bootstrap
  /\ Goto(j, "rmarchive")
  /\ UNCHANGED <<args, at, sending, nodes, part, archive, met, latest, owners>>
  /\ UNCHANGED <<config, faults>>

\* rm /tmp/dcos_e2e_tmp.tar; then the next master, or the next part.
RemoveArchive(j) ==
  /\ At(j, "rmarchive")
  /\ NodeOf(j) \in alive
  /\ archive[NodeOf(j)] # Nobody
  /\ archive' = [archive EXCEPT ![NodeOf(j)] = Nobody]
  /\ at' = [at EXCEPT ![j] = IF @ < Masters THEN @ + 1 ELSE 1]
  /\ IF at[j] < Masters
       THEN UNCHANGED part /\ Goto(j, IF part[j] = "tests" THEN "clear" ELSE "mkdir")
       ELSE /\ part' = [part EXCEPT ![j] = "tests"]
            /\ Goto(j, IF part[j] = "tests" THEN "done" ELSE "clear")
  /\ UNCHANGED <<args, sending, nodes, bootstrap, tests, met, latest, owners>>
  /\ UNCHANGED <<config, faults>>

-----------------------------------------------------------------------------
(* Failures.                                                               *)

\* Labels at which a job runs a command on a node.
OnNode == Labels \ (Ended \cup {"start", "open", "write", "destroy"})

\* What a job cannot do: talk to a node that has been destroyed, upgrade what
\* is not installed, read an archive that another sync has removed.  The
\* installer may or may not reject a configuration that is empty or garbled.
Impossible(j) ==
  \/ pc[j] \in OnNode /\ NodeOf(j) \notin alive
  \/ At(j, "start") /\ kind[j] \in Installers /\ NodeOf(j) \notin alive
  \/ At(j, "port") /\ dcos[NodeOf(j)] = NotInstalled
  \/ pc[j] \in {"extract", "rmarchive"} /\ archive[NodeOf(j)] = Nobody
  \/ At(j, "genconf") /\ genconf[j] \in {Nobody, Garbled}

\* Mutant of AfterFailure: an upgrade that fails leaves the cluster.
AfterFailureKeep(j) == IF kind[j] = "install" THEN "destroy" ELSE "failed"

\* CalledProcessError: minidcos destroys a cluster on which it could not
\* install, or which it could not upgrade.
AfterFailure(j) == IF kind[j] \in Installers THEN "destroy" ELSE "failed"

CommandFails(j) ==
  /\ \/ Impossible(j) /\ UNCHANGED faults
     \/ /\ pc[j] \in OnNode
        /\ faults < MaxFaults
        /\ faults' = faults + 1
  /\ Goto(j, AfterFailure(j))
  /\ UNCHANGED <<args, at, sending, nodes, synced, owners, config>>

\* Any other exception, or the job is killed.
Interrupted(j) ==
  /\ Active(j)
  /\ faults < MaxFaults
  /\ faults' = faults + 1
  /\ Goto(j, "interrupted")
  /\ UNCHANGED <<args, at, sending, nodes, synced, owners, config>>

-----------------------------------------------------------------------------
SendFile(j) ==
  \/ MakeParent(j) \/ ReadOwner(j) \/ TakeOver(j) \/ Pack(j) \/ Untar(j)
  \/ UntarRefused(j) \/ GiveBack(j) \/ RemoveTar(j)

InstallOrUpgrade(j) ==
  \/ MakeWorkspace(j) \/ PutInstaller(j) \/ OpenConfig(j) \/ WriteConfig(j)
  \/ FindPort(j) \/ Genconf(j) \/ Setup(j) \/ Destroy(j)

SyncCode(j) ==
  \/ Sync(j) \/ NoVariant(j) \/ ClearTests(j) \/ Extract(j) \/ RemoveArchive(j)

AllEnded == (\A j \in Jobs : pc[j] \in Ended) /\ UNCHANGED vars

Next ==
  \/ \E j \in Jobs : \/ Send(j) \/ SendFile(j) \/ InstallOrUpgrade(j)
                     \/ SyncCode(j) \/ CommandFails(j) \/ Interrupted(j)
  \/ AllEnded

Spec == Init /\ [][Next]_vars

-----------------------------------------------------------------------------
TypeOK ==
  /\ kind \in [Jobs -> Kinds]
  /\ target \in [Jobs -> Clusters]
  /\ user \in [Jobs -> Users]
  /\ pc \in [Jobs -> Labels]
  /\ at \in [Jobs -> 1 .. Size]
  /\ item \in [Jobs -> Items]
  /\ part \in [Jobs -> {"bootstrap", "tests"}]
  /\ original \in [Jobs -> Users]
  /\ parcel \in [Jobs -> Content]
  /\ genconf \in [Jobs -> Content]
  /\ hostConfig \in Content
  /\ archive \in [Nodes -> Content]
  /\ owner \in [Nodes -> Users]
  /\ dcos \in [Nodes -> [by : Content \cup {Before}, config : Content]]
  /\ alive \subseteq Nodes
  /\ bootstrap \in [Nodes -> Content]
  /\ tests \in [Nodes -> SUBSET Content]
  /\ taken \in [Jobs -> SUBSET Nodes]
  /\ misread \subseteq Nodes
  /\ disturbed \subseteq Jobs
  /\ met \in [Jobs -> SUBSET Jobs]
  /\ latest \in [Clusters -> Content]
  /\ faults \in 0 .. MaxFaults

-----------------------------------------------------------------------------
(* Correctness.                                                            *)

\* A node is installed with the configuration that its job was given, unless
\* another job wrote config.yaml on the host between this job's writing and
\* packing it for some node.
OwnConfig ==
  \A j \in Jobs \ disturbed : \A n \in Nodes :
    dcos[n].by = j => dcos[n].config = j

\* The owner of a directory that send_file took over is back unless a job is
\* still sending, has failed while it did, or read the owner while another had
\* the directory.
OwnerIsBack ==
  \A n \in Nodes :
    owner[n] # Root => n \in misread \/ \E j \in Jobs : n \in taken[j]

\* minidcos does not leave a cluster half installed or half upgraded: if its
\* nodes were installed by different jobs, a job is at work on them or was
\* interrupted; one that failed has destroyed it.
NeverHalfInstalled ==
  \A c \in Clusters :
    (\E m, n \in alive : m[1] = c /\ n[1] = c /\ dcos[m].by # dcos[n].by) =>
      \E j \in Jobs :
        /\ target[j] = c /\ kind[j] \in Installers
        /\ Active(j) \/ At(j, "interrupted")

\* After a sync that met no other sync, also one that repeats a sync that
\* failed, every master has the bootstrap code of its checkout and exactly its
\* tests ("Delete a test file, sync, try to run this test file - it should
\* fail", sync.py:158).
SyncIsExact ==
  \A j \in Jobs :
    /\ kind[j] = "sync" /\ At(j, "done")
    /\ latest[target[j]] = j /\ met[j] = {}
    => \A k \in 1 .. Masters :
         /\ bootstrap[<<target[j], k>>] = j
         /\ tests[<<target[j], k>>] = {j}
=============================================================================
