# A verification project for dcos-e2e

dcos-e2e creates, installs and destroys DC/OS clusters for tests.  It is a
Python library (`src/dcos_e2e`) with back ends for Docker, AWS and Vagrant, and
a command line tool, `minidcos` (`src/dcos_e2e_cli`), on top of it.  Nothing in
it is a server: every `with Cluster(...)` block of a test program and every
call of `minidcos` is a process of its own, and they meet in the things they
share: the Docker daemon, the addresses it gives out, the labels on its
containers, files on the host, AWS resources and VMs.  What can go wrong goes
wrong between the calls that these processes make, so the modules here model
the processes call by call and let them interleave, fail and be killed.

## The system

| Component | State | Operations | Hard behaviour | What makes it correct |
|---|---|---|---|---|
| `Cluster` (`cluster.py`) | the back end's cluster object | construct, wait for SSH, install, upgrade, wait, `destroy_node`, `destroy`, leave the `with` block | failure in the constructor, failure in the body, `destroy` repeated | a block that ends normally leaves no node; the constructor ends |
| Docker back end (`backends/_docker`) | containers, their addresses, a workspace directory with a key pair, a random cluster ID | create and start nodes, list them, stop and remove them | several clusters on one daemon, calls that fail half-way, containers that stop | destroying stays in the cluster, the key outlives the nodes |
| `minidcos docker` (`dcos_docker/commands`) | labels of containers, workspaces, moved keys | provision, create, install, upgrade, destroy, clean, list | calls that overlap; a cluster is found through its running containers only | IDs are unique, destroy reaches everything, other clusters are left alone |
| `Node` (`node.py`, `_node_transports`) | files and owners on the node, temporary files on the host | run, send and download files, install, upgrade | a protocol of many commands, shared names of temporary files | the node gets the configuration of its caller, owners are restored |
| Waiting (`_wait_for_dcos.py`, `common/wait.py`) | a temporary SSO user | wait for OSS or Enterprise | retries without limit under one timeout | waiting ends, the user is removed |
| Loopback volumes (`docker_utils`) | a sidecar container, a device of the host | create, destroy | device and record of it are made in two steps | a sidecar goes only after its device |
| AWS back end and CLI | a stack, a key pair, tags, a workspace | create, tag, list, destroy | tagging after creating, a stack that CloudFormation changes meanwhile, key pairs by name | what runs is listed, a block leaves nothing in the account and deletes its own key pair only, a workspace outlives its instances |
| Vagrant back end and CLI | VMs, a workspace with the Vagrantfile | create, list, destroy a node or all, clean | VMs that do not run, VMs that answer in any order | a workspace exists as long as its VMs run |
| Existing clusters | node sets | install; destroy is not implemented | used by the CLI for every command on a cluster | `with` does not fail |
| Subprocesses (`_subprocess_tools.py`) | two pipes, two line buffers | run, collect and log output | polling two pipes of a process that ends | all output is read, lines are whole, the call ends |
| macOS network (`mac_network.py`) | two containers of fixed names, a file | set up, destroy | calls at the same time, what an aborted call leaves, a loop without limit | `--force` resolves conflicts, the file is the container's, the loop ends |
| Doctor (`common/doctor.py`, `*/doctor.py`) | a container or cluster per check | look, tell, clean up | checks that rely on earlier ones, a call that fails in the middle of a check | every problem is told, the exit code says so, nothing is left running |
| `sync` (`common/sync.py`) | one fixed path on nodes | send, extract | two syncs, a sync after a failed one | masters have the checkout and nothing else |
| Options, transports, image build | none that outlives a call | see the source | | |

`Cluster` calls its back end; the CLI calls `Cluster` to create nodes and then
represents the cluster by what the back end lists; installing goes through
`Node`, which goes through a transport that runs a subprocess.  Vendored
packages and the release tooling are left aside.  PROJECT.json lists all
components with their status, and the hazards, each at its line.

## The modules

| Module | Models | |
|---|---|---|
| `ClusterLifecycle` | the promise of the library to the user of a cluster | abstract specification |
| `DockerCluster` | `with Cluster(cluster_backend=Docker(..))` blocks on one daemon: `cluster.py` and `backends/_docker` | implements `ClusterLifecycle` |
| `DockerClusterInv` | the inductive invariant of `DockerCluster` | |
| `DockerCluster_proofs` | theorems about `DockerCluster`, and that it implements `ClusterLifecycle` | TLAPS |
| `AwsCluster` | `with Cluster(cluster_backend=AWS(..))` blocks of one account: `cluster.py`, `backends/_aws`, the launcher in `_vendor/dcos_launch/aws.py` | implements `ClusterLifecycle` |
| `AwsCluster_proofs` | theorems about `AwsCluster` | TLAPS |
| `VagrantCluster` | a `with Cluster(cluster_backend=Vagrant(..))` block: `cluster.py` and `backends/_vagrant` | implements `ClusterLifecycle` |
| `VagrantCluster_proofs` | theorems about `VagrantCluster` | TLAPS |
| `DockerCli` | calls of `minidcos docker` on one daemon, loopback sidecars among them | |
| `DockerCli_proofs` | theorems about `DockerCli` | TLAPS |
| `CloudCli` | commands of `minidcos vagrant` and `minidcos aws`: create, provision, destroy, destroy-list, clean | |
| `CloudCli_proofs` | theorems about `CloudCli` | TLAPS |
| `NodeInstall` | jobs on nodes: `Node.send_file`, installing and upgrading DC/OS, `send-file`, `sync` | |
| `NodeInstall_proofs` | theorems about `NodeInstall` | TLAPS |
| `WaitForDcos` | waiting for DC/OS OSS and Enterprise: `_wait_for_dcos.py`, `common/wait.py` and what they use of dcos-test-utils | |
| `MacNetwork` | calls of `setup-mac-network` and `destroy-mac-network` | |
| `MacNetwork_proofs` | theorems about `MacNetwork` | TLAPS |
| `Doctor` | a run of one of the three doctors | |
| `RunSubprocess` | `run_subprocess` and the process that it runs | |
| `Calls_proofs` | theorems about `WaitForDcos`, `RunSubprocess` and `Doctor` | TLAPS |
| `MCDockerCluster`, `MCDockerCli`, `MCNodeInstall`, `MCWaitForDcos`, `MCCloudCli`, `MCAwsCluster`, `MCVagrantCluster`, `MCMacNetwork` | constants of the instances that TLC checks | |

The modules cut the system where it is loosely coupled.  `DockerCluster` and
`DockerCli` are the life of nodes, and treat an installation as one step;
`NodeInstall` is what happens on the nodes during that step, and treats
destroying a cluster as one step; `WaitForDcos` begins when both are over;
`CloudCli` is the part of `DockerCli` that the other back ends do differently,
because they find clusters by other means, as `AwsCluster` and `VagrantCluster`
are what they do differently from `DockerCluster`.  What the three back ends
have in common is `ClusterLifecycle`: a cluster is handed to its user with all
its nodes or given up, loses nodes only by its user's doing, and has none when
its block ends.  Each of the three implements it under a refinement mapping
(`Stage` and `Members` of the module) that says what "up", "given up" and "a
node" are for it.  `MacNetwork`, `Doctor` and `RunSubprocess` stand alone.  The
names of the last two begin with `Doctor` and `Subprocess` where another module
has the same ones, because `Calls_proofs` extends both.

### DockerCluster

Each element of `Clusters` is a block.  `pc` names the next call of the Docker
API (or step on the file system) of its process; `phase` says on whose behalf
the process lists, matches, stops and removes: the constructor (`init`), a
`destroy_node` of the body (`user`), a `destroy` of the body (`manual`) or
`__exit__` (`exit`).  The shared state is the daemon's: the `status` of every
container, and its `address`, which a container has while it runs and which the
daemon can give to any container afterwards.  `directory` is the workspace with
the key pair.  The actions follow the source in order:

- constructor: `MakeWorkspace`, `BuildImage`, then for each node
  `CreateContainer`, `StartContainer`, `Provision` (`start_dcos_container`),
  then `ListRole` for each role and `SshAnswers`/`SshRefused` for each node
  (`_wait_for_ssh`, a bounded number of attempts per node);
- body: nothing in the model says what a test does, except that it may call
  `destroy_node` on a node that it has just listed, or `destroy`, any number of
  times, and that it ends;
- `destroy_node`: `ListContainers` asks for the running containers of the host
  and `MatchAddress` for their details (docker-py does one request for the list
  and one for each container; the model takes the details in one step), then
  `StopContainer` and `RemoveContainer` for each match;
- `destroy`: `ListRole` three times, `destroy_node` for each node, then
  `RemoveWorkspace`;
- failures: `CallFails` (a call raises without effect), `StopFailsLate` (a call
  raises with effect), `Killed`, `ContainerExits`.  An exception (`Raise`)
  leads from the body to `__exit__` and from the constructor or `__exit__` out
  of the block.

Assumed: the random cluster IDs differ (five hexadecimal digits, so collisions
are rare but possible), a container has one address, and the body calls
`destroy_node` with the nodes of its own cluster.

### AwsCluster

Each element of `Clusters` is a block, with the name of its stack and whether
its key pair is the launcher's own (`key_helper`).  `status` and `instances`
are the stack as CloudFormation has it.  CloudFormation is external: its steps
(`Launch`, `StackComplete`, `StackFails`, `Terminate` and so on) follow the
documented statuses that the launcher waits for.  boto3's `Stack` is identified
by its ID, so that its status can be read after its deletion.  The constructor
asks for a key pair (`keys`, by the name of the stack: a second one of that
name is refused), requests the stack, waits, describes it and tags its
instances; a failed request gives the key pair back.  `destroy` reads the
status, waits for an update of tags to settle, requests the deletion, waits,
deletes the key pair by its name and removes the workspace.  `directory` is the
inner of the two directories that the constructor makes, which has the files;
`rmtree` ignores errors, so that it may stay, and nobody removes the outer one.
A call of `destroy` can raise without effect (`CallFails`) and with it
(`AnswerLost`: the answer is lost, or the process is interrupted); when that is
the body's own `destroy`, `__exit__` destroys once more.  `again` remembers the blocks whose body has
deleted the key pair of their name, also if that call then raised.  While a
block describes its stack another block's second `destroy` may have deleted its
key pair: the launcher then retries without end, which `CallsEnd` excludes.
Instances that AWS replaces, and key pairs of the user's own, which are never
deleted, are left out.

### VagrantCluster

One block; blocks of Vagrant share nothing.  `vm` is the state of each VM,
`root` says whether the directory of the Vagrantfile exists, without which no
vagrant command works.  `vagrant up` starts the VMs in an order that the model
leaves open.  Each listing (`ListNodes`) asks for the status of all VMs and
then for the address of each one that runs, and `destroy_node` matches those
answers with its `target`.  After a `destroy` in the body the directory is
gone: the one of `__exit__` raises.  VMs that stop on their own are seen by no
listing.

### DockerCli

Each element of `Calls` is one call of the tool; `command` and `id` are its
arguments, any of those in `Given` and `Ids`.  The containers of a call that
creates carry its ID, the node type and its workspace in their labels; the
model identifies the workspace with the call.  `dir`, `files` and `placedKey`
follow the workspace: made by the option callback, filled by `write_key_pair`,
the private key moved below `ssh/`, removed by `destroy`.  `held` and `lead`
are the cached listings (`lru_cache`) and the master that
`next(iter(self.masters))` returns.  `settled` is a history variable that only
properties read.  The installation itself is one step that succeeds or, on a
node that has stopped, fails with or without the clean-up of
`cluster_install_dcos_from_path`.  Nodes are reached with `docker exec`, the
default transport.  A listing that meets a removed container raises
(`ListingBreaks`); the model allows it whenever some container has been
removed, which is more often than it happens.  `destroy-list` is a sequence of
`destroy` calls.

A call of `create-loopback-sidecar` makes one container, `Sidecar(p)`, whose
name label is in `id`.  `attached` says which sidecars have a loop device of
the host, `recorded` which of them have written down its path: making a sidecar
is `CreateSidecar`, `StartSidecar`, `AttachDevice`, `RecordDevice`, destroying
one is `Detach`, `StopSidecar`, `RemoveSidecar`.  `clean` destroys the sidecars
that run and then removes what is left of any container.  A sidecar whose
record is missing, or whose device is detached already, makes `clean` and its
own `destroy` fail at the first command (`CannotDetach`), every time.

Not modelled: networks in `clean`, workspaces left by refused and `install`
calls, and the library's own subdirectory of the workspace.

### NodeInstall

Each element of `Jobs` is one process with a `kind`, a `target` cluster and the
user it communicates as.  `pc` names the next command, `at` the node, `item`
the file that `send_file` is sending:

- `send_file`: `MakeParent`, `ReadOwner` (`stat`), `TakeOver` (`chown`),
  `Pack`, `Untar`, `GiveBack` (`chown`), `RemoveTar`.  Directories that the
  installation makes have random names, so that nobody else takes them over;
  for the others (`InShared`) the model follows the `owner`;
- install and upgrade: for each node `MakeWorkspace`, `PutInstaller`, then
  `_prepare_installer` (`ip-detect`, the configuration, an extra file), then
  `Genconf` and `Setup`, with `FindPort` for upgrades.  `OpenConfig` and
  `WriteConfig` are `write_text` on `gettempdir()/config.yaml`, and `Pack`
  reads that file again.  `dcos` says who has installed a node, and with whose
  configuration;
- a command that fails ends the job; minidcos then destroys the cluster of an
  installation or upgrade (`AfterFailure`, `Destroy`);
- `sync` sends the bootstrap code to every master, then the tests, each through
  `/tmp/dcos_e2e_tmp.tar` (`archive`): send, `Extract`, `RemoveArchive`, with
  `ClearTests` before the tests.  The checkout has the variant of the cluster.

`taken`, `misread`, `disturbed`, `met` and `latest` are history variables that
only properties read.  Contents are the names of the jobs whose file it is.

### WaitForDcos

`up` is the set of components that answer; `Stages` lists them in the order of
`wait_for_dcos`.  A stage that does not answer ends in one of three ways,
according to its decorator: `RetryErrors` (limit and `retry_on_result`: the
library's `RetryError`, and `_test_utils_wait_for_dcos` begins again),
`CatchAll` (limit, all exceptions retried: the last exception is raised) and
`Raising` (exceptions are not retried).  A stage without a limit just waits.
`VariantKnown` and `Poststart` are polling loops of which the model takes the
last attempt only.  `users` are the users of DC/OS OSS: `DeleteUser`,
`CreateUser` and `RemoveUser` are the three commands around the session, and
whoever logs in first becomes a user (`SomebodyLogsIn`, `Pass`).  `alarm` is
the signal of `timeout_decorator`: it raises an exception wherever the wait is,
and a stage that retries every exception catches it (`swallowed`).

### CloudCli

Each element of `Commands` is one call of the tool, and names the cluster it
creates.  `power` is the state of a machine, `marked` the machines with the
description (VirtualBox) or the tags (EC2) by which the tools find a cluster:
`Running` is what both see.  On Vagrant a VM is imported, described and booted,
one after the other; the workspace holds the Vagrantfile that destroys them;
`Names` is the listing that `ClusterVMs` remembers.  On AWS `RequestStack`,
the steps of CloudFormation (external), `Waited` and one `Tag` for each role.
`clean` makes two lists (`ReadRunning`, `ReadAll`) and removes the VMs that are
in the second only.  `clean-all` is `clean --destroy-running-clusters`.
`raced`, `struck`, `building` and `aborted` are history variables.

Left out as data: imported EC2 key pairs (never deleted), and the workspace of
`minidcos aws` (never removed by destroy).  `vm_names_by_cluster` is one atomic
read.  Nobody changes VMs by hand, which the source excludes as well (the
comment in `_common.py`, lines 77 to 89).

### MacNetwork

Each element of `Calls` is one call of a command.  A container of a fixed name
is identified with the call that made it (`owner`), and so is the file at the
destination (`configuration`).  A setup builds and runs the proxy and the
OpenVPN container, then asks the latter for the file, every fraction of a
second, until it is there (`CopyConfiguration`, which gets, unpacks and copies
it in one step); `Generate` is OpenVPN writing it.  `--force` first gets and
removes each container (`get`, `remove`), as destroy does.

### Doctor

A host is the set of its problems, `wrong`; a check is a few calls, after each
of which it tells something (`said`), keeps the level that it will return
(`found`), or raises.  `container` is what the current check has started and
`left` what is still there after it.  Every check of the three doctors is an
action or a few; the order is that of the `check_functions`.

### RunSubprocess

The process writes bytes, letters or newlines, to its two pipes and ends.  The
caller reads what there is while `poll` says that it runs, then reads to the
end (`_safe_readlines` with `block=True` is taken to read to the end of the
pipe).  `buffer` and `logged` are the two line loggers: what waits for the end of
its line, and the lines, each with its newline.

## What TLC checks

Every property of a run can be broken by a small change of the code that its
module models; PROJECT.json names one such change for each.

| Run | Instance | Shows |
|---|---|---|
| `DockerCluster_safety` | 2 blocks, 1 master and 1 public agent each, 4 addresses, 2 SSH attempts, 1 failure, 1 exit | `OwnContainersOnly`, `KeyOutlivesNodes`, `DoneLeavesNothingRunning` |
| `DockerCluster_refinement` | 2 blocks, 1 master and 1 agent each, 3 addresses, 1 failure, no exits, with fairness | `KeepsPromise` (implements `ClusterLifecycle`), `ConstructorEnds` |
| `DockerCluster_stale` | as safety, only an exit | `DestroysInTheClusterOnly` is violated |
| `DockerCli_safety` | 3 calls: create and two of install, destroy, clean; two provisions and one of these; or a sidecar and two calls for sidecars or clean; 2 IDs; 1 master and 1 public agent; 1 failure or exit | `CreatedIsWhole`, `UniqueUnlessConcurrent`, `DestroyIsComplete`, `CleanLeavesNoContainer`, `DeviceIsReleased` |
| `NodeInstall` | 2 jobs: installs or upgrades of 2 clusters, or send-file and sync on one; 2 masters each; 2 users; an extra file; 1 failure or interruption | `OwnConfig`, `OwnerIsBack`, `NeverHalfInstalled`, `SyncIsExact` |
| `WaitForDcos` | 2 waits, both variants, the variant, the login and the services unsteady, 1 goes down, with fairness | `RunAgainWorks`, `SuccessIsWhole`, `WaitEnds` |
| `CloudCli` | 3 commands, 1 or 2 of them creates, 2 IDs, both tools; a master and an agent; 1 failure, 1 reboot | `OneClusterPerId`, `Destroyable`, `MadeIsListed`, `CleanRemovesAborted`, `DestroyIsWhole`, `CleanSparesRunning` |
| `AwsCluster` | 2 blocks whose stacks have one name, 2 instances each, 2 failures, 1 update of tags, with fairness | `DoneLeavesNothing`, `WorkspaceOutlivesInstances`, `OwnKeyPairOnly`, `KeepsPromise`, `CallsEnd` |
| `VagrantCluster` | 4 VMs (2 masters, an agent, a public agent), 2 failures, 1 VM that stops | `RunningIsKnown`, `NodeIsGone`, `KeepsPromise` |
| `MacNetwork` | 3 calls of any command, 1 failure or interruption, with fairness | `ForceResolvesConflicts`, `DoneIsWhole`, `CallsEnd` |
| `Doctor` | each doctor on each host with up to 3 problems, 1 call that fails | `DoctorTypeOK`, `TellsWhatIsWrong`, `LeavesNothingRunning` |
| `RunSubprocess` | up to 3 bytes on each pipe, 1 exception, with fairness | `SubprocessTypeOK`, `NothingLost`, `CallEnds` |

The type invariants of the other modules are not in a run because they are
proved; the two that are say more than types: where in the list of checks a
doctor is, and that what is read is a beginning of what was written.  What the
properties say that is easy to overlook:

- `DestroyIsComplete`: a `destroy` of minidcos that succeeds has stopped what
  ran under its ID of calls that had ended, but containers that were stopped
  before stay, with their labels, until a `clean`.
- `CreatedIsWhole` is about clusters whose ID no other command had; two creates
  that overlap may both pass the check of one ID (`UniqueUnlessConcurrent`).
- `DeviceIsReleased`: a sidecar goes only after its loop device, unless it
  stopped on its own or a `clean` met it half made.
- `OwnConfig` holds only for jobs that no other job disturbed while their
  `config.yaml` was on the host: two installations at the same time on one host
  can send each other's configuration, or a garbled one.
- `OwnerIsBack` holds only for directories of which no job read the owner while
  another had taken it over: the second one restores the first one's user.
- `NeverHalfInstalled`: a failed installation or upgrade destroys the cluster;
  only an exception that is not a `CalledProcessError` leaves it mixed.  One of
  those is the `DCOSNotInstalledError` that `dcos_build_info` makes of a failed
  command (`node.py:780`); in the model it is an interruption (`Interrupted`).
- `SyncIsExact`: two syncs that overlap may extract each other's archive; after
  a sync alone nothing else is left, also when an earlier one had failed.
- `RunAgainWorks` is what makes the tool's advice to run it again true: the
  user that a cancelled wait left behind does not disturb the next one.
- `SuccessIsWhole`: a wait that succeeds leaves no temporary user, its own or
  that of a wait cancelled before; one that fails may leave it.
- `WaitEnds` needs its exception: an alarm that is swallowed does not go off
  again, and the wait then ends only if the cluster comes up.
- `OneClusterPerId`: the check of the ID holds unless two creates overlap on
  Vagrant; on AWS the name of the stack decides.
- `Destroyable`: a VM that runs has the workspace with its Vagrantfile, and
  tagged instances have a tagged master, without which `destroy` refuses.  An
  AWS cluster whose create was interrupted before its tags runs unseen; a stack
  whose creation failed keeps its name, is not listed, cannot be destroyed by
  minidcos and blocks its ID.
- `CleanSparesRunning`: `clean` at the same time as `create` may remove VMs
  that are being created.  `CleanRemovesAborted`: VMs whose ID a running
  cluster uses again are never cleaned.
- `DoneLeavesNothing` of `AwsCluster` is about the account.  On the host a block
  that has ended leaves the outer directory of its workspace, and the inner one
  when `rmtree` could not remove it.
- `WorkspaceOutlivesInstances`: the converse, which does hold.  The workspace,
  with the private key, is not removed before CloudFormation has terminated the
  last instance.
- `OwnKeyPairOnly`: the launcher deletes key pairs by name.  A block whose body
  calls `destroy` does so again at its end, whether that call has returned or
  raised after it had deleted the key pair.  It may then delete the key pair of
  another block that has taken the name in the meantime; the
  constructor of that block then tries to describe its stack for ever, which
  `CallsEnd` excludes.
- `RunningIsKnown`: a VM that has stopped on its own may be left without its
  directory.  `KeepsPromise` of `VagrantCluster` counts a cluster as given up
  once a VM of it has stopped on its own.
- `CallsEnd` of `MacNetwork`: `setup-mac-network` waits without limit for a
  file in its container; when another call removes that container it waits for
  ever.
- `TellsWhatIsWrong`: a doctor that exits with 0 has told of every problem that
  it looks for, but for SELinux (see below); it exits with 1 exactly when it
  has told of an error, and with "unknown error" only for the causes that
  `UnknownHasCause` names.

Bounds.  Two blocks are enough for one to take the address, the name, or remove
the container, of the other; two nodes of different roles are enough for a loop
to be left half-way and for a role to be forgotten; four addresses let every
node run at once and an address be reused after a stop, three make the daemon
run out.  One failure and one exit allow every single fault at every step and
the recovery in `__exit__`; two failures, where the state space allows them,
also a fault in the recovery.  Two SSH attempts have a first and a last one.
In `DockerCli` three calls are a cluster, the call under test and one that
interferes; the second ID is a neighbour.  Each cluster has a master and a
public agent, the first and the last role that is listed.  In `NodeInstall` two
masters are a first and a last node, and two jobs are all that the properties
compare; in `CloudCli` three commands are two clusters and one command on them,
or a cluster and two commands that race.  `WaitForDcos` makes one component of
each kind of stage unsteady: one that is polled before the alarm is set, one
that catches every exception, one that ends with a `RetryError`.  In
`VagrantCluster` the two masters are two VMs of one role whose order is open.
In `MacNetwork` three calls are one that leaves something, one that meets it
and one that interferes.  In `Doctor` three problems are more than any check
looks for at once.  In `RunSubprocess` three bytes are a line, its end and the
beginning of the next one.  `Given` bounds which commands run together.  The
counters `faults`, `exits`, `reboots`, `downs`, `updates` and `halts` exist
only to bound the runs: the theorems hold for every value of the bounds.

Fairness.  Weak fairness is assumed of steps that belong to one process, which
the operating system schedules, and whose calls come back: docker-py, boto3 and
the SSH attempts have timeouts, so a step that is possible is taken or fails.

- `DockerCluster`: the library's own steps of each block (`Progress`).  Nothing
  is assumed of the body, of failures or of exits.
- `WaitForDcos`: each wait's own steps, and its alarm, which is set for an
  hour. Nothing is assumed of the cluster, of when a wait starts or of
  cancelling it.
- `AwsCluster`: the constructor and `destroy` of each block, and
  CloudFormation, which ends what it has begun (the launcher itself relies on
  that).
- `MacNetwork`: the steps of each call, and OpenVPN, which makes its file.
- `RunSubprocess`: the thread that calls; nothing is assumed of the process,
  and `CallEnds` begins when that has ended.

### What the violated property means

`DestroysInTheClusterOnly`: `destroy_node` stops whichever container of the
host has the address of the node.  If a node stops on its own after `destroy`
has listed it, and the daemon gives its address to a node of another cluster,
that node is stopped and removed.

### Where code and documents disagree without a run

These were met while modelling.  The modules contain the behaviour, and their
properties make the exceptions that it needs.  Paths are below `src/src/`.

- `dcos_e2e/backends/_docker/__init__.py:663`: `destroy_node` lists all
  containers of the host, and docker-py raises `NotFound` when one of them is
  removed before it has been inspected.  Two clusters that are torn down at the
  same time can make each other's `destroy` fail half-way, whereas "This
  harness must not get in the way of parallelization efforts"
  (`docs/library/source/contributing.rst:240` of the repository).
- `dcos_e2e_cli/dcos_docker/commands/_common.py:198`: `minidcos docker list`
  shows a cluster as long as any of its nodes runs; `destroy` needs a running
  master and raises `StopIteration` without one, every time.
- `dcos_e2e_cli/dcos_docker/commands/_common.py:189`: on such a cluster
  `install` does nothing and reports success, because the `StopIteration` is
  raised inside a `map()`.
- `dcos_e2e/_vendor/dcos_test_utils/dcos_api.py:217`: the docstring of
  `_test_utils_wait_for_dcos` (`dcos_e2e/_wait_for_dcos.py:31`) says that the
  timeouts of dcos-test-utils are ignored because they are `RetryError`s; the
  login and the ZooKeeper stage raise the last exception of their attempts
  instead, which ends the wait after two or five minutes.
- `dcos_e2e_cli/dcos_docker/commands/doctor.py:313`: the output of `getenforce`
  ends in a newline and is compared with a name that does not, so "Error if
  SELinux is enabled" never happens.
- `dcos_e2e_cli/dcos_docker/commands/doctor.py:258`: when Docker refuses to
  mount the temporary directory the check goes on to stop a container that it
  does not have, and the user is told of an unknown error as well (or only of
  that, when the explanation is text: line 250 takes it for bytes).
- `dcos_e2e/_vendor/dcos_launch/aws.py:94`: `delete` waits for another
  operation on the stack to complete (line 92), but raises at once when that
  operation is a deletion: a `destroy` that was interrupted while the stack was
  being deleted cannot be repeated before the deletion is over.
- `dcos_e2e/backends/_vagrant/__init__.py:284`: "Destroy all nodes in the
  cluster" (line 265) destroys the VMs that run; one that has stopped is left
  in VirtualBox without its directory.

## What TLAPS proves

Eight modules hold theorems.  Each states a property that a run checks on a
small instance, for every value of the constants that satisfies the assumptions
of its module, and each `TypeCorrect` is `Spec => []TypeOK`.  Together they state
every property of the passing runs that does not rest on fairness.  But for the
type invariants none of the properties is inductive; what had to be added is
said for each.

`DockerCluster_proofs`, for any number of clusters, nodes of each role,
addresses, attempts, failures and exits, from `CountsAssumption` (the counts
are natural numbers, at least one SSH attempt) and `AddressAssumption`
(`NoAddress` is not an address): `TypeCorrect`, `DestroyIsLocal`
(`OwnContainersOnly`), `KeyIsThere` (`KeyOutlivesNodes`), `DoneIsStopped`
(`DoneLeavesNothingRunning`).

The invariant `IInv` of `DockerClusterInv` adds what the code relies on without
saying so: which variables are in use at which label; that a container which a
block has not started yet does not exist; that running containers, and only
they, have addresses, all different; that the nodes which `destroy` still has
to handle, together with the ones it is stopping, are all that is left running
(`DoneIsStopped`); and that, without exits, an address that a block has read
still belongs to a container of its own that runs (`DestroyIsLocal`).  The last
part is where the proof needs `exits = 0`, and the run `DockerCluster_stale`
shows that it is needed.  `IInvInit`, `IInvStep` and `IInvAlways` are the three
facts of the inductive argument; `IInvStep` has one lemma per group of actions
and one step per action.

Its last theorem, `BlocksKeepPromise` (`KeepsPromise`), is that the blocks
implement `ClusterLifecycle`, from `MaxExits = 0`: the initial states map to
initial states and every step to a step or a stutter, under `IInv` and
`StartedRuns`, which says that what the constructor has started runs as long as
the constructor goes on.

`AwsCluster_proofs`, for any number of blocks, names and instances, from
`AwsAssumption`:

- `NothingIsLeft` (`DoneLeavesNothing`): `StackInv` and `KeyInv` say at each
  label what exists of the stack and the key pair, and `Behalf` on whose behalf
  the process can be at that label;
- `WorkspaceIsKept` (`WorkspaceOutlivesInstances`): by `DirectoryInv` the
  workspace is there from the first step of the constructor until the stack is
  deleted, and by `StackInv` its block removes it only then;
- `OwnKeyPair` (`OwnKeyPairOnly`): a block has its key pair from the moment the
  name was given to it until it deletes it, unless the body of another block of
  that name has deleted its own and will do so `again`;
- `BlocksKeepPromise` (`KeepsPromise`).

`VagrantCluster_proofs`, for any number of VMs in any roles, from
`VagrantAssumption`:

- `NoneForgotten` (`RunningIsKnown`): `Covered` says that the VMs which
  `destroy` still has to handle are all that run, `Reachable` that the
  directory exists as long as one does;
- `NodeDestroyedIsGone` (`NodeIsGone`): among the answers that are still to
  come is that of the target, in whatever order they come;
- `BlockKeepsPromise` (`KeepsPromise`), with `AllRun`: what is handed to the
  body is complete.

`DockerCli_proofs`, for any number of calls, IDs and nodes, from
`CliAssumption`, proves all five properties of its run:

- `IdsAreUnique` (`UniqueUnlessConcurrent`) and `DevicesAreReleased`
  (`DeviceIsReleased`), from what is made at which label (`MadeInv`), and
  whether a device is attached there;
- `CreatedStaysWhole` (`CreatedIsWhole`): `HeldInv` says that the cached
  listings of a call hold nodes of its ID only, `WorkspaceInv` and `NodesInv`
  that nobody but a call with the ID of a cluster touches its workspace and
  nodes;
- `DestroyCompletes` (`DestroyIsComplete`): `ReachInv` and `DestroyInv` follow
  a `destroy` from its listing to its end: what ran when it listed, and had not
  been made since, is held or stopped;
- `CleanIsComplete` (`CleanLeavesNoContainer`): `CleanInv`, the same for the
  containers and sidecars that a `clean` has still to remove.

`NodeInstall_proofs`, for any number of jobs, clusters, masters and users, from
`NodeAssumption`:

- `OwnersComeBack` (`OwnerIsBack`).  `SendInv` says that a job has taken over
  at most the directory that it is sending to, and that an owner it has read
  which is not the first one was read while another job had the directory;
  without it the owner that `GiveBack` restores is unknown;
- `OwnConfiguration` (`OwnConfig`).  `ConfigInv` follows the configuration on
  its way: until somebody disturbs the job, the file on the host, then the
  archive, then the file on the node are its own;
- `NoneHalfInstalled` (`NeverHalfInstalled`).  `HalfInv` says that of the nodes
  of a cluster that is being installed those before `at` are done and the
  others as before, and that a cluster nobody works on is uniform; `KindInv`
  that each cluster has one installer;
- `SyncsAreExact` (`SyncIsExact`).  `AloneInv` says that beside a sync which has
  met no other one no sync of its cluster is at work; so what it sends is its
  own at each step, from the parcel over the archive on the node to the
  extracted files, and the masters before `at` keep it (`ExactInv`, by `Exact`
  and `Sent`).

`CloudCli_proofs`, for any number of commands, IDs, masters and agents, from
`CloudAssumption`:

- `WholeListed` (`MadeIsListed`).  `ListedInv` says for each label of a create
  which of its machines exist, run and are marked: those before `at` (`VmInv`),
  or those of the roles already tagged (`TaggedInv`);
- `OneCluster` (`OneClusterPerId`).  `IdInv` joins `StackInv` (a name has at
  most one stack that is not deleted) and `RaceInv`: of two creates with one ID
  that did not race, one is `Still`, which means that nothing of it runs or is
  to come, and it stays so;
- `CleanIsSafe` (`CleanSparesRunning`), an action property.  `CleanInv` says
  that whatever `clean` has put down for removal belongs to no cluster that
  runs, or to one that was being created while `clean` made its lists; `Gone`
  machines never run again, so what is true when the lists are made is still
  true when a VM is removed;
- `AbortedAreCleaned` (`CleanRemovesAborted`).  `AbortedInv` says of each VM
  that did not run when `clean` began that it is gone, or on the list, or that
  `clean` has stopped (`Dealt`), and that `vagrant up` is `Past` it, so that
  nothing imports it again;
- `LeftIsDestroyable` (`Destroyable`).  Vagrant: by `WorkspaceInv` and
  `OwnerInv` a workspace is removed only when the VMs that were listed, which
  are all of that workspace, are gone.  AWS: by `StackTagsInv` masters have
  their tags first, and only a deletion takes instances out of a complete
  stack;
- `DestroyedIsWhole` (`DestroyIsWhole`), an action property.  `DestroyInv` says
  that a cluster with the ID of a destroy, other than the one that it works on,
  has met another command or is `OutOfReach`: on Vagrant nothing of it runs, on
  AWS it has no stack, and it stays so.  By `TagRaceInv` one of two creates
  with one ID that did not race is `Unlisted`, which a destroy does not find.

`MacNetwork_proofs`, for any number of calls, from `MacAssumption`:

- `ForceIsEnough` (`ForceResolvesConflicts`): a call that is not `overlapped`
  is the only active one (`OverlapInv`), so what it has removed stays away
  (`AloneInv`);
- `EndsAreWhole` (`DoneIsWhole`): `WholeInv`, what a call that nobody has
  `shaken` has made at each label.

`Calls_proofs` is about three modules, each with an assumption of its own.

`WaitForDcos`, for any number of waits and any components that are unsteady or go
down, from `WaitAssumption`; the lists of stages are those of the code:

- `WaitsCanBeRepeated` (`RunAgainWorks`) and `SuccessesAreWhole`
  (`SuccessIsWhole`, an action property).  `WaitInv` says of an active wait that
  nothing has `shaken` that it is the only one, that every stage behind it is
  still up (`Seen`), and, when it began with everything up, that nothing is left
  which it could fail of (`Favoured`): everything is up, and the user is absent
  when it is to be created and there when its session logs in.

`RunSubprocess`, for outputs of any length and any number of exceptions, from
`SubprocessAssumption`:

- `SubprocessTypeCorrect` (`SubprocessTypeOK`), with `ReadingContinues`: a read
  continues what was read before, wherever it ends;
- `OutputIsNotLost` (`NothingLost`).  `ReadInv` says that the last reads come
  after the end of the process and get all of a pipe, `LogInv` that what is
  logged and what waits in the buffer are together what was read, for which
  `LoggingKeeps` shows that a line logger moves bytes and does not lose any.

`Doctor`, for hosts with any number of problems and of calls that fail, from
`DoctorAssumption`:

- `DoctorTypeCorrect` (`DoctorTypeOK`) and `NothingIsLeftRunning`
  (`LeavesNothingRunning`), from the container that each call expects
  (`ContainerInv`), and `LeftInv`: without an unknown error only a container that
  was never started stays;
- `DoctorTells` (`TellsWhatIsWrong`).  `Tells` pairs each check with the problems
  it tells of.  `CheckInv` says that the finding which a check has in hand names
  the problem of the host, `ToldInv` that all checks behind the doctor have told
  of theirs and that none behind it has found what later checks cannot bear
  (`Fatal`).  `ChecksAreOrdered` and `EveryProblemHasItsCheck` are what the lists
  of checks contribute.

Only model-checked: what rests on fairness (`ConstructorEnds`, `WaitEnds`, the
two `CallsEnd`, `CallEnds`), because the prover has no rules for `ENABLED`.
`DestroysInTheClusterOnly` is false.

## Plan

Modelled in this order: `DockerCluster`, `DockerCli`, `NodeInstall`,
`WaitForDcos`, `CloudCli`, `Doctor`, `MacNetwork`, `RunSubprocess`,
`AwsCluster`, `VagrantCluster`.  What would come next:

1. `NodeInstall` composed with the life of nodes: a node that stops between two
   commands of an installation while another cluster takes its address.
2. Networks in `clean`.

## Not modelled

- the image build, mounts, port maps and command line options: no state is
  shared between steps, and what they compute is formatting;
- the transports (SSH, `docker exec`): each turns a command into the arguments
  of a subprocess, and `NodeInstall` models which commands are run;
- the ways of the back ends to install that differ from `Node`'s (Docker's from
  a path), and the launchers' onprem and Azure platforms, which no back end
  uses;
- `sync` of OSS tests to an Enterprise cluster, and files that an extracted
  bootstrap archive leaves in place;
- `send_file` without sudo as a user who may not `chown` (its first `chown`
  fails), and what the installer does with the port that `upgrade` finds;
- networks in `clean`, workspaces left by refused and `install` calls, imported
  EC2 key pairs;
- vendored packages, but for the stages of dcos-test-utils and the stacks of
  dcos-launch; `versioneer`; the release tooling.

The modules stand for about a tenth of the lines below `src/`.  Most of the
other lines are third-party packages, present twice (in the library and in the
tool), `versioneer`, tests, and declarations of command line options: they have
no state that outlives a call, and most of the vendored code is never run by
dcos-e2e.
