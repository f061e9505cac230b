-------------------------------- MODULE Doctor --------------------------------
(***************************************************************************)
(* One run of `minidcos docker doctor`, `minidcos vagrant doctor` or       *)
(* `minidcos aws doctor` on a host with some problems.  The checks run one *)
(* after the other; some of them start a container or a cluster on the     *)
(* host's Docker and take it away again.  A check says what it finds and   *)
(* returns a level, or an exception ends the doctor.                       *)
(***************************************************************************)
EXTENDS Naturals, Sequences, FiniteSets

CONSTANTS
  MaxProblems,   \* bound: how many problems a host has
  MaxFaults      \* bound: how many calls fail for no reason a check looks for

ASSUME DoctorAssumption == MaxProblems \in Nat /\ MaxFaults \in Nat

\* What can be wrong with a host.
Problems ==
  {"docker", "rootspace", "mounts", "var", "tmp", "network", "noping",
   "selinux", "ssh", "driver", "noaufs", "tmpspace", "sed", "systemd", "cgroup",
   "build", "nested", "vagrant", "vbguest", "vbguestold", "virtualbox"}

\* Mutant of vagrant_checks: the plugin's version before the plugin.
vagrant_checks_swapped ==
  <<"docker", "sed", "ssh", "vagrant", "plugin_versions", "plugins_installed",
    "virtualbox">>
docker_checks ==
  <<"root_free_space", "supports_mounts", "mount_var", "memory", "mount_tmp",
    "networking", "selinux", "ssh", "storage_driver", "tmp_free_space", "sed",
    "systemd", "can_build", "can_mount">>
vagrant_checks ==
  <<"docker", "sed", "ssh", "vagrant", "plugins_installed", "plugin_versions",
    "virtualbox">>
aws_checks == <<"ssh">>
Commands == {"docker", "vagrant", "aws"}
check_functions(c) ==
  CASE c = "docker"  -> docker_checks
    [] c = "vagrant" -> vagrant_checks
    [] c = "aws"     -> aws_checks

CheckLevels == {"none", "warning", "error"}
Nothing == <<"none", "nothing">>
Unknown == <<"error", "unknown">>
Findings == CheckLevels \X (Problems \cup {"nothing", "unknown"})

VARIABLES
  command,
  wrong,       \* the problems of the host
  at,          \* position in check_functions
  phase,       \* the next call of the current check
  found,       \* the finding that the current check is going to return
  container,   \* the container of the current check
  left,        \* what ended checks have left on the host
  said,        \* what the user has been told
  exit,        \* the exit code
  faults

host == <<command, wrong>>
outcome == <<at, said, exit>>
doctor == <<host, outcome, phase, found, container, left, faults>>

DoctorInit ==
  /\ command \in Commands
  /\ wrong \in {P \in SUBSET Problems :
                  /\ Cardinality(P) <= MaxProblems
                  /\ "cgroup" \in P => "systemd" \in P
                  /\ "vbguestold" \in P => "vbguest" \notin P}
  /\ at = 1
  /\ phase = "call"
  /\ found = Nothing
  /\ container = "none"
  /\ left = {}
  /\ said = {}
  /\ exit = "none"
  /\ faults = 0

-----------------------------------------------------------------------------
(* run_doctor_commands: what happens when a check returns or raises.       *)

ThisCheck == check_functions(command)[at]
Calling(c) == exit = "none" /\ phase = "call" /\ ThisCheck = c
Continue(label) == phase' = label /\ UNCHANGED <<outcome, found>>

\* Mutant of Return: the loop does not end.
ReturnToTheNext(finding) ==
  /\ said' = said \cup ({finding} \ {Nothing})
  /\ exit' = IF finding[1] = "error" THEN "1" ELSE exit
  /\ at' = IF finding[1] = "error" THEN at ELSE at + 1
  /\ phase' = "call"
  /\ found' = Nothing

\* The check has told the user of its finding and returns its level.
Return(finding) ==
  /\ said' = said \cup ({finding} \ {Nothing})
  /\ IF finding[1] = "error"
       THEN exit' = "1" /\ at' = at
       ELSE IF at = Len(check_functions(command))
         THEN exit' = "0" /\ at' = at
         ELSE exit' = exit /\ at' = at + 1
  /\ phase' = "call"
  /\ found' = Nothing

\* Any exception: the user is told of an unknown error.  What the check has
\* started stays.
Raise(told, remains) ==
  /\ said' = said \cup told \cup {Unknown}
  /\ exit' = "1"
  /\ left' = left \cup remains
  /\ container' = "none"
  /\ found' = Nothing
  /\ phase' = "call"
  /\ UNCHANGED at

Finding(level, problem) == IF problem \in wrong THEN <<level, problem>> ELSE Nothing

-----------------------------------------------------------------------------
(* Checks that only look.                                                  *)

Direct(c, finding) ==
  /\ Calling(c)
  /\ Return(finding)
  /\ UNCHANGED <<host, container, left, faults>>

check_ssh == Direct("ssh", Finding("error", "ssh"))

check_1_9_sed == Direct("sed", Finding("warning", "sed"))

check_tmp_free_space == Direct("tmp_free_space", Finding("warning", "tmpspace"))

\* The memory is a note, whatever it is.
check_memory == "docker" \notin wrong /\ Direct("memory", Nothing)

\* getenforce ends its output with a newline, so that it is never equal to
\* b'Enforcing'.
Enforcing == "Enforcing\n"
check_selinux ==
  Direct("selinux", IF "selinux" \in wrong /\ Enforcing = "Enforcing"
                      THEN <<"error", "selinux">> ELSE Nothing)

check_docker == Direct("docker", Finding("warning", "docker"))

check_vagrant == Direct("vagrant", Finding("error", "vagrant"))

check_virtualbox == Direct("virtualbox", Finding("error", "virtualbox"))

\* The client of Vagrant raises without the executable; the one plugin of that
\* name is unpacked from a set.  The order of the checks keeps both from it.
CheckPlugin(c, needed, finding) ==
  /\ Calling(c)
  /\ IF needed \cap wrong # {}
       THEN Raise({}, {})
       ELSE Return(finding) /\ UNCHANGED <<container, left>>
  /\ UNCHANGED <<host, faults>>

check_vagrant_plugins_installed ==
  CheckPlugin("plugins_installed", {"vagrant"}, Finding("error", "vbguest"))

check_vagrant_plugin_versions ==
  CheckPlugin("plugin_versions", {"vagrant", "vbguest"},
              Finding("error", "vbguestold"))

-----------------------------------------------------------------------------
(* Checks that run a container.                                            *)

ContainerChecks ==
  {"root_free_space", "supports_mounts", "mount_var", "mount_tmp", "networking",
   "storage_driver", "systemd"}
\* They are run without anything that is looked at.
MountChecks == {"supports_mounts", "mount_var", "mount_tmp", "systemd"}
UsesDocker == ContainerChecks \cup {"memory", "can_mount"}

\* docker_client() raises SystemExit, which is not an Exception.
docker_client ==
  /\ \E c \in UsesDocker : Calling(c)
  /\ "docker" \in wrong
  /\ said' = said \cup {<<"error", "docker">>}
  /\ exit' = "1"
  /\ UNCHANGED <<host, at, phase, found, container, left, faults>>

\* The problem because of which the daemon, or docker-py, refuses a mount.
Refusing(c) ==
  CASE c = "supports_mounts" -> "mounts"
    [] c = "mount_var"       -> "var"
    [] c = "mount_tmp"       -> "tmp"
    [] c = "systemd"         -> "systemd"
    [] OTHER                 -> "nothing"

\* containers.run(detach=True): create and start.
RunContainer ==
  \E c \in ContainerChecks :
    /\ Calling(c)
    /\ "docker" \notin wrong
    /\ Refusing(c) \notin wrong
    /\ container' = "running"
    /\ Continue(IF c \in MountChecks THEN "stop" ELSE "look")
    /\ UNCHANGED <<host, left, faults>>

\* A container whose creation succeeds and whose start is refused stays.
StartOrCreateRefused == left' \in {left, left \cup {"created"}}

\* docker-py raises InvalidVersion before it asks the daemon.
check_docker_supports_mounts ==
  /\ Calling("supports_mounts")
  /\ {"docker", "mounts"} \cap wrong = {"mounts"}
  /\ Return(<<"error", "mounts">>)
  /\ UNCHANGED <<host, container, left, faults>>

check_mount_var ==
  /\ Calling("mount_var")
  /\ {"docker", "var"} \cap wrong = {"var"}
  /\ Return(<<"error", "var">>)
  /\ StartOrCreateRefused
  /\ UNCHANGED <<host, container, faults>>

check_systemd ==
  /\ Calling("systemd")
  /\ {"docker", "systemd"} \cap wrong = {"systemd"}
  /\ Return(<<"warning", "systemd">>)
  /\ StartOrCreateRefused
  /\ UNCHANGED <<host, container, faults>>

\* The error is told, unless the text of the explanation is not of the type that
\* the message needs, and then a container is stopped that no variable holds:
\* AttributeError or UnboundLocalError.
check_mount_tmp ==
  /\ Calling("mount_tmp")
  /\ {"docker", "tmp"} \cap wrong = {"tmp"}
  /\ \E told \in {{}, {<<"error", "tmp">>}}, remains \in {{}, {"created"}} :
       Raise(told, remains)
  /\ UNCHANGED <<host, faults>>

Looks(c) == exit = "none" /\ phase = "look" /\ ThisCheck = c
Look(finding) ==
  /\ found' = finding
  /\ phase' = "stop"
  /\ UNCHANGED <<host, at, exit, container, left, faults>>

check_docker_root_free_space ==
  /\ Looks("root_free_space")
  /\ Look(Finding("warning", "rootspace"))
  /\ UNCHANGED said

check_storage_driver ==
  /\ Looks("storage_driver")
  /\ Look(Finding(IF "noaufs" \in wrong THEN "error" ELSE "warning", "driver"))
  /\ UNCHANGED said

\* Mutant of check_networking: the check returns at once.
check_networking_returns ==
  /\ Looks("networking")
  /\ "noping" \notin wrong
  /\ IF "network" \in wrong
       THEN /\ Return(<<"warning", "network">>)
            /\ container' = "none"
            /\ left' = left \cup {container}
            /\ UNCHANGED <<host, faults>>
       ELSE Look(Nothing) /\ UNCHANGED said

\* The user is told before the container is stopped.
check_networking ==
  /\ Looks("networking")
  /\ "noping" \notin wrong
  /\ LET finding == Finding("warning", "network")
     IN  Look(finding) /\ said' = said \cup ({finding} \ {Nothing})

\* There is no ping to call: FileNotFoundError.
NoPing ==
  /\ Looks("networking")
  /\ "noping" \in wrong
  /\ Raise({}, {container})
  /\ UNCHANGED <<host, faults>>

StopContainer ==
  /\ exit = "none" /\ phase = "stop"
  /\ container' = "stopped"
  /\ Continue("remove")
  /\ UNCHANGED <<host, left, faults>>

RemoveContainer ==
  /\ exit = "none" /\ phase = "remove"
  /\ container' = "none"
  /\ Return(found)
  /\ UNCHANGED <<host, left, faults>>

-----------------------------------------------------------------------------
(* Checks that create a cluster: one master, one agent, one public agent.  *)

ClusterChecks == {"can_build", "can_mount"}

\* The agents mount /sys/fs/cgroup.
CreateCluster ==
  \E c \in ClusterChecks :
    /\ Calling(c)
    /\ {"docker", "build", "cgroup"} \cap wrong = {}
    /\ container' = "nodes"
    /\ Continue(IF c = "can_build" THEN "leave" ELSE "run")
    /\ UNCHANGED <<host, left, faults>>

\* The image cannot be built.  The second check relies on the first one.
check_can_build ==
  \E c \in ClusterChecks :
    /\ Calling(c)
    /\ {"docker", "build"} \cap wrong = {"build"}
    /\ IF c = "can_build"
         THEN Return(<<"error", "build">>) /\ UNCHANGED <<container, left>>
         ELSE Raise({}, {})
    /\ UNCHANGED <<host, faults>>

\* The master runs when the agent is refused, and the constructor has raised:
\* nothing destroys the master.
AgentRefused ==
  \E c \in ClusterChecks :
    /\ Calling(c)
    /\ {"docker", "build", "cgroup"} \cap wrong = {"cgroup"}
    /\ Raise({}, {"nodes"})
    /\ UNCHANGED <<host, faults>>

\* docker run on the public agent.
check_can_mount_in_docker ==
  /\ exit = "none" /\ phase = "run"
  /\ found' = Finding("warning", "nested")
  /\ said' = said \cup ({found'} \ {Nothing})
  /\ phase' = "leave"
  /\ UNCHANGED <<host, at, exit, container, left, faults>>

\* __exit__ destroys the cluster, whether the body has returned or raised.
LeaveCluster ==
  /\ exit = "none" /\ phase = "leave"
  /\ container' = "none"
  /\ IF found = Unknown THEN Raise({}, {}) ELSE Return(found) /\ UNCHANGED left
  /\ UNCHANGED <<host, faults>>

-----------------------------------------------------------------------------
(* Calls that fail for another reason.                                     *)

Fault == faults < MaxFaults /\ faults' = faults + 1 /\ UNCHANGED host

\* Docker cannot pull the image, create or start a container or a cluster.
RunFails ==
  /\ Fault
  /\ "docker" \notin wrong
  /\ \E c \in ContainerChecks \cup ClusterChecks, remains \in {{}, {"created"}, {"nodes"}} :
       /\ Calling(c)
       /\ "nodes" \in remains => c \in ClusterChecks
       /\ Raise({}, remains)

\* A subprocess that is expected to succeed does not.
CommandFails ==
  /\ Fault
  /\ \E c \in {"sed", "selinux", "plugins_installed", "plugin_versions"} : Calling(c)
  /\ Raise({}, {})

\* df, stop, remove or destroying the cluster fails, with or without effect.
CallFails ==
  /\ Fault
  /\ exit = "none"
  /\ \/ phase \in {"look", "stop"} /\ Raise({}, {container})
     \/ phase = "stop" /\ Raise({}, {"stopped"})
     \/ phase = "remove" /\ \E remains \in {{}, {container}} : Raise({}, remains)
     \/ phase = "leave" /\ \E remains \in {{}, {"nodes"}} : Raise({}, remains)

\* The command on the public agent fails in a way that is not expected.
RunRaises ==
  /\ Fault
  /\ exit = "none" /\ phase = "run"
  /\ found' = Unknown
  /\ phase' = "leave"
  /\ UNCHANGED <<outcome, container, left>>

-----------------------------------------------------------------------------

LookingChecks ==
  \/ check_ssh \/ check_1_9_sed \/ check_tmp_free_space \/ check_memory
  \/ check_selinux \/ check_docker \/ check_vagrant \/ check_virtualbox
  \/ check_vagrant_plugins_installed \/ check_vagrant_plugin_versions

DockerChecks ==
  \/ docker_client \/ RunContainer \/ check_docker_supports_mounts
  \/ check_mount_var \/ check_systemd \/ check_mount_tmp
  \/ check_docker_root_free_space \/ check_storage_driver \/ check_networking
  \/ NoPing \/ StopContainer \/ RemoveContainer

ClusterSteps ==
  \/ CreateCluster \/ check_can_build \/ AgentRefused
  \/ check_can_mount_in_docker \/ LeaveCluster

Failures == RunFails \/ CommandFails \/ CallFails \/ RunRaises

Exited == exit # "none" /\ UNCHANGED doctor

DoctorNext == LookingChecks \/ DockerChecks \/ ClusterSteps \/ Failures \/ Exited

DoctorSpec == DoctorInit /\ [][DoctorNext]_doctor

-----------------------------------------------------------------------------
(* Properties.                                                             *)

\* Every variable has its type.
DoctorTypeOK ==
  /\ command \in Commands
  /\ wrong \in SUBSET Problems
  /\ at \in 1 .. Len(check_functions(command))
  /\ phase \in {"call", "look", "stop", "remove", "run", "leave"}
  /\ found \in Findings
  /\ container \in {"none", "running", "stopped", "nodes"}
  /\ left \in SUBSET {"created", "running", "stopped", "nodes"}
  /\ said \in SUBSET Findings
  /\ exit \in {"none", "0", "1"}
  /\ faults \in 0 .. MaxFaults

\* What a doctor looks for.
LookedFor(c) ==
  CASE c = "docker"  -> {"docker", "rootspace", "mounts", "var", "tmp",
                         "network", "selinux", "ssh", "driver", "tmpspace",
                         "sed", "systemd", "build", "nested"}
    [] c = "vagrant" -> {"docker", "sed", "ssh", "vagrant", "vbguest",
                         "vbguestold", "virtualbox"}
    [] c = "aws"     -> {"ssh"}

\* A doctor that exits with 0 has named every problem it looks for (but SELinux,
\* see check_selinux): no check is skipped, by a return, a refusal or another
\* check's exception (run_doctor_commands).
NothingMissed ==
  exit = "0" =>
    \A p \in wrong \cap (LookedFor(command) \ {"selinux"}) :
      \E m \in said : m[2] = p

\* The checks are in an order in which none raises because of what an earlier
\* one looks for: "unknown error" needs a call that failed, a missing ping, a
\* /tmp that cannot be mounted or a host without /sys/fs/cgroup.
UnknownHasCause ==
  Unknown \in said => faults > 0 \/ {"noping", "tmp", "cgroup"} \cap wrong # {}

\* The doctor fails if and only if it has told the user of an error.
ExitCodeTells ==
  exit # "none" => (exit = "1" <=> \E m \in said : m[1] = "error")

\* What a doctor says, and how it exits, tells its user what is wrong.
TellsWhatIsWrong == NothingMissed /\ UnknownHasCause /\ ExitCodeTells

\* Unless it ends with an unknown error, the doctor leaves no container running
\* and no node of a cluster, whatever it has found and wherever it has stopped.
LeavesNothingRunning ==
  exit # "none" /\ Unknown \notin said => {"running", "stopped", "nodes"} \cap left = {}
=============================================================================
