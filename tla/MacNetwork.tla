------------------------------ MODULE MacNetwork ------------------------------
(***************************************************************************)
(* Calls of `minidcos docker setup-mac-network`, with and without --force, *)
(* and of `minidcos docker destroy-mac-network`, on one Docker daemon and  *)
(* with one destination of the OpenVPN configuration.  A setup runs two    *)
(* containers of fixed names and then asks the second one for the          *)
(* configuration until it is there.                                        *)
(***************************************************************************)
EXTENDS Naturals

CONSTANTS
  Calls,       \* the calls of the tool
  None,        \* no call: no container, no file
  MaxFaults    \* bound: how many calls of Docker fail, or commands are killed

ASSUME MacAssumption == None \notin Calls /\ MaxFaults \in Nat

Commands == {"setup", "force", "destroy"}
\* _PROXY_CONTAINER_NAME and _OPENVPN_CONTAINER_NAME
Containers == {"proxy", "openvpn"}

Ended == {"done", "refused", "conflict", "failed"}
Labels == Ended \cup
  {"start", "get", "remove", "build", "create", "run", "poll"}

VARIABLES
  command,
  pc,
  at,            \* the container that a call gets, removes, creates or starts
  seen,          \* the container that a call has got, by the call that made it
  owner,         \* the call that made the container of each name, or None
  running,       \* the containers that have been started
  generated,     \* the calls whose OpenVPN container has written its file
  configuration, \* the call whose container the file at the destination is from
  overlapped,    \* (history) calls during which another one was active
  shaken,        \* (history) calls during which another one removed a container
  faults

daemon == <<owner, running, generated>>
history == <<overlapped, shaken>>
vars == <<command, pc, at, seen, daemon, configuration, history, faults>>

Init ==
  /\ command \in [Calls -> Commands]
  /\ pc = [c \in Calls |-> "start"]
  /\ at = [c \in Calls |-> "proxy"]
  /\ seen = [c \in Calls |-> None]
  /\ owner = [n \in Containers |-> None]
  /\ running = {}
  /\ generated = {}
  /\ configuration = None
  /\ overlapped = {}
  /\ shaken = {}
  /\ faults = 0

At(c, label) == pc[c] = label
Goto(c, label) == pc' = [pc EXCEPT ![c] = label]
GotoAt(c, label, n) == Goto(c, label) /\ at' = [at EXCEPT ![c] = n]
Active(c) == pc[c] \notin Ended \cup {"start"}

-----------------------------------------------------------------------------
(* setup_mac_network and destroy_mac_network.                              *)

Begin(c) ==
  /\ At(c, "start")
  /\ GotoAt(c, IF command[c] = "setup" THEN "build" ELSE "get", "proxy")
  /\ command[c] = "setup" => configuration = None
  /\ LET others == {d \in Calls : Active(d)}
     IN  overlapped' = IF others = {} THEN overlapped ELSE overlapped \cup {c} \cup others
  /\ UNCHANGED <<command, seen, daemon, configuration, shaken, faults>>

\* "already exists so no new OpenVPN configuration was created"
Refused(c) ==
  /\ At(c, "start")
  /\ command[c] = "setup"
  /\ configuration # None
  /\ Goto(c, "refused")
  /\ UNCHANGED <<command, at, seen, daemon, configuration, history, faults>>

\* Mutant of AfterRemoving: only the first container is removed.
AfterRemovingProxy(c) ==
  GotoAt(c, IF command[c] = "force" THEN "build" ELSE "done", "proxy")

\* _destroy_mac_network_containers: after the second name it is over.
AfterRemoving(c) ==
  CASE at[c] = "proxy"                            -> GotoAt(c, "get", "openvpn")
    [] at[c] = "openvpn" /\ command[c] = "force"   -> GotoAt(c, "build", "proxy")
    [] at[c] = "openvpn" /\ command[c] = "destroy" -> GotoAt(c, "done", "openvpn")

GetContainer(c) ==
  /\ At(c, "get")
  /\ seen' = [seen EXCEPT ![c] = owner[at[c]]]
  /\ IF owner[at[c]] = None THEN AfterRemoving(c) ELSE GotoAt(c, "remove", at[c])
  /\ UNCHANGED <<command, daemon, configuration, history, faults>>

RemoveContainer(c) ==
  /\ At(c, "remove")
  /\ owner[at[c]] = seen[c]
  /\ owner' = [owner EXCEPT ![at[c]] = None]
  /\ running' = running \ {at[c]}
  /\ shaken' = shaken \cup {d \in Calls \ {c} : Active(d)}
  /\ AfterRemoving(c)
  /\ UNCHANGED <<command, seen, generated, configuration, overlapped, faults>>

\* Another call has removed the container: NotFound is not expected here.
RemovedBefore(c) ==
  /\ At(c, "remove")
  /\ owner[at[c]] # seen[c]
  /\ Goto(c, "failed")
  /\ UNCHANGED <<command, at, seen, daemon, configuration, history, faults>>

-----------------------------------------------------------------------------
(* _create_mac_network.                                                    *)

BuildImages(c) ==
  /\ At(c, "build")
  /\ GotoAt(c, "create", "proxy")
  /\ UNCHANGED <<command, seen, daemon, configuration, history, faults>>

\* containers.run: create, which the name may forbid, and start.
CreateContainer(c) ==
  /\ At(c, "create")
  /\ owner[at[c]] = None
  /\ owner' = [owner EXCEPT ![at[c]] = c]
  /\ Goto(c, "run")
  /\ UNCHANGED <<command, at, seen, running, generated, configuration, history, faults>>

\* Mutant of Conflict: a container that is there already is used.
ConflictIgnored(c) ==
  /\ At(c, "create")
  /\ owner[at[c]] # None
  /\ IF at[c] = "proxy" THEN GotoAt(c, "create", "openvpn") ELSE GotoAt(c, "poll", at[c])
  /\ UNCHANGED <<command, seen, daemon, configuration, history, faults>>

\* Status 409: "A custom macOS network container is already running."
Conflict(c) ==
  /\ At(c, "create")
  /\ owner[at[c]] # None
  /\ Goto(c, "conflict")
  /\ UNCHANGED <<command, at, seen, daemon, configuration, history, faults>>

StartContainer(c) ==
  /\ At(c, "run")
  /\ owner[at[c]] = c
  /\ running' = running \cup {at[c]}
  /\ IF at[c] = "proxy" THEN GotoAt(c, "create", "openvpn") ELSE GotoAt(c, "poll", at[c])
  /\ UNCHANGED <<command, seen, owner, generated, configuration, history, faults>>

\* The container has been removed since: 404, which is not 409.
StartFails(c) ==
  /\ At(c, "run")
  /\ owner[at[c]] # c
  /\ Goto(c, "failed")
  /\ UNCHANGED <<command, at, seen, daemon, configuration, history, faults>>

\* The OpenVPN container makes its configuration (run.sh).
Generate ==
  /\ "openvpn" \in running
  /\ owner["openvpn"] \notin generated
  /\ generated' = generated \cup {owner["openvpn"]}
  /\ UNCHANGED <<command, pc, at, seen, owner, running, configuration, history, faults>>

\* Mutant of CopyConfiguration: the loop has no break.
CopyConfigurationAgain(c) ==
  /\ At(c, "poll")
  /\ owner["openvpn"] = c
  /\ c \in generated
  /\ configuration' = c
  /\ UNCHANGED <<command, pc, at, seen, daemon, history, faults>>

\* get_archive, until it does not raise NotFound.  It raises NotFound as well
\* when there is no such container.
CopyConfiguration(c) ==
  /\ At(c, "poll")
  /\ owner["openvpn"] = c
  /\ c \in generated
  /\ configuration' = c
  /\ Goto(c, "done")
  /\ UNCHANGED <<command, at, seen, daemon, history, faults>>

-----------------------------------------------------------------------------
(* Failures.                                                               *)

\* A call of Docker raises, without or with effect, the image is not built, or
\* the command is killed.
Fails(c) ==
  /\ Active(c)
  /\ faults < MaxFaults
  /\ faults' = faults + 1
  /\ Goto(c, "failed")
  /\ UNCHANGED <<command, at, seen, daemon, configuration, history>>

SetUp(c) ==
  \/ BuildImages(c) \/ CreateContainer(c) \/ Conflict(c) \/ StartContainer(c)
  \/ StartFails(c) \/ CopyConfiguration(c)

TakeDown(c) == GetContainer(c) \/ RemoveContainer(c) \/ RemovedBefore(c)

\* Setups whose container is gone ask for its file for ever, so that no state
\* is the last one for all of them.
AllEnded ==
  /\ \A c \in Calls : pc[c] \in Ended \cup {"poll"}
  /\ UNCHANGED vars

Next ==
  \/ \E c \in Calls : Begin(c) \/ Refused(c) \/ SetUp(c) \/ TakeDown(c) \/ Fails(c)
  \/ Generate
  \/ AllEnded

Spec == Init /\ [][Next]_vars

\* A command that runs is scheduled, and OpenVPN makes its file.
FairSpec ==
  /\ Spec
  /\ \A c \in Calls : WF_vars(SetUp(c) \/ TakeDown(c))
  /\ WF_vars(Generate)

-----------------------------------------------------------------------------
(* Properties.                                                             *)

\* Every variable has its type.
TypeOK ==
  /\ command \in [Calls -> Commands]
  /\ pc \in [Calls -> Labels]
  /\ at \in [Calls -> Containers]
  /\ seen \in [Calls -> Calls \cup {None}]
  /\ owner \in [Containers -> Calls \cup {None}]
  /\ running \in SUBSET Containers
  /\ generated \in SUBSET Calls
  /\ configuration \in Calls \cup {None}
  /\ overlapped \in SUBSET Calls
  /\ shaken \in SUBSET Calls
  /\ faults \in 0 .. MaxFaults

\* "Use --force to destroy conflicting containers" (setup_mac_network): a setup
\* with --force that is alone meets no conflict, whatever earlier calls have
\* left, also half-way.
ForceResolvesConflicts ==
  \A c \in Calls : command[c] = "force" /\ c \notin overlapped => pc[c] # "conflict"

\* A setup that ends well has both containers, and the file is the one of its
\* container, unless another call removed containers in the meantime; when
\* destroy_mac_network does, and no other call was active, no container of
\* either name is left.
DoneIsWhole ==
  [][\A c \in Calls :
       pc[c] # "done" /\ pc'[c] = "done" =>
         IF command[c] = "destroy"
           THEN c \notin overlapped => owner' = [n \in Containers |-> None]
           ELSE c \notin shaken =>
                  /\ owner = [n \in Containers |-> c]
                  /\ running = Containers
                  /\ configuration' = c]_vars

\* Every call ends, but for a setup whose OpenVPN container has been removed
\* while it waits for the file: that one waits for ever.
CallsEnd ==
  \A c \in Calls : Active(c) ~> (pc[c] \in Ended \/ (At(c, "poll") /\ owner["openvpn"] # c))
=============================================================================
