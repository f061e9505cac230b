------------------------------ MODULE AwsCluster ------------------------------
(***************************************************************************)
(* `with Cluster(cluster_backend=AWS(..), ..)` blocks of one account.  The *)
(* nodes of a block are the instances of a CloudFormation stack, which the *)
(* launcher requests, waits for and deletes, together with a key pair that *)
(* has the name of the stack.  Meanwhile somebody may update the tags of a *)
(* stack.                                                                  *)
(***************************************************************************)
EXTENDS Naturals, FiniteSets

CONSTANTS
  Clusters,      \* the blocks
  Names,         \* names of stacks
  Nodes,         \* the instances of a stack
  None,
  MaxFaults,     \* bound: calls that fail, stacks that fail, processes killed
  MaxUpdates     \* bound: updates of stacks by others

ASSUME AwsAssumption ==
  None \notin Clusters /\ MaxFaults \in Nat /\ MaxUpdates \in Nat

RolledBack == {"ROLLBACK_IN_PROGRESS", "ROLLBACK_COMPLETE"}
Statuses == RolledBack \cup
  {"none", "CREATE_IN_PROGRESS", "CREATE_COMPLETE", "UPDATE_IN_PROGRESS",
   "UPDATE_COMPLETE", "DELETE_IN_PROGRESS", "DELETE_FAILED", "DELETE_COMPLETE"}
Labels ==
  {"idle", "key", "request", "giveback", "wait", "describe", "tag", "body",
   "status", "settle", "delete", "deleting", "unkey", "rmtree", "done", "failed"}
Phases == {"init", "body", "manual", "exit"}

VARIABLES
  name,       \* aws_cloudformation_stack_name, or a random one
  key_helper, \* is there no aws_key_pair
  status,     \* of the stack of each block, whose ID the launcher keeps
  instances,  \* of each stack that run
  keys,       \* the block that made the key pair of each name
  directory,  \* is the workspace there: the directory in which the files are,
              \* not the one around it, which nobody removes
  pc,
  phase,      \* on whose behalf: the constructor, the body, its destroy, __exit__
  again,      \* (history) blocks whose body deletes the key pair of their name,
              \* which __exit__ does once more
  kept,       \* (history) the instances when a block was given up
  faults, updates

arguments == <<name, key_helper>>
keyPairs == <<keys, again>>
cloud == <<status, instances, keyPairs>>
bounds == <<faults, updates>>
vars == <<arguments, cloud, directory, pc, phase, kept, bounds>>

Init ==
  /\ name \in [Clusters -> Names]
  /\ key_helper \in [Clusters -> BOOLEAN]
  /\ status = [c \in Clusters |-> "none"]
  /\ instances = [c \in Clusters |-> {}]
  /\ keys = [n \in Names |-> None]
  /\ directory = [c \in Clusters |-> FALSE]
  /\ pc = [c \in Clusters |-> "idle"]
  /\ phase = [c \in Clusters |-> "init"]
  /\ again = {}
  /\ kept = [c \in Clusters |-> {}]
  /\ faults = 0
  /\ updates = 0

-----------------------------------------------------------------------------

At(c, label) == pc[c] = label
Goto(c, label) == pc' = [pc EXCEPT ![c] = label]
GotoFor(c, label, p) == Goto(c, label) /\ phase' = [phase EXCEPT ![c] = p]
Active(c) == pc[c] \notin {"idle", "done", "failed"}

GiveUp(c) ==
  /\ Goto(c, "failed")
  /\ kept' = [kept EXCEPT ![c] = IF status[c] \in RolledBack THEN @ ELSE instances[c]]
  /\ UNCHANGED phase

\* An exception: out of the body, and the calls it makes, it reaches __exit__.
Raise(c) ==
  IF phase[c] \in {"body", "manual"}
    THEN GotoFor(c, "status", "exit") /\ UNCHANGED kept
    ELSE GiveUp(c)

-----------------------------------------------------------------------------
(* The constructor.                                                        *)

MakeWorkspace(c) ==
  /\ At(c, "idle")
  /\ directory' = [directory EXCEPT ![c] = TRUE]
  /\ Goto(c, IF key_helper[c] THEN "key" ELSE "request")
  /\ UNCHANGED <<arguments, cloud, phase, kept, bounds>>

\* Mutant of CreateKeyPair: it, too, is in the try block of create.
CreateKeyPairInTry(c) ==
  /\ At(c, "key")
  /\ IF keys[name[c]] = None
       THEN keys' = [keys EXCEPT ![name[c]] = c] /\ Goto(c, "request")
       ELSE Goto(c, "giveback") /\ UNCHANGED keys
  /\ UNCHANGED <<arguments, status, instances, again, directory, phase, kept, bounds>>

\* create_key_pair: its name is that of the stack.
CreateKeyPair(c) ==
  /\ At(c, "key")
  /\ IF keys[name[c]] = None
       THEN /\ keys' = [keys EXCEPT ![name[c]] = c]
            /\ Goto(c, "request")
            /\ UNCHANGED <<phase, kept>>
       ELSE Raise(c) /\ UNCHANGED keys
  /\ UNCHANGED <<arguments, status, instances, again, directory, bounds>>

NameIsFree(n) ==
  \A d \in Clusters : name[d] = n => status[d] \in {"none", "DELETE_COMPLETE"}

\* create_stack; the private key is then stored.
RequestStack(c) ==
  /\ At(c, "request")
  /\ NameIsFree(name[c])
  /\ status' = [status EXCEPT ![c] = "CREATE_IN_PROGRESS"]
  /\ Goto(c, "wait")
  /\ UNCHANGED <<arguments, instances, keyPairs, directory, phase, kept, bounds>>

\* Any exception of create_stack gives the key pair back.
NameIsTaken(c) ==
  /\ At(c, "request")
  /\ ~ NameIsFree(name[c])
  /\ IF key_helper[c] THEN Goto(c, "giveback") /\ UNCHANGED <<phase, kept>>
                      ELSE Raise(c)
  /\ UNCHANGED <<arguments, cloud, directory, bounds>>

\* Mutant of WaitedFor: the wait goes on in every other state.
WaitedForEnd(c, transition_states, end_states, step) ==
  status[c] \in end_states /\ step

\* wait_for_complete: the wait goes on in one of the transition states, is over
\* in one of the end states, and raises for any other status.
WaitedFor(c, transition_states, end_states, step) ==
  IF status[c] \in end_states
    THEN step
    ELSE status[c] \notin transition_states /\ Raise(c)

Wait(c) ==
  /\ At(c, "wait")
  /\ WaitedFor(c, {"CREATE_IN_PROGRESS", "UPDATE_IN_PROGRESS"},
                  {"CREATE_COMPLETE", "UPDATE_COMPLETE"},
                  Goto(c, "describe") /\ UNCHANGED <<phase, kept>>)
  /\ UNCHANGED <<arguments, cloud, directory, bounds>>

\* Mutant of Describe: whatever is found is taken.
DescribeOnce(c) ==
  /\ At(c, "describe")
  /\ Goto(c, "tag")
  /\ UNCHANGED <<arguments, cloud, directory, phase, kept, bounds>>

\* get_onprem_cluster tries again until all nodes are found, also after an
\* exception.
Describe(c) ==
  /\ At(c, "describe")
  /\ instances[c] = Nodes
  /\ Goto(c, "tag")
  /\ UNCHANGED <<arguments, cloud, directory, phase, kept, bounds>>

\* create_tags for each role, and the constructor of Cluster waits for SSH.
Enter(c) ==
  /\ At(c, "tag")
  /\ GotoFor(c, "body", "body")
  /\ UNCHANGED <<arguments, cloud, directory, kept, bounds>>

-----------------------------------------------------------------------------
(* The body.                                                               *)

\* destroy_node is not implemented.
BodyDestroysNode(c) ==
  /\ At(c, "body")
  /\ Raise(c)
  /\ UNCHANGED <<arguments, cloud, directory, bounds>>

BodyDestroysCluster(c) ==
  /\ At(c, "body")
  /\ GotoFor(c, "status", "manual")
  /\ UNCHANGED <<arguments, cloud, directory, kept, bounds>>

BodyEnds(c) ==
  /\ At(c, "body")
  /\ GotoFor(c, "status", "exit")
  /\ UNCHANGED <<arguments, cloud, directory, kept, bounds>>

-----------------------------------------------------------------------------
(* destroy: DcosCloudformationLauncher.delete.                             *)

InProgress(c) == status[c] \in
  {"CREATE_IN_PROGRESS", "ROLLBACK_IN_PROGRESS", "UPDATE_IN_PROGRESS",
   "DELETE_IN_PROGRESS"}

GetStatus(c) ==
  /\ At(c, "status")
  /\ Goto(c, IF InProgress(c) THEN "settle" ELSE "delete")
  /\ UNCHANGED <<arguments, cloud, directory, phase, kept, bounds>>

\* Another operation is awaited.
Settle(c) ==
  /\ At(c, "settle")
  /\ WaitedFor(c, {"ROLLBACK_IN_PROGRESS", "UPDATE_IN_PROGRESS"},
                  {"CREATE_COMPLETE", "ROLLBACK_COMPLETE", "UPDATE_COMPLETE"},
                  Goto(c, "delete") /\ UNCHANGED <<phase, kept>>)
  /\ UNCHANGED <<arguments, cloud, directory, bounds>>

\* During an update the request is lost.
Requested(c) == status' = [status EXCEPT ![c] =
  IF @ \in {"UPDATE_IN_PROGRESS", "DELETE_COMPLETE"} THEN @ ELSE "DELETE_IN_PROGRESS"]

\* Mutant of RequestDeletion: nobody waits for the deletion.
RequestOnly(c) ==
  /\ At(c, "delete")
  /\ Requested(c)
  /\ Goto(c, IF key_helper[c] THEN "unkey" ELSE "rmtree")
  /\ UNCHANGED <<arguments, instances, keyPairs, directory, phase, kept, bounds>>

\* stack.delete()
RequestDeletion(c) ==
  /\ At(c, "delete")
  /\ Requested(c)
  /\ Goto(c, "deleting")
  /\ UNCHANGED <<arguments, instances, keyPairs, directory, phase, kept, bounds>>

\* Mutant of AwaitDeletion: an end state is the end.
AwaitEndState(c) ==
  /\ At(c, "deleting")
  /\ WaitedFor(c, {"DELETE_IN_PROGRESS", "CREATE_COMPLETE", "ROLLBACK_IN_PROGRESS",
                   "UPDATE_IN_PROGRESS"},
                  {"DELETE_COMPLETE", "ROLLBACK_COMPLETE", "UPDATE_COMPLETE"},
                  /\ Goto(c, IF key_helper[c] THEN "unkey" ELSE "rmtree")
                  /\ UNCHANGED <<phase, kept>>)
  /\ UNCHANGED <<arguments, cloud, directory, bounds>>

\* "Deletion was interrupted by another operation": then all of it again.
AwaitDeletion(c) ==
  /\ At(c, "deleting")
  /\ WaitedFor(c, {"DELETE_IN_PROGRESS", "CREATE_COMPLETE", "ROLLBACK_IN_PROGRESS",
                   "UPDATE_IN_PROGRESS"},
                  {"DELETE_COMPLETE", "ROLLBACK_COMPLETE", "UPDATE_COMPLETE"},
                  /\ Goto(c, IF status[c] # "DELETE_COMPLETE" THEN "status"
                             ELSE IF key_helper[c] THEN "unkey" ELSE "rmtree")
                  /\ UNCHANGED <<phase, kept>>)
  /\ UNCHANGED <<arguments, cloud, directory, bounds>>

\* delete_key_pair by name, also when there is none.
KeyPairDeleted(c) ==
  /\ keys' = [keys EXCEPT ![name[c]] = None]
  /\ again' = IF phase[c] = "manual" THEN again \cup {c} ELSE again

\* delete_temp_resources
DeleteKeyPair(c) ==
  /\ pc[c] \in {"giveback", "unkey"}
  /\ KeyPairDeleted(c)
  /\ IF At(c, "unkey") THEN Goto(c, "rmtree") /\ UNCHANGED <<phase, kept>>
                       ELSE Raise(c)
  /\ UNCHANGED <<arguments, status, instances, directory, bounds>>

\* rmtree(ignore_errors=True): whether it removes anything nobody learns.
RemoveWorkspace(c) ==
  /\ At(c, "rmtree")
  /\ directory' \in {directory, [directory EXCEPT ![c] = FALSE]}
  /\ IF phase[c] = "manual" THEN GotoFor(c, "body", "body")
                            ELSE Goto(c, "done") /\ UNCHANGED phase
  /\ UNCHANGED <<arguments, cloud, kept, bounds>>

-----------------------------------------------------------------------------
(* CloudFormation.                                                         *)

SetStatus(c, from, to) ==
  /\ status[c] = from
  /\ status' = [status EXCEPT ![c] = to]
  /\ UNCHANGED <<arguments, keyPairs, directory, pc, phase>>

KeyPairGone(c) == key_helper[c] /\ keys[name[c]] = None

\* The group of instances launches one; it needs the key pair.
Launch(c) ==
  /\ status[c] \in {"CREATE_IN_PROGRESS", "CREATE_COMPLETE", "UPDATE_IN_PROGRESS",
                    "UPDATE_COMPLETE"}
  /\ ~ KeyPairGone(c)
  /\ \E k \in Nodes \ instances[c] : instances' = [instances EXCEPT ![c] = @ \cup {k}]
  /\ UNCHANGED <<arguments, status, keyPairs, directory, pc, phase, kept, bounds>>

\* The group exists; its instances may follow.
StackComplete(c) ==
  /\ SetStatus(c, "CREATE_IN_PROGRESS", "CREATE_COMPLETE")
  /\ UNCHANGED <<instances, kept, bounds>>

\* Something of the stack cannot be created.
StackFails(c) ==
  /\ SetStatus(c, "CREATE_IN_PROGRESS", "ROLLBACK_IN_PROGRESS")
  /\ kept' = [kept EXCEPT ![c] = IF At(c, "failed") THEN @ ELSE instances[c]]
  /\ faults < MaxFaults
  /\ faults' = faults + 1
  /\ UNCHANGED <<instances, updates>>

Terminate(c) ==
  /\ status[c] \in {"ROLLBACK_IN_PROGRESS", "DELETE_IN_PROGRESS"}
  /\ \E k \in instances[c] : instances' = [instances EXCEPT ![c] = @ \ {k}]
  /\ UNCHANGED <<arguments, status, keyPairs, directory, pc, phase, kept, bounds>>

RollbackComplete(c) ==
  /\ instances[c] = {}
  /\ SetStatus(c, "ROLLBACK_IN_PROGRESS", "ROLLBACK_COMPLETE")
  /\ UNCHANGED <<instances, kept, bounds>>

DeletionComplete(c) ==
  /\ instances[c] = {}
  /\ SetStatus(c, "DELETE_IN_PROGRESS", "DELETE_COMPLETE")
  /\ UNCHANGED <<instances, kept, bounds>>

DeletionFails(c) ==
  /\ SetStatus(c, "DELETE_IN_PROGRESS", "DELETE_FAILED")
  /\ faults < MaxFaults
  /\ faults' = faults + 1
  /\ UNCHANGED <<instances, kept, updates>>

\* "probably because its tags were being updated"
UpdateBegins(c) ==
  /\ updates < MaxUpdates
  /\ updates' = updates + 1
  /\ \E from \in {"CREATE_COMPLETE", "UPDATE_COMPLETE"} :
       SetStatus(c, from, "UPDATE_IN_PROGRESS")
  /\ UNCHANGED <<instances, kept, faults>>

UpdateEnds(c) ==
  /\ SetStatus(c, "UPDATE_IN_PROGRESS", "UPDATE_COMPLETE")
  /\ UNCHANGED <<instances, kept, bounds>>

-----------------------------------------------------------------------------
(* Failures.                                                               *)

Fault == faults < MaxFaults /\ faults' = faults + 1 /\ UNCHANGED updates

\* A call of AWS, or a step on the host, raises or is interrupted.  describe
\* retries on every exception.
CallFails(c) ==
  /\ pc[c] \in {"key", "wait", "tag", "status", "settle", "delete", "deleting",
                "giveback", "unkey", "rmtree"}
  /\ Raise(c)
  /\ Fault
  /\ UNCHANGED <<arguments, cloud, directory>>

\* A call of destroy takes effect, and yet raises: its answer is lost, or the
\* process is interrupted before the next call.  (In the constructor that is
\* the call and then Killed; create_stack is below.)
AnswerLost(c) ==
  /\ \/ At(c, "delete") /\ Requested(c) /\ UNCHANGED <<keyPairs, directory>>
     \/ At(c, "unkey") /\ KeyPairDeleted(c) /\ UNCHANGED <<status, directory>>
     \/ /\ At(c, "rmtree")
        /\ directory' = [directory EXCEPT ![c] = FALSE]
        /\ UNCHANGED <<status, keyPairs>>
  /\ Raise(c)
  /\ Fault
  /\ UNCHANGED <<arguments, instances>>

\* create_stack raises, with or without effect.
RequestFails(c) ==
  /\ At(c, "request")
  /\ IF key_helper[c] THEN Goto(c, "giveback") /\ UNCHANGED <<phase, kept>>
                      ELSE Raise(c)
  /\ \/ UNCHANGED status
     \/ NameIsFree(name[c]) /\ status' = [status EXCEPT ![c] = "CREATE_IN_PROGRESS"]
  /\ Fault
  /\ UNCHANGED <<arguments, instances, keyPairs, directory>>

\* Not even __exit__ runs.
Killed(c) ==
  /\ Active(c)
  /\ GiveUp(c)
  /\ Fault
  /\ UNCHANGED <<arguments, cloud, directory>>

-----------------------------------------------------------------------------

Constructor(c) ==
  \/ MakeWorkspace(c) \/ CreateKeyPair(c) \/ RequestStack(c) \/ NameIsTaken(c)
  \/ Wait(c) \/ Describe(c) \/ Enter(c)

Body(c) == BodyDestroysNode(c) \/ BodyDestroysCluster(c) \/ BodyEnds(c)

Destroy(c) ==
  \/ GetStatus(c) \/ Settle(c) \/ RequestDeletion(c) \/ AwaitDeletion(c)
  \/ DeleteKeyPair(c) \/ RemoveWorkspace(c)

Failure(c) == CallFails(c) \/ AnswerLost(c) \/ RequestFails(c) \/ Killed(c)

CloudFormation(c) ==
  \/ Launch(c) \/ StackComplete(c) \/ Terminate(c) \/ RollbackComplete(c)
  \/ DeletionComplete(c) \/ UpdateEnds(c)

CloudChanges(c) ==
  CloudFormation(c) \/ StackFails(c) \/ DeletionFails(c) \/ UpdateBegins(c)

\* Without its key pair a stack gets no instances: describe goes on for ever.
AllEnded ==
  /\ \A c \in Clusters :
       pc[c] \in {"done", "failed"} \/ (At(c, "describe") /\ KeyPairGone(c))
  /\ UNCHANGED vars

Next ==
  \/ \E c \in Clusters :
       Constructor(c) \/ Body(c) \/ Destroy(c) \/ Failure(c) \/ CloudChanges(c)
  \/ AllEnded

Spec == Init /\ [][Next]_vars

\* The processes of the blocks are scheduled, but a body may never end; and
\* CloudFormation comes to an end with what it has begun.
FairSpec ==
  /\ Spec
  /\ \A c \in Clusters :
       WF_vars(Constructor(c) \/ Destroy(c)) /\ WF_vars(CloudFormation(c))

-----------------------------------------------------------------------------
(* Properties.                                                             *)

\* Every variable has its type.
TypeOK ==
  /\ name \in [Clusters -> Names]
  /\ key_helper \in [Clusters -> BOOLEAN]
  /\ status \in [Clusters -> Statuses]
  /\ instances \in [Clusters -> SUBSET Nodes]
  /\ keys \in [Names -> Clusters \cup {None}]
  /\ directory \in [Clusters -> BOOLEAN]
  /\ pc \in [Clusters -> Labels]
  /\ phase \in [Clusters -> Phases]
  /\ again \in SUBSET Clusters
  /\ kept \in [Clusters -> SUBSET Nodes]
  /\ faults \in 0 .. MaxFaults
  /\ updates \in 0 .. MaxUpdates

\* When a block ends, nothing of it is left in the account that is paid for or
\* that the next one stumbles over: its stack is deleted, which a lost request
\* for the deletion does not change, and its key pair is gone.
DoneLeavesNothing ==
  \A c \in Clusters : At(c, "done") =>
    /\ status[c] = "DELETE_COMPLETE" /\ instances[c] = {}
    /\ keys[name[c]] # c

\* As long as an instance of a block runs, its workspace is there, in which the
\* private key is that was made for it: also when a call of destroy has failed,
\* the deletion was lost in an update, or the process was killed.
WorkspaceOutlivesInstances ==
  \A c \in Clusters : instances[c] # {} => directory[c]

\* The key pair that is deleted by its name is the one that the block has made,
\* unless the body of a block with that name has deleted it, whether or not that
\* call returned: __exit__ deletes it once more, when the name may be another
\* block's.
OwnKeyPairOnly ==
  [][\A n \in Names : keys[n] # None /\ keys'[n] = None =>
       \/ \E c \in Clusters : name[c] = n /\ pc'[c] # pc[c] /\ keys[n] = c
       \/ \E c \in again : name[c] = n]_vars

\* The constructor ends, unless another block has deleted its key pair; and
\* destroying ends, however often the deletion of the stack is begun again.
CallsEnd ==
  \A c \in Clusters :
    /\ phase[c] = "init" /\ ~ At(c, "idle") ~>
         phase[c] # "init" \/ At(c, "failed") \/ (key_helper[c] /\ keys[name[c]] # c)
    /\ phase[c] \in {"manual", "exit"} ~> pc[c] \in {"body", "done", "failed"}

-----------------------------------------------------------------------------
(* The life of a cluster.  What CloudFormation does to a stack after its     *)
(* block has failed is none of the library's business: kept remembers the    *)
(* nodes at that moment.                                                     *)

GivenUp(c) == At(c, "failed") \/ status[c] \in RolledBack

Stage(c) ==
  IF GivenUp(c) THEN "givenUp"
  ELSE CASE At(c, "idle") -> "none"
         [] At(c, "done") -> "ended"
         [] OTHER -> IF phase[c] = "init" THEN "building" ELSE "up"

Members(c) == IF GivenUp(c) THEN kept[c] ELSE instances[c]

Lifecycle == INSTANCE ClusterLifecycle WITH
  stage <- [c \in Clusters |-> Stage(c)],
  members <- [c \in Clusters |-> Members(c)]

\* A block is handed a cluster with all its nodes or none, loses nodes only by
\* its own doing, and has none left when it ends (ClusterLifecycle).
KeepsPromise == Lifecycle!Spec
=============================================================================
