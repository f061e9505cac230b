-------------------------- MODULE AwsCluster_proofs --------------------------
(***************************************************************************)
(* Proofs, for any number of blocks, names and instances, that the blocks  *)
(* of AwsCluster are well typed, that a block that ends leaves nothing     *)
(* behind, that no workspace is removed before the instances are gone,     *)
(* that a block deletes its own key pair, and that the blocks implement    *)
(* ClusterLifecycle.                                                       *)
(***************************************************************************)
EXTENDS AwsCluster, TLAPS

-----------------------------------------------------------------------------
(* Types.                                                                  *)

LEMMA TypeInit ==
  ASSUME Init
  PROVE  TypeOK
<1>1. faults \in 0 .. MaxFaults /\ updates \in 0 .. MaxUpdates
  BY AwsAssumption DEF Init
<1>. QED
  BY <1>1 DEF Init, TypeOK, Statuses, Labels, Phases

LEMMA TypeStep ==
  ASSUME TypeOK, [Next]_vars
  PROVE  TypeOK'
<1> USE AwsAssumption DEF TypeOK, RolledBack, Statuses, Labels, Phases, At,
      Goto, GotoFor, Raise, GiveUp, Fault, SetStatus, arguments, cloud,
      keyPairs, bounds
<1>1. ASSUME NEW c \in Clusters, MakeWorkspace(c) PROVE TypeOK'
  BY <1>1 DEF MakeWorkspace
<1>2. ASSUME NEW c \in Clusters, CreateKeyPair(c) PROVE TypeOK'
  BY <1>2 DEF CreateKeyPair
<1>3. ASSUME NEW c \in Clusters, RequestStack(c) PROVE TypeOK'
  BY <1>3 DEF RequestStack
<1>4. ASSUME NEW c \in Clusters, NameIsTaken(c) PROVE TypeOK'
  BY <1>4 DEF NameIsTaken
<1>5. ASSUME NEW c \in Clusters, Wait(c) PROVE TypeOK'
  BY <1>5 DEF Wait, WaitedFor
<1>6. ASSUME NEW c \in Clusters, Describe(c) PROVE TypeOK'
  BY <1>6 DEF Describe
<1>7. ASSUME NEW c \in Clusters, Enter(c) PROVE TypeOK'
  BY <1>7 DEF Enter
<1>8. ASSUME NEW c \in Clusters, BodyDestroysNode(c) PROVE TypeOK'
  BY <1>8 DEF BodyDestroysNode
<1>9. ASSUME NEW c \in Clusters, BodyDestroysCluster(c) PROVE TypeOK'
  BY <1>9 DEF BodyDestroysCluster
<1>10. ASSUME NEW c \in Clusters, BodyEnds(c) PROVE TypeOK'
  BY <1>10 DEF BodyEnds
<1>11. ASSUME NEW c \in Clusters, GetStatus(c) PROVE TypeOK'
  BY <1>11 DEF GetStatus, InProgress
<1>12. ASSUME NEW c \in Clusters, Settle(c) PROVE TypeOK'
  BY <1>12 DEF Settle, WaitedFor
<1>13. ASSUME NEW c \in Clusters, RequestDeletion(c) PROVE TypeOK'
  BY <1>13 DEF RequestDeletion, Requested
<1>14. ASSUME NEW c \in Clusters, AwaitDeletion(c) PROVE TypeOK'
  BY <1>14 DEF AwaitDeletion, WaitedFor
<1>15. ASSUME NEW c \in Clusters, DeleteKeyPair(c) PROVE TypeOK'
  BY <1>15 DEF DeleteKeyPair, KeyPairDeleted
<1>16. ASSUME NEW c \in Clusters, RemoveWorkspace(c) PROVE TypeOK'
  BY <1>16 DEF RemoveWorkspace
<1>17. ASSUME NEW c \in Clusters, CallFails(c) PROVE TypeOK'
  BY <1>17 DEF CallFails
<1>18. ASSUME NEW c \in Clusters, RequestFails(c) PROVE TypeOK'
  BY <1>18 DEF RequestFails
<1>19. ASSUME NEW c \in Clusters, Killed(c) PROVE TypeOK'
  BY <1>19 DEF Killed, Active
<1>20. ASSUME NEW c \in Clusters, Launch(c) PROVE TypeOK'
  BY <1>20 DEF Launch
<1>21. ASSUME NEW c \in Clusters, StackComplete(c) PROVE TypeOK'
  BY <1>21 DEF StackComplete
<1>22. ASSUME NEW c \in Clusters, Terminate(c) PROVE TypeOK'
  BY <1>22 DEF Terminate
<1>23. ASSUME NEW c \in Clusters, RollbackComplete(c) PROVE TypeOK'
  BY <1>23 DEF RollbackComplete
<1>24. ASSUME NEW c \in Clusters, DeletionComplete(c) PROVE TypeOK'
  BY <1>24 DEF DeletionComplete
<1>25. ASSUME NEW c \in Clusters, UpdateEnds(c) PROVE TypeOK'
  BY <1>25 DEF UpdateEnds
<1>26. ASSUME NEW c \in Clusters, StackFails(c) PROVE TypeOK'
  BY <1>26 DEF StackFails
<1>27. ASSUME NEW c \in Clusters, DeletionFails(c) PROVE TypeOK'
  BY <1>27 DEF DeletionFails
<1>28. ASSUME NEW c \in Clusters, UpdateBegins(c) PROVE TypeOK'
  BY <1>28 DEF UpdateBegins
<1>29. CASE UNCHANGED vars
  BY <1>29 DEF vars
<1>30. ASSUME NEW c \in Clusters, AnswerLost(c) PROVE TypeOK'
<2>1. /\ UNCHANGED <<name, key_helper, instances, updates>>
      /\ faults' \in 0 .. MaxFaults
  BY <1>30 DEF AnswerLost
<2>2. /\ pc' \in [Clusters -> Labels]
      /\ phase' \in [Clusters -> Phases]
      /\ kept' \in [Clusters -> SUBSET Nodes]
  BY <1>30 DEF AnswerLost
<2>3. /\ status' \in [Clusters -> Statuses]
      /\ keys' \in [Names -> Clusters \cup {None}]
      /\ again' \in SUBSET Clusters
      /\ directory' \in [Clusters -> BOOLEAN]
  BY <1>30 DEF AnswerLost, Requested, KeyPairDeleted
<2>. QED
  BY <2>1, <2>2, <2>3
<1>. QED
  BY <1>1, <1>2, <1>3, <1>4, <1>5, <1>6, <1>7, <1>8, <1>9, <1>10, <1>11,
    <1>12, <1>13, <1>14, <1>15, <1>16, <1>17, <1>18, <1>19, <1>20, <1>21,
    <1>22, <1>23, <1>24, <1>25, <1>26, <1>27, <1>28, <1>29, <1>30
  DEF Next, Constructor, Body, Destroy, Failure, CloudFormation, CloudChanges,
    AllEnded

\* Every reachable state of any number of blocks is well typed.
THEOREM TypeCorrect == Spec => []TypeOK
<1>1. Init => TypeOK
  BY TypeInit
<1>2. TypeOK /\ [Next]_vars => TypeOK'
  BY TypeStep
<1>. QED
  BY <1>1, <1>2, PTL DEF Spec

-----------------------------------------------------------------------------
(* Where on whose behalf, and in which states of the stack.                *)

Complete == {"CREATE_COMPLETE", "UPDATE_IN_PROGRESS", "UPDATE_COMPLETE"}
Deleted == {"DELETE_IN_PROGRESS", "DELETE_FAILED", "DELETE_COMPLETE"}

Behalf ==
  \A c \in Clusters :
    /\ pc[c] \in {"idle", "key", "request", "giveback", "wait", "describe", "tag"} =>
         phase[c] = "init"
    /\ pc[c] = "body" => phase[c] = "body"
    /\ pc[c] \in {"status", "settle", "delete", "deleting", "unkey", "rmtree"} =>
         phase[c] \in {"manual", "exit"}
    /\ pc[c] = "done" => phase[c] = "exit"

\* Only a stack with all its instances is handed over, and only its block
\* requests its deletion.
StackInv ==
  \A c \in Clusters :
    /\ pc[c] \in {"idle", "key", "request"} => status[c] = "none"
    /\ status[c] \in {"none", "DELETE_COMPLETE"} => instances[c] = {}
    /\ pc[c] \in {"unkey", "rmtree", "done"} => status[c] = "DELETE_COMPLETE"
    /\ pc[c] \in {"describe", "tag"} => status[c] \in Complete
    /\ phase[c] = "init" => status[c] \notin Deleted
    /\ phase[c] # "init" => status[c] \in Complete \cup Deleted
    /\ (pc[c] = "tag" \/ phase[c] # "init") /\ status[c] \in Complete =>
         instances[c] = Nodes

LEMMA StackInit ==
  ASSUME Init
  PROVE  Behalf /\ StackInv
  BY DEF Init, Behalf, StackInv, Complete, Deleted

LEMMA BehalfStep ==
  ASSUME TypeOK, Behalf, [Next]_vars
  PROVE  Behalf'
<1> USE DEF TypeOK, Behalf, At, Goto, GotoFor, Raise, GiveUp, Fault,
      SetStatus, arguments, cloud, keyPairs, bounds
<1>1. ASSUME NEW c \in Clusters, MakeWorkspace(c) PROVE Behalf'
  BY <1>1 DEF MakeWorkspace
<1>2. ASSUME NEW c \in Clusters, CreateKeyPair(c) PROVE Behalf'
  BY <1>2 DEF CreateKeyPair
<1>3. ASSUME NEW c \in Clusters, RequestStack(c) PROVE Behalf'
  BY <1>3 DEF RequestStack
<1>4. ASSUME NEW c \in Clusters, NameIsTaken(c) PROVE Behalf'
  BY <1>4 DEF NameIsTaken
<1>5. ASSUME NEW c \in Clusters, Wait(c) PROVE Behalf'
  BY <1>5 DEF Wait, WaitedFor
<1>6. ASSUME NEW c \in Clusters, Describe(c) PROVE Behalf'
  BY <1>6 DEF Describe
<1>7. ASSUME NEW c \in Clusters, Enter(c) PROVE Behalf'
  BY <1>7 DEF Enter
<1>8. ASSUME NEW c \in Clusters, BodyDestroysNode(c) PROVE Behalf'
  BY <1>8 DEF BodyDestroysNode
<1>9. ASSUME NEW c \in Clusters, BodyDestroysCluster(c) PROVE Behalf'
  BY <1>9 DEF BodyDestroysCluster
<1>10. ASSUME NEW c \in Clusters, BodyEnds(c) PROVE Behalf'
  BY <1>10 DEF BodyEnds
<1>11. ASSUME NEW c \in Clusters, GetStatus(c) PROVE Behalf'
  BY <1>11 DEF GetStatus, InProgress
<1>12. ASSUME NEW c \in Clusters, Settle(c) PROVE Behalf'
  BY <1>12 DEF Settle, WaitedFor
<1>13. ASSUME NEW c \in Clusters, RequestDeletion(c) PROVE Behalf'
  BY <1>13 DEF RequestDeletion, Requested
<1>14. ASSUME NEW c \in Clusters, AwaitDeletion(c) PROVE Behalf'
  BY <1>14 DEF AwaitDeletion, WaitedFor
<1>15. ASSUME NEW c \in Clusters, DeleteKeyPair(c) PROVE Behalf'
  BY <1>15 DEF DeleteKeyPair, KeyPairDeleted
<1>16. ASSUME NEW c \in Clusters, RemoveWorkspace(c) PROVE Behalf'
  BY <1>16 DEF RemoveWorkspace
<1>17. ASSUME NEW c \in Clusters, CallFails(c) PROVE Behalf'
  BY <1>17 DEF CallFails
<1>18. ASSUME NEW c \in Clusters, RequestFails(c) PROVE Behalf'
  BY <1>18 DEF RequestFails
<1>19. ASSUME NEW c \in Clusters, Killed(c) PROVE Behalf'
  BY <1>19 DEF Killed, Active
<1>20. ASSUME NEW c \in Clusters, Launch(c) PROVE Behalf'
  BY <1>20 DEF Launch
<1>21. ASSUME NEW c \in Clusters, StackComplete(c) PROVE Behalf'
  BY <1>21 DEF StackComplete
<1>22. ASSUME NEW c \in Clusters, Terminate(c) PROVE Behalf'
  BY <1>22 DEF Terminate
<1>23. ASSUME NEW c \in Clusters, RollbackComplete(c) PROVE Behalf'
  BY <1>23 DEF RollbackComplete
<1>24. ASSUME NEW c \in Clusters, DeletionComplete(c) PROVE Behalf'
  BY <1>24 DEF DeletionComplete
<1>25. ASSUME NEW c \in Clusters, UpdateEnds(c) PROVE Behalf'
  BY <1>25 DEF UpdateEnds
<1>26. ASSUME NEW c \in Clusters, StackFails(c) PROVE Behalf'
  BY <1>26 DEF StackFails
<1>27. ASSUME NEW c \in Clusters, DeletionFails(c) PROVE Behalf'
  BY <1>27 DEF DeletionFails
<1>28. ASSUME NEW c \in Clusters, UpdateBegins(c) PROVE Behalf'
  BY <1>28 DEF UpdateBegins
<1>29. CASE UNCHANGED vars
  BY <1>29 DEF vars
<1>30. ASSUME NEW c \in Clusters, AnswerLost(c) PROVE Behalf'
  BY <1>30 DEF AnswerLost, Requested, KeyPairDeleted
<1>. QED
  BY <1>1, <1>2, <1>3, <1>4, <1>5, <1>6, <1>7, <1>8, <1>9, <1>10, <1>11,
    <1>12, <1>13, <1>14, <1>15, <1>16, <1>17, <1>18, <1>19, <1>20, <1>21,
    <1>22, <1>23, <1>24, <1>25, <1>26, <1>27, <1>28, <1>29, <1>30
  DEF Next, Constructor, Body, Destroy, Failure, CloudFormation, CloudChanges,
    AllEnded

LEMMA StackStep ==
  ASSUME TypeOK, Behalf, StackInv, [Next]_vars
  PROVE  StackInv'
<1> USE DEF TypeOK, Behalf, StackInv, Complete, Deleted, RolledBack, At, Goto,
      GotoFor, Raise, GiveUp, Fault, SetStatus, arguments, cloud, keyPairs,
      bounds
<1>1. ASSUME NEW c \in Clusters, MakeWorkspace(c) PROVE StackInv'
  BY <1>1 DEF MakeWorkspace
<1>2. ASSUME NEW c \in Clusters, CreateKeyPair(c) PROVE StackInv'
  BY <1>2 DEF CreateKeyPair
<1>3. ASSUME NEW c \in Clusters, RequestStack(c) PROVE StackInv'
  BY <1>3 DEF RequestStack
<1>4. ASSUME NEW c \in Clusters, NameIsTaken(c) PROVE StackInv'
  BY <1>4 DEF NameIsTaken
<1>5. ASSUME NEW c \in Clusters, Wait(c) PROVE StackInv'
  BY <1>5 DEF Wait, WaitedFor
<1>6. ASSUME NEW c \in Clusters, Describe(c) PROVE StackInv'
  BY <1>6 DEF Describe
<1>7. ASSUME NEW c \in Clusters, Enter(c) PROVE StackInv'
  BY <1>7 DEF Enter
<1>8. ASSUME NEW c \in Clusters, BodyDestroysNode(c) PROVE StackInv'
  BY <1>8 DEF BodyDestroysNode
<1>9. ASSUME NEW c \in Clusters, BodyDestroysCluster(c) PROVE StackInv'
  BY <1>9 DEF BodyDestroysCluster
<1>10. ASSUME NEW c \in Clusters, BodyEnds(c) PROVE StackInv'
  BY <1>10 DEF BodyEnds
<1>11. ASSUME NEW c \in Clusters, GetStatus(c) PROVE StackInv'
  BY <1>11 DEF GetStatus, InProgress
<1>12. ASSUME NEW c \in Clusters, Settle(c) PROVE StackInv'
  BY <1>12 DEF Settle, WaitedFor
<1>13. ASSUME NEW c \in Clusters, RequestDeletion(c) PROVE StackInv'
  BY <1>13 DEF RequestDeletion, Requested
<1>14. ASSUME NEW c \in Clusters, AwaitDeletion(c) PROVE StackInv'
  BY <1>14 DEF AwaitDeletion, WaitedFor
<1>15. ASSUME NEW c \in Clusters, DeleteKeyPair(c) PROVE StackInv'
  BY <1>15 DEF DeleteKeyPair, KeyPairDeleted
<1>16. ASSUME NEW c \in Clusters, RemoveWorkspace(c) PROVE StackInv'
  BY <1>16 DEF RemoveWorkspace
<1>17. ASSUME NEW c \in Clusters, CallFails(c) PROVE StackInv'
  BY <1>17 DEF CallFails
<1>18. ASSUME NEW c \in Clusters, RequestFails(c) PROVE StackInv'
  BY <1>18 DEF RequestFails
<1>19. ASSUME NEW c \in Clusters, Killed(c) PROVE StackInv'
  BY <1>19 DEF Killed, Active
<1>20. ASSUME NEW c \in Clusters, Launch(c) PROVE StackInv'
  BY <1>20 DEF Launch
<1>21. ASSUME NEW c \in Clusters, StackComplete(c) PROVE StackInv'
  BY <1>21 DEF StackComplete
<1>22. ASSUME NEW c \in Clusters, Terminate(c) PROVE StackInv'
  BY <1>22 DEF Terminate
<1>23. ASSUME NEW c \in Clusters, RollbackComplete(c) PROVE StackInv'
  BY <1>23 DEF RollbackComplete
<1>24. ASSUME NEW c \in Clusters, DeletionComplete(c) PROVE StackInv'
  BY <1>24 DEF DeletionComplete
<1>25. ASSUME NEW c \in Clusters, UpdateEnds(c) PROVE StackInv'
  BY <1>25 DEF UpdateEnds
<1>26. ASSUME NEW c \in Clusters, StackFails(c) PROVE StackInv'
  BY <1>26 DEF StackFails
<1>27. ASSUME NEW c \in Clusters, DeletionFails(c) PROVE StackInv'
  BY <1>27 DEF DeletionFails
<1>28. ASSUME NEW c \in Clusters, UpdateBegins(c) PROVE StackInv'
  BY <1>28 DEF UpdateBegins
<1>29. CASE UNCHANGED vars
  BY <1>29 DEF vars
<1>30. ASSUME NEW c \in Clusters, AnswerLost(c) PROVE StackInv'
  BY <1>30 DEF AnswerLost, Requested, KeyPairDeleted
<1>. QED
  BY <1>1, <1>2, <1>3, <1>4, <1>5, <1>6, <1>7, <1>8, <1>9, <1>10, <1>11,
    <1>12, <1>13, <1>14, <1>15, <1>16, <1>17, <1>18, <1>19, <1>20, <1>21,
    <1>22, <1>23, <1>24, <1>25, <1>26, <1>27, <1>28, <1>29, <1>30
  DEF Next, Constructor, Body, Destroy, Failure, CloudFormation, CloudChanges,
    AllEnded

-----------------------------------------------------------------------------
(* Whose key pair it is.                                                   *)

\* A block that has made a key pair keeps it until it deletes it itself, as
\* long as no block of the same name deletes twice.
KeyInv ==
  \A c \in Clusters :
    /\ pc[c] \in {"key", "giveback", "unkey"} => key_helper[c]
    /\ \A n \in Names : keys[n] = c => key_helper[c] /\ name[c] = n
    /\ pc[c] \in {"rmtree", "done"} => keys[name[c]] # c
    /\ pc[c] = "rmtree" /\ phase[c] = "manual" /\ key_helper[c] => c \in again
    /\ /\ key_helper[c]
       /\ pc[c] \notin {"idle", "key", "rmtree", "done", "failed"}
       /\ \A d \in again : name[d] # name[c]
       => keys[name[c]] = c

\* The workspace is there from the constructor's first step until the stack is
\* deleted, after which its block may remove it.
DirectoryInv ==
  \A c \in Clusters :
    status[c] # "DELETE_COMPLETE" /\ pc[c] # "idle" => directory[c]

LEMMA KeyInit ==
  ASSUME Init
  PROVE  KeyInv /\ DirectoryInv
  BY AwsAssumption DEF Init, KeyInv, DirectoryInv

LEMMA KeyStep ==
  ASSUME TypeOK, Behalf, KeyInv, [Next]_vars
  PROVE  KeyInv'
<1> USE AwsAssumption DEF TypeOK, Behalf, KeyInv, At, Goto, GotoFor, Raise,
      GiveUp, Fault, SetStatus, arguments, cloud, keyPairs, bounds
<1>1. ASSUME NEW c \in Clusters, MakeWorkspace(c) PROVE KeyInv'
  BY <1>1 DEF MakeWorkspace
<1>2. ASSUME NEW c \in Clusters, CreateKeyPair(c) PROVE KeyInv'
  BY <1>2 DEF CreateKeyPair
<1>3. ASSUME NEW c \in Clusters, RequestStack(c) PROVE KeyInv'
  BY <1>3 DEF RequestStack
<1>4. ASSUME NEW c \in Clusters, NameIsTaken(c) PROVE KeyInv'
  BY <1>4 DEF NameIsTaken
<1>5. ASSUME NEW c \in Clusters, Wait(c) PROVE KeyInv'
  BY <1>5 DEF Wait, WaitedFor
<1>6. ASSUME NEW c \in Clusters, Describe(c) PROVE KeyInv'
  BY <1>6 DEF Describe
<1>7. ASSUME NEW c \in Clusters, Enter(c) PROVE KeyInv'
  BY <1>7 DEF Enter
<1>8. ASSUME NEW c \in Clusters, BodyDestroysNode(c) PROVE KeyInv'
  BY <1>8 DEF BodyDestroysNode
<1>9. ASSUME NEW c \in Clusters, BodyDestroysCluster(c) PROVE KeyInv'
  BY <1>9 DEF BodyDestroysCluster
<1>10. ASSUME NEW c \in Clusters, BodyEnds(c) PROVE KeyInv'
  BY <1>10 DEF BodyEnds
<1>11. ASSUME NEW c \in Clusters, GetStatus(c) PROVE KeyInv'
  BY <1>11 DEF GetStatus, InProgress
<1>12. ASSUME NEW c \in Clusters, Settle(c) PROVE KeyInv'
  BY <1>12 DEF Settle, WaitedFor
<1>13. ASSUME NEW c \in Clusters, RequestDeletion(c) PROVE KeyInv'
  BY <1>13 DEF RequestDeletion, Requested
<1>14. ASSUME NEW c \in Clusters, AwaitDeletion(c) PROVE KeyInv'
  BY <1>14 DEF AwaitDeletion, WaitedFor
<1>15. ASSUME NEW c \in Clusters, DeleteKeyPair(c) PROVE KeyInv'
<2>1. CASE At(c, "unkey")
  BY <1>15, <2>1 DEF DeleteKeyPair, KeyPairDeleted
<2>2. CASE At(c, "giveback")
  BY <1>15, <2>2 DEF DeleteKeyPair, KeyPairDeleted
<2>. QED
  BY <1>15, <2>1, <2>2 DEF DeleteKeyPair
<1>16. ASSUME NEW c \in Clusters, RemoveWorkspace(c) PROVE KeyInv'
  BY <1>16 DEF RemoveWorkspace
<1>17. ASSUME NEW c \in Clusters, CallFails(c) PROVE KeyInv'
  BY <1>17 DEF CallFails
<1>18. ASSUME NEW c \in Clusters, RequestFails(c) PROVE KeyInv'
  BY <1>18 DEF RequestFails
<1>19. ASSUME NEW c \in Clusters, Killed(c) PROVE KeyInv'
  BY <1>19 DEF Killed, Active
<1>20. ASSUME NEW c \in Clusters, Launch(c) PROVE KeyInv'
  BY <1>20 DEF Launch
<1>21. ASSUME NEW c \in Clusters, StackComplete(c) PROVE KeyInv'
  BY <1>21 DEF StackComplete
<1>22. ASSUME NEW c \in Clusters, Terminate(c) PROVE KeyInv'
  BY <1>22 DEF Terminate
<1>23. ASSUME NEW c \in Clusters, RollbackComplete(c) PROVE KeyInv'
  BY <1>23 DEF RollbackComplete
<1>24. ASSUME NEW c \in Clusters, DeletionComplete(c) PROVE KeyInv'
  BY <1>24 DEF DeletionComplete
<1>25. ASSUME NEW c \in Clusters, UpdateEnds(c) PROVE KeyInv'
  BY <1>25 DEF UpdateEnds
<1>26. ASSUME NEW c \in Clusters, StackFails(c) PROVE KeyInv'
  BY <1>26 DEF StackFails
<1>27. ASSUME NEW c \in Clusters, DeletionFails(c) PROVE KeyInv'
  BY <1>27 DEF DeletionFails
<1>28. ASSUME NEW c \in Clusters, UpdateBegins(c) PROVE KeyInv'
  BY <1>28 DEF UpdateBegins
<1>29. CASE UNCHANGED vars
  BY <1>29 DEF vars
<1>30. ASSUME NEW c \in Clusters, AnswerLost(c) PROVE KeyInv'
<2>1. CASE At(c, "delete")
  BY <1>30, <2>1 DEF AnswerLost, Requested
<2>2. CASE At(c, "unkey")
  BY <1>30, <2>2 DEF AnswerLost, KeyPairDeleted
<2>3. CASE At(c, "rmtree")
  BY <1>30, <2>3 DEF AnswerLost
<2>. QED
  BY <1>30, <2>1, <2>2, <2>3 DEF AnswerLost
<1>. QED
  BY <1>1, <1>2, <1>3, <1>4, <1>5, <1>6, <1>7, <1>8, <1>9, <1>10, <1>11,
    <1>12, <1>13, <1>14, <1>15, <1>16, <1>17, <1>18, <1>19, <1>20, <1>21,
    <1>22, <1>23, <1>24, <1>25, <1>26, <1>27, <1>28, <1>29, <1>30
  DEF Next, Constructor, Body, Destroy, Failure, CloudFormation, CloudChanges,
    AllEnded

LEMMA DirectoryStep ==
  ASSUME TypeOK, StackInv, DirectoryInv, [Next]_vars
  PROVE  DirectoryInv'
<1> USE DEF TypeOK, StackInv, DirectoryInv, At, Goto, GotoFor, Raise, GiveUp,
      Fault, SetStatus, arguments, cloud, keyPairs, bounds
<1>1. ASSUME NEW c \in Clusters, MakeWorkspace(c) PROVE DirectoryInv'
  BY <1>1 DEF MakeWorkspace
<1>2. ASSUME NEW c \in Clusters, CreateKeyPair(c) PROVE DirectoryInv'
  BY <1>2 DEF CreateKeyPair
<1>3. ASSUME NEW c \in Clusters, RequestStack(c) PROVE DirectoryInv'
  BY <1>3 DEF RequestStack
<1>4. ASSUME NEW c \in Clusters, NameIsTaken(c) PROVE DirectoryInv'
  BY <1>4 DEF NameIsTaken
<1>5. ASSUME NEW c \in Clusters, Wait(c) PROVE DirectoryInv'
  BY <1>5 DEF Wait, WaitedFor
<1>6. ASSUME NEW c \in Clusters, Describe(c) PROVE DirectoryInv'
  BY <1>6 DEF Describe
<1>7. ASSUME NEW c \in Clusters, Enter(c) PROVE DirectoryInv'
  BY <1>7 DEF Enter
<1>8. ASSUME NEW c \in Clusters, BodyDestroysNode(c) PROVE DirectoryInv'
  BY <1>8 DEF BodyDestroysNode
<1>9. ASSUME NEW c \in Clusters, BodyDestroysCluster(c) PROVE DirectoryInv'
  BY <1>9 DEF BodyDestroysCluster
<1>10. ASSUME NEW c \in Clusters, BodyEnds(c) PROVE DirectoryInv'
  BY <1>10 DEF BodyEnds
<1>11. ASSUME NEW c \in Clusters, GetStatus(c) PROVE DirectoryInv'
  BY <1>11 DEF GetStatus, InProgress
<1>12. ASSUME NEW c \in Clusters, Settle(c) PROVE DirectoryInv'
  BY <1>12 DEF Settle, WaitedFor
<1>13. ASSUME NEW c \in Clusters, RequestDeletion(c) PROVE DirectoryInv'
  BY <1>13 DEF RequestDeletion, Requested
<1>14. ASSUME NEW c \in Clusters, AwaitDeletion(c) PROVE DirectoryInv'
  BY <1>14 DEF AwaitDeletion, WaitedFor
<1>15. ASSUME NEW c \in Clusters, DeleteKeyPair(c) PROVE DirectoryInv'
  BY <1>15 DEF DeleteKeyPair, KeyPairDeleted
<1>16. ASSUME NEW c \in Clusters, RemoveWorkspace(c) PROVE DirectoryInv'
  BY <1>16 DEF RemoveWorkspace
<1>17. ASSUME NEW c \in Clusters, CallFails(c) PROVE DirectoryInv'
  BY <1>17 DEF CallFails
<1>18. ASSUME NEW c \in Clusters, RequestFails(c) PROVE DirectoryInv'
  BY <1>18 DEF RequestFails
<1>19. ASSUME NEW c \in Clusters, Killed(c) PROVE DirectoryInv'
  BY <1>19 DEF Killed, Active
<1>20. ASSUME NEW c \in Clusters, Launch(c) PROVE DirectoryInv'
  BY <1>20 DEF Launch
<1>21. ASSUME NEW c \in Clusters, StackComplete(c) PROVE DirectoryInv'
  BY <1>21 DEF StackComplete
<1>22. ASSUME NEW c \in Clusters, Terminate(c) PROVE DirectoryInv'
  BY <1>22 DEF Terminate
<1>23. ASSUME NEW c \in Clusters, RollbackComplete(c) PROVE DirectoryInv'
  BY <1>23 DEF RollbackComplete
<1>24. ASSUME NEW c \in Clusters, DeletionComplete(c) PROVE DirectoryInv'
  BY <1>24 DEF DeletionComplete
<1>25. ASSUME NEW c \in Clusters, UpdateEnds(c) PROVE DirectoryInv'
  BY <1>25 DEF UpdateEnds
<1>26. ASSUME NEW c \in Clusters, StackFails(c) PROVE DirectoryInv'
  BY <1>26 DEF StackFails
<1>27. ASSUME NEW c \in Clusters, DeletionFails(c) PROVE DirectoryInv'
  BY <1>27 DEF DeletionFails
<1>28. ASSUME NEW c \in Clusters, UpdateBegins(c) PROVE DirectoryInv'
  BY <1>28 DEF UpdateBegins
<1>29. CASE UNCHANGED vars
  BY <1>29 DEF vars
<1>30. ASSUME NEW c \in Clusters, AnswerLost(c) PROVE DirectoryInv'
  BY <1>30 DEF AnswerLost, Requested, KeyPairDeleted
<1>. QED
  BY <1>1, <1>2, <1>3, <1>4, <1>5, <1>6, <1>7, <1>8, <1>9, <1>10, <1>11,
    <1>12, <1>13, <1>14, <1>15, <1>16, <1>17, <1>18, <1>19, <1>20, <1>21,
    <1>22, <1>23, <1>24, <1>25, <1>26, <1>27, <1>28, <1>29, <1>30
  DEF Next, Constructor, Body, Destroy, Failure, CloudFormation, CloudChanges,
    AllEnded

Inv == TypeOK /\ Behalf /\ StackInv /\ KeyInv /\ DirectoryInv

LEMMA InvInit == Init => Inv
  BY TypeInit, StackInit, KeyInit DEF Inv

LEMMA InvStep == Inv /\ [Next]_vars => Inv'
  BY TypeStep, BehalfStep, StackStep, KeyStep, DirectoryStep DEF Inv

\* A block that ends has deleted its stack and its key pair, whatever has failed
\* or was lost before.
THEOREM NothingIsLeft == Spec => []DoneLeavesNothing
<1>1. Inv => DoneLeavesNothing
  BY DEF Inv, TypeOK, StackInv, KeyInv, DoneLeavesNothing, At
<1>. QED
  BY <1>1, InvInit, InvStep, PTL DEF Spec

\* No workspace is removed while an instance of its block runs.
THEOREM WorkspaceIsKept == Spec => []WorkspaceOutlivesInstances
<1>1. Inv => WorkspaceOutlivesInstances
  BY DEF Inv, TypeOK, StackInv, DirectoryInv, WorkspaceOutlivesInstances
<1>. QED
  BY <1>1, InvInit, InvStep, PTL DEF Spec

\* What OwnKeyPairOnly says of a step.
KeyPairsDeleted ==
  \A n \in Names : keys[n] # None /\ keys'[n] = None =>
    \/ \E c \in Clusters : name[c] = n /\ pc'[c] # pc[c] /\ keys[n] = c
    \/ \E c \in again : name[c] = n

LEMMA KeyPairStep ==
  ASSUME Inv, [Next]_vars
  PROVE  KeyPairsDeleted
<1> USE AwsAssumption DEF Inv, TypeOK, KeyInv, KeyPairsDeleted
<1>1. ASSUME NEW c \in Clusters, CreateKeyPair(c) PROVE KeyPairsDeleted
  BY <1>1 DEF CreateKeyPair
<1>2. ASSUME NEW c \in Clusters,
             DeleteKeyPair(c) \/ (AnswerLost(c) /\ At(c, "unkey"))
      PROVE  KeyPairsDeleted
<2> SUFFICES ASSUME NEW n \in Names, keys[n] # None, keys'[n] = None,
                    \A d \in again : name[d] # n
             PROVE  name[c] = n /\ pc'[c] # pc[c] /\ keys[n] = c
  OBVIOUS
<2>1. name[c] = n
  BY <1>2 DEF DeleteKeyPair, AnswerLost, KeyPairDeleted, At
<2>2. keys[n] = c
  BY <1>2, <2>1 DEF DeleteKeyPair, AnswerLost, At
<2>3. pc'[c] # pc[c]
  BY <1>2 DEF DeleteKeyPair, AnswerLost, At, Goto, GotoFor, Raise, GiveUp
<2>. QED
  BY <2>1, <2>2, <2>3
<1>3. CASE UNCHANGED keys
  BY <1>3
<1>4. \/ \E c \in Clusters :
           \/ CreateKeyPair(c) \/ DeleteKeyPair(c)
           \/ AnswerLost(c) /\ At(c, "unkey")
      \/ UNCHANGED keys
  BY DEF vars, cloud, keyPairs, AnswerLost, Requested, Next, Constructor, Body, Destroy, Failure,
    CloudFormation, CloudChanges, AllEnded, SetStatus, MakeWorkspace,
    RequestStack, NameIsTaken, Wait, Describe, Enter, BodyDestroysNode,
    BodyDestroysCluster, BodyEnds, GetStatus, Settle, RequestDeletion,
    AwaitDeletion, RemoveWorkspace, CallFails, RequestFails, Killed, Launch,
    StackComplete, Terminate, RollbackComplete, DeletionComplete, UpdateEnds,
    StackFails, DeletionFails, UpdateBegins
<1>. QED
  BY <1>1, <1>2, <1>3, <1>4

\* A block deletes no other block's key pair, unless the body of one of that name
\* has deleted its own, whether or not that call returned.
THEOREM OwnKeyPair == Spec => OwnKeyPairOnly
<1>1. Inv /\ [Next]_vars =>
        [\A n \in Names : keys[n] # None /\ keys'[n] = None =>
           \/ \E c \in Clusters : name[c] = n /\ pc'[c] # pc[c] /\ keys[n] = c
           \/ \E c \in again : name[c] = n]_vars
  BY KeyPairStep DEF KeyPairsDeleted
<1>. QED
  BY <1>1, InvInit, InvStep, PTL DEF Spec, OwnKeyPairOnly

-----------------------------------------------------------------------------
(* The refinement of ClusterLifecycle.                                     *)

Same(c) == Stage(c)' = Stage(c) /\ Members(c)' = Members(c)

\* The steps of ClusterLifecycle, as one cluster takes them.
Moved(c) ==
  \/ Same(c)
  \/ Stage(c) = "none" /\ Stage(c)' = "building" /\ Members(c)' = Members(c)
  \/ /\ Stage(c) = "building" /\ Stage(c)' = "building"
     /\ \E k \in Nodes \ Members(c) : Members(c)' = Members(c) \cup {k}
  \/ /\ Stage(c) = "building" /\ Stage(c)' = "up"
     /\ Members(c) = Nodes /\ Members(c)' = Members(c)
  \/ /\ Stage(c) = "up" /\ Stage(c)' \in {"up", "givenUp"}
     /\ \E k \in Members(c) : Members(c)' = Members(c) \ {k}
  \/ /\ Stage(c) = "up" /\ Stage(c)' = "ended"
     /\ Members(c) = {} /\ Members(c)' = Members(c)
  \/ /\ Stage(c) \in {"building", "up"} /\ Stage(c)' = "givenUp"
     /\ Members(c)' = Members(c)

\* One cluster moves, and the others stay as they are.
Refined ==
  \/ \A d \in Clusters : Same(d)
  \/ \E c \in Clusters : Moved(c) /\ \A d \in Clusters \ {c} : Same(d)

LEMMA RefinedIsNext ==
  ASSUME Refined
  PROVE  [Lifecycle!Next]_Lifecycle!vars
<1> DEFINE st == [c \in Clusters |-> Stage(c)]
           mb == [c \in Clusters |-> Members(c)]
<1>1. st' = [c \in Clusters |-> Stage(c)'] /\ mb' = [c \in Clusters |-> Members(c)']
  OBVIOUS
<1>2. CASE \A d \in Clusters : Same(d)
<2>1. st' = st /\ mb' = mb
  BY <1>1, <1>2 DEF Same
<2>. QED
  BY <2>1 DEF Lifecycle!vars
<1>3. ASSUME NEW c \in Clusters, Moved(c), \A d \in Clusters \ {c} : Same(d)
      PROVE  [Lifecycle!Next]_Lifecycle!vars
<2>1. st' = [st EXCEPT ![c] = Stage(c)'] /\ mb' = [mb EXCEPT ![c] = Members(c)']
  BY <1>1, <1>3 DEF Same
<2>2. st[c] = Stage(c) /\ mb[c] = Members(c)
  OBVIOUS
<2>3. Members(c)' = Members(c) => mb' = mb
  BY <1>1, <1>3 DEF Same
<2>4. Stage(c)' = Stage(c) => st' = st
  BY <1>1, <1>3 DEF Same
<2> HIDE DEF st, mb
<2> DEFINE Abstract ==
      \/ st' = st /\ mb' = mb
      \/ st[c] = "none" /\ st' = [st EXCEPT ![c] = "building"] /\ mb' = mb
      \/ /\ st[c] = "building" /\ st' = st
         /\ \E k \in Nodes \ mb[c] : mb' = [mb EXCEPT ![c] = @ \cup {k}]
      \/ /\ mb[c] = Nodes /\ st[c] = "building" /\ st' = [st EXCEPT ![c] = "up"]
         /\ mb' = mb
      \/ /\ st[c] = "up" /\ \E k \in mb[c] : mb' = [mb EXCEPT ![c] = @ \ {k}]
         /\ st' = st \/ st' = [st EXCEPT ![c] = "givenUp"]
      \/ /\ mb[c] = {} /\ st[c] = "up" /\ st' = [st EXCEPT ![c] = "ended"]
         /\ mb' = mb
      \/ /\ st[c] \in {"building", "up"} /\ st' = [st EXCEPT ![c] = "givenUp"]
         /\ mb' = mb
<2>5. Abstract
  BY <1>3, <2>1, <2>2, <2>3, <2>4 DEF Moved, Same
<2>6. Abstract => [Lifecycle!Next]_Lifecycle!vars
  BY DEF st, mb, Lifecycle!Next, Lifecycle!vars, Lifecycle!Begin,
    Lifecycle!AddNode,
    Lifecycle!HandOver, Lifecycle!RemoveNode, Lifecycle!End, Lifecycle!GiveUp,
    Lifecycle!Moves
<2>. QED
  BY <2>5, <2>6
<1>. QED
  BY <1>2, <1>3 DEF Refined

LEMMA Untouched ==
  ASSUME NEW d \in Clusters,
         pc'[d] = pc[d], phase'[d] = phase[d], status'[d] = status[d],
         instances'[d] = instances[d], kept'[d] = kept[d]
  PROVE  Same(d)
  BY DEF Same, Stage, Members, GivenUp, At

LEMMA StepIsRefined ==
  ASSUME Inv, [Next]_vars
  PROVE  Refined
<1> USE DEF Inv, TypeOK
<1>1. ASSUME NEW c \in Clusters, MakeWorkspace(c) PROVE Refined
<2>1. ASSUME NEW d \in Clusters \ {c} PROVE Same(d)
<3>1. /\ pc'[d] = pc[d] /\ phase'[d] = phase[d] /\ status'[d] = status[d]
      /\ instances'[d] = instances[d] /\ kept'[d] = kept[d]
  BY <1>1 DEF MakeWorkspace, At, Goto, GotoFor, Raise, GiveUp, Fault,
    SetStatus, arguments, cloud, keyPairs, bounds
<3>. QED
  BY <3>1, Untouched
<2>2. Moved(c)
  BY <1>1 DEF MakeWorkspace, At, Goto, GotoFor, Raise, GiveUp, Fault,
    SetStatus, arguments, cloud, keyPairs, bounds, Behalf, StackInv, Moved,
    Same, Stage, Members, GivenUp, Complete, Deleted, RolledBack
<2>. QED
  BY <2>1, <2>2 DEF Refined
<1>2. ASSUME NEW c \in Clusters, CreateKeyPair(c) PROVE Refined
<2>1. ASSUME NEW d \in Clusters \ {c} PROVE Same(d)
<3>1. /\ pc'[d] = pc[d] /\ phase'[d] = phase[d] /\ status'[d] = status[d]
      /\ instances'[d] = instances[d] /\ kept'[d] = kept[d]
  BY <1>2 DEF CreateKeyPair, At, Goto, GotoFor, Raise, GiveUp, Fault,
    SetStatus, arguments, cloud, keyPairs, bounds
<3>. QED
  BY <3>1, Untouched
<2>2. Moved(c)
  BY <1>2 DEF CreateKeyPair, At, Goto, GotoFor, Raise, GiveUp, Fault,
    SetStatus, arguments, cloud, keyPairs, bounds, Behalf, StackInv, Moved,
    Same, Stage, Members, GivenUp, Complete, Deleted, RolledBack
<2>. QED
  BY <2>1, <2>2 DEF Refined
<1>3. ASSUME NEW c \in Clusters, RequestStack(c) PROVE Refined
<2>1. ASSUME NEW d \in Clusters \ {c} PROVE Same(d)
<3>1. /\ pc'[d] = pc[d] /\ phase'[d] = phase[d] /\ status'[d] = status[d]
      /\ instances'[d] = instances[d] /\ kept'[d] = kept[d]
  BY <1>3 DEF RequestStack, At, Goto, GotoFor, Raise, GiveUp, Fault,
    SetStatus, arguments, cloud, keyPairs, bounds
<3>. QED
  BY <3>1, Untouched
<2>2. Moved(c)
  BY <1>3 DEF RequestStack, At, Goto, GotoFor, Raise, GiveUp, Fault,
    SetStatus, arguments, cloud, keyPairs, bounds, Behalf, StackInv, Moved,
    Same, Stage, Members, GivenUp, Complete, Deleted, RolledBack
<2>. QED
  BY <2>1, <2>2 DEF Refined
<1>4. ASSUME NEW c \in Clusters, NameIsTaken(c) PROVE Refined
<2>1. ASSUME NEW d \in Clusters \ {c} PROVE Same(d)
<3>1. /\ pc'[d] = pc[d] /\ phase'[d] = phase[d] /\ status'[d] = status[d]
      /\ instances'[d] = instances[d] /\ kept'[d] = kept[d]
  BY <1>4 DEF NameIsTaken, At, Goto, GotoFor, Raise, GiveUp, Fault, SetStatus,
    arguments, cloud, keyPairs, bounds
<3>. QED
  BY <3>1, Untouched
<2>2. Moved(c)
  BY <1>4 DEF NameIsTaken, At, Goto, GotoFor, Raise, GiveUp, Fault, SetStatus,
    arguments, cloud, keyPairs, bounds, Behalf, StackInv, Moved, Same, Stage,
    Members, GivenUp, Complete, Deleted, RolledBack
<2>. QED
  BY <2>1, <2>2 DEF Refined
<1>5. ASSUME NEW c \in Clusters, Wait(c) PROVE Refined
<2>1. ASSUME NEW d \in Clusters \ {c} PROVE Same(d)
<3>1. /\ pc'[d] = pc[d] /\ phase'[d] = phase[d] /\ status'[d] = status[d]
      /\ instances'[d] = instances[d] /\ kept'[d] = kept[d]
  BY <1>5 DEF Wait, WaitedFor, At, Goto, GotoFor, Raise, GiveUp, Fault,
    SetStatus, arguments, cloud, keyPairs, bounds
<3>. QED
  BY <3>1, Untouched
<2>2. Moved(c)
  BY <1>5 DEF Wait, WaitedFor, At, Goto, GotoFor, Raise, GiveUp, Fault,
    SetStatus, arguments, cloud, keyPairs, bounds, Behalf, StackInv, Moved,
    Same, Stage, Members, GivenUp, Complete, Deleted, RolledBack
<2>. QED
  BY <2>1, <2>2 DEF Refined
<1>6. ASSUME NEW c \in Clusters, Describe(c) PROVE Refined
<2>1. ASSUME NEW d \in Clusters \ {c} PROVE Same(d)
<3>1. /\ pc'[d] = pc[d] /\ phase'[d] = phase[d] /\ status'[d] = status[d]
      /\ instances'[d] = instances[d] /\ kept'[d] = kept[d]
  BY <1>6 DEF Describe, At, Goto, GotoFor, Raise, GiveUp, Fault, SetStatus,
    arguments, cloud, keyPairs, bounds
<3>. QED
  BY <3>1, Untouched
<2>2. Moved(c)
  BY <1>6 DEF Describe, At, Goto, GotoFor, Raise, GiveUp, Fault, SetStatus,
    arguments, cloud, keyPairs, bounds, Behalf, StackInv, Moved, Same, Stage,
    Members, GivenUp, Complete, Deleted, RolledBack
<2>. QED
  BY <2>1, <2>2 DEF Refined
<1>7. ASSUME NEW c \in Clusters, Enter(c) PROVE Refined
<2>1. ASSUME NEW d \in Clusters \ {c} PROVE Same(d)
<3>1. /\ pc'[d] = pc[d] /\ phase'[d] = phase[d] /\ status'[d] = status[d]
      /\ instances'[d] = instances[d] /\ kept'[d] = kept[d]
  BY <1>7 DEF Enter, At, Goto, GotoFor, Raise, GiveUp, Fault, SetStatus,
    arguments, cloud, keyPairs, bounds
<3>. QED
  BY <3>1, Untouched
<2>2. Moved(c)
  BY <1>7 DEF Enter, At, Goto, GotoFor, Raise, GiveUp, Fault, SetStatus,
    arguments, cloud, keyPairs, bounds, Behalf, StackInv, Moved, Same, Stage,
    Members, GivenUp, Complete, Deleted, RolledBack
<2>. QED
  BY <2>1, <2>2 DEF Refined
<1>8. ASSUME NEW c \in Clusters, BodyDestroysNode(c) PROVE Refined
<2>1. ASSUME NEW d \in Clusters \ {c} PROVE Same(d)
<3>1. /\ pc'[d] = pc[d] /\ phase'[d] = phase[d] /\ status'[d] = status[d]
      /\ instances'[d] = instances[d] /\ kept'[d] = kept[d]
  BY <1>8 DEF BodyDestroysNode, At, Goto, GotoFor, Raise, GiveUp, Fault,
    SetStatus, arguments, cloud, keyPairs, bounds
<3>. QED
  BY <3>1, Untouched
<2>2. Moved(c)
  BY <1>8 DEF BodyDestroysNode, At, Goto, GotoFor, Raise, GiveUp, Fault,
    SetStatus, arguments, cloud, keyPairs, bounds, Behalf, StackInv, Moved,
    Same, Stage, Members, GivenUp, Complete, Deleted, RolledBack
<2>. QED
  BY <2>1, <2>2 DEF Refined
<1>9. ASSUME NEW c \in Clusters, BodyDestroysCluster(c) PROVE Refined
<2>1. ASSUME NEW d \in Clusters \ {c} PROVE Same(d)
<3>1. /\ pc'[d] = pc[d] /\ phase'[d] = phase[d] /\ status'[d] = status[d]
      /\ instances'[d] = instances[d] /\ kept'[d] = kept[d]
  BY <1>9 DEF BodyDestroysCluster, At, Goto, GotoFor, Raise, GiveUp, Fault,
    SetStatus, arguments, cloud, keyPairs, bounds
<3>. QED
  BY <3>1, Untouched
<2>2. Moved(c)
  BY <1>9 DEF BodyDestroysCluster, At, Goto, GotoFor, Raise, GiveUp, Fault,
    SetStatus, arguments, cloud, keyPairs, bounds, Behalf, StackInv, Moved,
    Same, Stage, Members, GivenUp, Complete, Deleted, RolledBack
<2>. QED
  BY <2>1, <2>2 DEF Refined
<1>10. ASSUME NEW c \in Clusters, BodyEnds(c) PROVE Refined
<2>1. ASSUME NEW d \in Clusters \ {c} PROVE Same(d)
<3>1. /\ pc'[d] = pc[d] /\ phase'[d] = phase[d] /\ status'[d] = status[d]
      /\ instances'[d] = instances[d] /\ kept'[d] = kept[d]
  BY <1>10 DEF BodyEnds, At, Goto, GotoFor, Raise, GiveUp, Fault, SetStatus,
    arguments, cloud, keyPairs, bounds
<3>. QED
  BY <3>1, Untouched
<2>2. Moved(c)
  BY <1>10 DEF BodyEnds, At, Goto, GotoFor, Raise, GiveUp, Fault, SetStatus,
    arguments, cloud, keyPairs, bounds, Behalf, StackInv, Moved, Same, Stage,
    Members, GivenUp, Complete, Deleted, RolledBack
<2>. QED
  BY <2>1, <2>2 DEF Refined
<1>11. ASSUME NEW c \in Clusters, GetStatus(c) PROVE Refined
<2>1. ASSUME NEW d \in Clusters \ {c} PROVE Same(d)
<3>1. /\ pc'[d] = pc[d] /\ phase'[d] = phase[d] /\ status'[d] = status[d]
      /\ instances'[d] = instances[d] /\ kept'[d] = kept[d]
  BY <1>11 DEF GetStatus, InProgress, At, Goto, GotoFor, Raise, GiveUp, Fault,
    SetStatus, arguments, cloud, keyPairs, bounds
<3>. QED
  BY <3>1, Untouched
<2>2. Moved(c)
  BY <1>11 DEF GetStatus, InProgress, At, Goto, GotoFor, Raise, GiveUp, Fault,
    SetStatus, arguments, cloud, keyPairs, bounds, Behalf, StackInv, Moved,
    Same, Stage, Members, GivenUp, Complete, Deleted, RolledBack
<2>. QED
  BY <2>1, <2>2 DEF Refined
<1>12. ASSUME NEW c \in Clusters, Settle(c) PROVE Refined
<2>1. ASSUME NEW d \in Clusters \ {c} PROVE Same(d)
<3>1. /\ pc'[d] = pc[d] /\ phase'[d] = phase[d] /\ status'[d] = status[d]
      /\ instances'[d] = instances[d] /\ kept'[d] = kept[d]
  BY <1>12 DEF Settle, WaitedFor, At, Goto, GotoFor, Raise, GiveUp, Fault,
    SetStatus, arguments, cloud, keyPairs, bounds
<3>. QED
  BY <3>1, Untouched
<2>2. Moved(c)
  BY <1>12 DEF Settle, WaitedFor, At, Goto, GotoFor, Raise, GiveUp, Fault,
    SetStatus, arguments, cloud, keyPairs, bounds, Behalf, StackInv, Moved,
    Same, Stage, Members, GivenUp, Complete, Deleted, RolledBack
<2>. QED
  BY <2>1, <2>2 DEF Refined
<1>13. ASSUME NEW c \in Clusters, RequestDeletion(c) PROVE Refined
<2>1. ASSUME NEW d \in Clusters \ {c} PROVE Same(d)
<3>1. /\ pc'[d] = pc[d] /\ phase'[d] = phase[d] /\ status'[d] = status[d]
      /\ instances'[d] = instances[d] /\ kept'[d] = kept[d]
  BY <1>13 DEF RequestDeletion, Requested, At, Goto, GotoFor, Raise, GiveUp, Fault,
    SetStatus, arguments, cloud, keyPairs, bounds
<3>. QED
  BY <3>1, Untouched
<2>2. Moved(c)
  BY <1>13 DEF RequestDeletion, Requested, At, Goto, GotoFor, Raise, GiveUp, Fault,
    SetStatus, arguments, cloud, keyPairs, bounds, Behalf, StackInv, Moved,
    Same, Stage, Members, GivenUp, Complete, Deleted, RolledBack
<2>. QED
  BY <2>1, <2>2 DEF Refined
<1>14. ASSUME NEW c \in Clusters, AwaitDeletion(c) PROVE Refined
<2>1. ASSUME NEW d \in Clusters \ {c} PROVE Same(d)
<3>1. /\ pc'[d] = pc[d] /\ phase'[d] = phase[d] /\ status'[d] = status[d]
      /\ instances'[d] = instances[d] /\ kept'[d] = kept[d]
  BY <1>14 DEF AwaitDeletion, WaitedFor, At, Goto, GotoFor, Raise, GiveUp,
    Fault, SetStatus, arguments, cloud, keyPairs, bounds
<3>. QED
  BY <3>1, Untouched
<2>2. Moved(c)
  BY <1>14 DEF AwaitDeletion, WaitedFor, At, Goto, GotoFor, Raise, GiveUp,
    Fault, SetStatus, arguments, cloud, keyPairs, bounds, Behalf, StackInv,
    Moved, Same, Stage, Members, GivenUp, Complete, Deleted, RolledBack
<2>. QED
  BY <2>1, <2>2 DEF Refined
<1>15. ASSUME NEW c \in Clusters, DeleteKeyPair(c) PROVE Refined
<2>1. ASSUME NEW d \in Clusters \ {c} PROVE Same(d)
<3>1. /\ pc'[d] = pc[d] /\ phase'[d] = phase[d] /\ status'[d] = status[d]
      /\ instances'[d] = instances[d] /\ kept'[d] = kept[d]
  BY <1>15 DEF DeleteKeyPair, KeyPairDeleted, At, Goto, GotoFor, Raise, GiveUp, Fault,
    SetStatus, arguments, cloud, keyPairs, bounds
<3>. QED
  BY <3>1, Untouched
<2>2. Moved(c)
  BY <1>15 DEF DeleteKeyPair, KeyPairDeleted, At, Goto, GotoFor, Raise, GiveUp, Fault,
    SetStatus, arguments, cloud, keyPairs, bounds, Behalf, StackInv, Moved,
    Same, Stage, Members, GivenUp, Complete, Deleted, RolledBack
<2>. QED
  BY <2>1, <2>2 DEF Refined
<1>16. ASSUME NEW c \in Clusters, RemoveWorkspace(c) PROVE Refined
<2>1. ASSUME NEW d \in Clusters \ {c} PROVE Same(d)
<3>1. /\ pc'[d] = pc[d] /\ phase'[d] = phase[d] /\ status'[d] = status[d]
      /\ instances'[d] = instances[d] /\ kept'[d] = kept[d]
  BY <1>16 DEF RemoveWorkspace, At, Goto, GotoFor, Raise, GiveUp, Fault,
    SetStatus, arguments, cloud, keyPairs, bounds
<3>. QED
  BY <3>1, Untouched
<2>2. Moved(c)
  BY <1>16 DEF RemoveWorkspace, At, Goto, GotoFor, Raise, GiveUp, Fault,
    SetStatus, arguments, cloud, keyPairs, bounds, Behalf, StackInv, Moved,
    Same, Stage, Members, GivenUp, Complete, Deleted, RolledBack
<2>. QED
  BY <2>1, <2>2 DEF Refined
<1>17. ASSUME NEW c \in Clusters, CallFails(c) PROVE Refined
<2>1. ASSUME NEW d \in Clusters \ {c} PROVE Same(d)
<3>1. /\ pc'[d] = pc[d] /\ phase'[d] = phase[d] /\ status'[d] = status[d]
      /\ instances'[d] = instances[d] /\ kept'[d] = kept[d]
  BY <1>17 DEF CallFails, At, Goto, GotoFor, Raise, GiveUp, Fault, SetStatus,
    arguments, cloud, keyPairs, bounds
<3>. QED
  BY <3>1, Untouched
<2>2. Moved(c)
  BY <1>17 DEF CallFails, At, Goto, GotoFor, Raise, GiveUp, Fault, SetStatus,
    arguments, cloud, keyPairs, bounds, Behalf, StackInv, Moved, Same, Stage,
    Members, GivenUp, Complete, Deleted, RolledBack
<2>. QED
  BY <2>1, <2>2 DEF Refined
<1>18. ASSUME NEW c \in Clusters, RequestFails(c) PROVE Refined
<2>1. ASSUME NEW d \in Clusters \ {c} PROVE Same(d)
<3>1. /\ pc'[d] = pc[d] /\ phase'[d] = phase[d] /\ status'[d] = status[d]
      /\ instances'[d] = instances[d] /\ kept'[d] = kept[d]
  BY <1>18 DEF RequestFails, At, Goto, GotoFor, Raise, GiveUp, Fault,
    SetStatus, arguments, cloud, keyPairs, bounds
<3>. QED
  BY <3>1, Untouched
<2>2. Moved(c)
  BY <1>18 DEF RequestFails, At, Goto, GotoFor, Raise, GiveUp, Fault,
    SetStatus, arguments, cloud, keyPairs, bounds, Behalf, StackInv, Moved,
    Same, Stage, Members, GivenUp, Complete, Deleted, RolledBack
<2>. QED
  BY <2>1, <2>2 DEF Refined
<1>19. ASSUME NEW c \in Clusters, Killed(c) PROVE Refined
<2>1. ASSUME NEW d \in Clusters \ {c} PROVE Same(d)
<3>1. /\ pc'[d] = pc[d] /\ phase'[d] = phase[d] /\ status'[d] = status[d]
      /\ instances'[d] = instances[d] /\ kept'[d] = kept[d]
  BY <1>19 DEF Killed, Active, At, Goto, GotoFor, Raise, GiveUp, Fault,
    SetStatus, arguments, cloud, keyPairs, bounds
<3>. QED
  BY <3>1, Untouched
<2>2. Moved(c)
  BY <1>19 DEF Killed, Active, At, Goto, GotoFor, Raise, GiveUp, Fault,
    SetStatus, arguments, cloud, keyPairs, bounds, Behalf, StackInv, Moved,
    Same, Stage, Members, GivenUp, Complete, Deleted, RolledBack
<2>. QED
  BY <2>1, <2>2 DEF Refined
<1>20. ASSUME NEW c \in Clusters, Launch(c) PROVE Refined
<2>1. ASSUME NEW d \in Clusters \ {c} PROVE Same(d)
<3>1. /\ pc'[d] = pc[d] /\ phase'[d] = phase[d] /\ status'[d] = status[d]
      /\ instances'[d] = instances[d] /\ kept'[d] = kept[d]
  BY <1>20 DEF Launch, At, Goto, GotoFor, Raise, GiveUp, Fault, SetStatus,
    arguments, cloud, keyPairs, bounds
<3>. QED
  BY <3>1, Untouched
<2>2. Moved(c)
  BY <1>20 DEF Launch, At, Goto, GotoFor, Raise, GiveUp, Fault, SetStatus,
    arguments, cloud, keyPairs, bounds, Behalf, StackInv, Moved, Same, Stage,
    Members, GivenUp, Complete, Deleted, RolledBack
<2>. QED
  BY <2>1, <2>2 DEF Refined
<1>21. ASSUME NEW c \in Clusters, StackComplete(c) PROVE Refined
<2>1. ASSUME NEW d \in Clusters \ {c} PROVE Same(d)
<3>1. /\ pc'[d] = pc[d] /\ phase'[d] = phase[d] /\ status'[d] = status[d]
      /\ instances'[d] = instances[d] /\ kept'[d] = kept[d]
  BY <1>21 DEF StackComplete, At, Goto, GotoFor, Raise, GiveUp, Fault,
    SetStatus, arguments, cloud, keyPairs, bounds
<3>. QED
  BY <3>1, Untouched
<2>2. Moved(c)
  BY <1>21 DEF StackComplete, At, Goto, GotoFor, Raise, GiveUp, Fault,
    SetStatus, arguments, cloud, keyPairs, bounds, Behalf, StackInv, Moved,
    Same, Stage, Members, GivenUp, Complete, Deleted, RolledBack
<2>. QED
  BY <2>1, <2>2 DEF Refined
<1>22. ASSUME NEW c \in Clusters, Terminate(c) PROVE Refined
<2>1. ASSUME NEW d \in Clusters \ {c} PROVE Same(d)
<3>1. /\ pc'[d] = pc[d] /\ phase'[d] = phase[d] /\ status'[d] = status[d]
      /\ instances'[d] = instances[d] /\ kept'[d] = kept[d]
  BY <1>22 DEF Terminate, At, Goto, GotoFor, Raise, GiveUp, Fault, SetStatus,
    arguments, cloud, keyPairs, bounds
<3>. QED
  BY <3>1, Untouched
<2>2. Moved(c)
  BY <1>22 DEF Terminate, At, Goto, GotoFor, Raise, GiveUp, Fault, SetStatus,
    arguments, cloud, keyPairs, bounds, Behalf, StackInv, Moved, Same, Stage,
    Members, GivenUp, Complete, Deleted, RolledBack
<2>. QED
  BY <2>1, <2>2 DEF Refined
<1>23. ASSUME NEW c \in Clusters, RollbackComplete(c) PROVE Refined
<2>1. ASSUME NEW d \in Clusters \ {c} PROVE Same(d)
<3>1. /\ pc'[d] = pc[d] /\ phase'[d] = phase[d] /\ status'[d] = status[d]
      /\ instances'[d] = instances[d] /\ kept'[d] = kept[d]
  BY <1>23 DEF RollbackComplete, At, Goto, GotoFor, Raise, GiveUp, Fault,
    SetStatus, arguments, cloud, keyPairs, bounds
<3>. QED
  BY <3>1, Untouched
<2>2. Moved(c)
  BY <1>23 DEF RollbackComplete, At, Goto, GotoFor, Raise, GiveUp, Fault,
    SetStatus, arguments, cloud, keyPairs, bounds, Behalf, StackInv, Moved,
    Same, Stage, Members, GivenUp, Complete, Deleted, RolledBack
<2>. QED
  BY <2>1, <2>2 DEF Refined
<1>24. ASSUME NEW c \in Clusters, DeletionComplete(c) PROVE Refined
<2>1. ASSUME NEW d \in Clusters \ {c} PROVE Same(d)
<3>1. /\ pc'[d] = pc[d] /\ phase'[d] = phase[d] /\ status'[d] = status[d]
      /\ instances'[d] = instances[d] /\ kept'[d] = kept[d]
  BY <1>24 DEF DeletionComplete, At, Goto, GotoFor, Raise, GiveUp, Fault,
    SetStatus, arguments, cloud, keyPairs, bounds
<3>. QED
  BY <3>1, Untouched
<2>2. Moved(c)
  BY <1>24 DEF DeletionComplete, At, Goto, GotoFor, Raise, GiveUp, Fault,
    SetStatus, arguments, cloud, keyPairs, bounds, Behalf, StackInv, Moved,
    Same, Stage, Members, GivenUp, Complete, Deleted, RolledBack
<2>. QED
  BY <2>1, <2>2 DEF Refined
<1>25. ASSUME NEW c \in Clusters, UpdateEnds(c) PROVE Refined
<2>1. ASSUME NEW d \in Clusters \ {c} PROVE Same(d)
<3>1. /\ pc'[d] = pc[d] /\ phase'[d] = phase[d] /\ status'[d] = status[d]
      /\ instances'[d] = instances[d] /\ kept'[d] = kept[d]
  BY <1>25 DEF UpdateEnds, At, Goto, GotoFor, Raise, GiveUp, Fault, SetStatus,
    arguments, cloud, keyPairs, bounds
<3>. QED
  BY <3>1, Untouched
<2>2. Moved(c)
  BY <1>25 DEF UpdateEnds, At, Goto, GotoFor, Raise, GiveUp, Fault, SetStatus,
    arguments, cloud, keyPairs, bounds, Behalf, StackInv, Moved, Same, Stage,
    Members, GivenUp, Complete, Deleted, RolledBack
<2>. QED
  BY <2>1, <2>2 DEF Refined
<1>26. ASSUME NEW c \in Clusters, StackFails(c) PROVE Refined
<2>1. ASSUME NEW d \in Clusters \ {c} PROVE Same(d)
<3>1. /\ pc'[d] = pc[d] /\ phase'[d] = phase[d] /\ status'[d] = status[d]
      /\ instances'[d] = instances[d] /\ kept'[d] = kept[d]
  BY <1>26 DEF StackFails, At, Goto, GotoFor, Raise, GiveUp, Fault, SetStatus,
    arguments, cloud, keyPairs, bounds
<3>. QED
  BY <3>1, Untouched
<2>2. Moved(c)
  BY <1>26 DEF StackFails, At, Goto, GotoFor, Raise, GiveUp, Fault, SetStatus,
    arguments, cloud, keyPairs, bounds, Behalf, StackInv, Moved, Same, Stage,
    Members, GivenUp, Complete, Deleted, RolledBack
<2>. QED
  BY <2>1, <2>2 DEF Refined
<1>27. ASSUME NEW c \in Clusters, DeletionFails(c) PROVE Refined
<2>1. ASSUME NEW d \in Clusters \ {c} PROVE Same(d)
<3>1. /\ pc'[d] = pc[d] /\ phase'[d] = phase[d] /\ status'[d] = status[d]
      /\ instances'[d] = instances[d] /\ kept'[d] = kept[d]
  BY <1>27 DEF DeletionFails, At, Goto, GotoFor, Raise, GiveUp, Fault,
    SetStatus, arguments, cloud, keyPairs, bounds
<3>. QED
  BY <3>1, Untouched
<2>2. Moved(c)
  BY <1>27 DEF DeletionFails, At, Goto, GotoFor, Raise, GiveUp, Fault,
    SetStatus, arguments, cloud, keyPairs, bounds, Behalf, StackInv, Moved,
    Same, Stage, Members, GivenUp, Complete, Deleted, RolledBack
<2>. QED
  BY <2>1, <2>2 DEF Refined
<1>28. ASSUME NEW c \in Clusters, UpdateBegins(c) PROVE Refined
<2>1. ASSUME NEW d \in Clusters \ {c} PROVE Same(d)
<3>1. /\ pc'[d] = pc[d] /\ phase'[d] = phase[d] /\ status'[d] = status[d]
      /\ instances'[d] = instances[d] /\ kept'[d] = kept[d]
  BY <1>28 DEF UpdateBegins, At, Goto, GotoFor, Raise, GiveUp, Fault,
    SetStatus, arguments, cloud, keyPairs, bounds
<3>. QED
  BY <3>1, Untouched
<2>2. Moved(c)
  BY <1>28 DEF UpdateBegins, At, Goto, GotoFor, Raise, GiveUp, Fault,
    SetStatus, arguments, cloud, keyPairs, bounds, Behalf, StackInv, Moved,
    Same, Stage, Members, GivenUp, Complete, Deleted, RolledBack
<2>. QED
  BY <2>1, <2>2 DEF Refined
<1>29. CASE UNCHANGED vars
<2>1. ASSUME NEW d \in Clusters PROVE Same(d)
  BY <1>29, Untouched DEF vars, cloud, keyPairs
<2>. QED
  BY <2>1 DEF Refined
<1>30. ASSUME NEW c \in Clusters, AnswerLost(c) PROVE Refined
<2>1. ASSUME NEW d \in Clusters \ {c} PROVE Same(d)
<3>1. /\ pc'[d] = pc[d] /\ phase'[d] = phase[d] /\ status'[d] = status[d]
      /\ instances'[d] = instances[d] /\ kept'[d] = kept[d]
  BY <1>30 DEF AnswerLost, Requested, KeyPairDeleted, At, Goto, GotoFor, Raise, GiveUp, Fault, SetStatus,
    arguments, cloud, keyPairs, bounds
<3>. QED
  BY <3>1, Untouched
<2>2. Moved(c)
  BY <1>30 DEF AnswerLost, Requested, KeyPairDeleted, At, Goto, GotoFor, Raise, GiveUp, Fault, SetStatus,
    arguments, cloud, keyPairs, bounds, Behalf, StackInv, Moved, Same, Stage,
    Members, GivenUp, Complete, Deleted, RolledBack
<2>. QED
  BY <2>1, <2>2 DEF Refined
<1>. QED
  BY <1>1, <1>2, <1>3, <1>4, <1>5, <1>6, <1>7, <1>8, <1>9, <1>10, <1>11,
    <1>12, <1>13, <1>14, <1>15, <1>16, <1>17, <1>18, <1>19, <1>20, <1>21,
    <1>22, <1>23, <1>24, <1>25, <1>26, <1>27, <1>28, <1>29, <1>30
  DEF Next, Constructor, Body, Destroy, Failure, CloudFormation, CloudChanges,
    AllEnded

\* A block is handed a cluster with all its nodes or none, loses nodes only by
\* its own doing, and has none left when it ends.
THEOREM BlocksKeepPromise == Spec => KeepsPromise
<1>1. Init => Lifecycle!Init
<2> SUFFICES ASSUME Init PROVE Lifecycle!Init
  OBVIOUS
<2>1. ASSUME NEW c \in Clusters PROVE Stage(c) = "none" /\ Members(c) = {}
  BY DEF Init, Stage, Members, GivenUp, At, RolledBack
<2>. QED
  BY <2>1 DEF Lifecycle!Init
<1>2. Inv /\ [Next]_vars => [Lifecycle!Next]_Lifecycle!vars
  BY StepIsRefined, RefinedIsNext
<1>. QED
  BY <1>1, <1>2, InvInit, InvStep, PTL DEF Spec, KeepsPromise, Lifecycle!Spec
=============================================================================
