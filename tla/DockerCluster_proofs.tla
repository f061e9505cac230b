------------------------ MODULE DockerCluster_proofs ------------------------
(***************************************************************************)
(* Proofs, for any number of clusters, nodes, addresses, failures and SSH  *)
(* attempts, that the blocks of DockerCluster are well typed, that a node  *)
(* never outlives the directory with its key, that a block that is done    *)
(* has no node running, and that destroying a cluster takes down none of   *)
(* another cluster's containers as long as containers run until they are   *)
(* stopped.  The argument is the invariant IInv of DockerClusterInv: one   *)
(* lemma per conjunct, with a step for each action.  The last part proves  *)
(* that the blocks implement ClusterLifecycle as long as containers do not *)
(* stop on their own.                                                      *)
(***************************************************************************)
EXTENDS DockerClusterInv, TLAPS

-----------------------------------------------------------------------------
(* Containers and their owners.                                            *)

LEMMA OwnContainers ==
  ASSUME NEW c \in Clusters
  PROVE  /\ \A x \in Own(c) : x \in Containers /\ x[1] = c /\ x[2] \in Nodes
         /\ \A k \in Nodes : <<c, k>> \in Own(c) /\ <<c, k>> \in Containers
         /\ \A x \in Containers : x[1] = c => x \in Own(c)
  BY DEF Own, Containers

LEMMA Owners ==
  ASSUME NEW x \in Containers
  PROVE  /\ x[1] \in Clusters /\ x[2] \in Nodes
         /\ x = <<x[1], x[2]>> /\ x # NoContainer
  BY DEF Containers, NoContainer

-----------------------------------------------------------------------------
(* Types.                                                                  *)

LEMMA ForgetType ==
  ASSUME TypeOK, NEW c \in Clusters, Forget(c)
  PROVE  /\ i' \in [Clusters -> Nat \ {0}]
         /\ nodes' \in [Clusters -> SUBSET Addresses]
         /\ target' \in [Clusters -> Addresses \cup {NoAddress}]
         /\ listed' \in [Clusters -> SUBSET Containers]
         /\ found' \in [Clusters -> SUBSET Containers]
         /\ victim' \in [Clusters -> Containers \cup {NoContainer}]
  BY DEF TypeOK, Forget

\* An exception leaves every local variable of the process well typed.
LEMMA RaiseType ==
  ASSUME TypeOK, NEW c \in Clusters, Raise(c)
  PROVE  /\ pc' \in [Clusters -> Labels]
         /\ phase' \in [Clusters -> Phases]
         /\ i' \in [Clusters -> Nat \ {0}]
         /\ nodes' \in [Clusters -> SUBSET Addresses]
         /\ target' \in [Clusters -> Addresses \cup {NoAddress}]
         /\ listed' \in [Clusters -> SUBSET Containers]
         /\ found' \in [Clusters -> SUBSET Containers]
         /\ victim' \in [Clusters -> Containers \cup {NoContainer}]
<1>1. pc' \in [Clusters -> Labels]
  BY DEF TypeOK, Raise, Goto, Labels
<1>2. phase' \in [Clusters -> Phases]
  BY DEF TypeOK, Raise, Phases
<1>. QED
  BY <1>1, <1>2, ForgetType DEF Raise

\* The addresses that a listing returns are the network's: only running
\* containers are listed.
LEMMA TypeStep ==
  ASSUME TypeOK, DaemonInv, [Next]_vars
  PROVE  TypeOK'
<1> USE CountsAssumption DEF TypeOK, NoFault, Fault, Goto, ListFor, daemon,
      locals, Labels, Phases
<1>1. ASSUME NEW c \in Clusters, MakeWorkspace(c) PROVE TypeOK'
  BY <1>1 DEF MakeWorkspace
<1>2. ASSUME NEW c \in Clusters, BuildImage(c) PROVE TypeOK'
  BY <1>2 DEF BuildImage
<1>3. ASSUME NEW c \in Clusters, CreateContainer(c) PROVE TypeOK'
  BY <1>3 DEF CreateContainer
<1>4. ASSUME NEW c \in Clusters, StartContainer(c) PROVE TypeOK'
  BY <1>4 DEF StartContainer
<1>5. ASSUME NEW c \in Clusters, NoAddressLeft(c) PROVE TypeOK'
  BY <1>5, RaiseType DEF NoAddressLeft
<1>6. ASSUME NEW c \in Clusters, Provision(c) PROVE TypeOK'
  BY <1>6 DEF Provision
<1>7. ASSUME NEW c \in Clusters, ProvisionStopped(c) PROVE TypeOK'
  BY <1>7, RaiseType DEF ProvisionStopped
<1>8. ASSUME NEW c \in Clusters, ListRole(c) PROVE TypeOK'
  BY <1>8, OwnContainers DEF ListRole, DaemonInv, Running
<1>9. ASSUME NEW c \in Clusters, NextNode(c) PROVE TypeOK'
  BY <1>9 DEF NextNode
<1>10. ASSUME NEW c \in Clusters, LastNodeDone(c) PROVE TypeOK'
  BY <1>10 DEF LastNodeDone
<1>11. ASSUME NEW c \in Clusters, SshAnswers(c) PROVE TypeOK'
  BY <1>11 DEF SshAnswers
<1>12. ASSUME NEW c \in Clusters, SshRefused(c) PROVE TypeOK'
  BY <1>12, RaiseType DEF SshRefused
<1>13. ASSUME NEW c \in Clusters, BodyDestroysNode(c) PROVE TypeOK'
  BY <1>13, OwnContainers DEF BodyDestroysNode
<1>14. ASSUME NEW c \in Clusters, BodyDestroysCluster(c) PROVE TypeOK'
  BY <1>14 DEF BodyDestroysCluster
<1>15. ASSUME NEW c \in Clusters, BodyEnds(c) PROVE TypeOK'
  BY <1>15 DEF BodyEnds
<1>16. ASSUME NEW c \in Clusters, ListContainers(c) PROVE TypeOK'
  BY <1>16 DEF ListContainers
<1>17. ASSUME NEW c \in Clusters, MatchAddress(c) PROVE TypeOK'
  BY <1>17 DEF MatchAddress
<1>18. ASSUME NEW c \in Clusters, StopContainer(c) PROVE TypeOK'
  BY <1>18 DEF StopContainer
<1>19. ASSUME NEW c \in Clusters, RemoveContainer(c) PROVE TypeOK'
  BY <1>19 DEF RemoveContainer
<1>20. ASSUME NEW c \in Clusters, ContainerGone(c) PROVE TypeOK'
  BY <1>20, RaiseType DEF ContainerGone
<1>21. ASSUME NEW c \in Clusters, NodeDestroyed(c) PROVE TypeOK'
  BY <1>21 DEF NodeDestroyed
<1>22. ASSUME NEW c \in Clusters, RemoveWorkspace(c) PROVE TypeOK'
  BY <1>22 DEF RemoveWorkspace
<1>23. ASSUME NEW c \in Clusters, CallFails(c) PROVE TypeOK'
  BY <1>23, RaiseType DEF CallFails
<1>24. ASSUME NEW c \in Clusters, StopFailsLate(c) PROVE TypeOK'
  BY <1>24, RaiseType DEF StopFailsLate
<1>25. ASSUME NEW c \in Clusters, Killed(c) PROVE TypeOK'
  BY <1>25, ForgetType DEF Killed
<1>26. ASSUME NEW x \in Containers, ContainerExits(x) PROVE TypeOK'
  BY <1>26 DEF ContainerExits
<1>27. CASE UNCHANGED vars
  BY <1>27 DEF vars
<1>. QED
  BY <1>1, <1>2, <1>3, <1>4, <1>5, <1>6, <1>7, <1>8, <1>9, <1>10, <1>11,
    <1>12, <1>13, <1>14, <1>15, <1>16, <1>17, <1>18, <1>19, <1>20, <1>21,
    <1>22, <1>23, <1>24, <1>25, <1>26, <1>27
  DEF Next, Progress, Body, Failure, Constructor, Listing, WaitForSsh, Destroy,
      AllEnded, vars

-----------------------------------------------------------------------------
(* The daemon: addresses.                                                  *)

LEMMA DaemonStart ==
  ASSUME TypeOK, LoopInv, BuildInv, DaemonInv,
         NEW c \in Clusters, StartContainer(c)
  PROVE  DaemonInv'
<1> DEFINE x == <<c, i[c]>>
<1>1. x \in Containers
  BY OwnContainers DEF StartContainer, At, LoopInv
<1>2. PICK a \in Addresses : /\ \A y \in Containers : address[y] # a
                             /\ address' = [address EXCEPT ![x] = a]
  BY DEF StartContainer
<1>3. status' = [status EXCEPT ![x] = "running"]
  BY DEF StartContainer
<1> HIDE DEF x
<1>. QED
  BY <1>1, <1>2, <1>3, AddressAssumption DEF TypeOK, DaemonInv, Running

LEMMA DaemonRemove ==
  ASSUME TypeOK, BuildInv, DaemonInv, NEW c \in Clusters, RemoveContainer(c)
  PROVE  DaemonInv'
<1> DEFINE x == victim[c]
<1>1. x \in Containers /\ ~ Running(x)
  BY DEF RemoveContainer, At, BuildInv, Started
<1>2. status' = [status EXCEPT ![x] = "absent"] /\ address' = address
  BY DEF RemoveContainer
<1> HIDE DEF x
<1>. QED
  BY <1>1, <1>2 DEF TypeOK, DaemonInv, Running

\* An address is only given to a container that starts, and it is a free one.
LEMMA DaemonStep ==
  ASSUME TypeOK, LoopInv, BuildInv, DaemonInv, [Next]_vars
  PROVE  DaemonInv'
<1> USE AddressAssumption DEF NoFault, Fault, At, daemon, locals, Running,
      TypeOK, LoopInv, BuildInv, MadeInOrder, NotYet, DaemonInv
<1>1. ASSUME NEW c \in Clusters, MakeWorkspace(c) PROVE DaemonInv'
  BY <1>1, OwnContainers, Owners DEF MakeWorkspace
<1>2. ASSUME NEW c \in Clusters, BuildImage(c) PROVE DaemonInv'
  BY <1>2, OwnContainers, Owners DEF BuildImage
<1>3. ASSUME NEW c \in Clusters, CreateContainer(c) PROVE DaemonInv'
  BY <1>3, OwnContainers, Owners DEF CreateContainer
<1>4. ASSUME NEW c \in Clusters, StartContainer(c) PROVE DaemonInv'
  BY <1>4, DaemonStart
<1>5. ASSUME NEW c \in Clusters, NoAddressLeft(c) PROVE DaemonInv'
  BY <1>5, OwnContainers, Owners DEF NoAddressLeft
<1>6. ASSUME NEW c \in Clusters, Provision(c) PROVE DaemonInv'
  BY <1>6, OwnContainers, Owners DEF Provision
<1>7. ASSUME NEW c \in Clusters, ProvisionStopped(c) PROVE DaemonInv'
  BY <1>7, OwnContainers, Owners DEF ProvisionStopped
<1>8. ASSUME NEW c \in Clusters, ListRole(c) PROVE DaemonInv'
  BY <1>8, OwnContainers, Owners DEF ListRole
<1>9. ASSUME NEW c \in Clusters, NextNode(c) PROVE DaemonInv'
  BY <1>9, OwnContainers, Owners DEF NextNode
<1>10. ASSUME NEW c \in Clusters, LastNodeDone(c) PROVE DaemonInv'
  BY <1>10, OwnContainers, Owners DEF LastNodeDone
<1>11. ASSUME NEW c \in Clusters, SshAnswers(c) PROVE DaemonInv'
  BY <1>11, OwnContainers, Owners DEF SshAnswers
<1>12. ASSUME NEW c \in Clusters, SshRefused(c) PROVE DaemonInv'
  BY <1>12, OwnContainers, Owners DEF SshRefused
<1>13. ASSUME NEW c \in Clusters, BodyDestroysNode(c) PROVE DaemonInv'
  BY <1>13, OwnContainers, Owners DEF BodyDestroysNode
<1>14. ASSUME NEW c \in Clusters, BodyDestroysCluster(c) PROVE DaemonInv'
  BY <1>14, OwnContainers, Owners DEF BodyDestroysCluster
<1>15. ASSUME NEW c \in Clusters, BodyEnds(c) PROVE DaemonInv'
  BY <1>15, OwnContainers, Owners DEF BodyEnds
<1>16. ASSUME NEW c \in Clusters, ListContainers(c) PROVE DaemonInv'
  BY <1>16, OwnContainers, Owners DEF ListContainers
<1>17. ASSUME NEW c \in Clusters, MatchAddress(c) PROVE DaemonInv'
  BY <1>17, OwnContainers, Owners DEF MatchAddress
<1>18. ASSUME NEW c \in Clusters, StopContainer(c) PROVE DaemonInv'
  BY <1>18, OwnContainers, Owners DEF StopContainer
<1>19. ASSUME NEW c \in Clusters, RemoveContainer(c) PROVE DaemonInv'
  BY <1>19, DaemonRemove
<1>20. ASSUME NEW c \in Clusters, ContainerGone(c) PROVE DaemonInv'
  BY <1>20, OwnContainers, Owners DEF ContainerGone
<1>21. ASSUME NEW c \in Clusters, NodeDestroyed(c) PROVE DaemonInv'
  BY <1>21, OwnContainers, Owners DEF NodeDestroyed
<1>22. ASSUME NEW c \in Clusters, RemoveWorkspace(c) PROVE DaemonInv'
  BY <1>22, OwnContainers, Owners DEF RemoveWorkspace
<1>23. ASSUME NEW c \in Clusters, CallFails(c) PROVE DaemonInv'
  BY <1>23, OwnContainers, Owners DEF CallFails
<1>24. ASSUME NEW c \in Clusters, StopFailsLate(c) PROVE DaemonInv'
  BY <1>24, OwnContainers, Owners DEF StopFailsLate
<1>25. ASSUME NEW c \in Clusters, Killed(c) PROVE DaemonInv'
  BY <1>25, OwnContainers, Owners DEF Killed
<1>26. ASSUME NEW x \in Containers, ContainerExits(x) PROVE DaemonInv'
  BY <1>26 DEF ContainerExits
<1>27. CASE UNCHANGED vars
  BY <1>27 DEF vars
<1>. QED
  BY <1>1, <1>2, <1>3, <1>4, <1>5, <1>6, <1>7, <1>8, <1>9, <1>10, <1>11,
    <1>12, <1>13, <1>14, <1>15, <1>16, <1>17, <1>18, <1>19, <1>20, <1>21,
    <1>22, <1>23, <1>24, <1>25, <1>26, <1>27
  DEF Next, Progress, Body, Failure, Constructor, Listing, WaitForSsh, Destroy,
      AllEnded, vars

-----------------------------------------------------------------------------
(* Control: phases and loop variables.                                     *)

\* A process is only ever where its phase allows it to be.
LEMMA PhaseStep ==
  ASSUME TypeOK, PhaseInv, [Next]_vars
  PROVE  PhaseInv'
<1> USE DEF NoFault, Fault, At, Goto, ListFor, locals, TypeOK, Phases,
        PhaseInv, ConstructorLabels, DestroyNodeLabels
<1>1. ASSUME NEW c \in Clusters, MakeWorkspace(c) PROVE PhaseInv'
  BY <1>1 DEF MakeWorkspace
<1>2. ASSUME NEW c \in Clusters, BuildImage(c) PROVE PhaseInv'
  BY <1>2 DEF BuildImage
<1>3. ASSUME NEW c \in Clusters, CreateContainer(c) PROVE PhaseInv'
  BY <1>3 DEF CreateContainer
<1>4. ASSUME NEW c \in Clusters, StartContainer(c) PROVE PhaseInv'
  BY <1>4 DEF StartContainer
<1>5. ASSUME NEW c \in Clusters, NoAddressLeft(c) PROVE PhaseInv'
  BY <1>5 DEF NoAddressLeft, Raise, Forget
<1>6. ASSUME NEW c \in Clusters, Provision(c) PROVE PhaseInv'
  BY <1>6 DEF Provision
<1>7. ASSUME NEW c \in Clusters, ProvisionStopped(c) PROVE PhaseInv'
  BY <1>7 DEF ProvisionStopped, Raise, Forget
<1>8. ASSUME NEW c \in Clusters, ListRole(c) PROVE PhaseInv'
  BY <1>8 DEF ListRole
<1>9. ASSUME NEW c \in Clusters, NextNode(c) PROVE PhaseInv'
  BY <1>9 DEF NextNode
<1>10. ASSUME NEW c \in Clusters, LastNodeDone(c) PROVE PhaseInv'
  BY <1>10 DEF LastNodeDone
<1>11. ASSUME NEW c \in Clusters, SshAnswers(c) PROVE PhaseInv'
  BY <1>11 DEF SshAnswers
<1>12. ASSUME NEW c \in Clusters, SshRefused(c) PROVE PhaseInv'
  BY <1>12 DEF SshRefused, Raise, Forget
<1>13. ASSUME NEW c \in Clusters, BodyDestroysNode(c) PROVE PhaseInv'
  BY <1>13 DEF BodyDestroysNode
<1>14. ASSUME NEW c \in Clusters, BodyDestroysCluster(c) PROVE PhaseInv'
  BY <1>14 DEF BodyDestroysCluster
<1>15. ASSUME NEW c \in Clusters, BodyEnds(c) PROVE PhaseInv'
  BY <1>15 DEF BodyEnds
<1>16. ASSUME NEW c \in Clusters, ListContainers(c) PROVE PhaseInv'
  BY <1>16 DEF ListContainers
<1>17. ASSUME NEW c \in Clusters, MatchAddress(c) PROVE PhaseInv'
  BY <1>17 DEF MatchAddress
<1>18. ASSUME NEW c \in Clusters, StopContainer(c) PROVE PhaseInv'
  BY <1>18 DEF StopContainer
<1>19. ASSUME NEW c \in Clusters, RemoveContainer(c) PROVE PhaseInv'
  BY <1>19 DEF RemoveContainer
<1>20. ASSUME NEW c \in Clusters, ContainerGone(c) PROVE PhaseInv'
  BY <1>20 DEF ContainerGone, Raise, Forget
<1>21. ASSUME NEW c \in Clusters, NodeDestroyed(c) PROVE PhaseInv'
  BY <1>21 DEF NodeDestroyed
<1>22. ASSUME NEW c \in Clusters, RemoveWorkspace(c) PROVE PhaseInv'
  BY <1>22 DEF RemoveWorkspace
<1>23. ASSUME NEW c \in Clusters, CallFails(c) PROVE PhaseInv'
  BY <1>23 DEF CallFails, Raise, Forget
<1>24. ASSUME NEW c \in Clusters, StopFailsLate(c) PROVE PhaseInv'
  BY <1>24 DEF StopFailsLate, Raise, Forget
<1>25. ASSUME NEW c \in Clusters, Killed(c) PROVE PhaseInv'
  BY <1>25 DEF Killed, Forget
<1>26. ASSUME NEW x \in Containers, ContainerExits(x) PROVE PhaseInv'
  BY <1>26 DEF ContainerExits
<1>27. CASE UNCHANGED vars
  BY <1>27 DEF vars
<1>. QED
  BY <1>1, <1>2, <1>3, <1>4, <1>5, <1>6, <1>7, <1>8, <1>9, <1>10, <1>11,
    <1>12, <1>13, <1>14, <1>15, <1>16, <1>17, <1>18, <1>19, <1>20, <1>21,
    <1>22, <1>23, <1>24, <1>25, <1>26, <1>27
  DEF Next, Progress, Body, Failure, Constructor, Listing, WaitForSsh, Destroy,
      AllEnded, vars

\* Between the handling of two nodes nothing is left over of the first.
LEMMA LoopStep ==
  ASSUME TypeOK, PhaseInv, LoopInv, [Next]_vars
  PROVE  LoopInv'
<1> USE CountsAssumption DEF NoFault, Fault, At, Goto, ListFor, locals,
      TypeOK, PhaseInv, LoopInv, Nodes, Size, Roles, ConstructorLabels,
      DestroyNodeLabels, OneNodeLabels
<1>1. ASSUME NEW c \in Clusters, MakeWorkspace(c) PROVE LoopInv'
  BY <1>1 DEF MakeWorkspace
<1>2. ASSUME NEW c \in Clusters, BuildImage(c) PROVE LoopInv'
  BY <1>2 DEF BuildImage
<1>3. ASSUME NEW c \in Clusters, CreateContainer(c) PROVE LoopInv'
  BY <1>3 DEF CreateContainer
<1>4. ASSUME NEW c \in Clusters, StartContainer(c) PROVE LoopInv'
  BY <1>4 DEF StartContainer
<1>5. ASSUME NEW c \in Clusters, NoAddressLeft(c) PROVE LoopInv'
  BY <1>5 DEF NoAddressLeft, Raise, Forget
<1>6. ASSUME NEW c \in Clusters, Provision(c) PROVE LoopInv'
  BY <1>6 DEF Provision
<1>7. ASSUME NEW c \in Clusters, ProvisionStopped(c) PROVE LoopInv'
  BY <1>7 DEF ProvisionStopped, Raise, Forget
<1>8. ASSUME NEW c \in Clusters, ListRole(c) PROVE LoopInv'
  BY <1>8 DEF ListRole
<1>9. ASSUME NEW c \in Clusters, NextNode(c) PROVE LoopInv'
  BY <1>9 DEF NextNode
<1>10. ASSUME NEW c \in Clusters, LastNodeDone(c) PROVE LoopInv'
  BY <1>10 DEF LastNodeDone
<1>11. ASSUME NEW c \in Clusters, SshAnswers(c) PROVE LoopInv'
  BY <1>11 DEF SshAnswers
<1>12. ASSUME NEW c \in Clusters, SshRefused(c) PROVE LoopInv'
  BY <1>12 DEF SshRefused, Raise, Forget
<1>13. ASSUME NEW c \in Clusters, BodyDestroysNode(c) PROVE LoopInv'
  BY <1>13 DEF BodyDestroysNode
<1>14. ASSUME NEW c \in Clusters, BodyDestroysCluster(c) PROVE LoopInv'
  BY <1>14 DEF BodyDestroysCluster
<1>15. ASSUME NEW c \in Clusters, BodyEnds(c) PROVE LoopInv'
  BY <1>15 DEF BodyEnds
<1>16. ASSUME NEW c \in Clusters, ListContainers(c) PROVE LoopInv'
  BY <1>16 DEF ListContainers
<1>17. ASSUME NEW c \in Clusters, MatchAddress(c) PROVE LoopInv'
  BY <1>17 DEF MatchAddress
<1>18. ASSUME NEW c \in Clusters, StopContainer(c) PROVE LoopInv'
  BY <1>18 DEF StopContainer
<1>19. ASSUME NEW c \in Clusters, RemoveContainer(c) PROVE LoopInv'
  BY <1>19 DEF RemoveContainer
<1>20. ASSUME NEW c \in Clusters, ContainerGone(c) PROVE LoopInv'
  BY <1>20 DEF ContainerGone, Raise, Forget
<1>21. ASSUME NEW c \in Clusters, NodeDestroyed(c) PROVE LoopInv'
  BY <1>21 DEF NodeDestroyed
<1>22. ASSUME NEW c \in Clusters, RemoveWorkspace(c) PROVE LoopInv'
  BY <1>22 DEF RemoveWorkspace
<1>23. ASSUME NEW c \in Clusters, CallFails(c) PROVE LoopInv'
  BY <1>23 DEF CallFails, Raise, Forget
<1>24. ASSUME NEW c \in Clusters, StopFailsLate(c) PROVE LoopInv'
  BY <1>24 DEF StopFailsLate, Raise, Forget
<1>25. ASSUME NEW c \in Clusters, Killed(c) PROVE LoopInv'
  BY <1>25 DEF Killed, Forget
<1>26. ASSUME NEW x \in Containers, ContainerExits(x) PROVE LoopInv'
  BY <1>26 DEF ContainerExits
<1>27. CASE UNCHANGED vars
  BY <1>27 DEF vars
<1>. QED
  BY <1>1, <1>2, <1>3, <1>4, <1>5, <1>6, <1>7, <1>8, <1>9, <1>10, <1>11,
    <1>12, <1>13, <1>14, <1>15, <1>16, <1>17, <1>18, <1>19, <1>20, <1>21,
    <1>22, <1>23, <1>24, <1>25, <1>26, <1>27
  DEF Next, Progress, Body, Failure, Constructor, Listing, WaitForSsh, Destroy,
      AllEnded, vars

-----------------------------------------------------------------------------
(* Containers are made in order.                                           *)

\* What the constructor has made stays made.
Forward == \A x \in Containers : NotYet(x)' => NotYet(x)

LEMMA ForwardStep ==
  ASSUME TypeOK, LoopInv, BuildInv, [Next]_vars
  PROVE  Forward
<1> USE CountsAssumption, Owners
    DEF Forward, NotYet, At, Goto, ListFor, locals, TypeOK, LoopInv
<1>1. ASSUME NEW c \in Clusters, Constructor(c) \/ Listing(c)
      PROVE  Forward
  BY <1>1 DEF Constructor, Listing, MakeWorkspace, BuildImage,
     CreateContainer, StartContainer, NoAddressLeft, Provision,
     ProvisionStopped, ListRole, NextNode, LastNodeDone, Raise, Forget, Nodes
<1>2. ASSUME NEW c \in Clusters,
             WaitForSsh(c) \/ Body(c) \/ Destroy(c) \/ Failure(c)
      PROVE  Forward
  BY <1>2 DEF WaitForSsh, Body, Destroy, Failure, SshAnswers, SshRefused,
     BodyDestroysNode, BodyDestroysCluster, BodyEnds, ListContainers,
     MatchAddress, StopContainer, RemoveContainer, ContainerGone, NodeDestroyed,
     RemoveWorkspace, CallFails, StopFailsLate, Killed, Raise, Forget
<1>3. ASSUME NEW x \in Containers, ContainerExits(x) PROVE Forward
  BY <1>3 DEF ContainerExits
<1>4. CASE UNCHANGED vars
  BY <1>4 DEF vars
<1>. QED
  BY <1>1, <1>2, <1>3, <1>4 DEF Next, Progress, AllEnded

\* Steps that leave the containers alone and start or remove none.
Quiet ==
  /\ status' = status
  /\ \A d \in Clusters :
       /\ listed'[d] \subseteq listed[d]
       /\ found'[d] \subseteq found[d]
       /\ At(d, "start")' => At(d, "start") /\ i'[d] = i[d]
       /\ At(d, "remove")' => At(d, "remove") /\ victim'[d] = victim[d]

LEMMA BuildQuiet ==
  ASSUME TypeOK, BuildInv, Forward, Quiet
  PROVE  BuildInv'
<1> USE DEF At, NotYet
<1>1. \A x \in Containers : MadeInOrder(x)'
  BY DEF MadeInOrder, BuildInv, Forward, Quiet
<1>2. ASSUME NEW d \in Clusters PROVE StartsCreated(d)'
  BY DEF StartsCreated, BuildInv, Quiet
<1>3. ASSUME NEW d \in Clusters, NEW x \in listed'[d] \cup found'[d]
      PROVE  Started(x)'
  BY <1>3 DEF BuildInv, Quiet, Started, Forward
<1>4. ASSUME NEW d \in Clusters, At(d, "remove")'
      PROVE  (Started(victim[d]) /\ ~ Running(victim[d]))'
  BY <1>4 DEF BuildInv, Quiet, Started, Running, Forward
<1>. QED
  BY <1>1, <1>2, <1>3, <1>4 DEF BuildInv

LEMMA BuildLoops ==
  ASSUME TypeOK, LoopInv, BuildInv, Forward, NEW c \in Clusters,
         ListRole(c) \/ SshRefused(c) \/ Provision(c)
  PROVE  BuildInv'
<1>1. Quiet
  BY DEF Quiet, ListRole, SshRefused, Provision, Raise, Forget, At, Goto,
     TypeOK, daemon
<1>. QED
  BY <1>1, BuildQuiet

\* The container that is created is none that a destroy_node holds: those
\* have been created before.
LEMMA BuildCreate ==
  ASSUME TypeOK, LoopInv, BuildInv, Forward, NEW c \in Clusters,
         CreateContainer(c)
  PROVE  BuildInv'
<1> DEFINE x == <<c, i[c]>>
<1>1. x \in Containers /\ NotYet(x) /\ x[1] = c
  BY OwnContainers DEF CreateContainer, At, NotYet, LoopInv, TypeOK, Nodes
<1>2. ASSUME NotYet(x)' PROVE FALSE
  BY <1>2, OwnContainers
     DEF CreateContainer, At, Goto, locals, NotYet, LoopInv, TypeOK, Nodes
<1>3. /\ status' = [status EXCEPT ![x] = "created"]
      /\ i' = i /\ listed' = listed /\ found' = found /\ victim' = victim
  BY DEF CreateContainer, locals
<1>4. \A d \in Clusters : /\ At(d, "start")' => d = c \/ At(d, "start")
                          /\ At(d, "remove")' => At(d, "remove")
  BY DEF CreateContainer, At, Goto, TypeOK
<1>5. ASSUME NEW d \in Clusters PROVE StartsCreated(d)'
  BY <1>1, <1>3, <1>4, OwnContainers
     DEF BuildInv, StartsCreated, TypeOK, LoopInv, At
<1>6. x' = x
  BY <1>3
<1> HIDE DEF x
<1>7. \A y \in Containers : MadeInOrder(y)'
  BY <1>1, <1>2, <1>3, <1>6 DEF MadeInOrder, BuildInv, TypeOK, Forward, NotYet
<1>8. ASSUME NEW y, Started(y) PROVE Started(y)' /\ status'[y] = status[y]
  BY <1>1, <1>3, <1>8 DEF Started, TypeOK, Forward, NotYet
<1>9. ASSUME NEW d \in Clusters, NEW y \in listed'[d] \cup found'[d]
      PROVE  Started(y)'
  BY <1>3, <1>8, <1>9 DEF BuildInv
<1>10. ASSUME NEW d \in Clusters, At(d, "remove")'
       PROVE  (Started(victim[d]) /\ ~ Running(victim[d]))'
  BY <1>3, <1>4, <1>8, <1>10 DEF BuildInv, Running
<1>. QED
  BY <1>5, <1>7, <1>9, <1>10 DEF BuildInv

LEMMA BuildStop ==
  ASSUME TypeOK, LoopInv, BuildInv, Forward, NEW c \in Clusters,
         StopContainer(c) \/ RemoveContainer(c)
  PROVE  BuildInv'
<1>1. PICK x \in Containers :
        /\ Started(x)
        /\ \E s \in {"exited", "absent"} : status' = [status EXCEPT ![x] = s]
        /\ StopContainer(c) => victim' = [victim EXCEPT ![c] = x]
  BY DEF StopContainer, RemoveContainer, BuildInv, TypeOK, At, Started
<1>2. ASSUME NEW d \in Clusters
      PROVE  /\ At(d, "start")' => /\ At(d, "start") /\ i'[d] = i[d]
                                   /\ <<d, i[d]>> \in Containers
             /\ At(d, "remove")' => \/ d = c /\ StopContainer(c)
                                    \/ At(d, "remove") /\ victim'[d] = victim[d]
             /\ listed'[d] \subseteq listed[d] /\ found'[d] \subseteq found[d]
  BY OwnContainers
     DEF StopContainer, RemoveContainer, At, Goto, TypeOK, LoopInv
<1>3. \A y \in Containers : MadeInOrder(y)'
  BY <1>1 DEF MadeInOrder, BuildInv, TypeOK, Started, Forward, NotYet
<1>4. ASSUME NEW y, Started(y)
      PROVE  Started(y)' /\ (~ Running(y) \/ y = x => ~ Running(y)')
  BY <1>1, <1>4 DEF Started, TypeOK, Running, Forward, NotYet
<1>5. ASSUME NEW d \in Clusters, At(d, "start")'
      PROVE  status'[<<d, i'[d]>>] = "created"
  <2>1. status[<<d, i[d]>>] = "created" /\ <<d, i[d]>> \in Containers
    BY <1>2, <1>5 DEF BuildInv, StartsCreated
  <2>2. <<d, i[d]>> # x
    BY <2>1, <1>1 DEF Started
  <2>. QED
    BY <2>1, <2>2, <1>1, <1>2, <1>5 DEF TypeOK
<1>6. ASSUME NEW d \in Clusters, NEW y \in listed'[d] \cup found'[d]
      PROVE  Started(y)'
  BY <1>2, <1>4, <1>6 DEF BuildInv
<1>7. ASSUME NEW d \in Clusters, At(d, "remove")'
      PROVE  (Started(victim[d]) /\ ~ Running(victim[d]))'
  <2>1. CASE d = c /\ StopContainer(c)
    BY <2>1, <1>1, <1>4 DEF TypeOK
  <2>2. CASE At(d, "remove") /\ victim'[d] = victim[d]
    BY <2>2, <1>1, <1>4 DEF BuildInv
  <2>. QED
    BY <1>2, <1>7, <2>1, <2>2
<1>. QED
  BY <1>3, <1>5, <1>6, <1>7 DEF BuildInv, StartsCreated

\* destroy_node only holds containers that have been running.
LEMMA BuildStep ==
  ASSUME TypeOK, LoopInv, BuildInv, [Next]_vars
  PROVE  BuildInv'
<1>0. Forward
  BY ForwardStep
<1> USE DEF NoFault, Fault, At, Goto, ListFor, daemon, locals, Running, TypeOK,
        BuildInv, MadeInOrder, StartsCreated, Started, NotYet, Forward
<1>1. ASSUME NEW c \in Clusters, MakeWorkspace(c) PROVE BuildInv'
  BY <1>1, OwnContainers, Owners, <1>0 DEF MakeWorkspace
<1>2. ASSUME NEW c \in Clusters, BuildImage(c) PROVE BuildInv'
  BY <1>2, OwnContainers, Owners, <1>0 DEF BuildImage
<1>3. ASSUME NEW c \in Clusters, CreateContainer(c) PROVE BuildInv'
  BY <1>3, <1>0, BuildCreate
<1>4. ASSUME NEW c \in Clusters, StartContainer(c) PROVE BuildInv'
  BY <1>4, OwnContainers, Owners, <1>0 DEF StartContainer
<1>5. ASSUME NEW c \in Clusters, NoAddressLeft(c) PROVE BuildInv'
  BY <1>5, OwnContainers, Owners, <1>0 DEF NoAddressLeft, Raise, Forget
<1>6. ASSUME NEW c \in Clusters, Provision(c) PROVE BuildInv'
  BY <1>6, <1>0, BuildLoops
<1>7. ASSUME NEW c \in Clusters, ProvisionStopped(c) PROVE BuildInv'
  BY <1>7, OwnContainers, Owners, <1>0 DEF ProvisionStopped, Raise, Forget
<1>8. ASSUME NEW c \in Clusters, ListRole(c) PROVE BuildInv'
  BY <1>8, <1>0, BuildLoops
<1>9. ASSUME NEW c \in Clusters, NextNode(c) PROVE BuildInv'
  BY <1>9, OwnContainers, Owners, <1>0 DEF NextNode
<1>10. ASSUME NEW c \in Clusters, LastNodeDone(c) PROVE BuildInv'
  BY <1>10, OwnContainers, Owners, <1>0 DEF LastNodeDone
<1>11. ASSUME NEW c \in Clusters, SshAnswers(c) PROVE BuildInv'
  BY <1>11, OwnContainers, Owners, <1>0 DEF SshAnswers
<1>12. ASSUME NEW c \in Clusters, SshRefused(c) PROVE BuildInv'
  BY <1>12, <1>0, BuildLoops
<1>13. ASSUME NEW c \in Clusters, BodyDestroysNode(c) PROVE BuildInv'
  BY <1>13, OwnContainers, Owners, <1>0 DEF BodyDestroysNode
<1>14. ASSUME NEW c \in Clusters, BodyDestroysCluster(c) PROVE BuildInv'
  BY <1>14, OwnContainers, Owners, <1>0 DEF BodyDestroysCluster
<1>15. ASSUME NEW c \in Clusters, BodyEnds(c) PROVE BuildInv'
  BY <1>15, OwnContainers, Owners, <1>0 DEF BodyEnds
<1>16. ASSUME NEW c \in Clusters, ListContainers(c) PROVE BuildInv'
  BY <1>16, OwnContainers, Owners, <1>0 DEF ListContainers
<1>17. ASSUME NEW c \in Clusters, MatchAddress(c) PROVE BuildInv'
  BY <1>17, OwnContainers, Owners, <1>0 DEF MatchAddress
<1>18. ASSUME NEW c \in Clusters, StopContainer(c) PROVE BuildInv'
  BY <1>18, <1>0, BuildStop
<1>19. ASSUME NEW c \in Clusters, RemoveContainer(c) PROVE BuildInv'
  BY <1>19, <1>0, BuildStop
<1>20. ASSUME NEW c \in Clusters, ContainerGone(c) PROVE BuildInv'
  BY <1>20, OwnContainers, Owners, <1>0 DEF ContainerGone, Raise, Forget
<1>21. ASSUME NEW c \in Clusters, NodeDestroyed(c) PROVE BuildInv'
  BY <1>21, OwnContainers, Owners, <1>0 DEF NodeDestroyed
<1>22. ASSUME NEW c \in Clusters, RemoveWorkspace(c) PROVE BuildInv'
  BY <1>22, OwnContainers, Owners, <1>0 DEF RemoveWorkspace
<1>23. ASSUME NEW c \in Clusters, CallFails(c) PROVE BuildInv'
  BY <1>23, OwnContainers, Owners, <1>0 DEF CallFails, Raise, Forget
<1>24. ASSUME NEW c \in Clusters, StopFailsLate(c) PROVE BuildInv'
  BY <1>24, OwnContainers, Owners, <1>0 DEF StopFailsLate, Raise, Forget
<1>25. ASSUME NEW c \in Clusters, Killed(c) PROVE BuildInv'
  BY <1>25, OwnContainers, Owners, <1>0 DEF Killed, Forget
<1>26. ASSUME NEW x \in Containers, ContainerExits(x) PROVE BuildInv'
  BY <1>26, <1>0 DEF ContainerExits
<1>27. CASE UNCHANGED vars
  BY <1>27 DEF vars
<1>. QED
  BY <1>1, <1>2, <1>3, <1>4, <1>5, <1>6, <1>7, <1>8, <1>9, <1>10, <1>11,
    <1>12, <1>13, <1>14, <1>15, <1>16, <1>17, <1>18, <1>19, <1>20, <1>21,
    <1>22, <1>23, <1>24, <1>25, <1>26, <1>27
  DEF Next, Progress, Body, Failure, Constructor, Listing, WaitForSsh, Destroy,
      AllEnded, vars

-----------------------------------------------------------------------------
(* Destroying: no running node is forgotten, and the key goes last.        *)

\* Refusals of SSH belong to the constructor, which destroys nothing.
LEMMA DestroySsh ==
  ASSUME TypeOK, PhaseInv, DestroyInv, NEW c \in Clusters, SshRefused(c)
  PROVE  DestroyInv'
<1>1. At(c, "ssh") /\ phase[c] = "init" /\ phase' = phase
  BY DEF SshRefused, Raise, At, PhaseInv, ConstructorLabels
<1>2. status' = status /\ address' = address
  BY DEF SshRefused, daemon
<1>3. ASSUME NEW d \in Clusters, d # c
      PROVE  /\ pc'[d] = pc[d] /\ i'[d] = i[d] /\ nodes'[d] = nodes[d]
             /\ target'[d] = target[d] /\ listed'[d] = listed[d]
             /\ found'[d] = found[d]
  BY <1>3 DEF SshRefused, Raise, Forget, Goto, TypeOK
<1>4. ASSUME NEW x \in Containers, Running(x)', ~ At(x[1], "failed")',
             phase'[x[1]] \in {"manual", "exit"}
      PROVE  StillToDestroy(x)'
  <2>1. x[1] # c /\ x[1] \in Clusters
    BY <1>1, <1>4, Owners
  <2>2. StillToDestroy(x)
    BY <1>1, <1>2, <1>3, <1>4, <2>1 DEF DestroyInv, Running, At
  <2>. QED
    BY <1>2, <1>3, <2>1, <2>2 DEF StillToDestroy, At, RoleOf
<1>. QED
  BY <1>4 DEF DestroyInv

\* The three listings, the loop over the nodes and the match by address
\* together reach every container that is running.
LEMMA DestroyStep ==
  ASSUME TypeOK, PhaseInv, LoopInv, DaemonInv, DestroyInv, [Next]_vars
  PROVE  DestroyInv'
<1> USE CountsAssumption, AddressAssumption DEF NoFault, Fault, At, Goto,
      ListFor, daemon, locals, Running, TypeOK, DaemonInv, PhaseInv, LoopInv,
      ConstructorLabels, DestroyNodeLabels, Phases, Roles, DestroyInv,
      StillToDestroy, RoleOf
<1>1. ASSUME NEW c \in Clusters, MakeWorkspace(c) PROVE DestroyInv'
  BY <1>1, OwnContainers, Owners DEF MakeWorkspace
<1>2. ASSUME NEW c \in Clusters, BuildImage(c) PROVE DestroyInv'
  BY <1>2, OwnContainers, Owners DEF BuildImage
<1>3. ASSUME NEW c \in Clusters, CreateContainer(c) PROVE DestroyInv'
  BY <1>3, OwnContainers, Owners DEF CreateContainer
<1>4. ASSUME NEW c \in Clusters, StartContainer(c) PROVE DestroyInv'
  BY <1>4, OwnContainers, Owners DEF StartContainer
<1>5. ASSUME NEW c \in Clusters, NoAddressLeft(c) PROVE DestroyInv'
  BY <1>5, OwnContainers, Owners DEF NoAddressLeft, Raise, Forget
<1>6. ASSUME NEW c \in Clusters, Provision(c) PROVE DestroyInv'
  BY <1>6, OwnContainers, Owners DEF Provision
<1>7. ASSUME NEW c \in Clusters, ProvisionStopped(c) PROVE DestroyInv'
  BY <1>7, OwnContainers, Owners DEF ProvisionStopped, Raise, Forget
<1>8. ASSUME NEW c \in Clusters, ListRole(c) PROVE DestroyInv'
  BY <1>8, OwnContainers, Owners DEF ListRole
<1>9. ASSUME NEW c \in Clusters, NextNode(c) PROVE DestroyInv'
  BY <1>9, OwnContainers, Owners DEF NextNode
<1>10. ASSUME NEW c \in Clusters, LastNodeDone(c) PROVE DestroyInv'
  BY <1>10, OwnContainers, Owners DEF LastNodeDone
<1>11. ASSUME NEW c \in Clusters, SshAnswers(c) PROVE DestroyInv'
  BY <1>11, OwnContainers, Owners DEF SshAnswers
<1>12. ASSUME NEW c \in Clusters, SshRefused(c) PROVE DestroyInv'
  BY <1>12, DestroySsh
<1>13. ASSUME NEW c \in Clusters, BodyDestroysNode(c) PROVE DestroyInv'
  BY <1>13, OwnContainers, Owners DEF BodyDestroysNode
<1>14. ASSUME NEW c \in Clusters, BodyDestroysCluster(c) PROVE DestroyInv'
  BY <1>14, OwnContainers, Owners DEF BodyDestroysCluster
<1>15. ASSUME NEW c \in Clusters, BodyEnds(c) PROVE DestroyInv'
  BY <1>15, OwnContainers, Owners DEF BodyEnds
<1>16. ASSUME NEW c \in Clusters, ListContainers(c) PROVE DestroyInv'
  BY <1>16, OwnContainers, Owners DEF ListContainers
<1>17. ASSUME NEW c \in Clusters, MatchAddress(c) PROVE DestroyInv'
  BY <1>17, OwnContainers, Owners DEF MatchAddress
<1>18. ASSUME NEW c \in Clusters, StopContainer(c) PROVE DestroyInv'
  BY <1>18, OwnContainers, Owners DEF StopContainer
<1>19. ASSUME NEW c \in Clusters, RemoveContainer(c) PROVE DestroyInv'
  BY <1>19, OwnContainers, Owners DEF RemoveContainer
<1>20. ASSUME NEW c \in Clusters, ContainerGone(c) PROVE DestroyInv'
  BY <1>20, OwnContainers, Owners DEF ContainerGone, Raise, Forget
<1>21. ASSUME NEW c \in Clusters, NodeDestroyed(c) PROVE DestroyInv'
  BY <1>21, OwnContainers, Owners DEF NodeDestroyed
<1>22. ASSUME NEW c \in Clusters, RemoveWorkspace(c) PROVE DestroyInv'
  BY <1>22, OwnContainers, Owners DEF RemoveWorkspace
<1>23. ASSUME NEW c \in Clusters, CallFails(c) PROVE DestroyInv'
  BY <1>23, OwnContainers, Owners DEF CallFails, Raise, Forget
<1>24. ASSUME NEW c \in Clusters, StopFailsLate(c) PROVE DestroyInv'
  BY <1>24, OwnContainers, Owners DEF StopFailsLate, Raise, Forget
<1>25. ASSUME NEW c \in Clusters, Killed(c) PROVE DestroyInv'
  BY <1>25, OwnContainers, Owners DEF Killed, Forget
<1>26. ASSUME NEW x \in Containers, ContainerExits(x) PROVE DestroyInv'
  BY <1>26 DEF ContainerExits
<1>27. CASE UNCHANGED vars
  BY <1>27 DEF vars
<1>. QED
  BY <1>1, <1>2, <1>3, <1>4, <1>5, <1>6, <1>7, <1>8, <1>9, <1>10, <1>11,
    <1>12, <1>13, <1>14, <1>15, <1>16, <1>17, <1>18, <1>19, <1>20, <1>21,
    <1>22, <1>23, <1>24, <1>25, <1>26, <1>27
  DEF Next, Progress, Body, Failure, Constructor, Listing, WaitForSsh, Destroy,
      AllEnded, vars

LEMMA KeyStart ==
  ASSUME TypeOK, PhaseInv, LoopInv, KeyOutlivesNodes,
         NEW c \in Clusters, StartContainer(c)
  PROVE  KeyOutlivesNodes'
<1>1. <<c, i[c]>> \in Containers /\ directory[c]
  BY OwnContainers DEF StartContainer, At, LoopInv, PhaseInv, ConstructorLabels
<1>. QED
  BY <1>1, Owners DEF StartContainer, KeyOutlivesNodes, Running, TypeOK

\* When destroy comes to rmtree it has no node left to handle.
LEMMA KeyRemoveWorkspace ==
  ASSUME TypeOK, PhaseInv, LoopInv, DestroyInv, KeyOutlivesNodes,
         NEW c \in Clusters, RemoveWorkspace(c)
  PROVE  KeyOutlivesNodes'
<1>1. \A x \in Containers : x[1] = c => ~ Running(x)
  BY DEF RemoveWorkspace, At, PhaseInv, LoopInv, DestroyInv, StillToDestroy
<1>. QED
  BY <1>1, Owners DEF RemoveWorkspace, KeyOutlivesNodes, Running, TypeOK, daemon

\* No step takes a directory from under a running node.
LEMMA KeyStep ==
  ASSUME TypeOK, PhaseInv, LoopInv, DestroyInv, BuildInv, KeyOutlivesNodes,
    [Next]_vars
  PROVE  KeyOutlivesNodes'
<1> USE CountsAssumption DEF NoFault, Fault, At, daemon, locals, Running,
      TypeOK, KeyOutlivesNodes
<1>1. ASSUME NEW c \in Clusters, MakeWorkspace(c) PROVE KeyOutlivesNodes'
  BY <1>1, OwnContainers, Owners DEF MakeWorkspace
<1>2. ASSUME NEW c \in Clusters, BuildImage(c) PROVE KeyOutlivesNodes'
  BY <1>2, OwnContainers, Owners DEF BuildImage
<1>3. ASSUME NEW c \in Clusters, CreateContainer(c) PROVE KeyOutlivesNodes'
  BY <1>3, OwnContainers, Owners DEF CreateContainer
<1>4. ASSUME NEW c \in Clusters, StartContainer(c) PROVE KeyOutlivesNodes'
  BY <1>4, KeyStart
<1>5. ASSUME NEW c \in Clusters, NoAddressLeft(c) PROVE KeyOutlivesNodes'
  BY <1>5, OwnContainers, Owners DEF NoAddressLeft
<1>6. ASSUME NEW c \in Clusters, Provision(c) PROVE KeyOutlivesNodes'
  BY <1>6, OwnContainers, Owners DEF Provision
<1>7. ASSUME NEW c \in Clusters, ProvisionStopped(c) PROVE KeyOutlivesNodes'
  BY <1>7, OwnContainers, Owners DEF ProvisionStopped
<1>8. ASSUME NEW c \in Clusters, ListRole(c) PROVE KeyOutlivesNodes'
  BY <1>8, OwnContainers, Owners DEF ListRole
<1>9. ASSUME NEW c \in Clusters, NextNode(c) PROVE KeyOutlivesNodes'
  BY <1>9, OwnContainers, Owners DEF NextNode
<1>10. ASSUME NEW c \in Clusters, LastNodeDone(c) PROVE KeyOutlivesNodes'
  BY <1>10, OwnContainers, Owners DEF LastNodeDone
<1>11. ASSUME NEW c \in Clusters, SshAnswers(c) PROVE KeyOutlivesNodes'
  BY <1>11, OwnContainers, Owners DEF SshAnswers
<1>12. ASSUME NEW c \in Clusters, SshRefused(c) PROVE KeyOutlivesNodes'
  BY <1>12, OwnContainers, Owners DEF SshRefused
<1>13. ASSUME NEW c \in Clusters, BodyDestroysNode(c) PROVE KeyOutlivesNodes'
  BY <1>13, OwnContainers, Owners DEF BodyDestroysNode
<1>14. ASSUME NEW c \in Clusters, BodyDestroysCluster(c) PROVE KeyOutlivesNodes'
  BY <1>14, OwnContainers, Owners DEF BodyDestroysCluster
<1>15. ASSUME NEW c \in Clusters, BodyEnds(c) PROVE KeyOutlivesNodes'
  BY <1>15, OwnContainers, Owners DEF BodyEnds
<1>16. ASSUME NEW c \in Clusters, ListContainers(c) PROVE KeyOutlivesNodes'
  BY <1>16, OwnContainers, Owners DEF ListContainers
<1>17. ASSUME NEW c \in Clusters, MatchAddress(c) PROVE KeyOutlivesNodes'
  BY <1>17, OwnContainers, Owners DEF MatchAddress
<1>18. ASSUME NEW c \in Clusters, StopContainer(c) PROVE KeyOutlivesNodes'
  BY <1>18, OwnContainers, Owners DEF StopContainer
<1>19. ASSUME NEW c \in Clusters, RemoveContainer(c) PROVE KeyOutlivesNodes'
  BY <1>19, OwnContainers, Owners DEF RemoveContainer
<1>20. ASSUME NEW c \in Clusters, ContainerGone(c) PROVE KeyOutlivesNodes'
  BY <1>20, OwnContainers, Owners DEF ContainerGone
<1>21. ASSUME NEW c \in Clusters, NodeDestroyed(c) PROVE KeyOutlivesNodes'
  BY <1>21, OwnContainers, Owners DEF NodeDestroyed
<1>22. ASSUME NEW c \in Clusters, RemoveWorkspace(c) PROVE KeyOutlivesNodes'
  BY <1>22, KeyRemoveWorkspace
<1>23. ASSUME NEW c \in Clusters, CallFails(c) PROVE KeyOutlivesNodes'
  BY <1>23, OwnContainers, Owners DEF CallFails
<1>24. ASSUME NEW c \in Clusters, StopFailsLate(c) PROVE KeyOutlivesNodes'
  BY <1>24, OwnContainers, Owners DEF StopFailsLate
<1>25. ASSUME NEW c \in Clusters, Killed(c) PROVE KeyOutlivesNodes'
  BY <1>25, OwnContainers, Owners DEF Killed
<1>26. ASSUME NEW x \in Containers, ContainerExits(x) PROVE KeyOutlivesNodes'
  BY <1>26 DEF ContainerExits
<1>27. CASE UNCHANGED vars
  BY <1>27 DEF vars
<1>. QED
  BY <1>1, <1>2, <1>3, <1>4, <1>5, <1>6, <1>7, <1>8, <1>9, <1>10, <1>11,
    <1>12, <1>13, <1>14, <1>15, <1>16, <1>17, <1>18, <1>19, <1>20, <1>21,
    <1>22, <1>23, <1>24, <1>25, <1>26, <1>27
  DEF Next, Progress, Body, Failure, Constructor, Listing, WaitForSsh, Destroy,
      AllEnded, vars

-----------------------------------------------------------------------------
(* Addresses that a process holds are its own.                             *)

\* A starting container takes an address that nobody holds.
LEMMA FreshStart ==
  ASSUME TypeOK, LoopInv, BuildInv, DaemonInv, FreshInv,
         NEW c \in Clusters, StartContainer(c)
  PROVE  FreshInv'
<1> DEFINE x == <<c, i[c]>>
<1>1. x \in Containers /\ address[x] = NoAddress /\ status[x] = "created"
  BY OwnContainers
     DEF StartContainer, At, LoopInv, BuildInv, StartsCreated, DaemonInv,
         Running
<1>2. PICK a \in Addresses : address' = [address EXCEPT ![x] = a]
  BY DEF StartContainer
<1> HIDE DEF x
<1>3. /\ nodes' = nodes /\ target' = target /\ found' = found
      /\ victim' = victim
  BY DEF StartContainer, locals
<1>4. ASSUME NEW d \in Clusters, NEW b, b # NoAddress, Holds(d, b)
      PROVE  Holds(d, b)'
  BY <1>1, <1>2, <1>4, OwnContainers DEF Holds, TypeOK
<1>5. ASSUME NEW d \in Clusters,
             NEW l \in {"failed", "match", "inspect", "remove"}
      PROVE  (pc'[d] = l) <=> (pc[d] = l)
  BY <1>5 DEF StartContainer, At, Aiming, Goto, TypeOK
<1>6. ASSUME NEW d \in Clusters, ~ At(d, "failed")', NEW b \in nodes'[d]
      PROVE  Holds(d, b)'
  BY <1>3, <1>4, <1>5, <1>6, AddressAssumption DEF FreshInv, TypeOK, At, Aiming
<1>7. ASSUME NEW d \in Clusters, NEW y \in found'[d]
      PROVE  /\ y \in Own(d) /\ address'[y] = target'[d]
             /\ address'[y] # NoAddress
  BY <1>1, <1>2, <1>3, <1>7 DEF FreshInv, TypeOK, BuildInv, Started
<1>8. ASSUME NEW d \in Clusters, Aiming(d)'
      PROVE  target'[d] # NoAddress /\ Holds(d, target[d])'
  BY <1>1, <1>2, <1>3, <1>5, <1>8, OwnContainers
     DEF FreshInv, TypeOK, At, Aiming, Holds
<1>. QED
  BY <1>3, <1>5, <1>6, <1>7, <1>8 DEF FreshInv, At, Aiming, Own

\* A listing only returns addresses of running containers of the cluster.
LEMMA FreshList ==
  ASSUME TypeOK, LoopInv, DaemonInv, FreshInv,
         NEW c \in Clusters, ListRole(c)
  PROVE  FreshInv'
<1>1. \A b \in nodes'[c] : b \in nodes[c] \/ (b # NoAddress /\ Holds(c, b))
  BY OwnContainers DEF ListRole, TypeOK, DaemonInv, Running, Holds
<1>2. \A d \in Clusters : d # c => nodes'[d] = nodes[d]
  BY DEF ListRole, TypeOK
<1>3. target[c] = NoAddress /\ ~ At(c, "failed")
  BY DEF ListRole, At, Aiming, LoopInv, OneNodeLabels, DestroyNodeLabels
<1>4. /\ target' = target /\ found' = found /\ victim' = victim
      /\ address' = address
  BY DEF ListRole, daemon
<1>5. ASSUME NEW d \in Clusters,
             NEW l \in {"failed", "match", "inspect", "remove"}
      PROVE  (pc'[d] = l) <=> (pc[d] = l)
  BY <1>5 DEF ListRole, At, Aiming, Goto, TypeOK
<1>6. ASSUME NEW d \in Clusters, ~ At(d, "failed")', NEW b \in nodes'[d]
      PROVE  Holds(d, b)'
  BY <1>1, <1>2, <1>3, <1>4, <1>5, <1>6 DEF FreshInv, At, Aiming, Holds, Own
<1>7. ASSUME NEW d \in Clusters PROVE target[d] \notin nodes'[d]
  BY <1>1, <1>2, <1>3, AddressAssumption DEF FreshInv, TypeOK
<1>8. ASSUME NEW d \in Clusters, Aiming(d)'
      PROVE  target'[d] # NoAddress /\ Holds(d, target[d])'
  BY <1>4, <1>5, <1>8 DEF FreshInv, At, Aiming, Holds, Own
<1>. QED
  BY <1>4, <1>5, <1>6, <1>7, <1>8 DEF FreshInv, At, Aiming, Own

\* The node at hand is no longer among the nodes still to be handled.
LEMMA FreshNext ==
  ASSUME TypeOK, LoopInv, DaemonInv, FreshInv,
         NEW c \in Clusters, NextNode(c)
  PROVE  FreshInv'
<1>1. PICK a \in nodes[c] : /\ target' = [target EXCEPT ![c] = a]
                            /\ nodes' = [nodes EXCEPT ![c] = @ \ {a}]
  BY DEF NextNode
<1>2. a # NoAddress /\ Holds(c, a) /\ a \notin nodes'[c]
  BY <1>1, AddressAssumption DEF FreshInv, TypeOK, NextNode, At, Aiming
<1>3. found' = found /\ victim' = victim /\ address' = address
  BY DEF NextNode, daemon
<1>4. found[c] = {}
  BY DEF NextNode, LoopInv, At, Aiming
<1>5. ASSUME NEW d \in Clusters
      PROVE  /\ Aiming(d)' => d = c \/ Aiming(d)
             /\ pc'[d] = "remove" => pc[d] = "remove"
             /\ pc[d] = "failed" => pc'[d] = "failed"
  BY DEF NextNode, At, Aiming, Goto, TypeOK
<1>6. \A d \in Clusters :
        /\ d # c => nodes'[d] = nodes[d] /\ target'[d] = target[d]
        /\ nodes'[d] \subseteq nodes[d]
  BY <1>1 DEF TypeOK
<1>7. target'[c] = a
  BY <1>1 DEF TypeOK
<1>8. ASSUME NEW d \in Clusters, ~ At(d, "failed")', NEW b \in nodes'[d]
      PROVE  Holds(d, b)'
  BY <1>3, <1>5, <1>6, <1>8 DEF FreshInv, At, Aiming, Holds, Own
<1>9. ASSUME NEW d \in Clusters, Aiming(d)'
      PROVE  target'[d] # NoAddress /\ Holds(d, target[d])'
  BY <1>2, <1>3, <1>5, <1>6, <1>7, <1>9 DEF FreshInv, At, Aiming, Holds, Own
<1>10. \A d \in Clusters : target'[d] \notin nodes'[d]
  BY <1>2, <1>6, <1>7 DEF FreshInv
<1>11. ASSUME NEW d \in Clusters, NEW x \in found'[d]
       PROVE  /\ x \in Own(d) /\ address'[x] = target'[d]
              /\ address'[x] # NoAddress
  BY <1>3, <1>4, <1>6, <1>11 DEF FreshInv
<1>12. ASSUME NEW d \in Clusters, At(d, "remove")'
       PROVE  victim'[d] \in Own(d) /\ found'[d] = {}
  BY <1>3, <1>5, <1>12 DEF FreshInv, At, Aiming
<1>. QED
  BY <1>8, <1>9, <1>10, <1>11, <1>12 DEF FreshInv, Own

LEMMA FreshSsh ==
  ASSUME TypeOK, LoopInv, DaemonInv, FreshInv,
         NEW c \in Clusters, SshAnswers(c)
  PROVE  FreshInv'
<1>1. ASSUME NEW d \in Clusters,
             NEW l \in {"failed", "match", "inspect", "remove"}
      PROVE  (pc'[d] = l) <=> (pc[d] = l)
  BY <1>1 DEF SshAnswers, At, Aiming, Goto, TypeOK
<1>2. target' = [target EXCEPT ![c] = NoAddress]
  BY DEF SshAnswers
<1>3. /\ nodes' = nodes /\ found' = found /\ victim' = victim
      /\ address' = address
  BY DEF SshAnswers, daemon
<1>4. found[c] = {} /\ ~ Aiming(c)
  BY DEF SshAnswers, LoopInv, At, Aiming
<1>5. ASSUME NEW d \in Clusters, Aiming(d)'
      PROVE  target'[d] # NoAddress /\ Holds(d, target[d])'
  BY <1>1, <1>2, <1>3, <1>4, <1>5 DEF FreshInv, At, Aiming, Holds, Own, TypeOK
<1>6. \A d \in Clusters : target'[d] \notin nodes'[d]
  BY <1>2, <1>3, AddressAssumption DEF FreshInv, TypeOK
<1>7. ASSUME NEW d \in Clusters, NEW x \in found'[d]
      PROVE  /\ x \in Own(d) /\ address'[x] = target'[d]
             /\ address'[x] # NoAddress
  BY <1>2, <1>3, <1>4, <1>7 DEF FreshInv, TypeOK
<1>8. ASSUME NEW d \in Clusters, ~ At(d, "failed")', NEW b \in nodes'[d]
      PROVE  Holds(d, b)'
  BY <1>1, <1>3, <1>8 DEF FreshInv, At, Aiming, Holds, Own
<1>. QED
  BY <1>1, <1>3, <1>5, <1>6, <1>7, <1>8 DEF FreshInv, Own, At, Aiming

\* The body destroys a node that it has just read from the cluster.
LEMMA FreshPick ==
  ASSUME TypeOK, PhaseInv, LoopInv, DaemonInv, FreshInv,
         NEW c \in Clusters, BodyDestroysNode(c)
  PROVE  FreshInv'
<1>1. PICK x \in Own(c) : /\ address[x] # NoAddress
                          /\ target' = [target EXCEPT ![c] = address[x]]
  BY OwnContainers DEF BodyDestroysNode, DaemonInv
<1>2. /\ nodes' = nodes /\ found' = found /\ victim' = victim
      /\ address' = address
  BY DEF BodyDestroysNode, daemon
<1>3. nodes[c] = {} /\ found[c] = {}
  BY DEF BodyDestroysNode, PhaseInv, LoopInv, At, Aiming
<1>4. ASSUME NEW d \in Clusters
      PROVE  /\ Aiming(d)' => d = c \/ Aiming(d)
             /\ pc'[d] = "remove" => pc[d] = "remove"
             /\ pc[d] = "failed" => pc'[d] = "failed"
  BY DEF BodyDestroysNode, At, Aiming, Goto, TypeOK
<1>5. ASSUME NEW d \in Clusters, Aiming(d)'
      PROVE  target'[d] # NoAddress /\ Holds(d, target[d])'
  BY <1>1, <1>2, <1>4, <1>5 DEF FreshInv, At, Aiming, Holds, Own, TypeOK
<1>6. \A d \in Clusters : target'[d] \notin nodes'[d]
  BY <1>1, <1>2, <1>3 DEF FreshInv, TypeOK
<1>7. ASSUME NEW d \in Clusters, NEW y \in found'[d]
      PROVE  /\ y \in Own(d) /\ address'[y] = target'[d]
             /\ address'[y] # NoAddress
  BY <1>1, <1>2, <1>3, <1>7 DEF FreshInv, TypeOK
<1>8. ASSUME NEW d \in Clusters, ~ At(d, "failed")', NEW b \in nodes'[d]
      PROVE  Holds(d, b)'
  BY <1>2, <1>4, <1>8 DEF FreshInv, At, Aiming, Holds, Own
<1>. QED
  BY <1>2, <1>4, <1>5, <1>6, <1>7, <1>8 DEF FreshInv, Own, At, Aiming

\* Only the owner's process gives back a container's address, and the node at
\* hand is not among those it still has to handle.
LEMMA FreshStop ==
  ASSUME TypeOK, LoopInv, DaemonInv, FreshInv,
         NEW c \in Clusters, StopContainer(c)
  PROVE  FreshInv'
<1>1. PICK x \in found[c] : /\ address' = [address EXCEPT ![x] = NoAddress]
                            /\ victim' = [victim EXCEPT ![c] = x]
                            /\ found' = [found EXCEPT ![c] = @ \ {x}]
  BY DEF StopContainer
<1>2. x \in Containers /\ x \in Own(c) /\ address[x] = target[c]
  BY OwnContainers DEF FreshInv
<1>3. nodes' = nodes /\ target' = target
  BY DEF StopContainer
<1>4. \A d \in Clusters : d # c => x \notin Own(d)
  BY <1>2, OwnContainers
<1>5. address[x] # NoAddress /\ found'[c] = {}
  BY <1>1, <1>2, OwnContainers DEF FreshInv, DaemonInv, TypeOK
<1>6. ASSUME NEW d \in Clusters, NEW b, Holds(d, b), d = c => b # target[c]
      PROVE  Holds(d, b)'
  BY <1>1, <1>2, <1>4, <1>6, OwnContainers DEF Holds, TypeOK, Own
<1>7. ASSUME NEW d \in Clusters
      PROVE  /\ Aiming(d)' => d # c /\ Aiming(d)
             /\ pc'[d] = "remove" => d = c \/ pc[d] = "remove"
             /\ pc[d] = "failed" => pc'[d] = "failed"
  BY DEF StopContainer, At, Aiming, Goto, TypeOK
<1>8. ASSUME NEW d \in Clusters, ~ At(d, "failed")', NEW b \in nodes'[d]
      PROVE  Holds(d, b)'
  BY <1>3, <1>6, <1>7, <1>8 DEF FreshInv, At, Aiming
<1>9. ASSUME NEW d \in Clusters, Aiming(d)'
      PROVE  target'[d] # NoAddress /\ Holds(d, target[d])'
  <2>1. Holds(d, target[d])' <=> \E y \in Own(d) : address'[y] = target[d]
    BY <1>3 DEF Holds, Own
  <2>2. \E y \in Own(d) : y # x /\ address[y] = target[d]
    BY <1>4, <1>7, <1>9 DEF FreshInv, Holds, At, Aiming
  <2>3. target[d] # NoAddress
    BY <1>7, <1>9 DEF FreshInv, At, Aiming
  <2>. QED
    BY <2>1, <2>2, <2>3, <1>1, <1>3, OwnContainers DEF TypeOK
<1>10. ASSUME NEW d \in Clusters, NEW y \in found'[d]
       PROVE  /\ y \in Own(d) /\ address'[y] = target'[d]
              /\ address'[y] # NoAddress
  BY <1>1, <1>3, <1>4, <1>5, <1>10, OwnContainers DEF FreshInv, TypeOK
<1>11. ASSUME NEW d \in Clusters, At(d, "remove")'
       PROVE  victim'[d] \in Own(d) /\ found'[d] = {}
  BY <1>1, <1>2, <1>5, <1>7, <1>11 DEF FreshInv, At, Aiming, TypeOK
<1>. QED
  BY <1>3, <1>8, <1>9, <1>10, <1>11 DEF FreshInv, Own

\* While containers do not stop on their own, only the process that owns a
\* container takes its address away, and it forgets the address when it does.
LEMMA FreshStep ==
  ASSUME TypeOK, PhaseInv, LoopInv, BuildInv, DaemonInv, FreshInv, [Next]_vars
  PROVE  (exits = 0 => FreshInv)'
<1> USE CountsAssumption, AddressAssumption DEF NoFault, Fault, At, Goto,
      ListFor, daemon, locals, Running, TypeOK, DaemonInv, LoopInv, FreshInv,
      Holds, Aiming
<1>1. ASSUME NEW c \in Clusters, MakeWorkspace(c)
      PROVE  (exits = 0 => FreshInv)'
  BY <1>1, OwnContainers, Owners DEF MakeWorkspace
<1>2. ASSUME NEW c \in Clusters, BuildImage(c)
      PROVE  (exits = 0 => FreshInv)'
  BY <1>2, OwnContainers, Owners DEF BuildImage
<1>3. ASSUME NEW c \in Clusters, CreateContainer(c)
      PROVE  (exits = 0 => FreshInv)'
  BY <1>3, OwnContainers, Owners DEF CreateContainer
<1>4. ASSUME NEW c \in Clusters, StartContainer(c)
      PROVE  (exits = 0 => FreshInv)'
  BY <1>4, FreshStart
<1>5. ASSUME NEW c \in Clusters, NoAddressLeft(c)
      PROVE  (exits = 0 => FreshInv)'
  BY <1>5, OwnContainers, Owners DEF NoAddressLeft, Raise, Forget
<1>6. ASSUME NEW c \in Clusters, Provision(c)
      PROVE  (exits = 0 => FreshInv)'
  BY <1>6, OwnContainers, Owners DEF Provision
<1>7. ASSUME NEW c \in Clusters, ProvisionStopped(c)
      PROVE  (exits = 0 => FreshInv)'
  BY <1>7, OwnContainers, Owners DEF ProvisionStopped, Raise, Forget
<1>8. ASSUME NEW c \in Clusters, ListRole(c)
      PROVE  (exits = 0 => FreshInv)'
  BY <1>8, FreshList
<1>9. ASSUME NEW c \in Clusters, NextNode(c)
      PROVE  (exits = 0 => FreshInv)'
  BY <1>9, FreshNext
<1>10. ASSUME NEW c \in Clusters, LastNodeDone(c)
      PROVE  (exits = 0 => FreshInv)'
  BY <1>10, OwnContainers, Owners DEF LastNodeDone
<1>11. ASSUME NEW c \in Clusters, SshAnswers(c)
      PROVE  (exits = 0 => FreshInv)'
  BY <1>11, FreshSsh
<1>12. ASSUME NEW c \in Clusters, SshRefused(c)
      PROVE  (exits = 0 => FreshInv)'
  BY <1>12, OwnContainers, Owners DEF SshRefused, Raise, Forget
<1>13. ASSUME NEW c \in Clusters, BodyDestroysNode(c)
      PROVE  (exits = 0 => FreshInv)'
  BY <1>13, FreshPick
<1>14. ASSUME NEW c \in Clusters, BodyDestroysCluster(c)
      PROVE  (exits = 0 => FreshInv)'
  BY <1>14, OwnContainers, Owners DEF BodyDestroysCluster
<1>15. ASSUME NEW c \in Clusters, BodyEnds(c)
      PROVE  (exits = 0 => FreshInv)'
  BY <1>15, OwnContainers, Owners DEF BodyEnds
<1>16. ASSUME NEW c \in Clusters, ListContainers(c)
      PROVE  (exits = 0 => FreshInv)'
  BY <1>16, OwnContainers, Owners DEF ListContainers
<1>17. ASSUME NEW c \in Clusters, MatchAddress(c)
      PROVE  (exits = 0 => FreshInv)'
  BY <1>17, OwnContainers, Owners DEF MatchAddress
<1>18. ASSUME NEW c \in Clusters, StopContainer(c)
      PROVE  (exits = 0 => FreshInv)'
  BY <1>18, FreshStop
<1>19. ASSUME NEW c \in Clusters, RemoveContainer(c)
      PROVE  (exits = 0 => FreshInv)'
  BY <1>19, OwnContainers, Owners DEF RemoveContainer
<1>20. ASSUME NEW c \in Clusters, ContainerGone(c)
      PROVE  (exits = 0 => FreshInv)'
  BY <1>20, OwnContainers, Owners DEF ContainerGone, Raise, Forget
<1>21. ASSUME NEW c \in Clusters, NodeDestroyed(c)
      PROVE  (exits = 0 => FreshInv)'
  BY <1>21, OwnContainers, Owners DEF NodeDestroyed
<1>22. ASSUME NEW c \in Clusters, RemoveWorkspace(c)
      PROVE  (exits = 0 => FreshInv)'
  BY <1>22, OwnContainers, Owners DEF RemoveWorkspace
<1>23. ASSUME NEW c \in Clusters, CallFails(c)
      PROVE  (exits = 0 => FreshInv)'
  BY <1>23, OwnContainers, Owners DEF CallFails, Raise, Forget
<1>24. ASSUME NEW c \in Clusters, StopFailsLate(c)
      PROVE  (exits = 0 => FreshInv)'
  BY <1>24, OwnContainers, Owners DEF StopFailsLate, Raise, Forget
<1>25. ASSUME NEW c \in Clusters, Killed(c)
      PROVE  (exits = 0 => FreshInv)'
  BY <1>25, OwnContainers, Owners DEF Killed, Forget
<1>26. ASSUME NEW x \in Containers, ContainerExits(x)
      PROVE  (exits = 0 => FreshInv)'
  BY <1>26 DEF ContainerExits
<1>27. CASE UNCHANGED vars
  BY <1>27 DEF vars
<1>. QED
  BY <1>1, <1>2, <1>3, <1>4, <1>5, <1>6, <1>7, <1>8, <1>9, <1>10, <1>11,
    <1>12, <1>13, <1>14, <1>15, <1>16, <1>17, <1>18, <1>19, <1>20, <1>21,
    <1>22, <1>23, <1>24, <1>25, <1>26, <1>27
  DEF Next, Progress, Body, Failure, Constructor, Listing, WaitForSsh, Destroy,
      AllEnded, vars

-----------------------------------------------------------------------------
(* The theorems.                                                           *)

\* Exits are counted and never forgotten.
LEMMA ExitsStep ==
  ASSUME TypeOK, [Next]_vars, exits' = 0
  PROVE  exits = 0
<1>1. ASSUME NEW c \in Clusters, Progress(c) \/ Body(c) \/ Failure(c)
      PROVE  exits' = exits
  BY <1>1 DEF NoFault, Fault, Progress, Body, Failure, Constructor, Listing,
     WaitForSsh, Destroy, MakeWorkspace, BuildImage, CreateContainer,
     StartContainer, NoAddressLeft, Provision, ProvisionStopped, ListRole,
     NextNode, LastNodeDone, SshAnswers, SshRefused, BodyDestroysNode,
     BodyDestroysCluster, BodyEnds, ListContainers, MatchAddress, StopContainer,
     RemoveContainer, ContainerGone, NodeDestroyed, RemoveWorkspace,
     CallFails, StopFailsLate, Killed
<1>2. ASSUME NEW x \in Containers, ContainerExits(x) PROVE exits' # 0
  BY <1>2 DEF ContainerExits, TypeOK
<1>3. CASE UNCHANGED vars
  BY <1>3 DEF vars
<1>. QED
  BY <1>1, <1>2, <1>3 DEF Next, AllEnded

LEMMA IInvInit == Init => IInv
<1> SUFFICES ASSUME Init PROVE IInv
  OBVIOUS
<1> USE CountsAssumption, Owners DEF Init, Running, At
<1>1. TypeOK
  BY DEF TypeOK, Labels, Phases
<1>2. DaemonInv
  BY DEF DaemonInv
<1>3. PhaseInv /\ LoopInv
  BY DEF PhaseInv, LoopInv, ConstructorLabels, DestroyNodeLabels
<1>4. BuildInv
  BY DEF BuildInv, MadeInOrder, StartsCreated
<1>5. DestroyInv /\ KeyOutlivesNodes
  BY DEF DestroyInv, KeyOutlivesNodes
<1>6. FreshInv
  BY AddressAssumption DEF FreshInv, Aiming
<1>. QED
  BY <1>1, <1>2, <1>3, <1>4, <1>5, <1>6 DEF IInv

LEMMA IInvStep == IInv /\ [Next]_vars => IInv'
<1> SUFFICES ASSUME IInv, [Next]_vars PROVE IInv'
  OBVIOUS
<1>1. /\ TypeOK /\ DaemonInv /\ PhaseInv /\ LoopInv /\ BuildInv
      /\ DestroyInv /\ KeyOutlivesNodes /\ (exits = 0 => FreshInv)
  BY DEF IInv
<1>2. TypeOK'
  BY <1>1, TypeStep
<1>3. DaemonInv'
  BY <1>1, DaemonStep
<1>4. PhaseInv' /\ LoopInv'
  BY <1>1, PhaseStep, LoopStep
<1>5. BuildInv'
  BY <1>1, BuildStep
<1>6. DestroyInv' /\ KeyOutlivesNodes'
  BY <1>1, DestroyStep, KeyStep
<1>7. (exits = 0 => FreshInv)'
  BY <1>1, FreshStep, ExitsStep
<1>. QED
  BY <1>2, <1>3, <1>4, <1>5, <1>6, <1>7 DEF IInv

LEMMA IInvAlways == Spec => []IInv
  BY IInvInit, IInvStep, PTL DEF Spec

\* Every state of the blocks is well typed: in particular the addresses a
\* listing collects are addresses of the network, never "no address".
THEOREM TypeCorrect == Spec => []TypeOK
<1>1. IInv => TypeOK
  BY DEF IInv
<1>. QED
  BY <1>1, IInvAlways, PTL

\* However clusters interleave and whatever fails, destroy_node matches only
\* containers of its own cluster, unless a container has stopped on its own.
THEOREM DestroyIsLocal == Spec => []OwnContainersOnly
<1>1. IInv => OwnContainersOnly
  BY DEF IInv, FreshInv, OwnContainersOnly
<1>. QED
  BY <1>1, IInvAlways, PTL

\* The directory with the key of a cluster is there as long as a node of the
\* cluster runs, whatever fails and whichever containers stop.
THEOREM KeyIsThere == Spec => []KeyOutlivesNodes
<1>1. IInv => KeyOutlivesNodes
  BY DEF IInv
<1>. QED
  BY <1>1, IInvAlways, PTL

\* A block that ends without an exception of the library leaves no node of
\* its cluster running, although calls may have failed inside its body.
THEOREM DoneIsStopped == Spec => []DoneLeavesNothingRunning
<1>1. IInv => DoneLeavesNothingRunning
  <2> SUFFICES ASSUME IInv, NEW c \in Clusters, At(c, "done"),
                      NEW x \in Own(c), Running(x)
               PROVE  FALSE
    BY DEF DoneLeavesNothingRunning
  <2>1. x \in Containers /\ x[1] = c
    BY OwnContainers
  <2>2. phase[c] = "exit" /\ nodes[c] = {}
    BY DEF IInv, PhaseInv, LoopInv, At
  <2>3. StillToDestroy(x)
    BY <2>1, <2>2 DEF IInv, DestroyInv, At
  <2>. QED
    BY <2>1, <2>2, <2>3 DEF StillToDestroy, At
<1>. QED
  BY <1>1, IInvAlways, PTL

-----------------------------------------------------------------------------
(* What the constructor has started runs.                                  *)

\* A container that the constructor has come to runs as long as the
\* constructor goes on, unless it is about to be started.
StartedRuns ==
  \A x \in Containers :
    \/ phase[x[1]] # "init" \/ At(x[1], "failed")
    \/ NotYet(x)
    \/ At(x[1], "start") /\ i[x[1]] = x[2]
    \/ Running(x)

\* What a cluster's destroy_node stops or removes is its own.
LEMMA OwnVictims ==
  ASSUME IInv, MaxExits = 0
  PROVE  /\ exits = 0
         /\ FreshInv
         /\ \A c \in Clusters : found[c] \subseteq Own(c)
         /\ \A c \in Clusters : At(c, "remove") => victim[c] \in Own(c)
<1>1. exits = 0
  BY DEF IInv, TypeOK
<1>. QED
  BY <1>1 DEF IInv, FreshInv

LEMMA StartedRunsInit ==
  ASSUME Init
  PROVE  StartedRuns
  BY Owners DEF Init, StartedRuns, NotYet

LEMMA StartedRunsStep ==
  ASSUME IInv, MaxExits = 0, StartedRuns, [Next]_vars
  PROVE  StartedRuns'
<1> USE CountsAssumption, Owners DEF StartedRuns, Running, NotYet, IInv,
      TypeOK, PhaseInv, LoopInv, ConstructorLabels, DestroyNodeLabels, Nodes,
      NoFault, Fault, At, Goto, ListFor, Raise, Forget, daemon, locals
<1>1. ASSUME NEW c \in Clusters, MakeWorkspace(c) PROVE StartedRuns'
  BY <1>1 DEF MakeWorkspace
<1>2. ASSUME NEW c \in Clusters, BuildImage(c) PROVE StartedRuns'
<2>1. /\ pc[c] = "build" /\ i[c] = 1 /\ phase' = phase /\ i' = i /\ status' = status
      /\ pc' = [pc EXCEPT ![c] = IF Size > 0 THEN "create" ELSE "list"]
  BY <1>2 DEF BuildImage
<2>2. Size \in Nat /\ \A x \in Containers : x[2] \in 1 .. Size
  BY DEF Size
<2>3. ASSUME NEW x \in Containers, x[1] = c PROVE NotYet(x)'
  BY <2>1, <2>2, <2>3
<2>4. ASSUME NEW x \in Containers, x[1] # c PROVE pc'[x[1]] = pc[x[1]]
  BY <2>1, <2>4
<2>. QED
  BY <2>1, <2>3, <2>4
<1>3. ASSUME NEW c \in Clusters, CreateContainer(c) PROVE StartedRuns'
  BY <1>3 DEF CreateContainer
<1>4. ASSUME NEW c \in Clusters, StartContainer(c) PROVE StartedRuns'
  BY <1>4 DEF StartContainer
<1>5. ASSUME NEW c \in Clusters, NoAddressLeft(c) PROVE StartedRuns'
  BY <1>5 DEF NoAddressLeft
<1>6. ASSUME NEW c \in Clusters, Provision(c) PROVE StartedRuns'
<2>1. /\ pc[c] = "provision" /\ i[c] \in 1 .. Size /\ status' = status
      /\ phase' = phase /\ Running(<<c, i[c]>>)
      /\ \A d \in Clusters \ {c} : pc'[d] = pc[d] /\ i'[d] = i[d]
  BY <1>6 DEF Provision
<2>2. \/ i[c] < Size /\ i'[c] = i[c] + 1 /\ pc'[c] = "create"
      \/ ~ (i[c] < Size) /\ pc'[c] = "list"
  BY <1>6 DEF Provision
<2>3. Size \in Nat /\ \A x \in Containers : x[2] \in 1 .. Size
  BY DEF Size
<2>4. ASSUME NEW x \in Containers, x[1] = c
      PROVE  NotYet(x)' \/ phase'[c] # "init" \/ Running(x)'
  BY <2>1, <2>2, <2>3, <2>4
<2>5. ASSUME NEW x \in Containers, x[1] # c
      PROVE  \/ phase'[x[1]] # "init" \/ At(x[1], "failed")'
             \/ NotYet(x)'
             \/ At(x[1], "start")' /\ i'[x[1]] = x[2]
             \/ Running(x)'
  BY <2>1, <2>5
<2>. QED
  BY <2>1, <2>4, <2>5
<1>7. ASSUME NEW c \in Clusters, ProvisionStopped(c) PROVE StartedRuns'
  BY <1>7 DEF ProvisionStopped
<1>8. ASSUME NEW c \in Clusters, ListRole(c) PROVE StartedRuns'
  BY <1>8 DEF ListRole
<1>9. ASSUME NEW c \in Clusters, NextNode(c) PROVE StartedRuns'
  BY <1>9 DEF NextNode
<1>10. ASSUME NEW c \in Clusters, LastNodeDone(c) PROVE StartedRuns'
  BY <1>10 DEF LastNodeDone
<1>11. ASSUME NEW c \in Clusters, SshAnswers(c) PROVE StartedRuns'
  BY <1>11 DEF SshAnswers
<1>12. ASSUME NEW c \in Clusters, SshRefused(c) PROVE StartedRuns'
  BY <1>12 DEF SshRefused
<1>13. ASSUME NEW c \in Clusters, BodyDestroysNode(c) PROVE StartedRuns'
  BY <1>13 DEF BodyDestroysNode
<1>14. ASSUME NEW c \in Clusters, BodyDestroysCluster(c) PROVE StartedRuns'
  BY <1>14 DEF BodyDestroysCluster
<1>15. ASSUME NEW c \in Clusters, BodyEnds(c) PROVE StartedRuns'
  BY <1>15 DEF BodyEnds
<1>16. ASSUME NEW c \in Clusters, ListContainers(c) PROVE StartedRuns'
  BY <1>16 DEF ListContainers
<1>17. ASSUME NEW c \in Clusters, MatchAddress(c) PROVE StartedRuns'
  BY <1>17 DEF MatchAddress
<1>18. ASSUME NEW c \in Clusters, StopContainer(c) PROVE StartedRuns'
<2>1. PICK x \in found[c] : status' = [status EXCEPT ![x] = "exited"]
  BY <1>18 DEF StopContainer
<2>2. x \in Own(c) /\ x[1] = c /\ phase[c] # "init"
  BY <1>18, <2>1, OwnVictims, OwnContainers DEF StopContainer
<2>3. phase' = phase /\ \A d \in Clusters \ {c} : pc'[d] = pc[d]
  BY <1>18 DEF StopContainer
<2>4. i' = i
  BY <1>18 DEF StopContainer
<2>. QED
  BY <2>1, <2>2, <2>3, <2>4
<1>19. ASSUME NEW c \in Clusters, RemoveContainer(c) PROVE StartedRuns'
<2>1. victim[c] \in Own(c) /\ victim[c][1] = c /\ phase[c] # "init"
  BY <1>19, OwnVictims, OwnContainers DEF RemoveContainer
<2>2. /\ status' = [status EXCEPT ![victim[c]] = "absent"]
      /\ phase' = phase /\ i' = i /\ \A d \in Clusters \ {c} : pc'[d] = pc[d]
  BY <1>19 DEF RemoveContainer
<2>. QED
  BY <2>1, <2>2
<1>20. ASSUME NEW c \in Clusters, ContainerGone(c) PROVE StartedRuns'
  BY <1>20 DEF ContainerGone
<1>21. ASSUME NEW c \in Clusters, NodeDestroyed(c) PROVE StartedRuns'
  BY <1>21 DEF NodeDestroyed
<1>22. ASSUME NEW c \in Clusters, RemoveWorkspace(c) PROVE StartedRuns'
  BY <1>22 DEF RemoveWorkspace
<1>23. ASSUME NEW c \in Clusters, CallFails(c) PROVE StartedRuns'
  BY <1>23 DEF CallFails
<1>24. ASSUME NEW c \in Clusters, StopFailsLate(c) PROVE StartedRuns'
<2>1. PICK x \in found[c] : status' = [status EXCEPT ![x] = "exited"]
  BY <1>24 DEF StopFailsLate
<2>2. x \in Own(c) /\ x[1] = c /\ phase[c] # "init"
  BY <1>24, <2>1, OwnVictims, OwnContainers DEF StopFailsLate
<2>3. /\ phase'[c] # "init"
      /\ \A d \in Clusters \ {c} : pc'[d] = pc[d] /\ phase'[d] = phase[d] /\ i'[d] = i[d]
  BY <1>24, <2>2 DEF StopFailsLate
<2>. QED
  BY <2>1, <2>2, <2>3
<1>25. ASSUME NEW c \in Clusters, Killed(c) PROVE StartedRuns'
  BY <1>25 DEF Killed
<1>26. ASSUME NEW x \in Containers, ContainerExits(x) PROVE StartedRuns'
  BY <1>26 DEF ContainerExits, TypeOK, IInv
<1>27. CASE UNCHANGED vars
  BY <1>27 DEF vars
<1>. QED
  BY <1>1, <1>2, <1>3, <1>4, <1>5, <1>6, <1>7, <1>8, <1>9, <1>10, <1>11,
    <1>12, <1>13, <1>14, <1>15, <1>16, <1>17, <1>18, <1>19, <1>20, <1>21,
    <1>22, <1>23, <1>24, <1>25, <1>26, <1>27
  DEF Next, Progress, Constructor, Listing, WaitForSsh, Body, Destroy,
    Failure, AllEnded

-----------------------------------------------------------------------------
(* The refinement of ClusterLifecycle.                                     *)

Same(c) == StageOf(c)' = StageOf(c) /\ MembersOf(c)' = MembersOf(c)

\* The steps of ClusterLifecycle, as one cluster takes them.
Moved(c) ==
  \/ Same(c)
  \/ StageOf(c) = "none" /\ StageOf(c)' = "building" /\ MembersOf(c)' = MembersOf(c)
  \/ /\ StageOf(c) = "building" /\ StageOf(c)' = "building"
     /\ \E k \in Nodes \ MembersOf(c) : MembersOf(c)' = MembersOf(c) \cup {k}
  \/ /\ StageOf(c) = "building" /\ StageOf(c)' = "up"
     /\ MembersOf(c) = Nodes /\ MembersOf(c)' = MembersOf(c)
  \/ /\ StageOf(c) = "up" /\ StageOf(c)' \in {"up", "givenUp"}
     /\ \E k \in MembersOf(c) : MembersOf(c)' = MembersOf(c) \ {k}
  \/ /\ StageOf(c) = "up" /\ StageOf(c)' = "ended"
     /\ MembersOf(c) = {} /\ MembersOf(c)' = MembersOf(c)
  \/ /\ StageOf(c) \in {"building", "up"} /\ StageOf(c)' = "givenUp"
     /\ MembersOf(c)' = MembersOf(c)

\* One cluster moves, and the others stay as they are.
Refined ==
  \/ \A d \in Clusters : Same(d)
  \/ \E c \in Clusters : Moved(c) /\ \A d \in Clusters \ {c} : Same(d)

LEMMA RefinedIsNext ==
  ASSUME Refined
  PROVE  [Lifecycle!Next]_Lifecycle!vars
<1> DEFINE st == [c \in Clusters |-> StageOf(c)]
           mb == [c \in Clusters |-> MembersOf(c)]
<1>1. st' = [c \in Clusters |-> StageOf(c)'] /\ mb' = [c \in Clusters |-> MembersOf(c)']
  OBVIOUS
<1>2. CASE \A d \in Clusters : Same(d)
<2>1. st' = st /\ mb' = mb
  BY <1>1, <1>2 DEF Same
<2>. QED
  BY <2>1 DEF Lifecycle!vars
<1>3. ASSUME NEW c \in Clusters, Moved(c), \A d \in Clusters \ {c} : Same(d)
      PROVE  [Lifecycle!Next]_Lifecycle!vars
<2>1. st' = [st EXCEPT ![c] = StageOf(c)'] /\ mb' = [mb EXCEPT ![c] = MembersOf(c)']
  BY <1>1, <1>3 DEF Same
<2>2. st[c] = StageOf(c) /\ mb[c] = MembersOf(c)
  OBVIOUS
<2>3. MembersOf(c)' = MembersOf(c) => mb' = mb
  BY <1>1, <1>3 DEF Same
<2>4. StageOf(c)' = StageOf(c) => st' = st
  BY <1>1, <1>3 DEF Same
<2> HIDE DEF st, mb
<2> DEFINE Abstract ==
      \/ st' = st /\ mb' = mb
      \/ st[c] = "none" /\ st' = [st EXCEPT ![c] = "building"] /\ mb' = mb
      \/ /\ st[c] = "building" /\ st' = st
         /\ \E k \in Nodes \ mb[c] : mb' = [mb EXCEPT ![c] = @ \cup {k}]
      \/ /\ mb[c] = Nodes /\ st[c] = "building" /\ st' = [st EXCEPT ![c] = "up"]
         /\ mb' = mb
      \/ /\ st[c] = "up" /\ \E k \in mb[c] : mb' = [mb EXCEPT ![c] = @ \ {k}]
         /\ st' = st \/ st' = [st EXCEPT ![c] = "givenUp"]
      \/ /\ mb[c] = {} /\ st[c] = "up" /\ st' = [st EXCEPT ![c] = "ended"]
         /\ mb' = mb
      \/ /\ st[c] \in {"building", "up"} /\ st' = [st EXCEPT ![c] = "givenUp"]
         /\ mb' = mb
<2>5. Abstract
  BY <1>3, <2>1, <2>2, <2>3, <2>4 DEF Moved, Same
<2>6. Abstract => [Lifecycle!Next]_Lifecycle!vars
  BY DEF st, mb, Lifecycle!Next, Lifecycle!vars, Lifecycle!Begin,
    Lifecycle!AddNode,
    Lifecycle!HandOver, Lifecycle!RemoveNode, Lifecycle!End, Lifecycle!GiveUp,
    Lifecycle!Moves
<2>. QED
  BY <2>5, <2>6
<1>. QED
  BY <1>2, <1>3 DEF Refined

\* A step that does not stop or start a container.
LEMMA SameContainers ==
  ASSUME NEW d \in Clusters, MembersOf(d)' = MembersOf(d),
         pc'[d] = pc[d], phase'[d] = phase[d]
  PROVE  Same(d)
  BY DEF Same, StageOf, At

LEMMA StepIsRefined ==
  ASSUME IInv, MaxExits = 0, StartedRuns, [Next]_vars
  PROVE  Refined
<1> USE DEF IInv, TypeOK, Running, PhaseInv, ConstructorLabels,
      DestroyNodeLabels, NoFault, Fault, At, Goto, ListFor, Raise, Forget,
      daemon, locals
<1>1. ASSUME NEW c \in Clusters, MakeWorkspace(c) PROVE Refined
<2>1. ASSUME NEW d \in Clusters \ {c} PROVE Same(d)
<3>1. pc'[d] = pc[d] /\ phase'[d] = phase[d]
  BY <1>1 DEF MakeWorkspace
<3>2. MembersOf(d)' = MembersOf(d)
  BY <1>1 DEF MakeWorkspace, MembersOf
<3>. QED
  BY <3>1, <3>2, SameContainers
<2>2. MembersOf(c)' = MembersOf(c)
  BY <1>1 DEF MakeWorkspace, MembersOf
<2>3. Moved(c)
  BY <1>1, <2>2 DEF MakeWorkspace, Moved, Same, StageOf
<2>. QED
  BY <2>1, <2>3 DEF Refined
<1>2. ASSUME NEW c \in Clusters, BuildImage(c) PROVE Refined
<2>1. ASSUME NEW d \in Clusters \ {c} PROVE Same(d)
<3>1. pc'[d] = pc[d] /\ phase'[d] = phase[d]
  BY <1>2 DEF BuildImage
<3>2. MembersOf(d)' = MembersOf(d)
  BY <1>2 DEF BuildImage, MembersOf
<3>. QED
  BY <3>1, <3>2, SameContainers
<2>2. MembersOf(c)' = MembersOf(c)
  BY <1>2 DEF BuildImage, MembersOf
<2>3. Moved(c)
  BY <1>2, <2>2 DEF BuildImage, Moved, Same, StageOf
<2>. QED
  BY <2>1, <2>3 DEF Refined
<1>3. ASSUME NEW c \in Clusters, CreateContainer(c) PROVE Refined
<2>0. /\ <<c, i[c]>> \in Containers /\ status' = [status EXCEPT ![<<c, i[c]>>] = "created"]
      /\ ~ Running(<<c, i[c]>>)
  BY <1>3, OwnContainers DEF CreateContainer, BuildInv, MadeInOrder, NotYet,
    LoopInv
<2>1. ASSUME NEW d \in Clusters \ {c} PROVE Same(d)
<3>1. pc'[d] = pc[d] /\ phase'[d] = phase[d]
  BY <1>3 DEF CreateContainer
<3>2. MembersOf(d)' = MembersOf(d)
  BY <1>3, <2>0 DEF CreateContainer, MembersOf
<3>. QED
  BY <3>1, <3>2, SameContainers
<2>2. MembersOf(c)' = MembersOf(c)
  BY <2>0 DEF MembersOf
<2>3. Moved(c)
  BY <1>3, <2>2 DEF CreateContainer, Moved, Same, StageOf
<2>. QED
  BY <2>1, <2>3 DEF Refined
<1>4. ASSUME NEW c \in Clusters, StartContainer(c) PROVE Refined
<2>0. /\ <<c, i[c]>> \in Containers /\ status' = [status EXCEPT ![<<c, i[c]>>] = "running"]
      /\ ~ Running(<<c, i[c]>>) /\ i[c] \in Nodes
  BY <1>4, OwnContainers DEF StartContainer, BuildInv, StartsCreated, LoopInv
<2>1. ASSUME NEW d \in Clusters \ {c} PROVE Same(d)
<3>1. pc'[d] = pc[d] /\ phase'[d] = phase[d]
  BY <1>4 DEF StartContainer
<3>2. MembersOf(d)' = MembersOf(d)
  BY <1>4, <2>0 DEF StartContainer, MembersOf
<3>. QED
  BY <3>1, <3>2, SameContainers
<2>2. i[c] \in Nodes \ MembersOf(c) /\ MembersOf(c)' = MembersOf(c) \cup {i[c]}
  BY <2>0 DEF MembersOf
<2>3. StageOf(c) = "building" /\ StageOf(c)' = "building"
  BY <1>4 DEF StartContainer, StageOf, PhaseInv, ConstructorLabels
<2>4. Moved(c)
  BY <2>2, <2>3 DEF Moved
<2>. QED
  BY <2>1, <2>4 DEF Refined
<1>5. ASSUME NEW c \in Clusters, NoAddressLeft(c) PROVE Refined
<2>1. ASSUME NEW d \in Clusters \ {c} PROVE Same(d)
<3>1. pc'[d] = pc[d] /\ phase'[d] = phase[d]
  BY <1>5 DEF NoAddressLeft
<3>2. MembersOf(d)' = MembersOf(d)
  BY <1>5 DEF NoAddressLeft, MembersOf
<3>. QED
  BY <3>1, <3>2, SameContainers
<2>2. MembersOf(c)' = MembersOf(c)
  BY <1>5 DEF NoAddressLeft, MembersOf
<2>3. Moved(c)
  BY <1>5, <2>2 DEF NoAddressLeft, Moved, Same, StageOf
<2>. QED
  BY <2>1, <2>3 DEF Refined
<1>6. ASSUME NEW c \in Clusters, Provision(c) PROVE Refined
<2>1. ASSUME NEW d \in Clusters \ {c} PROVE Same(d)
<3>1. pc'[d] = pc[d] /\ phase'[d] = phase[d]
  BY <1>6 DEF Provision
<3>2. MembersOf(d)' = MembersOf(d)
  BY <1>6 DEF Provision, MembersOf
<3>. QED
  BY <3>1, <3>2, SameContainers
<2>2. MembersOf(c)' = MembersOf(c)
  BY <1>6 DEF Provision, MembersOf
<2>3. Moved(c)
  BY <1>6, <2>2 DEF Provision, Moved, Same, StageOf
<2>. QED
  BY <2>1, <2>3 DEF Refined
<1>7. ASSUME NEW c \in Clusters, ProvisionStopped(c) PROVE Refined
<2>1. ASSUME NEW d \in Clusters \ {c} PROVE Same(d)
<3>1. pc'[d] = pc[d] /\ phase'[d] = phase[d]
  BY <1>7 DEF ProvisionStopped
<3>2. MembersOf(d)' = MembersOf(d)
  BY <1>7 DEF ProvisionStopped, MembersOf
<3>. QED
  BY <3>1, <3>2, SameContainers
<2>2. MembersOf(c)' = MembersOf(c)
  BY <1>7 DEF ProvisionStopped, MembersOf
<2>3. Moved(c)
  BY <1>7, <2>2 DEF ProvisionStopped, Moved, Same, StageOf
<2>. QED
  BY <2>1, <2>3 DEF Refined
<1>8. ASSUME NEW c \in Clusters, ListRole(c) PROVE Refined
<2>1. ASSUME NEW d \in Clusters \ {c} PROVE Same(d)
<3>1. pc'[d] = pc[d] /\ phase'[d] = phase[d]
  BY <1>8 DEF ListRole
<3>2. MembersOf(d)' = MembersOf(d)
  BY <1>8 DEF ListRole, MembersOf
<3>. QED
  BY <3>1, <3>2, SameContainers
<2>2. MembersOf(c)' = MembersOf(c)
  BY <1>8 DEF ListRole, MembersOf
<2>3. Moved(c)
  BY <1>8, <2>2 DEF ListRole, Moved, Same, StageOf
<2>. QED
  BY <2>1, <2>3 DEF Refined
<1>9. ASSUME NEW c \in Clusters, NextNode(c) PROVE Refined
<2>1. ASSUME NEW d \in Clusters \ {c} PROVE Same(d)
<3>1. pc'[d] = pc[d] /\ phase'[d] = phase[d]
  BY <1>9 DEF NextNode
<3>2. MembersOf(d)' = MembersOf(d)
  BY <1>9 DEF NextNode, MembersOf
<3>. QED
  BY <3>1, <3>2, SameContainers
<2>2. MembersOf(c)' = MembersOf(c)
  BY <1>9 DEF NextNode, MembersOf
<2>3. Moved(c)
  BY <1>9, <2>2 DEF NextNode, Moved, Same, StageOf
<2>. QED
  BY <2>1, <2>3 DEF Refined
<1>10. ASSUME NEW c \in Clusters, LastNodeDone(c) PROVE Refined
<2>1. ASSUME NEW d \in Clusters \ {c} PROVE Same(d)
<3>1. pc'[d] = pc[d] /\ phase'[d] = phase[d]
  BY <1>10 DEF LastNodeDone
<3>2. MembersOf(d)' = MembersOf(d)
  BY <1>10 DEF LastNodeDone, MembersOf
<3>. QED
  BY <3>1, <3>2, SameContainers
<2>2. MembersOf(c)' = MembersOf(c)
  BY <1>10 DEF LastNodeDone, MembersOf
<2>3. CASE phase[c] = "init"
<3>1. MembersOf(c) = Nodes
  BY <1>10, <2>3, OwnContainers DEF LastNodeDone, StartedRuns, NotYet,
    MembersOf
<3>2. /\ pc[c] = "nodes" /\ pc'[c] = "body"
      /\ phase[c] = "init" /\ phase'[c] = "user"
  BY <1>10, <2>3 DEF LastNodeDone
<3>3. StageOf(c) = "building" /\ StageOf(c)' = "up"
  BY <3>2 DEF StageOf
<3>. QED
  BY <2>1, <2>2, <3>1, <3>3 DEF Moved, Refined
<2>4. CASE phase[c] # "init"
<3>1. /\ pc[c] = "nodes" /\ pc'[c] = "rmtree"
      /\ phase[c] # "init" /\ phase'[c] = phase[c]
  BY <1>10, <2>4 DEF LastNodeDone
<3>2. StageOf(c) = "up" /\ StageOf(c)' = "up"
  BY <3>1 DEF StageOf
<3>. QED
  BY <2>1, <2>2, <3>2 DEF Moved, Same, Refined
<2>. QED
  BY <2>3, <2>4
<1>11. ASSUME NEW c \in Clusters, SshAnswers(c) PROVE Refined
<2>1. ASSUME NEW d \in Clusters \ {c} PROVE Same(d)
<3>1. pc'[d] = pc[d] /\ phase'[d] = phase[d]
  BY <1>11 DEF SshAnswers
<3>2. MembersOf(d)' = MembersOf(d)
  BY <1>11 DEF SshAnswers, MembersOf
<3>. QED
  BY <3>1, <3>2, SameContainers
<2>2. MembersOf(c)' = MembersOf(c)
  BY <1>11 DEF SshAnswers, MembersOf
<2>3. Moved(c)
  BY <1>11, <2>2 DEF SshAnswers, Moved, Same, StageOf
<2>. QED
  BY <2>1, <2>3 DEF Refined
<1>12. ASSUME NEW c \in Clusters, SshRefused(c) PROVE Refined
<2>1. ASSUME NEW d \in Clusters \ {c} PROVE Same(d)
<3>1. pc'[d] = pc[d] /\ phase'[d] = phase[d]
  BY <1>12 DEF SshRefused
<3>2. MembersOf(d)' = MembersOf(d)
  BY <1>12 DEF SshRefused, MembersOf
<3>. QED
  BY <3>1, <3>2, SameContainers
<2>2. MembersOf(c)' = MembersOf(c)
  BY <1>12 DEF SshRefused, MembersOf
<2>3. Moved(c)
  BY <1>12, <2>2 DEF SshRefused, Moved, Same, StageOf
<2>. QED
  BY <2>1, <2>3 DEF Refined
<1>13. ASSUME NEW c \in Clusters, BodyDestroysNode(c) PROVE Refined
<2>1. ASSUME NEW d \in Clusters \ {c} PROVE Same(d)
<3>1. pc'[d] = pc[d] /\ phase'[d] = phase[d]
  BY <1>13 DEF BodyDestroysNode
<3>2. MembersOf(d)' = MembersOf(d)
  BY <1>13 DEF BodyDestroysNode, MembersOf
<3>. QED
  BY <3>1, <3>2, SameContainers
<2>2. MembersOf(c)' = MembersOf(c)
  BY <1>13 DEF BodyDestroysNode, MembersOf
<2>3. Moved(c)
  BY <1>13, <2>2 DEF BodyDestroysNode, Moved, Same, StageOf
<2>. QED
  BY <2>1, <2>3 DEF Refined
<1>14. ASSUME NEW c \in Clusters, BodyDestroysCluster(c) PROVE Refined
<2>1. ASSUME NEW d \in Clusters \ {c} PROVE Same(d)
<3>1. pc'[d] = pc[d] /\ phase'[d] = phase[d]
  BY <1>14 DEF BodyDestroysCluster
<3>2. MembersOf(d)' = MembersOf(d)
  BY <1>14 DEF BodyDestroysCluster, MembersOf
<3>. QED
  BY <3>1, <3>2, SameContainers
<2>2. MembersOf(c)' = MembersOf(c)
  BY <1>14 DEF BodyDestroysCluster, MembersOf
<2>3. Moved(c)
  BY <1>14, <2>2 DEF BodyDestroysCluster, Moved, Same, StageOf
<2>. QED
  BY <2>1, <2>3 DEF Refined
<1>15. ASSUME NEW c \in Clusters, BodyEnds(c) PROVE Refined
<2>1. ASSUME NEW d \in Clusters \ {c} PROVE Same(d)
<3>1. pc'[d] = pc[d] /\ phase'[d] = phase[d]
  BY <1>15 DEF BodyEnds
<3>2. MembersOf(d)' = MembersOf(d)
  BY <1>15 DEF BodyEnds, MembersOf
<3>. QED
  BY <3>1, <3>2, SameContainers
<2>2. MembersOf(c)' = MembersOf(c)
  BY <1>15 DEF BodyEnds, MembersOf
<2>3. Moved(c)
  BY <1>15, <2>2 DEF BodyEnds, Moved, Same, StageOf
<2>. QED
  BY <2>1, <2>3 DEF Refined
<1>16. ASSUME NEW c \in Clusters, ListContainers(c) PROVE Refined
<2>1. ASSUME NEW d \in Clusters \ {c} PROVE Same(d)
<3>1. pc'[d] = pc[d] /\ phase'[d] = phase[d]
  BY <1>16 DEF ListContainers
<3>2. MembersOf(d)' = MembersOf(d)
  BY <1>16 DEF ListContainers, MembersOf
<3>. QED
  BY <3>1, <3>2, SameContainers
<2>2. MembersOf(c)' = MembersOf(c)
  BY <1>16 DEF ListContainers, MembersOf
<2>3. Moved(c)
  BY <1>16, <2>2 DEF ListContainers, Moved, Same, StageOf
<2>. QED
  BY <2>1, <2>3 DEF Refined
<1>17. ASSUME NEW c \in Clusters, MatchAddress(c) PROVE Refined
<2>1. ASSUME NEW d \in Clusters \ {c} PROVE Same(d)
<3>1. pc'[d] = pc[d] /\ phase'[d] = phase[d]
  BY <1>17 DEF MatchAddress
<3>2. MembersOf(d)' = MembersOf(d)
  BY <1>17 DEF MatchAddress, MembersOf
<3>. QED
  BY <3>1, <3>2, SameContainers
<2>2. MembersOf(c)' = MembersOf(c)
  BY <1>17 DEF MatchAddress, MembersOf
<2>3. Moved(c)
  BY <1>17, <2>2 DEF MatchAddress, Moved, Same, StageOf
<2>. QED
  BY <2>1, <2>3 DEF Refined
<1>18. ASSUME NEW c \in Clusters, StopContainer(c) PROVE Refined
<2>0. PICK x \in found[c] : status' = [status EXCEPT ![x] = "exited"]
  BY <1>18 DEF StopContainer
<2>5. x \in Containers /\ x[1] = c /\ x = <<c, x[2]>> /\ x[2] \in Nodes /\ Running(x)
  BY <2>0, OwnVictims, OwnContainers, Owners DEF FreshInv, DaemonInv
<2>1. ASSUME NEW d \in Clusters \ {c} PROVE Same(d)
<3>1. pc'[d] = pc[d] /\ phase'[d] = phase[d]
  BY <1>18 DEF StopContainer
<3>2. MembersOf(d)' = MembersOf(d)
  BY <1>18, <2>0, <2>5 DEF StopContainer, MembersOf
<3>. QED
  BY <3>1, <3>2, SameContainers
<2>2. x[2] \in MembersOf(c) /\ MembersOf(c)' = MembersOf(c) \ {x[2]}
<3>1. \A k \in Nodes : <<c, k>> \in Containers /\ (<<c, k>> = x <=> k = x[2])
  BY <2>5, OwnContainers
<3>. QED
  BY <2>0, <2>5, <3>1 DEF MembersOf
<2>3. StageOf(c) = "up" /\ StageOf(c)' \in {"up", "givenUp"}
  BY <1>18 DEF StopContainer, StageOf, PhaseInv, DestroyNodeLabels, Phases
<2>4. Moved(c)
  BY <2>2, <2>3 DEF Moved
<2>. QED
  BY <2>1, <2>4 DEF Refined
<1>19. ASSUME NEW c \in Clusters, RemoveContainer(c) PROVE Refined
<2>0. /\ status' = [status EXCEPT ![victim[c]] = "absent"]
      /\ ~ Running(victim[c])
  BY <1>19 DEF RemoveContainer, BuildInv
<2>1. ASSUME NEW d \in Clusters \ {c} PROVE Same(d)
<3>1. pc'[d] = pc[d] /\ phase'[d] = phase[d]
  BY <1>19 DEF RemoveContainer
<3>2. MembersOf(d)' = MembersOf(d)
  BY <1>19, <2>0 DEF RemoveContainer, MembersOf
<3>. QED
  BY <3>1, <3>2, SameContainers
<2>2. MembersOf(c)' = MembersOf(c)
  BY <2>0 DEF MembersOf
<2>3. Moved(c)
  BY <1>19, <2>2 DEF RemoveContainer, Moved, Same, StageOf
<2>. QED
  BY <2>1, <2>3 DEF Refined
<1>20. ASSUME NEW c \in Clusters, ContainerGone(c) PROVE Refined
<2>1. ASSUME NEW d \in Clusters \ {c} PROVE Same(d)
<3>1. pc'[d] = pc[d] /\ phase'[d] = phase[d]
  BY <1>20 DEF ContainerGone
<3>2. MembersOf(d)' = MembersOf(d)
  BY <1>20 DEF ContainerGone, MembersOf
<3>. QED
  BY <3>1, <3>2, SameContainers
<2>2. MembersOf(c)' = MembersOf(c)
  BY <1>20 DEF ContainerGone, MembersOf
<2>3. Moved(c)
  BY <1>20, <2>2 DEF ContainerGone, Moved, Same, StageOf
<2>. QED
  BY <2>1, <2>3 DEF Refined
<1>21. ASSUME NEW c \in Clusters, NodeDestroyed(c) PROVE Refined
<2>1. ASSUME NEW d \in Clusters \ {c} PROVE Same(d)
<3>1. pc'[d] = pc[d] /\ phase'[d] = phase[d]
  BY <1>21 DEF NodeDestroyed
<3>2. MembersOf(d)' = MembersOf(d)
  BY <1>21 DEF NodeDestroyed, MembersOf
<3>. QED
  BY <3>1, <3>2, SameContainers
<2>2. MembersOf(c)' = MembersOf(c)
  BY <1>21 DEF NodeDestroyed, MembersOf
<2>3. Moved(c)
  BY <1>21, <2>2 DEF NodeDestroyed, Moved, Same, StageOf
<2>. QED
  BY <2>1, <2>3 DEF Refined
<1>22. ASSUME NEW c \in Clusters, RemoveWorkspace(c) PROVE Refined
<2>1. ASSUME NEW d \in Clusters \ {c} PROVE Same(d)
<3>1. pc'[d] = pc[d] /\ phase'[d] = phase[d]
  BY <1>22 DEF RemoveWorkspace
<3>2. MembersOf(d)' = MembersOf(d)
  BY <1>22 DEF RemoveWorkspace, MembersOf
<3>. QED
  BY <3>1, <3>2, SameContainers
<2>2. MembersOf(c)' = MembersOf(c)
  BY <1>22 DEF RemoveWorkspace, MembersOf
<2>3. MembersOf(c) = {}
<3> SUFFICES ASSUME NEW k \in Nodes, Running(<<c, k>>) PROVE FALSE
  BY DEF MembersOf
<3>1. <<c, k>> \in Containers
  BY OwnContainers
<3>2. phase[c] \in {"manual", "exit"} /\ nodes[c] = {} /\ pc[c] = "rmtree"
  BY <1>22 DEF RemoveWorkspace, PhaseInv, LoopInv
<3>3. StillToDestroy(<<c, k>>)
  BY <3>1, <3>2 DEF DestroyInv
<3>. QED
  BY <3>2, <3>3 DEF StillToDestroy
<2>4. Moved(c)
  BY <1>22, <2>2, <2>3 DEF RemoveWorkspace, Moved, Same, StageOf, PhaseInv
<2>. QED
  BY <2>1, <2>4 DEF Refined
<1>23. ASSUME NEW c \in Clusters, CallFails(c) PROVE Refined
<2>1. ASSUME NEW d \in Clusters \ {c} PROVE Same(d)
<3>1. pc'[d] = pc[d] /\ phase'[d] = phase[d]
  BY <1>23 DEF CallFails
<3>2. MembersOf(d)' = MembersOf(d)
  BY <1>23 DEF CallFails, MembersOf
<3>. QED
  BY <3>1, <3>2, SameContainers
<2>2. MembersOf(c)' = MembersOf(c)
  BY <1>23 DEF CallFails, MembersOf
<2>3. Moved(c)
  BY <1>23, <2>2 DEF CallFails, Moved, Same, StageOf
<2>. QED
  BY <2>1, <2>3 DEF Refined
<1>24. ASSUME NEW c \in Clusters, StopFailsLate(c) PROVE Refined
<2>0. PICK x \in found[c] : status' = [status EXCEPT ![x] = "exited"]
  BY <1>24 DEF StopFailsLate
<2>5. x \in Containers /\ x[1] = c /\ x = <<c, x[2]>> /\ x[2] \in Nodes /\ Running(x)
  BY <2>0, OwnVictims, OwnContainers, Owners DEF FreshInv, DaemonInv
<2>1. ASSUME NEW d \in Clusters \ {c} PROVE Same(d)
<3>1. pc'[d] = pc[d] /\ phase'[d] = phase[d]
  BY <1>24 DEF StopFailsLate
<3>2. MembersOf(d)' = MembersOf(d)
  BY <1>24, <2>0, <2>5 DEF StopFailsLate, MembersOf
<3>. QED
  BY <3>1, <3>2, SameContainers
<2>2. x[2] \in MembersOf(c) /\ MembersOf(c)' = MembersOf(c) \ {x[2]}
<3>1. \A k \in Nodes : <<c, k>> \in Containers /\ (<<c, k>> = x <=> k = x[2])
  BY <2>5, OwnContainers
<3>. QED
  BY <2>0, <2>5, <3>1 DEF MembersOf
<2>3. StageOf(c) = "up" /\ StageOf(c)' \in {"up", "givenUp"}
  BY <1>24 DEF StopFailsLate, StageOf, PhaseInv, DestroyNodeLabels, Phases
<2>4. Moved(c)
  BY <2>2, <2>3 DEF Moved
<2>. QED
  BY <2>1, <2>4 DEF Refined
<1>25. ASSUME NEW c \in Clusters, Killed(c) PROVE Refined
<2>1. ASSUME NEW d \in Clusters \ {c} PROVE Same(d)
<3>1. pc'[d] = pc[d] /\ phase'[d] = phase[d]
  BY <1>25 DEF Killed
<3>2. MembersOf(d)' = MembersOf(d)
  BY <1>25 DEF Killed, MembersOf
<3>. QED
  BY <3>1, <3>2, SameContainers
<2>2. MembersOf(c)' = MembersOf(c)
  BY <1>25 DEF Killed, MembersOf
<2>3. Moved(c)
  BY <1>25, <2>2 DEF Killed, Moved, Same, StageOf
<2>. QED
  BY <2>1, <2>3 DEF Refined
<1>26. ASSUME NEW x \in Containers, ContainerExits(x) PROVE Refined
  BY <1>26 DEF ContainerExits, TypeOK, IInv
<1>27. CASE UNCHANGED vars
<2>1. ASSUME NEW d \in Clusters PROVE Same(d)
<3>1. MembersOf(d)' = MembersOf(d)
  BY <1>27 DEF vars, MembersOf
<3>. QED
  BY <1>27, <3>1, SameContainers DEF vars
<2>. QED
  BY <2>1 DEF Refined
<1>. QED
  BY <1>1, <1>2, <1>3, <1>4, <1>5, <1>6, <1>7, <1>8, <1>9, <1>10, <1>11,
    <1>12, <1>13, <1>14, <1>15, <1>16, <1>17, <1>18, <1>19, <1>20, <1>21,
    <1>22, <1>23, <1>24, <1>25, <1>26, <1>27
  DEF Next, Progress, Constructor, Listing, WaitForSsh, Body, Destroy,
    Failure, AllEnded

\* As long as containers do not stop on their own, a block is handed its
\* cluster with all nodes, loses nodes only by its own doing, and has none left
\* when it ends, whichever calls fail and whatever other blocks do.
THEOREM BlocksKeepPromise ==
  ASSUME MaxExits = 0
  PROVE  Spec => KeepsPromise
<1>1. Init => Lifecycle!Init
<2> SUFFICES ASSUME Init PROVE Lifecycle!Init
  OBVIOUS
<2>1. ASSUME NEW c \in Clusters PROVE StageOf(c) = "none" /\ MembersOf(c) = {}
  BY OwnContainers DEF Init, StageOf, MembersOf, Running, At
<2>. QED
  BY <2>1 DEF Lifecycle!Init
<1>2. IInv /\ StartedRuns /\ [Next]_vars => StartedRuns'
  BY StartedRunsStep
<1>3. IInv /\ StartedRuns /\ [Next]_vars => [Lifecycle!Next]_Lifecycle!vars
  BY StepIsRefined, RefinedIsNext
<1>. QED
  BY <1>1, <1>2, <1>3, IInvAlways, StartedRunsInit, PTL
  DEF Spec, KeepsPromise, Lifecycle!Spec
=============================================================================
