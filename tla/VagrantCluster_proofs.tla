------------------------ MODULE VagrantCluster_proofs ------------------------
(***************************************************************************)
(* Proofs, for any number of VMs in any roles, that a block of             *)
(* VagrantCluster is well typed, that a VM that runs is never out of       *)
(* Vagrant's reach, that destroy_node destroys its node, and that the      *)
(* block implements ClusterLifecycle.                                      *)
(***************************************************************************)
EXTENDS VagrantCluster, TLAPS

-----------------------------------------------------------------------------
(* Types.                                                                  *)

LEMMA TypeInit ==
  ASSUME Init
  PROVE  TypeOK
<1>1. root \in BOOLEAN
  BY DEF Init
<1>2. faults \in 0 .. MaxFaults /\ halts \in 0 .. MaxHalts /\ role \in 1 .. 3
  BY VagrantAssumption DEF Init
<1>. QED
  BY <1>1, <1>2 DEF Init, TypeOK, States, Labels, Phases

LEMMA TypeStep ==
  ASSUME TypeOK, [Next]_vars
  PROVE  TypeOK'
<1> USE VagrantAssumption DEF TypeOK, States, Labels, Phases, Running, Goto,
      GotoFor, ListNodes, Raise, Vagrant, Fault, listing, bounds
<1>1. ASSUME MakeRoot PROVE TypeOK'
  BY <1>1 DEF MakeRoot
<1>2. ASSUME BootVm PROVE TypeOK'
  BY <1>2 DEF BootVm
<1>3. ASSUME UpEnds PROVE TypeOK'
  BY <1>3 DEF UpEnds
<1>4. ASSUME WaitForSsh PROVE TypeOK'
  BY <1>4 DEF WaitForSsh
<1>5. ASSUME ListRole PROVE TypeOK'
  BY <1>5 DEF ListRole
<1>6. ASSUME AskVm PROVE TypeOK'
  BY <1>6 DEF AskVm
<1>7. ASSUME RoleListed PROVE TypeOK'
  BY <1>7 DEF RoleListed, AfterListing
<1>8. ASSUME BodyDestroysNode PROVE TypeOK'
  BY <1>8 DEF BodyDestroysNode
<1>9. ASSUME BodyDestroysCluster PROVE TypeOK'
  BY <1>9 DEF BodyDestroysCluster
<1>10. ASSUME BodyEnds PROVE TypeOK'
  BY <1>10 DEF BodyEnds
<1>11. ASSUME NextNode PROVE TypeOK'
  BY <1>11 DEF NextNode
<1>12. ASSUME NodesDestroyed PROVE TypeOK'
  BY <1>12 DEF NodesDestroyed
<1>13. ASSUME GetStatus PROVE TypeOK'
  BY <1>13 DEF GetStatus
<1>14. ASSUME MatchVm PROVE TypeOK'
  BY <1>14 DEF MatchVm
<1>15. ASSUME DestroyVm PROVE TypeOK'
  BY <1>15 DEF DestroyVm
<1>16. ASSUME NodeDestroyed PROVE TypeOK'
  BY <1>16 DEF NodeDestroyed
<1>17. ASSUME RemoveRoot PROVE TypeOK'
  BY <1>17 DEF RemoveRoot
<1>18. ASSUME CommandFails PROVE TypeOK'
  BY <1>18 DEF CommandFails
<1>19. ASSUME DestroyFails PROVE TypeOK'
  BY <1>19 DEF DestroyFails
<1>20. ASSUME RemovalFails PROVE TypeOK'
  BY <1>20 DEF RemovalFails
<1>21. ASSUME Killed PROVE TypeOK'
  BY <1>21 DEF Killed
<1>22. ASSUME Halt PROVE TypeOK'
  BY <1>22 DEF Halt
<1>23. CASE UNCHANGED vars
  BY <1>23 DEF vars
<1>. QED
  BY <1>1, <1>2, <1>3, <1>4, <1>5, <1>6, <1>7, <1>8, <1>9, <1>10, <1>11,
    <1>12, <1>13, <1>14, <1>15, <1>16, <1>17, <1>18, <1>19, <1>20, <1>21,
    <1>22, <1>23
  DEF Next, Constructor, Listing, Body, Destroy, Failure, Ended

\* Every reachable state of a block on any number of VMs is well typed.
THEOREM TypeCorrect == Spec => []TypeOK
<1>1. Init => TypeOK
  BY TypeInit
<1>2. TypeOK /\ [Next]_vars => TypeOK'
  BY TypeStep
<1>. QED
  BY <1>1, <1>2, PTL DEF Spec

-----------------------------------------------------------------------------
(* Where on whose behalf.                                                  *)

\* What is done at a label is done on behalf of few.
Behalf ==
  /\ pc \in {"idle", "up", "ssh"} => phase = "init"
  /\ pc \in {"list", "ask"} => phase \in {"init", "manual", "exit"}
  /\ pc \in {"next", "rmtree"} => phase \in {"manual", "exit"}
  /\ pc \in {"status", "match", "destroy"} =>
       phase \in {"node", "manual", "exit"} /\ target \in Vms
  /\ pc = "body" => phase = "body"
  /\ pc = "done" => phase = "exit"

LEMMA BehalfInit ==
  ASSUME Init
  PROVE  Behalf
  BY DEF Init, Behalf

LEMMA BehalfStep ==
  ASSUME TypeOK, Behalf, [Next]_vars
  PROVE  Behalf'
<1> USE DEF TypeOK, Behalf, Goto, GotoFor, ListNodes, Raise, Vagrant, Fault,
      listing, bounds
<1>1. ASSUME MakeRoot PROVE Behalf'
  BY <1>1 DEF MakeRoot
<1>2. ASSUME BootVm PROVE Behalf'
  BY <1>2 DEF BootVm
<1>3. ASSUME UpEnds PROVE Behalf'
  BY <1>3 DEF UpEnds
<1>4. ASSUME WaitForSsh PROVE Behalf'
  BY <1>4 DEF WaitForSsh
<1>5. ASSUME ListRole PROVE Behalf'
  BY <1>5 DEF ListRole
<1>6. ASSUME AskVm PROVE Behalf'
  BY <1>6 DEF AskVm
<1>7. ASSUME RoleListed PROVE Behalf'
  BY <1>7 DEF RoleListed, AfterListing
<1>8. ASSUME BodyDestroysNode PROVE Behalf'
  BY <1>8 DEF BodyDestroysNode
<1>9. ASSUME BodyDestroysCluster PROVE Behalf'
  BY <1>9 DEF BodyDestroysCluster
<1>10. ASSUME BodyEnds PROVE Behalf'
  BY <1>10 DEF BodyEnds
<1>11. ASSUME NextNode PROVE Behalf'
  BY <1>11 DEF NextNode
<1>12. ASSUME NodesDestroyed PROVE Behalf'
  BY <1>12 DEF NodesDestroyed
<1>13. ASSUME GetStatus PROVE Behalf'
  BY <1>13 DEF GetStatus
<1>14. ASSUME MatchVm PROVE Behalf'
  BY <1>14 DEF MatchVm
<1>15. ASSUME DestroyVm PROVE Behalf'
  BY <1>15 DEF DestroyVm
<1>16. ASSUME NodeDestroyed PROVE Behalf'
  BY <1>16 DEF NodeDestroyed
<1>17. ASSUME RemoveRoot PROVE Behalf'
  BY <1>17 DEF RemoveRoot
<1>18. ASSUME CommandFails PROVE Behalf'
  BY <1>18 DEF CommandFails
<1>19. ASSUME DestroyFails PROVE Behalf'
  BY <1>19 DEF DestroyFails
<1>20. ASSUME RemovalFails PROVE Behalf'
  BY <1>20 DEF RemovalFails
<1>21. ASSUME Killed PROVE Behalf'
  BY <1>21 DEF Killed
<1>22. ASSUME Halt PROVE Behalf'
  BY <1>22 DEF Halt
<1>23. CASE UNCHANGED vars
  BY <1>23 DEF vars
<1>. QED
  BY <1>1, <1>2, <1>3, <1>4, <1>5, <1>6, <1>7, <1>8, <1>9, <1>10, <1>11,
    <1>12, <1>13, <1>14, <1>15, <1>16, <1>17, <1>18, <1>19, <1>20, <1>21,
    <1>22, <1>23
  DEF Next, Constructor, Listing, Body, Destroy, Failure, Ended

-----------------------------------------------------------------------------
(* No VM that runs is forgotten.                                           *)

\* The VMs that run are those that a listing has asked or will ask, then
\* those that are left to destroy.
Covered ==
  /\ pc \in {"list", "ask"} =>
       \A k \in Running :
         \/ k \in nodes
         \/ Role[k] > role
         \/ Role[k] = role /\ (pc = "list" \/ k \in asked)
  /\ pc = "next" => Running \subseteq nodes
  /\ pc \in {"status", "match", "destroy"} /\ phase # "node" =>
       Running \subseteq nodes \cup {target}
  /\ pc = "match" /\ target \in Running => target \in asked

\* The directory is there as long as a VM runs, and before any does.
Reachable ==
  /\ pc = "up" => root
  /\ ~ root \/ pc \in {"idle", "rmtree", "done"} => Running = {}

KnownInv == Covered /\ Reachable

LEMMA KnownInit ==
  ASSUME Init
  PROVE  KnownInv
  BY DEF Init, KnownInv, Covered, Reachable, Running

LEMMA CoveredStep ==
  ASSUME TypeOK, Behalf, KnownInv, [Next]_vars
  PROVE  Covered'
<1> USE VagrantAssumption DEF TypeOK, States, Behalf, KnownInv, Covered,
      Reachable, Running, Goto, GotoFor, ListNodes, Raise, Vagrant, Fault,
      listing, bounds
<1>1. ASSUME MakeRoot PROVE Covered'
  BY <1>1 DEF MakeRoot
<1>2. ASSUME BootVm PROVE Covered'
  BY <1>2 DEF BootVm
<1>3. ASSUME UpEnds PROVE Covered'
  BY <1>3 DEF UpEnds
<1>4. ASSUME WaitForSsh PROVE Covered'
  BY <1>4 DEF WaitForSsh
<1>5. ASSUME ListRole PROVE Covered'
  BY <1>5 DEF ListRole
<1>6. ASSUME AskVm PROVE Covered'
  BY <1>6 DEF AskVm
<1>7. ASSUME RoleListed PROVE Covered'
  BY <1>7 DEF RoleListed, AfterListing
<1>8. ASSUME BodyDestroysNode PROVE Covered'
  BY <1>8 DEF BodyDestroysNode
<1>9. ASSUME BodyDestroysCluster PROVE Covered'
  BY <1>9 DEF BodyDestroysCluster
<1>10. ASSUME BodyEnds PROVE Covered'
  BY <1>10 DEF BodyEnds
<1>11. ASSUME NextNode PROVE Covered'
  BY <1>11 DEF NextNode
<1>12. ASSUME NodesDestroyed PROVE Covered'
  BY <1>12 DEF NodesDestroyed
<1>13. ASSUME GetStatus PROVE Covered'
  BY <1>13 DEF GetStatus
<1>14. ASSUME MatchVm PROVE Covered'
  BY <1>14 DEF MatchVm
<1>15. ASSUME DestroyVm PROVE Covered'
  BY <1>15 DEF DestroyVm
<1>16. ASSUME NodeDestroyed PROVE Covered'
  BY <1>16 DEF NodeDestroyed
<1>17. ASSUME RemoveRoot PROVE Covered'
  BY <1>17 DEF RemoveRoot
<1>18. ASSUME CommandFails PROVE Covered'
  BY <1>18 DEF CommandFails
<1>19. ASSUME DestroyFails PROVE Covered'
  BY <1>19 DEF DestroyFails
<1>20. ASSUME RemovalFails PROVE Covered'
  BY <1>20 DEF RemovalFails
<1>21. ASSUME Killed PROVE Covered'
  BY <1>21 DEF Killed
<1>22. ASSUME Halt PROVE Covered'
  BY <1>22 DEF Halt
<1>23. CASE UNCHANGED vars
  BY <1>23 DEF vars
<1>. QED
  BY <1>1, <1>2, <1>3, <1>4, <1>5, <1>6, <1>7, <1>8, <1>9, <1>10, <1>11,
    <1>12, <1>13, <1>14, <1>15, <1>16, <1>17, <1>18, <1>19, <1>20, <1>21,
    <1>22, <1>23
  DEF Next, Constructor, Listing, Body, Destroy, Failure, Ended

LEMMA ReachableStep ==
  ASSUME TypeOK, Behalf, KnownInv, [Next]_vars
  PROVE  Reachable'
<1> USE VagrantAssumption DEF TypeOK, States, Behalf, KnownInv, Covered,
      Reachable, Running, Goto, GotoFor, ListNodes, Raise, Vagrant, Fault,
      listing, bounds
<1>1. ASSUME MakeRoot PROVE Reachable'
  BY <1>1 DEF MakeRoot
<1>2. ASSUME BootVm PROVE Reachable'
  BY <1>2 DEF BootVm
<1>3. ASSUME UpEnds PROVE Reachable'
  BY <1>3 DEF UpEnds
<1>4. ASSUME WaitForSsh PROVE Reachable'
  BY <1>4 DEF WaitForSsh
<1>5. ASSUME ListRole PROVE Reachable'
  BY <1>5 DEF ListRole
<1>6. ASSUME AskVm PROVE Reachable'
  BY <1>6 DEF AskVm
<1>7. ASSUME RoleListed PROVE Reachable'
  BY <1>7 DEF RoleListed, AfterListing
<1>8. ASSUME BodyDestroysNode PROVE Reachable'
  BY <1>8 DEF BodyDestroysNode
<1>9. ASSUME BodyDestroysCluster PROVE Reachable'
  BY <1>9 DEF BodyDestroysCluster
<1>10. ASSUME BodyEnds PROVE Reachable'
  BY <1>10 DEF BodyEnds
<1>11. ASSUME NextNode PROVE Reachable'
  BY <1>11 DEF NextNode
<1>12. ASSUME NodesDestroyed PROVE Reachable'
  BY <1>12 DEF NodesDestroyed
<1>13. ASSUME GetStatus PROVE Reachable'
  BY <1>13 DEF GetStatus
<1>14. ASSUME MatchVm PROVE Reachable'
  BY <1>14 DEF MatchVm
<1>15. ASSUME DestroyVm PROVE Reachable'
  BY <1>15 DEF DestroyVm
<1>16. ASSUME NodeDestroyed PROVE Reachable'
  BY <1>16 DEF NodeDestroyed
<1>17. ASSUME RemoveRoot PROVE Reachable'
  BY <1>17 DEF RemoveRoot
<1>18. ASSUME CommandFails PROVE Reachable'
  BY <1>18 DEF CommandFails
<1>19. ASSUME DestroyFails PROVE Reachable'
  BY <1>19 DEF DestroyFails
<1>20. ASSUME RemovalFails PROVE Reachable'
  BY <1>20 DEF RemovalFails
<1>21. ASSUME Killed PROVE Reachable'
  BY <1>21 DEF Killed
<1>22. ASSUME Halt PROVE Reachable'
  BY <1>22 DEF Halt
<1>23. CASE UNCHANGED vars
  BY <1>23 DEF vars
<1>. QED
  BY <1>1, <1>2, <1>3, <1>4, <1>5, <1>6, <1>7, <1>8, <1>9, <1>10, <1>11,
    <1>12, <1>13, <1>14, <1>15, <1>16, <1>17, <1>18, <1>19, <1>20, <1>21,
    <1>22, <1>23
  DEF Next, Constructor, Listing, Body, Destroy, Failure, Ended

\* A VM that runs is within Vagrant's reach, however the block ends and
\* whichever commands fail; a block that ends normally leaves none.
THEOREM NoneForgotten == Spec => []RunningIsKnown
<1>1. Init => TypeOK /\ Behalf /\ KnownInv
  BY TypeInit, BehalfInit, KnownInit
<1>2. TypeOK /\ Behalf /\ KnownInv /\ [Next]_vars =>
        TypeOK' /\ Behalf' /\ KnownInv'
  BY TypeStep, BehalfStep, CoveredStep, ReachableStep DEF KnownInv
<1>3. TypeOK /\ Behalf /\ KnownInv => RunningIsKnown
  BY DEF KnownInv, Reachable, RunningIsKnown, TypeOK
<1>. QED
  BY <1>1, <1>2, <1>3, PTL DEF Spec

-----------------------------------------------------------------------------
(* destroy_node.                                                           *)

\* Only NodeDestroyed leads back from destroy_node to the body.
LEMMA DestroyNodeStep ==
  ASSUME TypeOK, Behalf, KnownInv, [Next]_vars
  PROVE  (phase = "node" /\ phase' = "body" => target \notin Running')
<1> USE DEF TypeOK, Behalf, KnownInv, Covered, Running, Goto, GotoFor,
      ListNodes, Raise, Vagrant, Fault, listing, bounds
<1>1. ASSUME MakeRoot PROVE (phase = "node" /\ phase' = "body" => target \notin Running')
  BY <1>1 DEF MakeRoot
<1>2. ASSUME BootVm PROVE (phase = "node" /\ phase' = "body" => target \notin Running')
  BY <1>2 DEF BootVm
<1>3. ASSUME UpEnds PROVE (phase = "node" /\ phase' = "body" => target \notin Running')
  BY <1>3 DEF UpEnds
<1>4. ASSUME WaitForSsh PROVE (phase = "node" /\ phase' = "body" => target \notin Running')
  BY <1>4 DEF WaitForSsh
<1>5. ASSUME ListRole PROVE (phase = "node" /\ phase' = "body" => target \notin Running')
  BY <1>5 DEF ListRole
<1>6. ASSUME AskVm PROVE (phase = "node" /\ phase' = "body" => target \notin Running')
  BY <1>6 DEF AskVm
<1>7. ASSUME RoleListed PROVE (phase = "node" /\ phase' = "body" => target \notin Running')
  BY <1>7 DEF RoleListed, AfterListing
<1>8. ASSUME BodyDestroysNode PROVE (phase = "node" /\ phase' = "body" => target \notin Running')
  BY <1>8 DEF BodyDestroysNode
<1>9. ASSUME BodyDestroysCluster PROVE (phase = "node" /\ phase' = "body" => target \notin Running')
  BY <1>9 DEF BodyDestroysCluster
<1>10. ASSUME BodyEnds PROVE (phase = "node" /\ phase' = "body" => target \notin Running')
  BY <1>10 DEF BodyEnds
<1>11. ASSUME NextNode PROVE (phase = "node" /\ phase' = "body" => target \notin Running')
  BY <1>11 DEF NextNode
<1>12. ASSUME NodesDestroyed PROVE (phase = "node" /\ phase' = "body" => target \notin Running')
  BY <1>12 DEF NodesDestroyed
<1>13. ASSUME GetStatus PROVE (phase = "node" /\ phase' = "body" => target \notin Running')
  BY <1>13 DEF GetStatus
<1>14. ASSUME MatchVm PROVE (phase = "node" /\ phase' = "body" => target \notin Running')
  BY <1>14 DEF MatchVm
<1>15. ASSUME DestroyVm PROVE (phase = "node" /\ phase' = "body" => target \notin Running')
  BY <1>15 DEF DestroyVm
<1>16. ASSUME NodeDestroyed PROVE (phase = "node" /\ phase' = "body" => target \notin Running')
  BY <1>16 DEF NodeDestroyed
<1>17. ASSUME RemoveRoot PROVE (phase = "node" /\ phase' = "body" => target \notin Running')
  BY <1>17 DEF RemoveRoot
<1>18. ASSUME CommandFails PROVE (phase = "node" /\ phase' = "body" => target \notin Running')
  BY <1>18 DEF CommandFails
<1>19. ASSUME DestroyFails PROVE (phase = "node" /\ phase' = "body" => target \notin Running')
  BY <1>19 DEF DestroyFails
<1>20. ASSUME RemovalFails PROVE (phase = "node" /\ phase' = "body" => target \notin Running')
  BY <1>20 DEF RemovalFails
<1>21. ASSUME Killed PROVE (phase = "node" /\ phase' = "body" => target \notin Running')
  BY <1>21 DEF Killed
<1>22. ASSUME Halt PROVE (phase = "node" /\ phase' = "body" => target \notin Running')
  BY <1>22 DEF Halt
<1>23. CASE UNCHANGED vars
  BY <1>23 DEF vars
<1>. QED
  BY <1>1, <1>2, <1>3, <1>4, <1>5, <1>6, <1>7, <1>8, <1>9, <1>10, <1>11,
    <1>12, <1>13, <1>14, <1>15, <1>16, <1>17, <1>18, <1>19, <1>20, <1>21,
    <1>22, <1>23
  DEF Next, Constructor, Listing, Body, Destroy, Failure, Ended

\* destroy_node that returns has destroyed the node it was called for.
THEOREM NodeDestroyedIsGone == Spec => NodeIsGone
<1>1. Init => TypeOK /\ Behalf /\ KnownInv
  BY TypeInit, BehalfInit, KnownInit
<1>2. TypeOK /\ Behalf /\ KnownInv /\ [Next]_vars =>
        TypeOK' /\ Behalf' /\ KnownInv'
  BY TypeStep, BehalfStep, CoveredStep, ReachableStep DEF KnownInv
<1>3. TypeOK /\ Behalf /\ KnownInv /\ [Next]_vars =>
        [phase = "node" /\ phase' = "body" =>
           target \notin {k \in Vms : vm'[k] = "running"}]_vars
  BY DestroyNodeStep DEF Running
<1>. QED
  BY <1>1, <1>2, <1>3, PTL DEF Spec, NodeIsGone

-----------------------------------------------------------------------------
(* The refinement of ClusterLifecycle.                                     *)

\* Until a VM stops on its own, vagrant up makes only VMs that run, and all of
\* them run as long as the constructor looks for them.
AllRun ==
  halts = 0 =>
    /\ pc = "up" => \A k \in Vms : vm[k] \in {"none", "running"}
    /\ phase = "init" /\ pc \in {"list", "ask", "ssh"} => Running = Vms
    /\ pc = "idle" => \A k \in Vms : vm[k] = "none"

LEMMA AllRunInit ==
  ASSUME Init
  PROVE  AllRun
  BY DEF Init, AllRun, Running

LEMMA AllRunStep ==
  ASSUME TypeOK, Behalf, AllRun, [Next]_vars
  PROVE  AllRun'
<1> USE VagrantAssumption DEF TypeOK, Behalf, AllRun, Running, Goto, GotoFor,
      ListNodes, Raise, Vagrant, Fault, listing, bounds
<1>1. ASSUME MakeRoot PROVE AllRun'
  BY <1>1 DEF MakeRoot
<1>2. ASSUME BootVm PROVE AllRun'
  BY <1>2 DEF BootVm
<1>3. ASSUME UpEnds PROVE AllRun'
  BY <1>3 DEF UpEnds
<1>4. ASSUME WaitForSsh PROVE AllRun'
  BY <1>4 DEF WaitForSsh
<1>5. ASSUME ListRole PROVE AllRun'
  BY <1>5 DEF ListRole
<1>6. ASSUME AskVm PROVE AllRun'
  BY <1>6 DEF AskVm
<1>7. ASSUME RoleListed PROVE AllRun'
  BY <1>7 DEF RoleListed, AfterListing
<1>8. ASSUME BodyDestroysNode PROVE AllRun'
  BY <1>8 DEF BodyDestroysNode
<1>9. ASSUME BodyDestroysCluster PROVE AllRun'
  BY <1>9 DEF BodyDestroysCluster
<1>10. ASSUME BodyEnds PROVE AllRun'
  BY <1>10 DEF BodyEnds
<1>11. ASSUME NextNode PROVE AllRun'
  BY <1>11 DEF NextNode
<1>12. ASSUME NodesDestroyed PROVE AllRun'
  BY <1>12 DEF NodesDestroyed
<1>13. ASSUME GetStatus PROVE AllRun'
  BY <1>13 DEF GetStatus
<1>14. ASSUME MatchVm PROVE AllRun'
  BY <1>14 DEF MatchVm
<1>15. ASSUME DestroyVm PROVE AllRun'
  BY <1>15 DEF DestroyVm
<1>16. ASSUME NodeDestroyed PROVE AllRun'
  BY <1>16 DEF NodeDestroyed
<1>17. ASSUME RemoveRoot PROVE AllRun'
  BY <1>17 DEF RemoveRoot
<1>18. ASSUME CommandFails PROVE AllRun'
  BY <1>18 DEF CommandFails
<1>19. ASSUME DestroyFails PROVE AllRun'
  BY <1>19 DEF DestroyFails
<1>20. ASSUME RemovalFails PROVE AllRun'
  BY <1>20 DEF RemovalFails
<1>21. ASSUME Killed PROVE AllRun'
  BY <1>21 DEF Killed
<1>22. ASSUME Halt PROVE AllRun'
  BY <1>22 DEF Halt
<1>23. CASE UNCHANGED vars
  BY <1>23 DEF vars
<1>. QED
  BY <1>1, <1>2, <1>3, <1>4, <1>5, <1>6, <1>7, <1>8, <1>9, <1>10, <1>11,
    <1>12, <1>13, <1>14, <1>15, <1>16, <1>17, <1>18, <1>19, <1>20, <1>21,
    <1>22, <1>23
  DEF Next, Constructor, Listing, Body, Destroy, Failure, Ended

\* The steps of ClusterLifecycle, of the one cluster there is.
Refined ==
  \/ Stage' = Stage /\ Members' = Members
  \/ Stage = "none" /\ Stage' = "building" /\ Members' = Members
  \/ /\ Stage = "building" /\ Stage' = "building"
     /\ \E k \in Vms \ Members : Members' = Members \cup {k}
  \/ Stage = "building" /\ Stage' = "up" /\ Members = Vms /\ Members' = Members
  \/ /\ Stage = "up" /\ Stage' \in {"up", "givenUp"}
     /\ \E k \in Members : Members' = Members \ {k}
  \/ Stage = "up" /\ Stage' = "ended" /\ Members = {} /\ Members' = Members
  \/ Stage \in {"building", "up"} /\ Stage' = "givenUp" /\ Members' = Members

LEMMA RefinedIsNext ==
  ASSUME Refined
  PROVE  [Lifecycle!Next]_Lifecycle!vars
<1> DEFINE st == [c \in {"cluster"} |-> Stage]
           mb == [c \in {"cluster"} |-> Members]
<1>1. /\ st["cluster"] = Stage
      /\ mb["cluster"] = Members
      /\ \A s : [st EXCEPT !["cluster"] = s] = [c \in {"cluster"} |-> s]
      /\ \A s : [mb EXCEPT !["cluster"] = s] = [c \in {"cluster"} |-> s]
  OBVIOUS
<1>2. st' = [c \in {"cluster"} |-> Stage'] /\ mb' = [c \in {"cluster"} |-> Members']
  OBVIOUS
<1> USE <1>1, <1>2 DEF Lifecycle!Next, Lifecycle!vars
<1>3. CASE Stage' = Stage /\ Members' = Members
  BY <1>3
<1>4. CASE Stage = "none" /\ Stage' = "building" /\ Members' = Members
  BY <1>4 DEF Lifecycle!Begin, Lifecycle!Moves
<1>5. CASE /\ Stage = "building" /\ Stage' = "building"
           /\ \E k \in Vms \ Members : Members' = Members \cup {k}
  BY <1>5 DEF Lifecycle!AddNode
<1>6. CASE Stage = "building" /\ Stage' = "up" /\ Members = Vms /\ Members' = Members
  BY <1>6 DEF Lifecycle!HandOver, Lifecycle!Moves
<1>7. CASE /\ Stage = "up" /\ Stage' \in {"up", "givenUp"}
           /\ \E k \in Members : Members' = Members \ {k}
  BY <1>7 DEF Lifecycle!RemoveNode
<1>8. CASE Stage = "up" /\ Stage' = "ended" /\ Members = {} /\ Members' = Members
  BY <1>8 DEF Lifecycle!End, Lifecycle!Moves
<1>9. CASE Stage \in {"building", "up"} /\ Stage' = "givenUp" /\ Members' = Members
  BY <1>9 DEF Lifecycle!GiveUp, Lifecycle!Moves
<1>. QED
  BY <1>3, <1>4, <1>5, <1>6, <1>7, <1>8, <1>9 DEF Refined

LEMMA StepIsRefined ==
  ASSUME TypeOK, Behalf, KnownInv, AllRun, [Next]_vars
  PROVE  Refined
<1> USE DEF TypeOK, States, Labels, Phases, Behalf, KnownInv, Reachable,
      AllRun, Refined, Stage, Members, Running, Goto, GotoFor, ListNodes,
      Raise, Vagrant, Fault, listing, bounds
<1>1. ASSUME MakeRoot PROVE Refined
  BY <1>1 DEF MakeRoot
<1>2. ASSUME BootVm PROVE Refined
  BY <1>2 DEF BootVm
<1>3. ASSUME UpEnds PROVE Refined
  BY <1>3 DEF UpEnds
<1>4. ASSUME WaitForSsh PROVE Refined
  BY <1>4 DEF WaitForSsh
<1>5. ASSUME ListRole PROVE Refined
  BY <1>5 DEF ListRole
<1>6. ASSUME AskVm PROVE Refined
  BY <1>6 DEF AskVm
<1>7. ASSUME RoleListed PROVE Refined
  BY <1>7 DEF RoleListed, AfterListing
<1>8. ASSUME BodyDestroysNode PROVE Refined
  BY <1>8 DEF BodyDestroysNode
<1>9. ASSUME BodyDestroysCluster PROVE Refined
  BY <1>9 DEF BodyDestroysCluster
<1>10. ASSUME BodyEnds PROVE Refined
  BY <1>10 DEF BodyEnds
<1>11. ASSUME NextNode PROVE Refined
  BY <1>11 DEF NextNode
<1>12. ASSUME NodesDestroyed PROVE Refined
  BY <1>12 DEF NodesDestroyed
<1>13. ASSUME GetStatus PROVE Refined
  BY <1>13 DEF GetStatus
<1>14. ASSUME MatchVm PROVE Refined
  BY <1>14 DEF MatchVm
<1>15. ASSUME DestroyVm PROVE Refined
  BY <1>15 DEF DestroyVm
<1>16. ASSUME NodeDestroyed PROVE Refined
  BY <1>16 DEF NodeDestroyed
<1>17. ASSUME RemoveRoot PROVE Refined
<2>1. pc = "rmtree" /\ Running = {} /\ phase \in {"manual", "exit"}
  BY <1>17 DEF RemoveRoot
<2>2. Members' = Members
  BY <1>17 DEF RemoveRoot
<2>3. CASE halts > 0
<3>1. Stage = "givenUp" /\ Stage' = "givenUp"
  BY <1>17, <2>3 DEF RemoveRoot
<3>. QED
  BY <2>2, <3>1
<2>4. CASE halts = 0
<3>1. Stage = "up" /\ Members = {}
  BY <2>1, <2>4
<3>2. Stage' \in {"up", "ended"}
  BY <1>17, <2>4 DEF RemoveRoot
<3>. QED
  BY <2>2, <3>1, <3>2 DEF Refined
<2>. QED
  BY <2>3, <2>4
<1>18. ASSUME CommandFails PROVE Refined
  BY <1>18 DEF CommandFails
<1>19. ASSUME DestroyFails PROVE Refined
  BY <1>19 DEF DestroyFails
<1>20. ASSUME RemovalFails PROVE Refined
<2>1. pc = "rmtree" /\ Running = {} /\ phase \in {"manual", "exit"}
  BY <1>20 DEF RemovalFails
<2>2. Members' = Members
  BY <1>20 DEF RemovalFails
<2>3. CASE halts > 0
<3>1. Stage = "givenUp" /\ Stage' = "givenUp"
  BY <1>20, <2>3 DEF RemovalFails
<3>. QED
  BY <2>2, <3>1
<2>4. CASE halts = 0
<3>1. Stage = "up" /\ Members = {}
  BY <2>1, <2>4
<3>2. Stage' \in {"up", "ended"}
  BY <1>20, <2>4 DEF RemovalFails
<3>. QED
  BY <2>2, <3>1, <3>2 DEF Refined
<2>. QED
  BY <2>3, <2>4
<1>21. ASSUME Killed PROVE Refined
  BY <1>21 DEF Killed
<1>22. ASSUME Halt PROVE Refined
  BY <1>22 DEF Halt
<1>23. CASE UNCHANGED vars
  BY <1>23 DEF vars
<1>. QED
  BY <1>1, <1>2, <1>3, <1>4, <1>5, <1>6, <1>7, <1>8, <1>9, <1>10, <1>11,
    <1>12, <1>13, <1>14, <1>15, <1>16, <1>17, <1>18, <1>19, <1>20, <1>21,
    <1>22, <1>23
  DEF Next, Constructor, Listing, Body, Destroy, Failure, Ended

\* A block is handed all its VMs or raises, loses a VM only by destroying it,
\* and has none left that runs when it ends, until a VM stops on its own.
THEOREM BlockKeepsPromise == Spec => KeepsPromise
<1>1. Init => TypeOK /\ Behalf /\ KnownInv /\ AllRun
  BY TypeInit, BehalfInit, KnownInit, AllRunInit
<1>2. TypeOK /\ Behalf /\ KnownInv /\ AllRun /\ [Next]_vars =>
        TypeOK' /\ Behalf' /\ KnownInv' /\ AllRun'
  BY TypeStep, BehalfStep, CoveredStep, ReachableStep, AllRunStep DEF KnownInv
<1>3. Init => Lifecycle!Init
<2> SUFFICES ASSUME Init PROVE Lifecycle!Init
  OBVIOUS
<2>1. Stage = "none"
  BY DEF Init, Stage
<2>2. Members = {}
  BY DEF Init, Members, Running
<2>. QED
  BY <2>1, <2>2 DEF Lifecycle!Init
<1>4. TypeOK /\ Behalf /\ KnownInv /\ AllRun /\ [Next]_vars =>
        [Lifecycle!Next]_Lifecycle!vars
  BY StepIsRefined, RefinedIsNext
<1>. QED
  BY <1>1, <1>2, <1>3, <1>4, PTL DEF Spec, KeepsPromise, Lifecycle!Spec
=============================================================================
