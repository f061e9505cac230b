------------------------- MODULE NodeInstall_proofs -------------------------
(***************************************************************************)
(* Proofs, for any number of jobs, clusters and nodes, that the jobs of    *)
(* NodeInstall are well typed, that owners are given back, that a job that *)
(* nobody disturbs installs its own configuration, that no cluster stays   *)
(* half installed, and that a sync which met no other leaves exactly what  *)
(* it has sent.  Each of the last four has an inductive invariant of its   *)
(* own.                                                                    *)
(***************************************************************************)
EXTENDS NodeInstall, TLAPS

-----------------------------------------------------------------------------
(* Types.                                                                  *)

LEMMA Sizes == Size \in Nat /\ 1 \in 1 .. Size /\ Masters \in 1 .. Size
  BY NodeAssumption DEF Size

LEMMA WorksOnNode ==
  ASSUME TypeOK, NEW j \in Jobs
  PROVE  NodeOf(j) \in Nodes
  BY DEF TypeOK, NodeOf, Nodes

LEMMA TypeInit ==
  ASSUME Init
  PROVE  TypeOK
  BY NodeAssumption, Sizes DEF Init, TypeOK, Content, Items, Labels, Ended, Kinds,
    NotInstalled, Nodes

LEMMA TypeStep ==
  ASSUME TypeOK, [Next]_vars
  PROVE  TypeOK'
<1> USE NodeAssumption, Sizes DEF TypeOK, At, Goto, args, sending, nodes, synced,
      owners, config, Labels, Ended, Content, Items, Kinds, NodeOf, Nodes
<1>1. ASSUME NEW j \in Jobs, Send(j) PROVE TypeOK'
  BY <1>1 DEF Send, Size
<1>2. ASSUME NEW j \in Jobs, MakeParent(j) PROVE TypeOK'
  BY <1>2 DEF MakeParent, InShared
<1>3. ASSUME NEW j \in Jobs, ReadOwner(j) PROVE TypeOK'
  BY <1>3 DEF ReadOwner, NodeOf, Nodes
<1>4. ASSUME NEW j \in Jobs, TakeOver(j) PROVE TypeOK'
  BY <1>4 DEF TakeOver, NodeOf, Nodes
<1>5. ASSUME NEW j \in Jobs, Pack(j) PROVE TypeOK'
  BY <1>5 DEF Pack
<1>6. ASSUME NEW j \in Jobs, Untar(j) PROVE TypeOK'
  BY <1>6 DEF Untar, NodeOf, Nodes
<1>7. ASSUME NEW j \in Jobs, UntarRefused(j) PROVE TypeOK'
  BY <1>7 DEF UntarRefused
<1>8. ASSUME NEW j \in Jobs, GiveBack(j) PROVE TypeOK'
  BY <1>8 DEF GiveBack, NodeOf, Nodes
<1>9. ASSUME NEW j \in Jobs, RemoveTar(j) PROVE TypeOK'
  BY <1>9 DEF RemoveTar, AfterSending
<1>10. ASSUME NEW j \in Jobs, MakeWorkspace(j) PROVE TypeOK'
  BY <1>10 DEF MakeWorkspace, Installers
<1>11. ASSUME NEW j \in Jobs, PutInstaller(j) PROVE TypeOK'
  BY <1>11 DEF PutInstaller
<1>12. ASSUME NEW j \in Jobs, OpenConfig(j) PROVE TypeOK'
  BY <1>12 DEF OpenConfig, NeedConfig
<1>13. ASSUME NEW j \in Jobs, WriteConfig(j) PROVE TypeOK'
  BY <1>13 DEF WriteConfig, NeedConfig
<1>14. ASSUME NEW j \in Jobs, FindPort(j) PROVE TypeOK'
  BY <1>14 DEF FindPort
<1>15. ASSUME NEW j \in Jobs, Genconf(j) PROVE TypeOK'
  BY <1>15 DEF Genconf
<1>16. ASSUME NEW j \in Jobs, Setup(j) PROVE TypeOK'
  BY <1>16 DEF Setup, NodeOf, Nodes, Size
<1>17. ASSUME NEW j \in Jobs, Destroy(j) PROVE TypeOK'
  BY <1>17 DEF Destroy, NodesOf
<1>18. ASSUME NEW j \in Jobs, Sync(j) PROVE TypeOK'
  BY <1>18 DEF Sync
<1>19. ASSUME NEW j \in Jobs, NoVariant(j) PROVE TypeOK'
  BY <1>19 DEF NoVariant
<1>20. ASSUME NEW j \in Jobs, ClearTests(j) PROVE TypeOK'
  BY <1>20 DEF ClearTests, NodeOf, Nodes
<1>21. ASSUME NEW j \in Jobs, Extract(j) PROVE TypeOK'
<2>1. /\ NodeOf(j) \in Nodes
      /\ archive[NodeOf(j)] \in Content
  BY WorksOnNode
<2>2. pc' \in [Jobs -> Labels]
  BY <1>21 DEF Extract
<2>3. bootstrap' \in [Nodes -> Content]
  BY <1>21, <2>1 DEF Extract
<2>4. tests' \in [Nodes -> SUBSET Content]
<3>1. CASE part[j] = "bootstrap"
  BY <1>21, <3>1 DEF Extract
<3>2. CASE part[j] # "bootstrap"
<4>1. tests[NodeOf(j)] \cup {archive[NodeOf(j)]} \in SUBSET Content
  BY <2>1
<4>2. tests' = [tests EXCEPT ![NodeOf(j)] = @ \cup {archive[NodeOf(j)]}]
  BY <1>21, <3>2 DEF Extract
<4>. QED
  BY <4>1, <4>2
<3>. QED
  BY <3>1, <3>2
<2>. QED
  BY <1>21, <2>2, <2>3, <2>4 DEF Extract
<1>22. ASSUME NEW j \in Jobs, RemoveArchive(j) PROVE TypeOK'
<2>1. at' \in [Jobs -> 1 .. Size]
  BY <1>22 DEF RemoveArchive
<2>2. /\ pc' \in [Jobs -> Labels]
      /\ part' \in [Jobs -> {"bootstrap", "tests"}]
<3>1. CASE at[j] < Masters
  BY <1>22, <3>1 DEF RemoveArchive
<3>2. CASE ~ (at[j] < Masters)
<4>1. /\ part' = [part EXCEPT ![j] = "tests"]
      /\ \/ Goto(j, "done") \/ Goto(j, "clear")
  BY <1>22, <3>2 DEF RemoveArchive
<4>. QED
  BY <4>1
<3>. QED
  BY <3>1, <3>2
<2>3. archive' \in [Nodes -> Content]
  BY <1>22 DEF RemoveArchive
<2>. QED
  BY <1>22, <2>1, <2>2, <2>3 DEF RemoveArchive
<1>23. ASSUME NEW j \in Jobs, CommandFails(j) PROVE TypeOK'
  BY <1>23 DEF CommandFails, AfterFailure, OnNode
<1>24. ASSUME NEW j \in Jobs, Interrupted(j) PROVE TypeOK'
  BY <1>24 DEF Interrupted
<1>25. CASE UNCHANGED vars
  BY <1>25 DEF vars
<1>. QED
  BY <1>1, <1>2, <1>3, <1>4, <1>5, <1>6, <1>7, <1>8, <1>9, <1>10, <1>11,
    <1>12, <1>13, <1>14, <1>15, <1>16, <1>17, <1>18, <1>19, <1>20, <1>21,
    <1>22, <1>23, <1>24, <1>25
  DEF Next, SendFile, InstallOrUpgrade, SyncCode, AllEnded

\* Every reachable state is well typed.
THEOREM TypeCorrect == Spec => []TypeOK
<1>1. Init => TypeOK
  BY TypeInit
<1>2. TypeOK /\ [Next]_vars => TypeOK'
  BY TypeStep
<1>. QED
  BY <1>1, <1>2, PTL DEF Spec

-----------------------------------------------------------------------------
(* Owners.  A job has taken over at most the directory that it is sending   *)
(* to, and what it has read, if not Root, it has read while another job had *)
(* the directory.                                                          *)

Has == {"pack", "untar", "restore"}

SendInv ==
  \A j \in Jobs :
    /\ pc[j] \in {"stat", "chown", "restore"} => InShared(j)
    /\ pc[j] \notin Has \cup Ended \cup {"destroy"} => taken[j] = {}
    /\ pc[j] \in Has =>
         taken[j] \subseteq (IF InShared(j) THEN {NodeOf(j)} ELSE {})
    /\ pc[j] \in Has \cup {"chown"} /\ InShared(j) /\ original[j] # Root =>
         NodeOf(j) \in misread

OwnerInv == SendInv /\ OwnerIsBack

LEMMA SendInit ==
  ASSUME Init
  PROVE  OwnerInv
  BY DEF Init, OwnerInv, SendInv, OwnerIsBack, Has, Ended

LEMMA OwnerStep ==
  ASSUME TypeOK, OwnerInv, [Next]_vars
  PROVE  OwnerInv'
<1> USE DEF TypeOK, OwnerInv, SendInv, OwnerIsBack, Has, Ended, InShared, NodeOf,
      At, Goto, args, sending, nodes, synced, owners, config
<1>1. ASSUME NEW j \in Jobs, Send(j) PROVE OwnerInv'
  BY <1>1 DEF Send
<1>2. ASSUME NEW j \in Jobs, MakeParent(j) PROVE OwnerInv'
  BY <1>2 DEF MakeParent
<1>3. ASSUME NEW j \in Jobs, ReadOwner(j) PROVE OwnerInv'
  BY <1>3 DEF ReadOwner
<1>4. ASSUME NEW j \in Jobs, TakeOver(j) PROVE OwnerInv'
  BY <1>4 DEF TakeOver
<1>5. ASSUME NEW j \in Jobs, Pack(j) PROVE OwnerInv'
  BY <1>5 DEF Pack
<1>6. ASSUME NEW j \in Jobs, Untar(j) PROVE OwnerInv'
  BY <1>6 DEF Untar
<1>7. ASSUME NEW j \in Jobs, UntarRefused(j) PROVE OwnerInv'
  BY <1>7 DEF UntarRefused
<1>8. ASSUME NEW j \in Jobs, GiveBack(j) PROVE OwnerInv'
  BY <1>8 DEF GiveBack
<1>9. ASSUME NEW j \in Jobs, RemoveTar(j) PROVE OwnerInv'
  BY <1>9 DEF RemoveTar, AfterSending
<1>10. ASSUME NEW j \in Jobs, MakeWorkspace(j) PROVE OwnerInv'
  BY <1>10 DEF MakeWorkspace, Installers
<1>11. ASSUME NEW j \in Jobs, PutInstaller(j) PROVE OwnerInv'
  BY <1>11 DEF PutInstaller
<1>12. ASSUME NEW j \in Jobs, OpenConfig(j) PROVE OwnerInv'
  BY <1>12 DEF OpenConfig, NeedConfig
<1>13. ASSUME NEW j \in Jobs, WriteConfig(j) PROVE OwnerInv'
  BY <1>13 DEF WriteConfig
<1>14. ASSUME NEW j \in Jobs, FindPort(j) PROVE OwnerInv'
  BY <1>14 DEF FindPort
<1>15. ASSUME NEW j \in Jobs, Genconf(j) PROVE OwnerInv'
  BY <1>15 DEF Genconf
<1>16. ASSUME NEW j \in Jobs, Setup(j) PROVE OwnerInv'
  BY <1>16 DEF Setup
<1>17. ASSUME NEW j \in Jobs, Destroy(j) PROVE OwnerInv'
  BY <1>17 DEF Destroy
<1>18. ASSUME NEW j \in Jobs, Sync(j) PROVE OwnerInv'
  BY <1>18 DEF Sync
<1>19. ASSUME NEW j \in Jobs, NoVariant(j) PROVE OwnerInv'
  BY <1>19 DEF NoVariant
<1>20. ASSUME NEW j \in Jobs, ClearTests(j) PROVE OwnerInv'
  BY <1>20 DEF ClearTests
<1>21. ASSUME NEW j \in Jobs, Extract(j) PROVE OwnerInv'
  BY <1>21 DEF Extract
<1>22. ASSUME NEW j \in Jobs, RemoveArchive(j) PROVE OwnerInv'
  BY <1>22 DEF RemoveArchive
<1>23. ASSUME NEW j \in Jobs, CommandFails(j) PROVE OwnerInv'
  BY <1>23 DEF CommandFails, AfterFailure, OnNode, Labels
<1>24. ASSUME NEW j \in Jobs, Interrupted(j) PROVE OwnerInv'
  BY <1>24 DEF Interrupted, Active
<1>25. CASE UNCHANGED vars
  BY <1>25 DEF vars
<1>. QED
  BY <1>1, <1>2, <1>3, <1>4, <1>5, <1>6, <1>7, <1>8, <1>9, <1>10, <1>11,
    <1>12, <1>13, <1>14, <1>15, <1>16, <1>17, <1>18, <1>19, <1>20, <1>21,
    <1>22, <1>23, <1>24, <1>25
  DEF Next, SendFile, InstallOrUpgrade, SyncCode, AllEnded

\* A directory that send_file has taken over is given back to its first owner,
\* but for jobs that end in between or read the owner of another's directory.
THEOREM OwnersComeBack == Spec => []OwnerIsBack
<1>1. Init => TypeOK /\ OwnerInv
  BY TypeInit, SendInit
<1>2. TypeOK /\ OwnerInv /\ [Next]_vars => TypeOK' /\ OwnerInv'
  BY TypeStep, OwnerStep
<1>3. OwnerInv => OwnerIsBack
  BY DEF OwnerInv
<1>. QED
  BY <1>1, <1>2, <1>3, PTL DEF Spec

-----------------------------------------------------------------------------
(* Configurations.  Until somebody else writes config.yaml, it is what its  *)
(* job has written, and so are the tar file and the copy on the node.       *)

Configured == {"port", "genconf", "setup"}

ConfigInv ==
  \A j \in Jobs :
    /\ pc[j] \in {"open", "write"} => item[j] = "config"
    /\ pc[j] \in {"start", "clear", "extract", "rmarchive"} \cup
                 {"stat", "chown", "restore"} => InShared(j)
    /\ j \notin disturbed =>
         /\ pc[j] = "write" => hostConfig = Nobody
         /\ item[j] = "config" /\ pc[j] \in {"mkdir", "pack"} => hostConfig = j
         /\ item[j] = "config" /\ pc[j] = "untar" => parcel[j] = j
         /\ \/ pc[j] \in Configured
            \/ item[j] = "config" /\ pc[j] = "rmtar"
            \/ item[j] = "extra" /\ pc[j] \in {"mkdir", "pack", "untar", "rmtar"}
            => genconf[j] = j
         /\ \A n \in Nodes : dcos[n].by = j => dcos[n].config = j

LEMMA ConfigInit ==
  ASSUME Init
  PROVE  ConfigInv
<1>1. ASSUME NEW j \in Jobs, NEW n \in Nodes PROVE dcos[n].by # j
<2>1. dcos[n] = [by |-> Before, config |-> Nobody] \/ dcos[n] = NotInstalled
  BY DEF Init
<2>. QED
  BY <2>1, NodeAssumption DEF NotInstalled
<1>. QED
  BY <1>1 DEF Init, ConfigInv, Configured, InShared

LEMMA ConfigStep ==
  ASSUME TypeOK, ConfigInv, [Next]_vars
  PROVE  ConfigInv'
<1> USE NodeAssumption DEF TypeOK, ConfigInv, Configured, InShared, NodeOf, At,
      Goto, args, sending, nodes, synced, owners, config
<1>1. ASSUME NEW j \in Jobs, Send(j) PROVE ConfigInv'
  BY <1>1 DEF Send
<1>2. ASSUME NEW j \in Jobs, MakeParent(j) PROVE ConfigInv'
  BY <1>2 DEF MakeParent
<1>3. ASSUME NEW j \in Jobs, ReadOwner(j) PROVE ConfigInv'
  BY <1>3 DEF ReadOwner
<1>4. ASSUME NEW j \in Jobs, TakeOver(j) PROVE ConfigInv'
  BY <1>4 DEF TakeOver
<1>5. ASSUME NEW j \in Jobs, Pack(j) PROVE ConfigInv'
  BY <1>5 DEF Pack
<1>6. ASSUME NEW j \in Jobs, Untar(j) PROVE ConfigInv'
  BY <1>6 DEF Untar
<1>7. ASSUME NEW j \in Jobs, UntarRefused(j) PROVE ConfigInv'
  BY <1>7 DEF UntarRefused
<1>8. ASSUME NEW j \in Jobs, GiveBack(j) PROVE ConfigInv'
  BY <1>8 DEF GiveBack
<1>9. ASSUME NEW j \in Jobs, RemoveTar(j) PROVE ConfigInv'
  BY <1>9 DEF RemoveTar, AfterSending, Items
<1>10. ASSUME NEW j \in Jobs, MakeWorkspace(j) PROVE ConfigInv'
  BY <1>10 DEF MakeWorkspace
<1>11. ASSUME NEW j \in Jobs, PutInstaller(j) PROVE ConfigInv'
  BY <1>11 DEF PutInstaller
<1>12. ASSUME NEW j \in Jobs, OpenConfig(j) PROVE ConfigInv'
  BY <1>12 DEF OpenConfig, NeedConfig
<1>13. ASSUME NEW j \in Jobs, WriteConfig(j) PROVE ConfigInv'
  BY <1>13 DEF WriteConfig, NeedConfig
<1>14. ASSUME NEW j \in Jobs, FindPort(j) PROVE ConfigInv'
  BY <1>14 DEF FindPort
<1>15. ASSUME NEW j \in Jobs, Genconf(j) PROVE ConfigInv'
  BY <1>15 DEF Genconf
<1>16. ASSUME NEW j \in Jobs, Setup(j) PROVE ConfigInv'
  BY <1>16 DEF Setup
<1>17. ASSUME NEW j \in Jobs, Destroy(j) PROVE ConfigInv'
  BY <1>17 DEF Destroy
<1>18. ASSUME NEW j \in Jobs, Sync(j) PROVE ConfigInv'
  BY <1>18 DEF Sync
<1>19. ASSUME NEW j \in Jobs, NoVariant(j) PROVE ConfigInv'
  BY <1>19 DEF NoVariant
<1>20. ASSUME NEW j \in Jobs, ClearTests(j) PROVE ConfigInv'
  BY <1>20 DEF ClearTests
<1>21. ASSUME NEW j \in Jobs, Extract(j) PROVE ConfigInv'
  BY <1>21 DEF Extract
<1>22. ASSUME NEW j \in Jobs, RemoveArchive(j) PROVE ConfigInv'
  BY <1>22 DEF RemoveArchive
<1>23. ASSUME NEW j \in Jobs, CommandFails(j) PROVE ConfigInv'
  BY <1>23 DEF CommandFails, AfterFailure, OnNode, Labels, Ended
<1>24. ASSUME NEW j \in Jobs, Interrupted(j) PROVE ConfigInv'
  BY <1>24 DEF Interrupted
<1>25. CASE UNCHANGED vars
  BY <1>25 DEF vars
<1>. QED
  BY <1>1, <1>2, <1>3, <1>4, <1>5, <1>6, <1>7, <1>8, <1>9, <1>10, <1>11,
    <1>12, <1>13, <1>14, <1>15, <1>16, <1>17, <1>18, <1>19, <1>20, <1>21,
    <1>22, <1>23, <1>24, <1>25
  DEF Next, SendFile, InstallOrUpgrade, SyncCode, AllEnded

\* A job whose config.yaml nobody else writes over installs its own
\* configuration.
THEOREM OwnConfiguration == Spec => []OwnConfig
<1>1. Init => TypeOK /\ ConfigInv
  BY TypeInit, ConfigInit
<1>2. TypeOK /\ ConfigInv /\ [Next]_vars => TypeOK' /\ ConfigInv'
  BY TypeStep, ConfigStep
<1>3. ConfigInv => OwnConfig
  BY DEF ConfigInv, OwnConfig
<1>. QED
  BY <1>1, <1>2, <1>3, PTL DEF Spec

-----------------------------------------------------------------------------
(* Half installed clusters.  An installation has done the nodes before the  *)
(* one it is at, a cluster that none has begun to change is as it was, and  *)
(* nobody else changes it.                                                 *)

Installing(j) == kind[j] \in Installers

\* Where jobs of each kind can be, and what they send there.
KindInv ==
  \A j \in Jobs :
    /\ Installing(j) =>
         /\ pc[j] \notin {"stat", "chown", "restore", "clear", "extract",
                          "rmarchive", "failed"}
         /\ pc[j] \in {"open", "write", "mkdir", "pack", "untar", "rmtar"} =>
              ~ InShared(j)
    /\ ~ Installing(j) =>
         /\ pc[j] \notin {"next", "installer", "open", "write", "port",
                          "genconf", "setup", "destroy", "destroyed"}
         /\ InShared(j)

OneInstaller ==
  \A j, q \in Jobs :
    j # q /\ target[j] = target[q] /\ Installing(j) => kind[q] = "send"

Uniform(c) ==
  \A k, l \in 1 .. Size : dcos[<<c, k>>].by = dcos[<<c, l>>].by

Progressing(j) ==
  /\ pc[j] = "start" => at[j] = 1
  /\ pc[j] \notin Ended => \A k \in 1 .. Size :
       k < at[j] => dcos[<<target[j], k>>].by = j
  /\ pc[j] = "done" => \A k \in 1 .. Size : dcos[<<target[j], k>>].by = j
  /\ pc[j] = "destroyed" => NodesOf(j) \cap alive = {}

HalfInv ==
  /\ OneInstaller
  /\ \A j \in Jobs : Installing(j) => Progressing(j)
  /\ \A c \in Clusters :
       Uniform(c) \/ \E j \in Jobs :
         target[j] = c /\ Installing(j) /\ pc[j] # "start"

LEMMA KindInit ==
  ASSUME Init
  PROVE  KindInv
  BY DEF Init, KindInv, Installing, InShared

LEMMA KindStep ==
  ASSUME TypeOK, KindInv, [Next]_vars
  PROVE  KindInv'
<1> USE DEF TypeOK, KindInv, Installing, Installers, Kinds, InShared, At, Goto,
      args, sending, nodes, synced, owners, config
<1>1. ASSUME NEW j \in Jobs, Send(j) PROVE KindInv'
  BY <1>1 DEF Send
<1>2. ASSUME NEW j \in Jobs, MakeParent(j) PROVE KindInv'
  BY <1>2 DEF MakeParent
<1>3. ASSUME NEW j \in Jobs, ReadOwner(j) PROVE KindInv'
  BY <1>3 DEF ReadOwner
<1>4. ASSUME NEW j \in Jobs, TakeOver(j) PROVE KindInv'
  BY <1>4 DEF TakeOver
<1>5. ASSUME NEW j \in Jobs, Pack(j) PROVE KindInv'
  BY <1>5 DEF Pack
<1>6. ASSUME NEW j \in Jobs, Untar(j) PROVE KindInv'
  BY <1>6 DEF Untar
<1>7. ASSUME NEW j \in Jobs, UntarRefused(j) PROVE KindInv'
  BY <1>7 DEF UntarRefused
<1>8. ASSUME NEW j \in Jobs, GiveBack(j) PROVE KindInv'
  BY <1>8 DEF GiveBack
<1>9. ASSUME NEW j \in Jobs, RemoveTar(j) PROVE KindInv'
  BY <1>9 DEF RemoveTar, AfterSending, Items
<1>10. ASSUME NEW j \in Jobs, MakeWorkspace(j) PROVE KindInv'
  BY <1>10 DEF MakeWorkspace
<1>11. ASSUME NEW j \in Jobs, PutInstaller(j) PROVE KindInv'
  BY <1>11 DEF PutInstaller
<1>12. ASSUME NEW j \in Jobs, OpenConfig(j) PROVE KindInv'
  BY <1>12 DEF OpenConfig, NeedConfig
<1>13. ASSUME NEW j \in Jobs, WriteConfig(j) PROVE KindInv'
  BY <1>13 DEF WriteConfig, NeedConfig
<1>14. ASSUME NEW j \in Jobs, FindPort(j) PROVE KindInv'
  BY <1>14 DEF FindPort
<1>15. ASSUME NEW j \in Jobs, Genconf(j) PROVE KindInv'
  BY <1>15 DEF Genconf
<1>16. ASSUME NEW j \in Jobs, Setup(j) PROVE KindInv'
  BY <1>16 DEF Setup
<1>17. ASSUME NEW j \in Jobs, Destroy(j) PROVE KindInv'
  BY <1>17 DEF Destroy
<1>18. ASSUME NEW j \in Jobs, Sync(j) PROVE KindInv'
  BY <1>18 DEF Sync
<1>19. ASSUME NEW j \in Jobs, NoVariant(j) PROVE KindInv'
  BY <1>19 DEF NoVariant
<1>20. ASSUME NEW j \in Jobs, ClearTests(j) PROVE KindInv'
  BY <1>20 DEF ClearTests
<1>21. ASSUME NEW j \in Jobs, Extract(j) PROVE KindInv'
  BY <1>21 DEF Extract
<1>22. ASSUME NEW j \in Jobs, RemoveArchive(j) PROVE KindInv'
  BY <1>22 DEF RemoveArchive
<1>23. ASSUME NEW j \in Jobs, CommandFails(j) PROVE KindInv'
  BY <1>23 DEF CommandFails, AfterFailure, OnNode, Labels, Ended, Impossible, NodeOf
<1>24. ASSUME NEW j \in Jobs, Interrupted(j) PROVE KindInv'
  BY <1>24 DEF Interrupted, Active, Ended
<1>25. CASE UNCHANGED vars
  BY <1>25 DEF vars
<1>. QED
  BY <1>1, <1>2, <1>3, <1>4, <1>5, <1>6, <1>7, <1>8, <1>9, <1>10, <1>11,
    <1>12, <1>13, <1>14, <1>15, <1>16, <1>17, <1>18, <1>19, <1>20, <1>21,
    <1>22, <1>23, <1>24, <1>25
  DEF Next, SendFile, InstallOrUpgrade, SyncCode, AllEnded

LEMMA HalfInit ==
  ASSUME Init
  PROVE  HalfInv
<1> USE NodeAssumption, Sizes
<1>1. OneInstaller
  BY DEF Init, OneInstaller, Installing
<1>2. ASSUME NEW j \in Jobs PROVE Progressing(j)
  BY DEF Init, Progressing, Ended
<1>3. ASSUME NEW c \in Clusters PROVE Uniform(c)
<2>1. PICK C \in SUBSET Clusters : dcos = [n \in Nodes |->
            IF n[1] \in C THEN [by |-> Before, config |-> Nobody]
                          ELSE NotInstalled]
  BY DEF Init
<2>2. ASSUME NEW k \in 1 .. Size
      PROVE  dcos[<<c, k>>] = IF c \in C THEN [by |-> Before, config |-> Nobody]
                                         ELSE NotInstalled
  BY <2>1 DEF Nodes
<2>. QED
  BY <2>2 DEF Uniform
<1>. QED
  BY <1>1, <1>2, <1>3 DEF HalfInv

\* Steps that install nothing, destroy nothing, and do not move to a node.
LEMMA HalfKept ==
  ASSUME TypeOK, KindInv, HalfInv, NEW j \in Jobs,
         UNCHANGED <<args, dcos>>, alive' \subseteq alive,
         \A q \in Jobs \ {j} : pc'[q] = pc[q] /\ at'[q] = at[q],
         pc[j] \notin Ended, pc'[j] # "start",
         Installing(j) =>
           /\ at'[j] = at[j] /\ pc'[j] # "done"
           /\ pc'[j] = "destroyed" => NodesOf(j) \cap alive' = {}
  PROVE  HalfInv'
<1>1. ASSUME NEW q \in Jobs PROVE Installing(q)' = Installing(q)
  BY DEF Installing, args
<1>2. OneInstaller'
  BY DEF HalfInv, OneInstaller, Installing, args
<1>3. ASSUME NEW q \in Jobs, Installing(q) PROVE Progressing(q)'
<2>1. Progressing(q)
  BY <1>3 DEF HalfInv
<2>2. CASE q # j
  BY <1>3, <2>1, <2>2 DEF Progressing, NodesOf, args
<2>3. CASE q = j
  BY <1>3, <2>1, <2>3 DEF Progressing, NodesOf, args, Ended
<2>. QED
  BY <2>2, <2>3
<1>4. ASSUME NEW c \in Clusters
      PROVE  Uniform(c)' \/ \E q \in Jobs :
               (target[q] = c /\ Installing(q) /\ pc[q] # "start")'
<2>1. CASE Uniform(c)
  BY <2>1 DEF Uniform
<2>2. CASE \E q \in Jobs : target[q] = c /\ Installing(q) /\ pc[q] # "start"
  BY <2>2, <1>1 DEF args
<2>. QED
  BY <2>1, <2>2 DEF HalfInv
<1>. QED
  BY <1>1, <1>2, <1>3, <1>4 DEF HalfInv

LEMMA HalfSetup ==
  ASSUME TypeOK, KindInv, HalfInv, NEW j \in Jobs, Setup(j)
  PROVE  HalfInv'
<1> USE DEF At, Goto, args, sending, synced, owners, config
<1>1. Installing(j) /\ NodeOf(j) \in Nodes
  BY WorksOnNode DEF Setup, KindInv
<1>2. ASSUME NEW q \in Jobs PROVE Installing(q)' = Installing(q)
  BY DEF Installing, Setup
<1>3. OneInstaller'
  BY DEF HalfInv, OneInstaller, Installing, Setup
<1>4. /\ dcos'[NodeOf(j)].by = j
      /\ \A n \in Nodes : n # NodeOf(j) => dcos'[n] = dcos[n]
  BY <1>1 DEF Setup, TypeOK
<1>5. pc'[j] \in {"next", "done"} /\ \A q \in Jobs \ {j} : pc'[q] = pc[q] /\ at'[q] = at[q]
  BY DEF Setup, TypeOK
<1>6. ASSUME NEW q \in Jobs, Installing(q), q # j PROVE Progressing(q)'
<2>1. target[q] # target[j]
  BY <1>1, <1>6 DEF HalfInv, OneInstaller, Installing, Installers
<2>2. ASSUME NEW k \in 1 .. Size PROVE dcos'[<<target[q], k>>] = dcos[<<target[q], k>>]
  BY <1>4, <2>1 DEF Nodes, NodeOf, TypeOK
<2>. QED
  BY <1>5, <1>6, <2>2 DEF HalfInv, Progressing, NodesOf, Setup
<1>7. Progressing(j)'
<2>1. \A k \in 1 .. Size : k < at[j] => dcos[<<target[j], k>>].by = j
  BY <1>1 DEF HalfInv, Progressing, Setup, Ended
<2>2. \A k \in 1 .. Size : k < at[j] => dcos'[<<target[j], k>>].by = j
  BY <1>4, <2>1 DEF Nodes, NodeOf, TypeOK
<2>3. dcos'[<<target[j], at[j]>>].by = j
  BY <1>4 DEF NodeOf
<2>4. at[j] \in 1 .. Size /\ Size \in Nat
  BY Sizes DEF TypeOK
<2>5. CASE at[j] < Size
<3>1. at'[j] = at[j] + 1 /\ pc'[j] = "next"
  BY <2>5 DEF Setup, TypeOK
<3>2. \A k \in 1 .. Size : k < at'[j] => dcos'[<<target[j], k>>].by = j
  BY <2>2, <2>3, <2>4, <3>1
<3>. QED
  BY <3>1, <3>2 DEF Progressing, Setup
<2>6. CASE ~ (at[j] < Size)
<3>1. at[j] = Size
  BY <2>4, <2>6
<3>2. pc'[j] = "done"
  BY <2>6 DEF Setup, TypeOK
<3>3. \A k \in 1 .. Size : dcos'[<<target[j], k>>].by = j
  BY <2>2, <2>3, <2>4, <3>1
<3>. QED
  BY <3>2, <3>3 DEF Progressing, Setup, Ended
<2>. QED
  BY <2>5, <2>6
<1>8. ASSUME NEW c \in Clusters
      PROVE  Uniform(c)' \/ \E q \in Jobs :
               (target[q] = c /\ Installing(q) /\ pc[q] # "start")'
<2>1. CASE c = target[j]
  BY <1>1, <1>2, <1>5, <2>1 DEF Setup
<2>2. CASE c # target[j]
<3>1. ASSUME NEW k \in 1 .. Size PROVE dcos'[<<c, k>>] = dcos[<<c, k>>]
  BY <1>4, <2>2 DEF Nodes, NodeOf
<3>2. CASE Uniform(c)
  BY <3>1, <3>2 DEF Uniform
<3>3. CASE \E q \in Jobs : target[q] = c /\ Installing(q) /\ pc[q] # "start"
  BY <1>2, <1>5, <2>2, <3>3 DEF Setup
<3>. QED
  BY <3>2, <3>3 DEF HalfInv
<2>. QED
  BY <2>1, <2>2
<1>. QED
  BY <1>2, <1>3, <1>6, <1>7, <1>8 DEF HalfInv

LEMMA HalfStep ==
  ASSUME TypeOK, KindInv, HalfInv, [Next]_vars
  PROVE  HalfInv'
<1> USE HalfKept DEF TypeOK, Installing, Installers, Ended, At, Goto, args,
      sending, nodes, synced, owners, config
<1>1. ASSUME NEW j \in Jobs, Send(j) PROVE HalfInv'
  BY <1>1 DEF Send
<1>2. ASSUME NEW j \in Jobs, MakeParent(j) PROVE HalfInv'
  BY <1>2 DEF MakeParent, InShared
<1>3. ASSUME NEW j \in Jobs, ReadOwner(j) PROVE HalfInv'
  BY <1>3 DEF ReadOwner
<1>4. ASSUME NEW j \in Jobs, TakeOver(j) PROVE HalfInv'
  BY <1>4 DEF TakeOver
<1>5. ASSUME NEW j \in Jobs, Pack(j) PROVE HalfInv'
  BY <1>5 DEF Pack
<1>6. ASSUME NEW j \in Jobs, Untar(j) PROVE HalfInv'
  BY <1>6 DEF Untar
<1>7. ASSUME NEW j \in Jobs, UntarRefused(j) PROVE HalfInv'
  BY <1>7 DEF UntarRefused
<1>8. ASSUME NEW j \in Jobs, GiveBack(j) PROVE HalfInv'
  BY <1>8 DEF GiveBack
<1>9. ASSUME NEW j \in Jobs, RemoveTar(j) PROVE HalfInv'
  BY <1>9 DEF RemoveTar, AfterSending, KindInv, InShared, Items
<1>10. ASSUME NEW j \in Jobs, MakeWorkspace(j) PROVE HalfInv'
  BY <1>10 DEF MakeWorkspace
<1>11. ASSUME NEW j \in Jobs, PutInstaller(j) PROVE HalfInv'
  BY <1>11 DEF PutInstaller
<1>12. ASSUME NEW j \in Jobs, OpenConfig(j) PROVE HalfInv'
  BY <1>12 DEF OpenConfig
<1>13. ASSUME NEW j \in Jobs, WriteConfig(j) PROVE HalfInv'
  BY <1>13 DEF WriteConfig
<1>14. ASSUME NEW j \in Jobs, FindPort(j) PROVE HalfInv'
  BY <1>14 DEF FindPort
<1>15. ASSUME NEW j \in Jobs, Genconf(j) PROVE HalfInv'
  BY <1>15 DEF Genconf
<1>16. ASSUME NEW j \in Jobs, Setup(j) PROVE HalfInv'
  BY <1>16, HalfSetup
<1>17. ASSUME NEW j \in Jobs, Destroy(j) PROVE HalfInv'
  BY <1>17 DEF Destroy, NodesOf
<1>18. ASSUME NEW j \in Jobs, Sync(j) PROVE HalfInv'
  BY <1>18 DEF Sync
<1>19. ASSUME NEW j \in Jobs, NoVariant(j) PROVE HalfInv'
  BY <1>19 DEF NoVariant
<1>20. ASSUME NEW j \in Jobs, ClearTests(j) PROVE HalfInv'
  BY <1>20 DEF ClearTests
<1>21. ASSUME NEW j \in Jobs, Extract(j) PROVE HalfInv'
  BY <1>21 DEF Extract
<1>22. ASSUME NEW j \in Jobs, RemoveArchive(j) PROVE HalfInv'
  BY <1>22 DEF RemoveArchive, KindInv
<1>23. ASSUME NEW j \in Jobs, CommandFails(j) PROVE HalfInv'
  BY <1>23 DEF CommandFails, AfterFailure, OnNode, Labels, Impossible, KindInv
<1>24. ASSUME NEW j \in Jobs, Interrupted(j) PROVE HalfInv'
  BY <1>24 DEF Interrupted, Active
<1>25. CASE UNCHANGED vars
<2>1. /\ UNCHANGED <<kind, target, pc, at, dcos, alive>>
      /\ \A j \in Jobs : Installing(j)' = Installing(j)
  BY <1>25 DEF vars
<2>2. OneInstaller'
  BY <2>1 DEF HalfInv, OneInstaller
<2>3. \A j \in Jobs : Progressing(j)' = Progressing(j)
  BY <2>1 DEF Progressing, NodesOf
<2>4. \A c \in Clusters : Uniform(c)' = Uniform(c)
  BY <2>1 DEF Uniform
<2>. QED
  BY <2>1, <2>2, <2>3, <2>4 DEF HalfInv
<1>. QED
  BY <1>1, <1>2, <1>3, <1>4, <1>5, <1>6, <1>7, <1>8, <1>9, <1>10, <1>11,
    <1>12, <1>13, <1>14, <1>15, <1>16, <1>17, <1>18, <1>19, <1>20, <1>21,
    <1>22, <1>23, <1>24, <1>25
  DEF Next, SendFile, InstallOrUpgrade, SyncCode, AllEnded

\* minidcos leaves no cluster half installed or upgraded, unless a job was
\* interrupted by something else than a command that failed.
THEOREM NoneHalfInstalled == Spec => []NeverHalfInstalled
<1>1. Init => TypeOK /\ KindInv /\ HalfInv
  BY TypeInit, KindInit, HalfInit
<1>2. TypeOK /\ KindInv /\ HalfInv /\ [Next]_vars =>
        TypeOK' /\ KindInv' /\ HalfInv'
  BY TypeStep, KindStep, HalfStep
<1>3. TypeOK /\ KindInv /\ HalfInv => NeverHalfInstalled
<2> SUFFICES ASSUME TypeOK, KindInv, HalfInv, NEW c \in Clusters,
                    NEW m \in alive, NEW n \in alive,
                    m[1] = c, n[1] = c, dcos[m].by # dcos[n].by
             PROVE  \E j \in Jobs :
                      /\ target[j] = c /\ kind[j] \in Installers
                      /\ Active(j) \/ At(j, "interrupted")
  BY DEF NeverHalfInstalled
<2>1. /\ m[2] \in 1 .. Size /\ m = <<c, m[2]>>
      /\ n[2] \in 1 .. Size /\ n = <<c, n[2]>>
  BY DEF TypeOK, Nodes
<2>2. PICK j \in Jobs : target[j] = c /\ Installing(j) /\ pc[j] # "start"
  BY <2>1 DEF HalfInv, Uniform
<2>3. pc[j] # "done" /\ pc[j] # "destroyed"
  BY <2>1, <2>2 DEF HalfInv, Progressing, NodesOf
<2>4. pc[j] # "failed"
  BY <2>2 DEF KindInv
<2>. QED
  BY <2>2, <2>3, <2>4 DEF Active, At, Ended, Installing
<1>. QED
  BY <1>1, <1>2, <1>3, PTL DEF Spec

-----------------------------------------------------------------------------
(* Syncs.  One that has met no other, and that none has followed, is the    *)
(* only one at work on its cluster, and has brought the masters before the  *)
(* one it is at up to date.                                                *)

Syncing(j) == kind[j] = "sync"

\* What only syncs do, and where they begin.
SyncKindInv ==
  \A j \in Jobs :
    /\ Syncing(j) =>
         /\ at[j] <= Masters
         /\ pc[j] = "start" =>
              part[j] = "bootstrap" /\ at[j] = 1 /\ latest[target[j]] # j
         /\ Active(j) => item[j] = "archive"
    /\ ~ Syncing(j) =>
         /\ item[j] # "archive"
         /\ pc[j] \notin {"clear", "extract", "rmarchive"}

\* A sync that has begun, and during which no other one was made to its cluster.
Alone(j) ==
  Syncing(j) /\ pc[j] # "start" /\ latest[target[j]] = j /\ met[j] = {}

\* Beside a sync that has met no other one no sync of its cluster is at work.
AloneInv ==
  \A j, q \in Jobs :
    Alone(j) /\ Syncing(q) /\ q # j /\ target[q] = target[j] => ~ Active(q)

\* What a sync has sent of the part that it is at.
Sent(j, k) ==
  IF part[j] = "bootstrap" THEN bootstrap[<<target[j], k>>] = j
                           ELSE tests[<<target[j], k>>] = {j}

\* What a sync carries is its own, and the masters that it has done have it.
Exact(j) ==
  /\ pc[j] = "untar" => parcel[j] = j
  /\ pc[j] \in {"restore", "rmtar", "extract"} => archive[NodeOf(j)] = j
  /\ Active(j) => \A k \in 1 .. Masters : k < at[j] => Sent(j, k)
  /\ pc[j] = "rmarchive" => Sent(j, at[j])
  /\ Active(j) /\ part[j] = "tests" =>
       /\ \A k \in 1 .. Masters : bootstrap[<<target[j], k>>] = j
       /\ pc[j] \notin {"clear", "rmarchive"} => tests[NodeOf(j)] = {}
  /\ pc[j] = "done" => \A k \in 1 .. Masters :
       /\ bootstrap[<<target[j], k>>] = j
       /\ tests[<<target[j], k>>] = {j}
  /\ pc[j] = "clear" => part[j] = "tests"

ExactInv == \A j \in Jobs : Alone(j) => Exact(j)

LEMMA SyncInit ==
  ASSUME Init
  PROVE  SyncKindInv /\ AloneInv /\ ExactInv
  BY NodeAssumption DEF Init, SyncKindInv, Syncing, Active, AloneInv, ExactInv, Alone

LEMMA SyncKindStep ==
  ASSUME TypeOK, KindInv, SyncKindInv, [Next]_vars
  PROVE  SyncKindInv'
<1> USE NodeAssumption, Sizes DEF TypeOK, Kinds, Installers, Syncing, InShared, At, Goto,
      Active, Ended, args, sending, nodes, synced, owners, config,
      KindInv, Installing, SyncKindInv
<1>1. ASSUME NEW j \in Jobs, Send(j) PROVE SyncKindInv'
  BY <1>1 DEF Send
<1>2. ASSUME NEW j \in Jobs, MakeParent(j) PROVE SyncKindInv'
  BY <1>2 DEF MakeParent
<1>3. ASSUME NEW j \in Jobs, ReadOwner(j) PROVE SyncKindInv'
  BY <1>3 DEF ReadOwner
<1>4. ASSUME NEW j \in Jobs, TakeOver(j) PROVE SyncKindInv'
  BY <1>4 DEF TakeOver
<1>5. ASSUME NEW j \in Jobs, Pack(j) PROVE SyncKindInv'
  BY <1>5 DEF Pack
<1>6. ASSUME NEW j \in Jobs, Untar(j) PROVE SyncKindInv'
  BY <1>6 DEF Untar
<1>7. ASSUME NEW j \in Jobs, UntarRefused(j) PROVE SyncKindInv'
  BY <1>7 DEF UntarRefused
<1>8. ASSUME NEW j \in Jobs, GiveBack(j) PROVE SyncKindInv'
  BY <1>8 DEF GiveBack
<1>9. ASSUME NEW j \in Jobs, RemoveTar(j) PROVE SyncKindInv'
  BY <1>9 DEF RemoveTar, AfterSending, Items
<1>10. ASSUME NEW j \in Jobs, MakeWorkspace(j) PROVE SyncKindInv'
  BY <1>10 DEF MakeWorkspace
<1>11. ASSUME NEW j \in Jobs, PutInstaller(j) PROVE SyncKindInv'
  BY <1>11 DEF PutInstaller
<1>12. ASSUME NEW j \in Jobs, OpenConfig(j) PROVE SyncKindInv'
  BY <1>12 DEF OpenConfig, NeedConfig
<1>13. ASSUME NEW j \in Jobs, WriteConfig(j) PROVE SyncKindInv'
  BY <1>13 DEF WriteConfig, NeedConfig
<1>14. ASSUME NEW j \in Jobs, FindPort(j) PROVE SyncKindInv'
  BY <1>14 DEF FindPort
<1>15. ASSUME NEW j \in Jobs, Genconf(j) PROVE SyncKindInv'
  BY <1>15 DEF Genconf
<1>16. ASSUME NEW j \in Jobs, Setup(j) PROVE SyncKindInv'
  BY <1>16 DEF Setup
<1>17. ASSUME NEW j \in Jobs, Destroy(j) PROVE SyncKindInv'
  BY <1>17 DEF Destroy
<1>18. ASSUME NEW j \in Jobs, Sync(j) PROVE SyncKindInv'
  BY <1>18 DEF Sync
<1>19. ASSUME NEW j \in Jobs, NoVariant(j) PROVE SyncKindInv'
  BY <1>19 DEF NoVariant
<1>20. ASSUME NEW j \in Jobs, ClearTests(j) PROVE SyncKindInv'
  BY <1>20 DEF ClearTests
<1>21. ASSUME NEW j \in Jobs, Extract(j) PROVE SyncKindInv'
  BY <1>21 DEF Extract
<1>22. ASSUME NEW j \in Jobs, RemoveArchive(j) PROVE SyncKindInv'
  BY <1>22 DEF RemoveArchive
<1>23. ASSUME NEW j \in Jobs, CommandFails(j) PROVE SyncKindInv'
  BY <1>23 DEF CommandFails, AfterFailure, OnNode, Labels
<1>24. ASSUME NEW j \in Jobs, Interrupted(j) PROVE SyncKindInv'
  BY <1>24 DEF Interrupted
<1>25. CASE UNCHANGED vars
  BY <1>25 DEF vars
<1>. QED
  BY <1>1, <1>2, <1>3, <1>4, <1>5, <1>6, <1>7, <1>8, <1>9, <1>10, <1>11,
    <1>12, <1>13, <1>14, <1>15, <1>16, <1>17, <1>18, <1>19, <1>20, <1>21,
    <1>22, <1>23, <1>24, <1>25
  DEF Next, SendFile, InstallOrUpgrade, SyncCode, AllEnded

\* A sync that begins is followed by no other, and met is what it has met.
LEMMA AloneStep ==
  ASSUME TypeOK, KindInv, SyncKindInv, AloneInv, [Next]_vars
  PROVE  AloneInv'
<1> USE NodeAssumption, Sizes DEF TypeOK, Kinds, Installers, Syncing, InShared, At, Goto,
      Active, Ended, args, sending, nodes, synced, owners, config,
      KindInv, Installing, SyncKindInv, AloneInv, Alone
<1>1. ASSUME NEW j \in Jobs, Send(j) PROVE AloneInv'
  BY <1>1 DEF Send
<1>2. ASSUME NEW j \in Jobs, MakeParent(j) PROVE AloneInv'
  BY <1>2 DEF MakeParent
<1>3. ASSUME NEW j \in Jobs, ReadOwner(j) PROVE AloneInv'
  BY <1>3 DEF ReadOwner
<1>4. ASSUME NEW j \in Jobs, TakeOver(j) PROVE AloneInv'
  BY <1>4 DEF TakeOver
<1>5. ASSUME NEW j \in Jobs, Pack(j) PROVE AloneInv'
  BY <1>5 DEF Pack
<1>6. ASSUME NEW j \in Jobs, Untar(j) PROVE AloneInv'
  BY <1>6 DEF Untar
<1>7. ASSUME NEW j \in Jobs, UntarRefused(j) PROVE AloneInv'
  BY <1>7 DEF UntarRefused
<1>8. ASSUME NEW j \in Jobs, GiveBack(j) PROVE AloneInv'
  BY <1>8 DEF GiveBack
<1>9. ASSUME NEW j \in Jobs, RemoveTar(j) PROVE AloneInv'
  BY <1>9 DEF RemoveTar, AfterSending
<1>10. ASSUME NEW j \in Jobs, MakeWorkspace(j) PROVE AloneInv'
  BY <1>10 DEF MakeWorkspace
<1>11. ASSUME NEW j \in Jobs, PutInstaller(j) PROVE AloneInv'
  BY <1>11 DEF PutInstaller
<1>12. ASSUME NEW j \in Jobs, OpenConfig(j) PROVE AloneInv'
  BY <1>12 DEF OpenConfig, NeedConfig
<1>13. ASSUME NEW j \in Jobs, WriteConfig(j) PROVE AloneInv'
  BY <1>13 DEF WriteConfig, NeedConfig
<1>14. ASSUME NEW j \in Jobs, FindPort(j) PROVE AloneInv'
  BY <1>14 DEF FindPort
<1>15. ASSUME NEW j \in Jobs, Genconf(j) PROVE AloneInv'
  BY <1>15 DEF Genconf
<1>16. ASSUME NEW j \in Jobs, Setup(j) PROVE AloneInv'
  BY <1>16 DEF Setup
<1>17. ASSUME NEW j \in Jobs, Destroy(j) PROVE AloneInv'
  BY <1>17 DEF Destroy
<1>18. ASSUME NEW j \in Jobs, Sync(j) PROVE AloneInv'
  BY <1>18 DEF Sync
<1>19. ASSUME NEW j \in Jobs, NoVariant(j) PROVE AloneInv'
  BY <1>19 DEF NoVariant
<1>20. ASSUME NEW j \in Jobs, ClearTests(j) PROVE AloneInv'
  BY <1>20 DEF ClearTests
<1>21. ASSUME NEW j \in Jobs, Extract(j) PROVE AloneInv'
  BY <1>21 DEF Extract
<1>22. ASSUME NEW j \in Jobs, RemoveArchive(j) PROVE AloneInv'
  BY <1>22 DEF RemoveArchive
<1>23. ASSUME NEW j \in Jobs, CommandFails(j) PROVE AloneInv'
  BY <1>23 DEF CommandFails, AfterFailure, OnNode, Labels
<1>24. ASSUME NEW j \in Jobs, Interrupted(j) PROVE AloneInv'
  BY <1>24 DEF Interrupted
<1>25. CASE UNCHANGED vars
  BY <1>25 DEF vars
<1>. QED
  BY <1>1, <1>2, <1>3, <1>4, <1>5, <1>6, <1>7, <1>8, <1>9, <1>10, <1>11,
    <1>12, <1>13, <1>14, <1>15, <1>16, <1>17, <1>18, <1>19, <1>20, <1>21,
    <1>22, <1>23, <1>24, <1>25
  DEF Next, SendFile, InstallOrUpgrade, SyncCode, AllEnded

LEMMA AloneBefore ==
  ASSUME TypeOK, KindInv, SyncKindInv, [Next]_vars, NEW q \in Jobs, Alone(q)'
  PROVE  Alone(q) \/ Sync(q)
<1> DEFINE WasAlone == Alone(q) \/ Sync(q)
<1> USE NodeAssumption, Sizes DEF TypeOK, Kinds, Installers, Syncing, InShared, At, Goto,
      Active, Ended, args, sending, nodes, synced, owners, config,
      KindInv, Installing, SyncKindInv, Alone
<1>1. ASSUME NEW j \in Jobs, Send(j) PROVE WasAlone
  BY <1>1 DEF Send
<1>2. ASSUME NEW j \in Jobs, MakeParent(j) PROVE WasAlone
  BY <1>2 DEF MakeParent
<1>3. ASSUME NEW j \in Jobs, ReadOwner(j) PROVE WasAlone
  BY <1>3 DEF ReadOwner
<1>4. ASSUME NEW j \in Jobs, TakeOver(j) PROVE WasAlone
  BY <1>4 DEF TakeOver
<1>5. ASSUME NEW j \in Jobs, Pack(j) PROVE WasAlone
  BY <1>5 DEF Pack
<1>6. ASSUME NEW j \in Jobs, Untar(j) PROVE WasAlone
  BY <1>6 DEF Untar
<1>7. ASSUME NEW j \in Jobs, UntarRefused(j) PROVE WasAlone
  BY <1>7 DEF UntarRefused
<1>8. ASSUME NEW j \in Jobs, GiveBack(j) PROVE WasAlone
  BY <1>8 DEF GiveBack
<1>9. ASSUME NEW j \in Jobs, RemoveTar(j) PROVE WasAlone
  BY <1>9 DEF RemoveTar, AfterSending
<1>10. ASSUME NEW j \in Jobs, MakeWorkspace(j) PROVE WasAlone
  BY <1>10 DEF MakeWorkspace
<1>11. ASSUME NEW j \in Jobs, PutInstaller(j) PROVE WasAlone
  BY <1>11 DEF PutInstaller
<1>12. ASSUME NEW j \in Jobs, OpenConfig(j) PROVE WasAlone
  BY <1>12 DEF OpenConfig, NeedConfig
<1>13. ASSUME NEW j \in Jobs, WriteConfig(j) PROVE WasAlone
  BY <1>13 DEF WriteConfig, NeedConfig
<1>14. ASSUME NEW j \in Jobs, FindPort(j) PROVE WasAlone
  BY <1>14 DEF FindPort
<1>15. ASSUME NEW j \in Jobs, Genconf(j) PROVE WasAlone
  BY <1>15 DEF Genconf
<1>16. ASSUME NEW j \in Jobs, Setup(j) PROVE WasAlone
  BY <1>16 DEF Setup
<1>17. ASSUME NEW j \in Jobs, Destroy(j) PROVE WasAlone
  BY <1>17 DEF Destroy
<1>18. ASSUME NEW j \in Jobs, Sync(j) PROVE WasAlone
  <2>1. CASE j = q
    BY <1>18, <2>1
  <2>2. CASE j # q
    BY <1>18, <2>2 DEF Sync
  <2>. QED
    BY <2>1, <2>2
<1>19. ASSUME NEW j \in Jobs, NoVariant(j) PROVE WasAlone
  BY <1>19 DEF NoVariant
<1>20. ASSUME NEW j \in Jobs, ClearTests(j) PROVE WasAlone
  BY <1>20 DEF ClearTests
<1>21. ASSUME NEW j \in Jobs, Extract(j) PROVE WasAlone
  BY <1>21 DEF Extract
<1>22. ASSUME NEW j \in Jobs, RemoveArchive(j) PROVE WasAlone
  BY <1>22 DEF RemoveArchive
<1>23. ASSUME NEW j \in Jobs, CommandFails(j) PROVE WasAlone
  BY <1>23 DEF CommandFails, AfterFailure, OnNode, Labels
<1>24. ASSUME NEW j \in Jobs, Interrupted(j) PROVE WasAlone
  BY <1>24 DEF Interrupted
<1>25. CASE UNCHANGED vars
  BY <1>25 DEF vars
<1>. QED
  BY <1>1, <1>2, <1>3, <1>4, <1>5, <1>6, <1>7, <1>8, <1>9, <1>10, <1>11,
    <1>12, <1>13, <1>14, <1>15, <1>16, <1>17, <1>18, <1>19, <1>20, <1>21,
    <1>22, <1>23, <1>24, <1>25
  DEF Next, SendFile, InstallOrUpgrade, SyncCode, AllEnded

\* What a sync has on the nodes, and where it is.
Left(q) ==
  /\ pc'[q] = pc[q] /\ at'[q] = at[q] /\ part'[q] = part[q]
  /\ parcel'[q] = parcel[q] /\ target' = target
  /\ \A k \in 1 .. Size :
       /\ archive'[<<target[q], k>>] = archive[<<target[q], k>>]
       /\ bootstrap'[<<target[q], k>>] = bootstrap[<<target[q], k>>]
       /\ tests'[<<target[q], k>>] = tests[<<target[q], k>>]

Step(j) ==
  Send(j) \/ SendFile(j) \/ InstallOrUpgrade(j) \/ SyncCode(j) \/ CommandFails(j)
    \/ Interrupted(j)

\* A function that changes at one argument is the same at every other.
LEMMA ElsewhereTheSame ==
  ASSUME NEW S, NEW T, NEW f \in [S -> T], NEW m, NEW v, NEW n \in S, n # m
  PROVE  [f EXCEPT ![m] = v][n] = f[n]
  OBVIOUS

\* Other jobs leave that alone.
LEMMA AloneIsLeft ==
  ASSUME TypeOK, KindInv, SyncKindInv, AloneInv, NEW q \in Jobs, Alone(q), [Next]_vars
  PROVE  Left(q) \/ Step(q)
<1> DEFINE Goal == Left(q) \/ Step(q)
<1> USE NodeAssumption, Sizes DEF TypeOK, Kinds, Installers, Syncing, InShared, At, Goto,
      Active, Ended, args, sending, nodes, synced, owners, config,
      KindInv, Installing, SyncKindInv, AloneInv, Nodes, NodeOf
<1>1. ASSUME NEW j \in Jobs, Send(j) PROVE Goal
  <2>1. CASE j = q
    BY <1>1, <2>1 DEF Step, SendFile, InstallOrUpgrade, SyncCode
  <2>2. CASE j # q
    BY <1>1, <2>2 DEF Send, Left
  <2>. QED
    BY <2>1, <2>2
<1>2. ASSUME NEW j \in Jobs, MakeParent(j) PROVE Goal
  <2>1. CASE j = q
    BY <1>2, <2>1 DEF Step, SendFile, InstallOrUpgrade, SyncCode
  <2>2. CASE j # q
    BY <1>2, <2>2 DEF MakeParent, Left
  <2>. QED
    BY <2>1, <2>2
<1>3. ASSUME NEW j \in Jobs, ReadOwner(j) PROVE Goal
  <2>1. CASE j = q
    BY <1>3, <2>1 DEF Step, SendFile, InstallOrUpgrade, SyncCode
  <2>2. CASE j # q
    BY <1>3, <2>2 DEF ReadOwner, Left
  <2>. QED
    BY <2>1, <2>2
<1>4. ASSUME NEW j \in Jobs, TakeOver(j) PROVE Goal
  <2>1. CASE j = q
    BY <1>4, <2>1 DEF Step, SendFile, InstallOrUpgrade, SyncCode
  <2>2. CASE j # q
    BY <1>4, <2>2 DEF TakeOver, Left
  <2>. QED
    BY <2>1, <2>2
<1>5. ASSUME NEW j \in Jobs, Pack(j) PROVE Goal
  <2>1. CASE j = q
    BY <1>5, <2>1 DEF Step, SendFile, InstallOrUpgrade, SyncCode
  <2>2. CASE j # q
    BY <1>5, <2>2 DEF Pack, Left
  <2>. QED
    BY <2>1, <2>2
<1>6. ASSUME NEW j \in Jobs, Untar(j) PROVE Goal
  <2>1. CASE j = q
    BY <1>6, <2>1 DEF Step, SendFile, InstallOrUpgrade, SyncCode
  <2>2. CASE j # q
    <3>1. item[j] = "archive" => target[j] # target[q]
      BY <1>6, <2>2 DEF Untar
    <3>2. target[j] # target[q] => \A k \in 1 .. Size : NodeOf(j) # <<target[q], k>>
      OBVIOUS
    <3>3. archive' = [archive EXCEPT ![NodeOf(j)] =
            IF item[j] = "archive" THEN parcel[j] ELSE archive[NodeOf(j)]]
      BY <1>6 DEF Untar
    <3>4. ASSUME NEW k \in 1 .. Size
          PROVE  archive'[<<target[q], k>>] = archive[<<target[q], k>>]
      <4>1. archive \in [Nodes -> Content] /\ <<target[q], k>> \in Nodes
        OBVIOUS
      <4>2. CASE item[j] = "archive"
        <5>1. NodeOf(j) # <<target[q], k>>
          BY <3>1, <3>2, <4>2
        <5>. QED
          BY <3>3, <4>1, <5>1, ElsewhereTheSame
      <4>3. CASE item[j] # "archive"
        <5>1. archive' = [archive EXCEPT ![NodeOf(j)] = archive[NodeOf(j)]]
          BY <3>3, <4>3
        <5>. QED
          BY <4>1, <5>1
      <4>. QED
        BY <4>2, <4>3
    <3>5. /\ pc'[q] = pc[q]
          /\ UNCHANGED <<target, at, part, parcel, bootstrap, tests>>
      BY <1>6, <2>2 DEF Untar
    <3>. QED
      BY <3>4, <3>5 DEF Left
  <2>. QED
    BY <2>1, <2>2
<1>7. ASSUME NEW j \in Jobs, UntarRefused(j) PROVE Goal
  <2>1. CASE j = q
    BY <1>7, <2>1 DEF Step, SendFile, InstallOrUpgrade, SyncCode
  <2>2. CASE j # q
    BY <1>7, <2>2 DEF UntarRefused, Left
  <2>. QED
    BY <2>1, <2>2
<1>8. ASSUME NEW j \in Jobs, GiveBack(j) PROVE Goal
  <2>1. CASE j = q
    BY <1>8, <2>1 DEF Step, SendFile, InstallOrUpgrade, SyncCode
  <2>2. CASE j # q
    BY <1>8, <2>2 DEF GiveBack, Left
  <2>. QED
    BY <2>1, <2>2
<1>9. ASSUME NEW j \in Jobs, RemoveTar(j) PROVE Goal
  <2>1. CASE j = q
    BY <1>9, <2>1 DEF Step, SendFile, InstallOrUpgrade, SyncCode
  <2>2. CASE j # q
    BY <1>9, <2>2 DEF RemoveTar, AfterSending, Left
  <2>. QED
    BY <2>1, <2>2
<1>10. ASSUME NEW j \in Jobs, MakeWorkspace(j) PROVE Goal
  <2>1. CASE j = q
    BY <1>10, <2>1 DEF Step, SendFile, InstallOrUpgrade, SyncCode
  <2>2. CASE j # q
    BY <1>10, <2>2 DEF MakeWorkspace, Left
  <2>. QED
    BY <2>1, <2>2
<1>11. ASSUME NEW j \in Jobs, PutInstaller(j) PROVE Goal
  <2>1. CASE j = q
    BY <1>11, <2>1 DEF Step, SendFile, InstallOrUpgrade, SyncCode
  <2>2. CASE j # q
    BY <1>11, <2>2 DEF PutInstaller, Left
  <2>. QED
    BY <2>1, <2>2
<1>12. ASSUME NEW j \in Jobs, OpenConfig(j) PROVE Goal
  <2>1. CASE j = q
    BY <1>12, <2>1 DEF Step, SendFile, InstallOrUpgrade, SyncCode
  <2>2. CASE j # q
    BY <1>12, <2>2 DEF OpenConfig, NeedConfig, Left
  <2>. QED
    BY <2>1, <2>2
<1>13. ASSUME NEW j \in Jobs, WriteConfig(j) PROVE Goal
  <2>1. CASE j = q
    BY <1>13, <2>1 DEF Step, SendFile, InstallOrUpgrade, SyncCode
  <2>2. CASE j # q
    BY <1>13, <2>2 DEF WriteConfig, NeedConfig, Left
  <2>. QED
    BY <2>1, <2>2
<1>14. ASSUME NEW j \in Jobs, FindPort(j) PROVE Goal
  <2>1. CASE j = q
    BY <1>14, <2>1 DEF Step, SendFile, InstallOrUpgrade, SyncCode
  <2>2. CASE j # q
    BY <1>14, <2>2 DEF FindPort, Left
  <2>. QED
    BY <2>1, <2>2
<1>15. ASSUME NEW j \in Jobs, Genconf(j) PROVE Goal
  <2>1. CASE j = q
    BY <1>15, <2>1 DEF Step, SendFile, InstallOrUpgrade, SyncCode
  <2>2. CASE j # q
    BY <1>15, <2>2 DEF Genconf, Left
  <2>. QED
    BY <2>1, <2>2
<1>16. ASSUME NEW j \in Jobs, Setup(j) PROVE Goal
  <2>1. CASE j = q
    BY <1>16, <2>1 DEF Step, SendFile, InstallOrUpgrade, SyncCode
  <2>2. CASE j # q
    BY <1>16, <2>2 DEF Setup, Left
  <2>. QED
    BY <2>1, <2>2
<1>17. ASSUME NEW j \in Jobs, Destroy(j) PROVE Goal
  <2>1. CASE j = q
    BY <1>17, <2>1 DEF Step, SendFile, InstallOrUpgrade, SyncCode
  <2>2. CASE j # q
    BY <1>17, <2>2 DEF Destroy, Left
  <2>. QED
    BY <2>1, <2>2
<1>18. ASSUME NEW j \in Jobs, Sync(j) PROVE Goal
  <2>1. CASE j = q
    BY <1>18, <2>1 DEF Step, SendFile, InstallOrUpgrade, SyncCode
  <2>2. CASE j # q
    BY <1>18, <2>2 DEF Sync, Left
  <2>. QED
    BY <2>1, <2>2
<1>19. ASSUME NEW j \in Jobs, NoVariant(j) PROVE Goal
  <2>1. CASE j = q
    BY <1>19, <2>1 DEF Step, SendFile, InstallOrUpgrade, SyncCode
  <2>2. CASE j # q
    BY <1>19, <2>2 DEF NoVariant, Left
  <2>. QED
    BY <2>1, <2>2
<1>20. ASSUME NEW j \in Jobs, ClearTests(j) PROVE Goal
  <2>1. CASE j = q
    BY <1>20, <2>1 DEF Step, SendFile, InstallOrUpgrade, SyncCode
  <2>2. CASE j # q
    <3>1. target[j] # target[q]
      BY <1>20, <2>2 DEF ClearTests
    <3>2. target[j] # target[q] => \A k \in 1 .. Size : NodeOf(j) # <<target[q], k>>
      OBVIOUS
    <3>. QED
      BY <1>20, <2>2, <3>1, <3>2 DEF ClearTests, Left
  <2>. QED
    BY <2>1, <2>2
<1>21. ASSUME NEW j \in Jobs, Extract(j) PROVE Goal
  <2>1. CASE j = q
    BY <1>21, <2>1 DEF Step, SendFile, InstallOrUpgrade, SyncCode
  <2>2. CASE j # q
    <3>1. target[j] # target[q]
      BY <1>21, <2>2 DEF Extract
    <3>2. target[j] # target[q] => \A k \in 1 .. Size : NodeOf(j) # <<target[q], k>>
      OBVIOUS
    <3>. QED
      BY <1>21, <2>2, <3>1, <3>2 DEF Extract, Left
  <2>. QED
    BY <2>1, <2>2
<1>22. ASSUME NEW j \in Jobs, RemoveArchive(j) PROVE Goal
  <2>1. CASE j = q
    BY <1>22, <2>1 DEF Step, SendFile, InstallOrUpgrade, SyncCode
  <2>2. CASE j # q
    <3>1. target[j] # target[q]
      BY <1>22, <2>2 DEF RemoveArchive
    <3>2. target[j] # target[q] => \A k \in 1 .. Size : NodeOf(j) # <<target[q], k>>
      OBVIOUS
    <3>. QED
      BY <1>22, <2>2, <3>1, <3>2 DEF RemoveArchive, Left
  <2>. QED
    BY <2>1, <2>2
<1>23. ASSUME NEW j \in Jobs, CommandFails(j) PROVE Goal
  <2>1. CASE j = q
    BY <1>23, <2>1 DEF Step, SendFile, InstallOrUpgrade, SyncCode
  <2>2. CASE j # q
    BY <1>23, <2>2 DEF CommandFails, AfterFailure, OnNode, Labels, Left
  <2>. QED
    BY <2>1, <2>2
<1>24. ASSUME NEW j \in Jobs, Interrupted(j) PROVE Goal
  <2>1. CASE j = q
    BY <1>24, <2>1 DEF Step, SendFile, InstallOrUpgrade, SyncCode
  <2>2. CASE j # q
    BY <1>24, <2>2 DEF Interrupted, Left
  <2>. QED
    BY <2>1, <2>2
<1>25. CASE UNCHANGED vars
  BY <1>25 DEF vars, Left
<1>. QED
  BY <1>1, <1>2, <1>3, <1>4, <1>5, <1>6, <1>7, <1>8, <1>9, <1>10, <1>11,
    <1>12, <1>13, <1>14, <1>15, <1>16, <1>17, <1>18, <1>19, <1>20, <1>21,
    <1>22, <1>23, <1>24, <1>25
  DEF Next, SendFile, InstallOrUpgrade, SyncCode, AllEnded

\* A step of its own.
LEMMA ExactOwnStep ==
  ASSUME TypeOK, KindInv, SyncKindInv, NEW q \in Jobs, Alone(q), Exact(q),
         Step(q)
  PROVE  Exact(q)'
<1> USE DEF At, Goto, InShared, args, sending, nodes, synced, owners, config, TypeOK,
      Active, Ended
<1>1. /\ pc[q] \in Labels /\ at[q] \in 1 .. Masters /\ part[q] \in {"bootstrap", "tests"}
      /\ NodeOf(q) \in Nodes /\ Syncing(q) /\ q \in Content
      /\ Active(q) => item[q] = "archive"
  BY NodeAssumption, Sizes DEF TypeOK, SyncKindInv, Alone, NodeOf, Nodes, Content
<1>2. CASE MakeParent(q)
  <2>1. pc[q] = "mkdir" /\ pc'[q] = "stat"
    BY <1>1, <1>2 DEF MakeParent
  <2>2. /\ UNCHANGED <<at, part, target, bootstrap, tests>>
    BY <1>1, <1>2, <2>1 DEF MakeParent, Exact
  <2>. QED
    BY <2>1, <2>2 DEF Exact, Sent, NodeOf
<1>3. CASE ReadOwner(q)
  <2>1. pc[q] = "stat" /\ pc'[q] = "chown"
    BY <1>1, <1>3 DEF ReadOwner
  <2>2. /\ UNCHANGED <<at, part, target, bootstrap, tests>>
    BY <1>1, <1>3, <2>1 DEF ReadOwner, Exact
  <2>. QED
    BY <2>1, <2>2 DEF Exact, Sent, NodeOf
<1>4. CASE TakeOver(q)
  <2>1. pc[q] = "chown" /\ pc'[q] = "pack"
    BY <1>1, <1>4 DEF TakeOver
  <2>2. /\ UNCHANGED <<at, part, target, bootstrap, tests>>
    BY <1>1, <1>4, <2>1 DEF TakeOver, Exact
  <2>. QED
    BY <2>1, <2>2 DEF Exact, Sent, NodeOf
<1>5. CASE Pack(q)
  <2>1. pc[q] = "pack" /\ pc'[q] = "untar"
    BY <1>1, <1>5 DEF Pack
  <2>2. /\ UNCHANGED <<at, part, target, bootstrap, tests>>
        /\ parcel'[q] = q
    BY <1>1, <1>5, <2>1 DEF Pack, Exact
  <2>. QED
    BY <2>1, <2>2 DEF Exact, Sent, NodeOf
<1>6. CASE Untar(q)
  <2>1. pc[q] = "untar" /\ pc'[q] = "restore"
    BY <1>1, <1>6 DEF Untar
  <2>2. /\ UNCHANGED <<at, part, target, bootstrap, tests>>
        /\ archive'[NodeOf(q)] = q
    BY <1>1, <1>6, <2>1 DEF Untar, Exact
  <2>. QED
    BY <2>1, <2>2 DEF Exact, Sent, NodeOf
<1>7. CASE UntarRefused(q)
  <2>1. pc'[q] = "failed"
    BY <1>1, <1>7 DEF UntarRefused
  <2>. QED
    BY <2>1 DEF Exact
<1>8. CASE GiveBack(q)
  <2>1. pc[q] = "restore" /\ pc'[q] = "rmtar"
    BY <1>1, <1>8 DEF GiveBack
  <2>2. /\ UNCHANGED <<at, part, target, bootstrap, tests>>
        /\ archive' = archive
    BY <1>1, <1>8, <2>1 DEF GiveBack, Exact
  <2>. QED
    BY <2>1, <2>2 DEF Exact, Sent, NodeOf
<1>9. CASE RemoveTar(q)
  <2>1. pc[q] = "rmtar" /\ pc'[q] = "extract"
    BY <1>1, <1>9 DEF RemoveTar, AfterSending
  <2>2. /\ UNCHANGED <<at, part, target, bootstrap, tests>>
        /\ archive' = archive
    BY <1>1, <1>9, <2>1 DEF RemoveTar, AfterSending, Exact
  <2>. QED
    BY <2>1, <2>2 DEF Exact, Sent, NodeOf
<1>10. CASE ClearTests(q)
  <2>1. /\ pc[q] = "clear" /\ pc'[q] = "mkdir" /\ tests'[NodeOf(q)] = {}
        /\ \A k \in 1 .. Masters : k < at[q] =>
             tests'[<<target[q], k>>] = tests[<<target[q], k>>]
        /\ UNCHANGED <<at, part, target, bootstrap, archive>>
    BY <1>1, <1>10, Sizes DEF ClearTests, NodeOf, Nodes
  <2>. QED
    BY <2>1 DEF Exact, Sent, NodeOf
<1>11. CASE Extract(q)
  <2>1. /\ pc[q] = "extract" /\ pc'[q] = "rmarchive"
        /\ UNCHANGED <<at, part, target>>
    BY <1>1, <1>11 DEF Extract
  <2>2. archive[NodeOf(q)] = q
    BY <2>1 DEF Exact
  <2>3. CASE part[q] = "bootstrap"
    <3>1. bootstrap' = [bootstrap EXCEPT ![NodeOf(q)] = q] /\ tests' = tests
      BY <1>11, <2>2, <2>3 DEF Extract
    <3>2. /\ bootstrap'[NodeOf(q)] = q
          /\ \A k \in 1 .. Masters :
               bootstrap'[<<target[q], k>>] \in {bootstrap[<<target[q], k>>], q}
      BY <1>1, <3>1, Sizes DEF TypeOK, Nodes
    <3>. QED
      BY <2>1, <2>3, <3>1, <3>2 DEF Exact, Sent, NodeOf
  <2>4. CASE part[q] = "tests"
    <3>1. /\ tests' = [tests EXCEPT ![NodeOf(q)] = @ \cup {q}] /\ bootstrap' = bootstrap
          /\ tests[NodeOf(q)] = {}
      BY <1>11, <2>1, <2>2, <2>4 DEF Extract, Exact
    <3>2. /\ tests'[NodeOf(q)] = {q}
          /\ \A k \in 1 .. Masters : k < at[q] =>
               tests'[<<target[q], k>>] = tests[<<target[q], k>>]
      BY <1>1, <3>1, Sizes DEF TypeOK, Nodes, NodeOf
    <3>. QED
      BY <2>1, <2>4, <3>1, <3>2 DEF Exact, Sent, NodeOf
  <2>. QED
    BY <1>1, <2>3, <2>4
<1>12. CASE RemoveArchive(q)
  <2>1. /\ pc[q] = "rmarchive" /\ Sent(q, at[q])
        /\ UNCHANGED <<target, bootstrap, tests>>
        /\ \A k \in 1 .. Masters : k < at[q] => Sent(q, k)
    BY <1>12 DEF RemoveArchive, Exact
  <2>. HIDE DEF TypeOK, args, sending, nodes, synced, owners, config, InShared, At, Goto
  <2>2. CASE at[q] < Masters
    <3>1. /\ at'[q] = at[q] + 1 /\ part' = part
          /\ pc'[q] = IF part[q] = "tests" THEN "clear" ELSE "mkdir"
      BY <1>12, <2>2 DEF RemoveArchive, At, Goto, TypeOK
    <3>2. \A k \in 1 .. Masters : k < at'[q] => Sent(q, k)'
      BY <1>1, <2>1, <3>1, NodeAssumption DEF Sent
    <3>3. part[q] = "tests" => \A k \in 1 .. Masters : bootstrap[<<target[q], k>>] = q
      BY <2>1 DEF Exact
    <3>. QED
      BY <1>1, <2>1, <3>1, <3>2, <3>3 DEF Exact
  <2>3. CASE at[q] = Masters
    <3>1. /\ at'[q] = 1 /\ part'[q] = "tests"
          /\ pc'[q] = IF part[q] = "tests" THEN "done" ELSE "clear"
      BY <1>12, <2>3 DEF RemoveArchive, At, Goto, TypeOK
    <3>2. \A k \in 1 .. Masters : Sent(q, k)
      BY <1>1, <2>1, <2>3, NodeAssumption
    <3>. QED
      BY <1>1, <2>1, <3>1, <3>2, NodeAssumption DEF Exact, Sent, Active, Ended
  <2>. QED
    BY <1>1, <2>2, <2>3, NodeAssumption
<1>13. CASE CommandFails(q)
  <2>1. pc'[q] = "failed"
    BY <1>1, <1>13 DEF CommandFails, AfterFailure, Installers, Syncing
  <2>. QED
    BY <2>1 DEF Exact
<1>14. CASE Interrupted(q)
  <2>1. pc'[q] = "interrupted"
    BY <1>1, <1>14 DEF Interrupted
  <2>. QED
    BY <2>1 DEF Exact
<1>15. ~ (Send(q) \/ InstallOrUpgrade(q) \/ Sync(q) \/ NoVariant(q))
  <2>1. pc[q] # "start" /\ kind[q] \notin Installers \cup {"send"}
    BY <1>1 DEF Alone, Syncing, Installers
  <2>2. pc[q] \notin {"next", "installer", "open", "write", "port", "genconf",
                      "setup", "destroy"}
    BY <2>1 DEF KindInv, Installing
  <2>. QED
    BY <2>1, <2>2 DEF Send, InstallOrUpgrade, Sync, NoVariant, MakeWorkspace,
      PutInstaller, OpenConfig, WriteConfig, FindPort, Genconf, Setup, Destroy, At
<1>. QED
  BY <1>2, <1>3, <1>4, <1>5, <1>6, <1>7, <1>8, <1>9, <1>10,
     <1>11, <1>12, <1>13, <1>14, <1>15 DEF Step, SendFile, SyncCode

\* A sync that begins.
LEMMA ExactBegins ==
  ASSUME TypeOK, SyncKindInv, NEW q \in Jobs, Sync(q)
  PROVE  Exact(q)'
<1> USE NodeAssumption, Sizes DEF TypeOK, Kinds, Installers, Syncing, InShared, At, Goto,
      Active, Ended, args, sending, nodes, synced, owners, config
<1>1. pc'[q] = "mkdir" /\ at' = at /\ part' = part /\ pc[q] = "start"
  BY DEF Sync
<1>2. part[q] = "bootstrap" /\ at[q] = 1
  BY <1>1 DEF Sync, SyncKindInv
<1>. QED
  BY <1>1, <1>2 DEF Exact

LEMMA ExactStep ==
  ASSUME TypeOK, KindInv, SyncKindInv, AloneInv, ExactInv, [Next]_vars
  PROVE  ExactInv'
<1> SUFFICES ASSUME NEW q \in Jobs, Alone(q)'
             PROVE  Exact(q)'
  BY DEF ExactInv
<1>1. CASE Sync(q)
  BY <1>1, ExactBegins
<1>2. CASE Alone(q) /\ Step(q)
  BY <1>2, ExactOwnStep DEF ExactInv
<1>3. CASE Alone(q) /\ Left(q)
  <2>1. Exact(q) /\ at[q] \in 1 .. Size
    BY <1>3 DEF ExactInv, TypeOK
  <2>. QED
    BY <1>3, <2>1, Sizes DEF Exact, Left, Sent, Active, NodeOf
<1>. QED
  BY <1>1, <1>2, <1>3, AloneBefore, AloneIsLeft

\* After a sync that met no other sync, also one that repeats a sync that
\* failed, every master has the bootstrap code of its checkout and exactly its
\* tests.
THEOREM SyncsAreExact == Spec => []SyncIsExact
<1> DEFINE Inv == TypeOK /\ KindInv /\ SyncKindInv /\ AloneInv /\ ExactInv
<1>1. Init => Inv
  BY TypeInit, KindInit, SyncInit
<1>2. Inv /\ [Next]_vars => Inv'
  BY TypeStep, KindStep, SyncKindStep, AloneStep, ExactStep
<1>3. Inv => SyncIsExact
  BY DEF ExactInv, Exact, SyncIsExact, Alone, Syncing, At
<1>. QED
  BY <1>1, <1>2, <1>3, PTL DEF Spec
=============================================================================
