--------------------------- MODULE CloudCli_proofs ---------------------------
(***************************************************************************)
(* Proofs, for any number of commands, cluster IDs and machines, that the  *)
(* commands of CloudCli are well typed, that a cluster that has been made  *)
(* is listed as a whole, that one ID has one cluster unless creates race,  *)
(* that what is left can be destroyed and a destroy leaves nothing, and    *)
(* that clean spares clusters that run and removes the VMs that do not.    *)
(***************************************************************************)
EXTENDS CloudCli, FiniteSetTheorems, TLAPS

-----------------------------------------------------------------------------
(* Types.                                                                  *)

LEMMA Sizes == Size \in Nat /\ 1 \in 1 .. Size
  BY CloudAssumption DEF Size

LEMMA MachineFacts ==
  /\ \A m \in Machines : m[1] \in Commands /\ m[2] \in 1 .. Size
                         /\ m = <<m[1], m[2]>> /\ m \in MachinesOf(m[1])
  /\ \A p \in Commands : \A m \in MachinesOf(p) : m \in Machines /\ m[1] = p
  BY DEF Machines, MachinesOf

LEMMA TypeInit ==
  ASSUME Init
  PROVE  TypeOK
  BY CloudAssumption, Sizes DEF Init, TypeOK, Labels, Ended

LEMMA TypeStep ==
  ASSUME TypeOK, [Next]_vars
  PROVE  TypeOK'
<1> USE CloudAssumption, Sizes, MachineFacts DEF TypeOK, At, Goto, args, command,
      machines, history, bounds, Labels, Ended, Roles
<1>1. ASSUME NEW p \in Commands, Begin(p) PROVE TypeOK'
  BY <1>1 DEF Begin, Creating, Active
<1>2. ASSUME NEW p \in Commands, NotUnique(p) PROVE TypeOK'
  BY <1>2 DEF NotUnique
<1>3. ASSUME NEW p \in Commands, Import(p) PROVE TypeOK'
  BY <1>3 DEF Import, Machines
<1>4. ASSUME NEW p \in Commands, Describe(p) PROVE TypeOK'
  BY <1>4 DEF Describe, Machines
<1>5. ASSUME NEW p \in Commands, Boot(p) PROVE TypeOK'
  BY <1>5 DEF Boot, Machines
<1>6. ASSUME NEW p \in Commands, BootFails(p) PROVE TypeOK'
  BY <1>6 DEF BootFails
<1>7. ASSUME NEW p \in Commands, RequestStack(p) PROVE TypeOK'
  BY <1>7 DEF RequestStack
<1>8. ASSUME NEW p \in Commands, NameIsTaken(p) PROVE TypeOK'
  BY <1>8 DEF NameIsTaken
<1>9. ASSUME NEW p \in Commands, Waited(p) PROVE TypeOK'
  BY <1>9 DEF Waited
<1>10. ASSUME NEW p \in Commands, Tag(p) PROVE TypeOK'
  BY <1>10 DEF Tag, AfterTagging
<1>11. ASSUME NEW p \in Commands, Provisioned(p) PROVE TypeOK'
  BY <1>11 DEF Provisioned
<1>12. ASSUME NEW p \in Commands, BeginInstall(p) PROVE TypeOK'
  BY <1>12 DEF BeginInstall
<1>13. ASSUME NEW p \in Commands, Installed(p) PROVE TypeOK'
  BY <1>13 DEF Installed
<1>14. ASSUME NEW p \in Commands, InstallFails(p) PROVE TypeOK'
  BY <1>14 DEF InstallFails
<1>15. ASSUME NEW p \in Commands, CheckExists(p) PROVE TypeOK'
  BY <1>15 DEF CheckExists
<1>16. ASSUME NEW p \in Commands, NextCluster(p) PROVE TypeOK'
  BY <1>16 DEF NextCluster
<1>17. ASSUME NEW p \in Commands, ListEnds(p) PROVE TypeOK'
  BY <1>17 DEF ListEnds
<1>18. ASSUME NEW p \in Commands, Names(p) PROVE TypeOK'
  BY <1>18 DEF Names, AfterNames, Running
<1>19. ASSUME NEW p \in Commands, NoNames(p) PROVE TypeOK'
  BY <1>19 DEF NoNames
<1>20. ASSUME NEW p \in Commands, DestroyVm(p) PROVE TypeOK'
  BY <1>20 DEF DestroyVm
<1>21. ASSUME NEW p \in Commands, VmsDestroyed(p) PROVE TypeOK'
  BY <1>21 DEF VmsDestroyed
<1>22. ASSUME NEW p \in Commands, RemoveWorkspace(p) PROVE TypeOK'
  BY <1>22 DEF RemoveWorkspace, Return
<1>23. ASSUME NEW p \in Commands, ListInstances(p) PROVE TypeOK'
  BY <1>23 DEF ListInstances, Running
<1>24. ASSUME NEW p \in Commands, NoInstances(p) PROVE TypeOK'
  BY <1>24 DEF NoInstances
<1>25. ASSUME NEW p \in Commands, Delete(p) PROVE TypeOK'
  BY <1>25 DEF Delete
<1>26. ASSUME NEW p \in Commands, DeletedBefore(p) PROVE TypeOK'
  BY <1>26 DEF DeletedBefore, Return
<1>27. ASSUME NEW p \in Commands, DeleteWaited(p) PROVE TypeOK'
  BY <1>27 DEF DeleteWaited, Return
<1>28. ASSUME NEW p \in Commands, ReadRunning(p) PROVE TypeOK'
  BY <1>28 DEF ReadRunning, existing_cluster_ids, Creating
<1>29. ASSUME NEW p \in Commands, ReadAll(p) PROVE TypeOK'
  BY <1>29 DEF ReadAll
<1>30. ASSUME NEW p \in Commands, CleanEnds(p) PROVE TypeOK'
  BY <1>30 DEF CleanEnds
<1>31. ASSUME NEW p \in Commands, Unregister(p) PROVE TypeOK'
  BY <1>31 DEF Unregister
<1>32. ASSUME NEW p \in Commands, UnregisterFails(p) PROVE TypeOK'
  BY <1>32 DEF UnregisterFails
<1>33. ASSUME NEW p \in Commands, Stops(p) PROVE TypeOK'
  BY <1>33 DEF Stops
<1>34. ASSUME NEW p \in Commands, StackComplete(p) PROVE TypeOK'
  BY <1>34 DEF StackComplete
<1>35. ASSUME NEW p \in Commands, StackFails(p) PROVE TypeOK'
  BY <1>35 DEF StackFails
<1>36. ASSUME NEW p \in Commands, StackDeleted(p) PROVE TypeOK'
  BY <1>36 DEF StackDeleted
<1>37. ASSUME NEW p \in Commands, DeletionFails(p) PROVE TypeOK'
  BY <1>37 DEF DeletionFails
<1>38. ASSUME NEW m \in Machines, Launch(m) PROVE TypeOK'
  BY <1>38 DEF Launch
<1>39. ASSUME NEW m \in Machines, Terminate(m) PROVE TypeOK'
  BY <1>39 DEF Terminate
<1>40. ASSUME Reboot PROVE TypeOK'
  BY <1>40 DEF Reboot, Active
<1>41. CASE UNCHANGED vars
  BY <1>41 DEF vars
<1>. QED
  BY <1>1, <1>2, <1>3, <1>4, <1>5, <1>6, <1>7, <1>8, <1>9, <1>10, <1>11,
    <1>12, <1>13, <1>14, <1>15, <1>16, <1>17, <1>18, <1>19, <1>20, <1>21,
    <1>22, <1>23, <1>24, <1>25, <1>26, <1>27, <1>28, <1>29, <1>30, <1>31,
    <1>32, <1>33, <1>34, <1>35, <1>36, <1>37, <1>38, <1>39, <1>40, <1>41
  DEF Next, Create, Destroy, Clean, CloudFormation, AllEnded

\* Every reachable state is well typed.
THEOREM TypeCorrect == Spec => []TypeOK
<1>1. Init => TypeOK
  BY TypeInit
<1>2. TypeOK /\ [Next]_vars => TypeOK'
  BY TypeStep
<1>. QED
  BY <1>1, <1>2, PTL DEF Spec

-----------------------------------------------------------------------------
(* What each tool and each command does not do.                            *)

CreateOnly == {"import", "describe", "boot", "stack", "wait", "made", "install"}
                \cup Roles
OthersOnly == {"list", "check", "all", "unregister"}

ToolInv ==
  /\ \A p \in Commands :
       /\ kind[p] # "create" => stack[p] = "none" /\ pc[p] \notin CreateOnly
       /\ kind[p] = "create" => pc[p] \notin OthersOnly
       /\ pc[p] = "start" => stack[p] = "none"
       /\ backend = "vagrant" =>
            /\ stack[p] = "none"
            /\ pc[p] \notin Roles \cup {"stack", "wait", "delete", "deleted"}
       /\ backend = "aws" => pc[p] \notin {"import", "describe", "boot"}
  /\ \A m \in Machines :
       power[m] # "absent" \/ m \in marked =>
         kind[m[1]] = "create" /\ pc[m[1]] # "start"

LEMMA ToolInit ==
  ASSUME Init
  PROVE  ToolInv
  BY MachineFacts DEF Init, ToolInv, CreateOnly, OthersOnly, Roles

LEMMA ToolStep ==
  ASSUME TypeOK, ToolInv, [Next]_vars
  PROVE  ToolInv'
<1> USE MachineFacts DEF TypeOK, ToolInv, CreateOnly, OthersOnly, At, Goto, args,
      command, machines, history, bounds, Ended, Roles, Backends, Kinds
<1>1. ASSUME NEW p \in Commands, Begin(p) PROVE ToolInv'
  BY <1>1 DEF Begin
<1>2. ASSUME NEW p \in Commands, NotUnique(p) PROVE ToolInv'
  BY <1>2 DEF NotUnique
<1>3. ASSUME NEW p \in Commands, Import(p) PROVE ToolInv'
  BY <1>3 DEF Import
<1>4. ASSUME NEW p \in Commands, Describe(p) PROVE ToolInv'
  BY <1>4 DEF Describe
<1>5. ASSUME NEW p \in Commands, Boot(p) PROVE ToolInv'
  BY <1>5 DEF Boot
<1>6. ASSUME NEW p \in Commands, BootFails(p) PROVE ToolInv'
  BY <1>6 DEF BootFails
<1>7. ASSUME NEW p \in Commands, RequestStack(p) PROVE ToolInv'
  BY <1>7 DEF RequestStack
<1>8. ASSUME NEW p \in Commands, NameIsTaken(p) PROVE ToolInv'
  BY <1>8 DEF NameIsTaken
<1>9. ASSUME NEW p \in Commands, Waited(p) PROVE ToolInv'
  BY <1>9 DEF Waited
<1>10. ASSUME NEW p \in Commands, Tag(p) PROVE ToolInv'
  BY <1>10 DEF Tag, AfterTagging
<1>11. ASSUME NEW p \in Commands, Provisioned(p) PROVE ToolInv'
  BY <1>11 DEF Provisioned
<1>12. ASSUME NEW p \in Commands, BeginInstall(p) PROVE ToolInv'
  BY <1>12 DEF BeginInstall
<1>13. ASSUME NEW p \in Commands, Installed(p) PROVE ToolInv'
  BY <1>13 DEF Installed
<1>14. ASSUME NEW p \in Commands, InstallFails(p) PROVE ToolInv'
  BY <1>14 DEF InstallFails
<1>15. ASSUME NEW p \in Commands, CheckExists(p) PROVE ToolInv'
  BY <1>15 DEF CheckExists
<1>16. ASSUME NEW p \in Commands, NextCluster(p) PROVE ToolInv'
  BY <1>16 DEF NextCluster
<1>17. ASSUME NEW p \in Commands, ListEnds(p) PROVE ToolInv'
  BY <1>17 DEF ListEnds
<1>18. ASSUME NEW p \in Commands, Names(p) PROVE ToolInv'
  BY <1>18 DEF Names, AfterNames
<1>19. ASSUME NEW p \in Commands, NoNames(p) PROVE ToolInv'
  BY <1>19 DEF NoNames
<1>20. ASSUME NEW p \in Commands, DestroyVm(p) PROVE ToolInv'
  BY <1>20 DEF DestroyVm
<1>21. ASSUME NEW p \in Commands, VmsDestroyed(p) PROVE ToolInv'
  BY <1>21 DEF VmsDestroyed
<1>22. ASSUME NEW p \in Commands, RemoveWorkspace(p) PROVE ToolInv'
  BY <1>22 DEF RemoveWorkspace, Return
<1>23. ASSUME NEW p \in Commands, ListInstances(p) PROVE ToolInv'
  BY <1>23 DEF ListInstances
<1>24. ASSUME NEW p \in Commands, NoInstances(p) PROVE ToolInv'
  BY <1>24 DEF NoInstances
<1>25. ASSUME NEW p \in Commands, Delete(p) PROVE ToolInv'
  BY <1>25 DEF Delete
<1>26. ASSUME NEW p \in Commands, DeletedBefore(p) PROVE ToolInv'
  BY <1>26 DEF DeletedBefore, Return
<1>27. ASSUME NEW p \in Commands, DeleteWaited(p) PROVE ToolInv'
  BY <1>27 DEF DeleteWaited, Return
<1>28. ASSUME NEW p \in Commands, ReadRunning(p) PROVE ToolInv'
  BY <1>28 DEF ReadRunning
<1>29. ASSUME NEW p \in Commands, ReadAll(p) PROVE ToolInv'
  BY <1>29 DEF ReadAll
<1>30. ASSUME NEW p \in Commands, CleanEnds(p) PROVE ToolInv'
  BY <1>30 DEF CleanEnds
<1>31. ASSUME NEW p \in Commands, Unregister(p) PROVE ToolInv'
  BY <1>31 DEF Unregister
<1>32. ASSUME NEW p \in Commands, UnregisterFails(p) PROVE ToolInv'
  BY <1>32 DEF UnregisterFails
<1>33. ASSUME NEW p \in Commands, Stops(p) PROVE ToolInv'
  BY <1>33 DEF Stops, Active
<1>34. ASSUME NEW p \in Commands, StackComplete(p) PROVE ToolInv'
  BY <1>34 DEF StackComplete
<1>35. ASSUME NEW p \in Commands, StackFails(p) PROVE ToolInv'
  BY <1>35 DEF StackFails
<1>36. ASSUME NEW p \in Commands, StackDeleted(p) PROVE ToolInv'
  BY <1>36 DEF StackDeleted
<1>37. ASSUME NEW p \in Commands, DeletionFails(p) PROVE ToolInv'
  BY <1>37 DEF DeletionFails
<1>38. ASSUME NEW m \in Machines, Launch(m) PROVE ToolInv'
  BY <1>38 DEF Launch
<1>39. ASSUME NEW m \in Machines, Terminate(m) PROVE ToolInv'
  BY <1>39 DEF Terminate
<1>40. ASSUME Reboot PROVE ToolInv'
  BY <1>40 DEF Reboot, Active
<1>41. CASE UNCHANGED vars
  BY <1>41 DEF vars
<1>. QED
  BY <1>1, <1>2, <1>3, <1>4, <1>5, <1>6, <1>7, <1>8, <1>9, <1>10, <1>11,
    <1>12, <1>13, <1>14, <1>15, <1>16, <1>17, <1>18, <1>19, <1>20, <1>21,
    <1>22, <1>23, <1>24, <1>25, <1>26, <1>27, <1>28, <1>29, <1>30, <1>31,
    <1>32, <1>33, <1>34, <1>35, <1>36, <1>37, <1>38, <1>39, <1>40, <1>41
  DEF Next, Create, Destroy, Clean, CloudFormation, AllEnded

-----------------------------------------------------------------------------
(* A cluster that has been made is listed.  A VM that may run has its       *)
(* description; a stack gets no instances once it has been waited for.      *)

VmInv ==
  backend = "vagrant" =>
    /\ \A m \in Machines : power[m] = "on" => m \in marked
    /\ \A p \in Commands :
         pc[p] = "boot" /\ power[<<p, at[p]>>] # "absent" => <<p, at[p]>> \in marked

TaggedInv ==
  backend = "aws" =>
    \A p \in Commands :
      /\ pc[p] \in Roles \cup {"made", "install"} => stack[p] # "creating"
      /\ \A m \in MachinesOf(p) : power[m] = "on" /\ m \notin marked =>
           /\ pc[p] \notin {"made", "install"}
           /\ pc[p] = "agent" => Role(m) # "master"
           /\ pc[p] = "public_agent" => Role(m) = "public_agent"

ListedInv == VmInv /\ TaggedInv

LEMMA ListedInit ==
  ASSUME Init
  PROVE  ListedInv
  BY MachineFacts DEF Init, ListedInv, VmInv, TaggedInv, Roles

LEMMA ListedStep ==
  ASSUME TypeOK, ToolInv, ListedInv, [Next]_vars
  PROVE  ListedInv'
<1> USE MachineFacts DEF TypeOK, ToolInv, ListedInv, VmInv, TaggedInv, At, Goto,
      args, command, machines, history, bounds, Roles, CreateOnly
<1>1. ASSUME NEW p \in Commands, Begin(p) PROVE ListedInv'
  BY <1>1 DEF Begin
<1>2. ASSUME NEW p \in Commands, NotUnique(p) PROVE ListedInv'
  BY <1>2 DEF NotUnique
<1>3. ASSUME NEW p \in Commands, Import(p) PROVE ListedInv'
  BY <1>3 DEF Import, Machines
<1>4. ASSUME NEW p \in Commands, Describe(p) PROVE ListedInv'
  BY <1>4 DEF Describe, Machines
<1>5. ASSUME NEW p \in Commands, Boot(p) PROVE ListedInv'
<2>1. /\ backend = "vagrant"
      /\ <<p, at[p]>> \in Machines /\ <<p, at[p]>> \in marked
  BY <1>5 DEF Boot, Machines, Backends
<2>2. ASSUME NEW m \in Machines, power'[m] = "on" PROVE m \in marked
<3>1. m = <<p, at[p]>> \/ power[m] = "on"
  BY <1>5, <2>1, <2>2 DEF Boot
<3>2. CASE m = <<p, at[p]>>
  BY <2>1, <3>2, Zenon
<3>3. CASE power[m] = "on"
  BY <2>1, <3>3
<3>. QED
  BY <3>1, <3>2, <3>3
<2>3. ASSUME NEW q \in Commands, pc'[q] = "boot"
      PROVE  q # p /\ pc[q] = "boot" /\ at'[q] = at[q]
                   /\ power'[<<q, at[q]>>] = power[<<q, at[q]>>]
  BY <1>5, <2>1, <2>3 DEF Boot, Machines
<2>. QED
  BY <1>5, <2>1, <2>2, <2>3 DEF Boot
<1>6. ASSUME NEW p \in Commands, BootFails(p) PROVE ListedInv'
  BY <1>6 DEF BootFails
<1>7. ASSUME NEW p \in Commands, RequestStack(p) PROVE ListedInv'
  BY <1>7 DEF RequestStack
<1>8. ASSUME NEW p \in Commands, NameIsTaken(p) PROVE ListedInv'
  BY <1>8 DEF NameIsTaken
<1>9. ASSUME NEW p \in Commands, Waited(p) PROVE ListedInv'
  BY <1>9 DEF Waited
<1>10. ASSUME NEW p \in Commands, Tag(p) PROVE ListedInv'
  BY <1>10 DEF Tag, AfterTagging, Role
<1>11. ASSUME NEW p \in Commands, Provisioned(p) PROVE ListedInv'
  BY <1>11 DEF Provisioned
<1>12. ASSUME NEW p \in Commands, BeginInstall(p) PROVE ListedInv'
  BY <1>12 DEF BeginInstall
<1>13. ASSUME NEW p \in Commands, Installed(p) PROVE ListedInv'
  BY <1>13 DEF Installed
<1>14. ASSUME NEW p \in Commands, InstallFails(p) PROVE ListedInv'
  BY <1>14 DEF InstallFails
<1>15. ASSUME NEW p \in Commands, CheckExists(p) PROVE ListedInv'
  BY <1>15 DEF CheckExists
<1>16. ASSUME NEW p \in Commands, NextCluster(p) PROVE ListedInv'
  BY <1>16 DEF NextCluster
<1>17. ASSUME NEW p \in Commands, ListEnds(p) PROVE ListedInv'
  BY <1>17 DEF ListEnds
<1>18. ASSUME NEW p \in Commands, Names(p) PROVE ListedInv'
  BY <1>18 DEF Names, AfterNames
<1>19. ASSUME NEW p \in Commands, NoNames(p) PROVE ListedInv'
  BY <1>19 DEF NoNames
<1>20. ASSUME NEW p \in Commands, DestroyVm(p) PROVE ListedInv'
  BY <1>20 DEF DestroyVm
<1>21. ASSUME NEW p \in Commands, VmsDestroyed(p) PROVE ListedInv'
  BY <1>21 DEF VmsDestroyed
<1>22. ASSUME NEW p \in Commands, RemoveWorkspace(p) PROVE ListedInv'
  BY <1>22 DEF RemoveWorkspace, Return, Ended
<1>23. ASSUME NEW p \in Commands, ListInstances(p) PROVE ListedInv'
  BY <1>23 DEF ListInstances
<1>24. ASSUME NEW p \in Commands, NoInstances(p) PROVE ListedInv'
  BY <1>24 DEF NoInstances
<1>25. ASSUME NEW p \in Commands, Delete(p) PROVE ListedInv'
  BY <1>25 DEF Delete
<1>26. ASSUME NEW p \in Commands, DeletedBefore(p) PROVE ListedInv'
  BY <1>26 DEF DeletedBefore, Return
<1>27. ASSUME NEW p \in Commands, DeleteWaited(p) PROVE ListedInv'
  BY <1>27 DEF DeleteWaited, Return
<1>28. ASSUME NEW p \in Commands, ReadRunning(p) PROVE ListedInv'
  BY <1>28 DEF ReadRunning
<1>29. ASSUME NEW p \in Commands, ReadAll(p) PROVE ListedInv'
  BY <1>29 DEF ReadAll
<1>30. ASSUME NEW p \in Commands, CleanEnds(p) PROVE ListedInv'
  BY <1>30 DEF CleanEnds
<1>31. ASSUME NEW p \in Commands, Unregister(p) PROVE ListedInv'
  BY <1>31 DEF Unregister
<1>32. ASSUME NEW p \in Commands, UnregisterFails(p) PROVE ListedInv'
  BY <1>32 DEF UnregisterFails
<1>33. ASSUME NEW p \in Commands, Stops(p) PROVE ListedInv'
  BY <1>33 DEF Stops
<1>34. ASSUME NEW p \in Commands, StackComplete(p) PROVE ListedInv'
  BY <1>34 DEF StackComplete
<1>35. ASSUME NEW p \in Commands, StackFails(p) PROVE ListedInv'
  BY <1>35 DEF StackFails
<1>36. ASSUME NEW p \in Commands, StackDeleted(p) PROVE ListedInv'
  BY <1>36 DEF StackDeleted
<1>37. ASSUME NEW p \in Commands, DeletionFails(p) PROVE ListedInv'
  BY <1>37 DEF DeletionFails
<1>38. ASSUME NEW m \in Machines, Launch(m) PROVE ListedInv'
  BY <1>38 DEF Launch
<1>39. ASSUME NEW m \in Machines, Terminate(m) PROVE ListedInv'
  BY <1>39 DEF Terminate
<1>40. ASSUME Reboot PROVE ListedInv'
  BY <1>40 DEF Reboot, Active, Ended
<1>41. CASE UNCHANGED vars
  BY <1>41 DEF vars
<1>. QED
  BY <1>1, <1>2, <1>3, <1>4, <1>5, <1>6, <1>7, <1>8, <1>9, <1>10, <1>11,
    <1>12, <1>13, <1>14, <1>15, <1>16, <1>17, <1>18, <1>19, <1>20, <1>21,
    <1>22, <1>23, <1>24, <1>25, <1>26, <1>27, <1>28, <1>29, <1>30, <1>31,
    <1>32, <1>33, <1>34, <1>35, <1>36, <1>37, <1>38, <1>39, <1>40, <1>41
  DEF Next, Create, Destroy, Clean, CloudFormation, AllEnded

\* A cluster that has been made is listed as a whole.
THEOREM WholeListed == Spec => []MadeIsListed
<1>1. Init => TypeOK /\ ToolInv /\ ListedInv
  BY TypeInit, ToolInit, ListedInit
<1>2. TypeOK /\ ToolInv /\ ListedInv /\ [Next]_vars =>
        TypeOK' /\ ToolInv' /\ ListedInv'
  BY TypeStep, ToolStep, ListedStep
<1>3. TypeOK /\ ListedInv => MadeIsListed
  BY MachineFacts DEF TypeOK, ListedInv, VmInv, TaggedInv, MadeIsListed, Backends
<1>. QED
  BY <1>1, <1>2, <1>3, PTL DEF Spec

-----------------------------------------------------------------------------
(* One cluster for each ID.  On AWS the name of a stack decides; on         *)
(* Vagrant, of two creates with one ID that did not meet, one has ended or  *)
(* not begun, and nothing of it runs.                                      *)

StackInv ==
  backend = "aws" =>
    /\ \A m \in Machines : power[m] = "on" => stack[m[1]] \notin {"none", "failed"}
    /\ \A p, q \in Commands :
         p # q /\ id[p] = id[q] /\ stack[p] # "none" => stack[q] = "none"

Still(q) ==
  /\ pc[q] \in Ended \cup {"start"}
  /\ \A m \in MachinesOf(q) : power[m] # "on"

RaceInv ==
  backend = "vagrant" =>
    \A p, q \in Commands :
      p # q /\ kind[p] = "create" /\ kind[q] = "create" /\ id[p] = id[q] =>
        (p \in raced /\ q \in raced) \/ Still(p) \/ Still(q)

LEMMA StackInit ==
  ASSUME Init
  PROVE  StackInv /\ RaceInv
  BY MachineFacts DEF Init, StackInv, RaceInv, Still, Ended

\* Creates do not change their ID.
LEMMA IdKept ==
  ASSUME TypeOK, ToolInv, NEW p \in Commands, NextCluster(p)
  PROVE  kind[p] # "create" /\ \A q \in Commands \ {p} : id'[q] = id[q]
  BY DEF TypeOK, ToolInv, OthersOnly, NextCluster, At

LEMMA StackStep ==
  ASSUME TypeOK, ToolInv, StackInv, [Next]_vars
  PROVE  StackInv'
<1> USE MachineFacts DEF TypeOK, ToolInv, StackInv, At, Goto, args, command,
      machines, history, bounds, Backends
<1>1. ASSUME NEW p \in Commands, Begin(p) PROVE StackInv'
  BY <1>1 DEF Begin
<1>2. ASSUME NEW p \in Commands, NotUnique(p) PROVE StackInv'
  BY <1>2 DEF NotUnique
<1>3. ASSUME NEW p \in Commands, Import(p) PROVE StackInv'
  BY <1>3 DEF Import, Machines
<1>4. ASSUME NEW p \in Commands, Describe(p) PROVE StackInv'
  BY <1>4 DEF Describe
<1>5. ASSUME NEW p \in Commands, Boot(p) PROVE StackInv'
  BY <1>5 DEF Boot, Machines
<1>6. ASSUME NEW p \in Commands, BootFails(p) PROVE StackInv'
  BY <1>6 DEF BootFails
<1>7. ASSUME NEW p \in Commands, RequestStack(p) PROVE StackInv'
  BY <1>7 DEF RequestStack, NameIsFree
<1>8. ASSUME NEW p \in Commands, NameIsTaken(p) PROVE StackInv'
  BY <1>8 DEF NameIsTaken
<1>9. ASSUME NEW p \in Commands, Waited(p) PROVE StackInv'
  BY <1>9 DEF Waited
<1>10. ASSUME NEW p \in Commands, Tag(p) PROVE StackInv'
  BY <1>10 DEF Tag
<1>11. ASSUME NEW p \in Commands, Provisioned(p) PROVE StackInv'
  BY <1>11 DEF Provisioned
<1>12. ASSUME NEW p \in Commands, BeginInstall(p) PROVE StackInv'
  BY <1>12 DEF BeginInstall
<1>13. ASSUME NEW p \in Commands, Installed(p) PROVE StackInv'
  BY <1>13 DEF Installed
<1>14. ASSUME NEW p \in Commands, InstallFails(p) PROVE StackInv'
  BY <1>14 DEF InstallFails
<1>15. ASSUME NEW p \in Commands, CheckExists(p) PROVE StackInv'
  BY <1>15 DEF CheckExists
<1>16. ASSUME NEW p \in Commands, NextCluster(p) PROVE StackInv'
<2>1. UNCHANGED <<backend, kind, stack, power>>
  BY <1>16 DEF NextCluster
<2>2. /\ stack[p] = "none"
      /\ \A q \in Commands \ {p} : id'[q] = id[q]
  BY <1>16, IdKept
<2>. QED
  BY <2>1, <2>2
<1>17. ASSUME NEW p \in Commands, ListEnds(p) PROVE StackInv'
  BY <1>17 DEF ListEnds
<1>18. ASSUME NEW p \in Commands, Names(p) PROVE StackInv'
  BY <1>18 DEF Names
<1>19. ASSUME NEW p \in Commands, NoNames(p) PROVE StackInv'
  BY <1>19 DEF NoNames
<1>20. ASSUME NEW p \in Commands, DestroyVm(p) PROVE StackInv'
  BY <1>20 DEF DestroyVm
<1>21. ASSUME NEW p \in Commands, VmsDestroyed(p) PROVE StackInv'
  BY <1>21 DEF VmsDestroyed
<1>22. ASSUME NEW p \in Commands, RemoveWorkspace(p) PROVE StackInv'
  BY <1>22 DEF RemoveWorkspace
<1>23. ASSUME NEW p \in Commands, ListInstances(p) PROVE StackInv'
  BY <1>23 DEF ListInstances
<1>24. ASSUME NEW p \in Commands, NoInstances(p) PROVE StackInv'
  BY <1>24 DEF NoInstances
<1>25. ASSUME NEW p \in Commands, Delete(p) PROVE StackInv'
  BY <1>25 DEF Delete
<1>26. ASSUME NEW p \in Commands, DeletedBefore(p) PROVE StackInv'
  BY <1>26 DEF DeletedBefore
<1>27. ASSUME NEW p \in Commands, DeleteWaited(p) PROVE StackInv'
  BY <1>27 DEF DeleteWaited
<1>28. ASSUME NEW p \in Commands, ReadRunning(p) PROVE StackInv'
  BY <1>28 DEF ReadRunning
<1>29. ASSUME NEW p \in Commands, ReadAll(p) PROVE StackInv'
  BY <1>29 DEF ReadAll
<1>30. ASSUME NEW p \in Commands, CleanEnds(p) PROVE StackInv'
  BY <1>30 DEF CleanEnds
<1>31. ASSUME NEW p \in Commands, Unregister(p) PROVE StackInv'
  BY <1>31 DEF Unregister
<1>32. ASSUME NEW p \in Commands, UnregisterFails(p) PROVE StackInv'
  BY <1>32 DEF UnregisterFails
<1>33. ASSUME NEW p \in Commands, Stops(p) PROVE StackInv'
  BY <1>33 DEF Stops
<1>34. ASSUME NEW p \in Commands, StackComplete(p) PROVE StackInv'
  BY <1>34 DEF StackComplete
<1>35. ASSUME NEW p \in Commands, StackFails(p) PROVE StackInv'
  BY <1>35 DEF StackFails
<1>36. ASSUME NEW p \in Commands, StackDeleted(p) PROVE StackInv'
  BY <1>36 DEF StackDeleted
<1>37. ASSUME NEW p \in Commands, DeletionFails(p) PROVE StackInv'
  BY <1>37 DEF DeletionFails
<1>38. ASSUME NEW m \in Machines, Launch(m) PROVE StackInv'
  BY <1>38 DEF Launch
<1>39. ASSUME NEW m \in Machines, Terminate(m) PROVE StackInv'
  BY <1>39 DEF Terminate
<1>40. ASSUME Reboot PROVE StackInv'
  BY <1>40 DEF Reboot
<1>41. CASE UNCHANGED vars
  BY <1>41 DEF vars
<1>. QED
  BY <1>1, <1>2, <1>3, <1>4, <1>5, <1>6, <1>7, <1>8, <1>9, <1>10, <1>11,
    <1>12, <1>13, <1>14, <1>15, <1>16, <1>17, <1>18, <1>19, <1>20, <1>21,
    <1>22, <1>23, <1>24, <1>25, <1>26, <1>27, <1>28, <1>29, <1>30, <1>31,
    <1>32, <1>33, <1>34, <1>35, <1>36, <1>37, <1>38, <1>39, <1>40, <1>41
  DEF Next, Create, Destroy, Clean, CloudFormation, AllEnded

\* A cluster that has ended or not begun has a machine that runs only if its
\* ID exists.
LEMMA StillOrListed ==
  ASSUME TypeOK, ToolInv, ListedInv, backend = "vagrant", NEW q \in Commands,
         id[q] \in Ids, pc[q] \in Ended \cup {"start"}
  PROVE  Still(q) \/ id[q] \in existing_cluster_ids
<1>1. ASSUME NEW m \in MachinesOf(q), power[m] = "on"
      PROVE  id[q] \in existing_cluster_ids
<2>1. m \in Running(id[q])
  BY <1>1, MachineFacts DEF ListedInv, VmInv, Running, IdOf
<2>. QED
  BY <2>1 DEF existing_cluster_ids
<1>. QED
  BY <1>1 DEF Still

\* What no step changes.
LEMMA Constant ==
  ASSUME TypeOK, ToolInv, [Next]_vars
  PROVE  /\ backend' = backend /\ kind' = kind /\ raced \subseteq raced'
         /\ \A q \in Commands : kind[q] = "create" => id'[q] = id[q]
<1> DEFINE Same == /\ backend' = backend /\ kind' = kind /\ raced \subseteq raced'
                   /\ \A q \in Commands : kind[q] = "create" => id'[q] = id[q]
<1> USE DEF args, command, history
<1>1. ASSUME NEW p \in Commands, Begin(p) PROVE Same
  BY <1>1 DEF Begin
<1>2. ASSUME NEW p \in Commands, NotUnique(p) PROVE Same
  BY <1>2 DEF NotUnique
<1>3. ASSUME NEW p \in Commands, Import(p) PROVE Same
  BY <1>3 DEF Import
<1>4. ASSUME NEW p \in Commands, Describe(p) PROVE Same
  BY <1>4 DEF Describe
<1>5. ASSUME NEW p \in Commands, Boot(p) PROVE Same
  BY <1>5 DEF Boot
<1>6. ASSUME NEW p \in Commands, BootFails(p) PROVE Same
  BY <1>6 DEF BootFails
<1>7. ASSUME NEW p \in Commands, RequestStack(p) PROVE Same
  BY <1>7 DEF RequestStack
<1>8. ASSUME NEW p \in Commands, NameIsTaken(p) PROVE Same
  BY <1>8 DEF NameIsTaken
<1>9. ASSUME NEW p \in Commands, Waited(p) PROVE Same
  BY <1>9 DEF Waited
<1>10. ASSUME NEW p \in Commands, Tag(p) PROVE Same
  BY <1>10 DEF Tag
<1>11. ASSUME NEW p \in Commands, Provisioned(p) PROVE Same
  BY <1>11 DEF Provisioned
<1>12. ASSUME NEW p \in Commands, BeginInstall(p) PROVE Same
  BY <1>12 DEF BeginInstall
<1>13. ASSUME NEW p \in Commands, Installed(p) PROVE Same
  BY <1>13 DEF Installed
<1>14. ASSUME NEW p \in Commands, InstallFails(p) PROVE Same
  BY <1>14 DEF InstallFails
<1>15. ASSUME NEW p \in Commands, CheckExists(p) PROVE Same
  BY <1>15 DEF CheckExists
<1>16. ASSUME NEW p \in Commands, NextCluster(p) PROVE Same
  BY <1>16, IdKept DEF NextCluster
<1>17. ASSUME NEW p \in Commands, ListEnds(p) PROVE Same
  BY <1>17 DEF ListEnds
<1>18. ASSUME NEW p \in Commands, Names(p) PROVE Same
  BY <1>18 DEF Names
<1>19. ASSUME NEW p \in Commands, NoNames(p) PROVE Same
  BY <1>19 DEF NoNames
<1>20. ASSUME NEW p \in Commands, DestroyVm(p) PROVE Same
  BY <1>20 DEF DestroyVm
<1>21. ASSUME NEW p \in Commands, VmsDestroyed(p) PROVE Same
  BY <1>21 DEF VmsDestroyed
<1>22. ASSUME NEW p \in Commands, RemoveWorkspace(p) PROVE Same
  BY <1>22 DEF RemoveWorkspace
<1>23. ASSUME NEW p \in Commands, ListInstances(p) PROVE Same
  BY <1>23 DEF ListInstances
<1>24. ASSUME NEW p \in Commands, NoInstances(p) PROVE Same
  BY <1>24 DEF NoInstances
<1>25. ASSUME NEW p \in Commands, Delete(p) PROVE Same
  BY <1>25 DEF Delete
<1>26. ASSUME NEW p \in Commands, DeletedBefore(p) PROVE Same
  BY <1>26 DEF DeletedBefore
<1>27. ASSUME NEW p \in Commands, DeleteWaited(p) PROVE Same
  BY <1>27 DEF DeleteWaited
<1>28. ASSUME NEW p \in Commands, ReadRunning(p) PROVE Same
  BY <1>28 DEF ReadRunning
<1>29. ASSUME NEW p \in Commands, ReadAll(p) PROVE Same
  BY <1>29 DEF ReadAll
<1>30. ASSUME NEW p \in Commands, CleanEnds(p) PROVE Same
  BY <1>30 DEF CleanEnds
<1>31. ASSUME NEW p \in Commands, Unregister(p) PROVE Same
  BY <1>31 DEF Unregister
<1>32. ASSUME NEW p \in Commands, UnregisterFails(p) PROVE Same
  BY <1>32 DEF UnregisterFails
<1>33. ASSUME NEW p \in Commands, Stops(p) PROVE Same
  BY <1>33 DEF Stops
<1>34. ASSUME NEW p \in Commands, StackComplete(p) PROVE Same
  BY <1>34 DEF StackComplete
<1>35. ASSUME NEW p \in Commands, StackFails(p) PROVE Same
  BY <1>35 DEF StackFails
<1>36. ASSUME NEW p \in Commands, StackDeleted(p) PROVE Same
  BY <1>36 DEF StackDeleted
<1>37. ASSUME NEW p \in Commands, DeletionFails(p) PROVE Same
  BY <1>37 DEF DeletionFails
<1>38. ASSUME NEW m \in Machines, Launch(m) PROVE Same
  BY <1>38 DEF Launch
<1>39. ASSUME NEW m \in Machines, Terminate(m) PROVE Same
  BY <1>39 DEF Terminate
<1>40. ASSUME Reboot PROVE Same
  BY <1>40 DEF Reboot
<1>41. CASE UNCHANGED vars
  BY <1>41 DEF vars
<1>. QED
  BY <1>1, <1>2, <1>3, <1>4, <1>5, <1>6, <1>7, <1>8, <1>9, <1>10, <1>11,
    <1>12, <1>13, <1>14, <1>15, <1>16, <1>17, <1>18, <1>19, <1>20, <1>21,
    <1>22, <1>23, <1>24, <1>25, <1>26, <1>27, <1>28, <1>29, <1>30, <1>31,
    <1>32, <1>33, <1>34, <1>35, <1>36, <1>37, <1>38, <1>39, <1>40, <1>41
  DEF Next, Create, Destroy, Clean, CloudFormation, AllEnded

\* Nothing of a cluster starts to run but what its own create boots.
LEMMA StillStays ==
  ASSUME TypeOK, ToolInv, [Next]_vars, backend = "vagrant",
         NEW q \in Commands, kind[q] = "create", Still(q)
  PROVE  Begin(q) \/ (Still(q)' /\ (pc[q] \in Ended => pc'[q] = pc[q]))
<1> DEFINE Stays == Begin(q) \/ (Still(q)' /\ (pc[q] \in Ended => pc'[q] = pc[q]))
<1> USE MachineFacts DEF TypeOK, ToolInv, Still, Ended, OthersOnly, At, Goto, args,
      command, machines, history, bounds, Backends, Roles
<1>1. ASSUME NEW p \in Commands, Begin(p) PROVE Stays
<2>1. CASE p = q
  BY <1>1, <2>1
<2>2. CASE p # q
<3>1. UNCHANGED power /\ pc'[q] = pc[q]
  BY <1>1, <2>2 DEF Begin
<3>. QED
  BY <3>1
<2>. QED
  BY <2>1, <2>2
<1>2. ASSUME NEW p \in Commands, NotUnique(p) PROVE Stays
  BY <1>2 DEF NotUnique
<1>3. ASSUME NEW p \in Commands, Import(p) PROVE Stays
  BY <1>3 DEF Import, Machines, MachinesOf
<1>4. ASSUME NEW p \in Commands, Describe(p) PROVE Stays
  BY <1>4 DEF Describe
<1>5. ASSUME NEW p \in Commands, Boot(p) PROVE Stays
  BY <1>5 DEF Boot, Machines, MachinesOf
<1>6. ASSUME NEW p \in Commands, BootFails(p) PROVE Stays
  BY <1>6 DEF BootFails
<1>7. ASSUME NEW p \in Commands, RequestStack(p) PROVE Stays
  BY <1>7 DEF RequestStack
<1>8. ASSUME NEW p \in Commands, NameIsTaken(p) PROVE Stays
  BY <1>8 DEF NameIsTaken
<1>9. ASSUME NEW p \in Commands, Waited(p) PROVE Stays
  BY <1>9 DEF Waited
<1>10. ASSUME NEW p \in Commands, Tag(p) PROVE Stays
  BY <1>10 DEF Tag
<1>11. ASSUME NEW p \in Commands, Provisioned(p) PROVE Stays
  BY <1>11 DEF Provisioned
<1>12. ASSUME NEW p \in Commands, BeginInstall(p) PROVE Stays
  BY <1>12 DEF BeginInstall
<1>13. ASSUME NEW p \in Commands, Installed(p) PROVE Stays
  BY <1>13 DEF Installed
<1>14. ASSUME NEW p \in Commands, InstallFails(p) PROVE Stays
  BY <1>14 DEF InstallFails
<1>15. ASSUME NEW p \in Commands, CheckExists(p) PROVE Stays
  BY <1>15 DEF CheckExists
<1>16. ASSUME NEW p \in Commands, NextCluster(p) PROVE Stays
  BY <1>16 DEF NextCluster
<1>17. ASSUME NEW p \in Commands, ListEnds(p) PROVE Stays
  BY <1>17 DEF ListEnds
<1>18. ASSUME NEW p \in Commands, Names(p) PROVE Stays
  BY <1>18 DEF Names
<1>19. ASSUME NEW p \in Commands, NoNames(p) PROVE Stays
  BY <1>19 DEF NoNames
<1>20. ASSUME NEW p \in Commands, DestroyVm(p) PROVE Stays
  BY <1>20 DEF DestroyVm
<1>21. ASSUME NEW p \in Commands, VmsDestroyed(p) PROVE Stays
  BY <1>21 DEF VmsDestroyed
<1>22. ASSUME NEW p \in Commands, RemoveWorkspace(p) PROVE Stays
  BY <1>22 DEF RemoveWorkspace
<1>23. ASSUME NEW p \in Commands, ListInstances(p) PROVE Stays
  BY <1>23 DEF ListInstances
<1>24. ASSUME NEW p \in Commands, NoInstances(p) PROVE Stays
  BY <1>24 DEF NoInstances
<1>25. ASSUME NEW p \in Commands, Delete(p) PROVE Stays
  BY <1>25 DEF Delete
<1>26. ASSUME NEW p \in Commands, DeletedBefore(p) PROVE Stays
  BY <1>26 DEF DeletedBefore
<1>27. ASSUME NEW p \in Commands, DeleteWaited(p) PROVE Stays
  BY <1>27 DEF DeleteWaited
<1>28. ASSUME NEW p \in Commands, ReadRunning(p) PROVE Stays
  BY <1>28 DEF ReadRunning
<1>29. ASSUME NEW p \in Commands, ReadAll(p) PROVE Stays
  BY <1>29 DEF ReadAll
<1>30. ASSUME NEW p \in Commands, CleanEnds(p) PROVE Stays
  BY <1>30 DEF CleanEnds
<1>31. ASSUME NEW p \in Commands, Unregister(p) PROVE Stays
  BY <1>31 DEF Unregister
<1>32. ASSUME NEW p \in Commands, UnregisterFails(p) PROVE Stays
  BY <1>32 DEF UnregisterFails
<1>33. ASSUME NEW p \in Commands, Stops(p) PROVE Stays
  BY <1>33 DEF Stops, Active
<1>34. ASSUME NEW p \in Commands, StackComplete(p) PROVE Stays
  BY <1>34 DEF StackComplete
<1>35. ASSUME NEW p \in Commands, StackFails(p) PROVE Stays
  BY <1>35 DEF StackFails
<1>36. ASSUME NEW p \in Commands, StackDeleted(p) PROVE Stays
  BY <1>36 DEF StackDeleted
<1>37. ASSUME NEW p \in Commands, DeletionFails(p) PROVE Stays
  BY <1>37 DEF DeletionFails
<1>38. ASSUME NEW m \in Machines, Launch(m) PROVE Stays
  BY <1>38 DEF Launch
<1>39. ASSUME NEW m \in Machines, Terminate(m) PROVE Stays
  BY <1>39 DEF Terminate
<1>40. ASSUME Reboot PROVE Stays
  BY <1>40 DEF Reboot, Active
<1>41. CASE UNCHANGED vars
  BY <1>41 DEF vars
<1>. QED
  BY <1>1, <1>2, <1>3, <1>4, <1>5, <1>6, <1>7, <1>8, <1>9, <1>10, <1>11,
    <1>12, <1>13, <1>14, <1>15, <1>16, <1>17, <1>18, <1>19, <1>20, <1>21,
    <1>22, <1>23, <1>24, <1>25, <1>26, <1>27, <1>28, <1>29, <1>30, <1>31,
    <1>32, <1>33, <1>34, <1>35, <1>36, <1>37, <1>38, <1>39, <1>40, <1>41
  DEF Next, Create, Destroy, Clean, CloudFormation, AllEnded

LEMMA BeginRaces ==
  ASSUME TypeOK, ToolInv, ListedInv, backend = "vagrant",
         NEW p \in Commands, NEW q \in Commands, p # q, Begin(p),
         kind[q] = "create", id[p] = id[q], id[q] \in Ids
  PROVE  (p \in raced' /\ q \in raced') \/ Still(q)'
<1>1. CASE Active(q)
<2>1. q \in {r \in Commands \ {p} : Active(r) /\ id[p] \in About(r)}
  BY <1>1 DEF About
<2>2. Creating(q)
  BY <1>1 DEF Creating
<2>. QED
  BY <2>1, <2>2 DEF Begin
<1>2. CASE ~ Active(q)
<2>1. id[q] \notin existing_cluster_ids
  BY DEF Begin
<2>2. Still(q)
  BY <1>2, <2>1, StillOrListed DEF Active
<2>. QED
  BY <2>2 DEF Begin, Still, Goto, machines, TypeOK
<1>. QED
  BY <1>1, <1>2

\* The IDs of creates are IDs.
IdInv == \A p \in Commands : kind[p] = "create" => id[p] \in Ids

LEMMA IdStep ==
  ASSUME TypeOK, ToolInv, IdInv, [Next]_vars
  PROVE  IdInv'
  BY Constant DEF IdInv

LEMMA RaceStep ==
  ASSUME TypeOK, ToolInv, ListedInv, IdInv, RaceInv, [Next]_vars
  PROVE  RaceInv'
<1> SUFFICES ASSUME backend = "vagrant", NEW p \in Commands, NEW q \in Commands,
                    p # q, kind[p] = "create", kind[q] = "create", id[p] = id[q]
             PROVE  (p \in raced' /\ q \in raced') \/ Still(p)' \/ Still(q)'
  BY Constant DEF RaceInv
<1>1. CASE p \in raced /\ q \in raced
  BY <1>1, Constant
<1>2. CASE Still(p)
  BY <1>2, StillStays, BeginRaces DEF IdInv
<1>3. CASE Still(q)
  BY <1>3, StillStays, BeginRaces DEF IdInv
<1>. QED
  BY <1>1, <1>2, <1>3 DEF RaceInv

\* The machines that run under one ID are of one cluster, unless creates race.
THEOREM OneCluster == Spec => []OneClusterPerId
<1> DEFINE Inv == /\ TypeOK /\ ToolInv /\ ListedInv /\ IdInv
                  /\ StackInv /\ RaceInv
<1>1. Init => Inv
  BY TypeInit, ToolInit, ListedInit, StackInit, CloudAssumption
  DEF Init, IdInv
<1>2. Inv /\ [Next]_vars => Inv'
  BY TypeStep, ToolStep, ListedStep, IdStep, StackStep, RaceStep
<1>3. Inv => OneClusterPerId
<2> SUFFICES ASSUME Inv, NEW i \in Ids, NEW m \in Running(i), NEW n \in Running(i),
                    m[1] # n[1]
             PROVE  backend = "vagrant" /\ m[1] \in raced /\ n[1] \in raced
  BY DEF OneClusterPerId
<2>1. /\ m \in Machines /\ power[m] = "on" /\ m[1] \in Commands
      /\ n \in Machines /\ power[n] = "on" /\ n[1] \in Commands
      /\ id[m[1]] = id[n[1]]
  BY MachineFacts DEF Running, IdOf, TypeOK
<2>2. backend = "vagrant"
  BY <2>1 DEF StackInv, TypeOK, Backends
<2>3. ~ Still(m[1]) /\ ~ Still(n[1])
  BY <2>1, MachineFacts DEF Still
<2>4. kind[m[1]] = "create" /\ kind[n[1]] = "create"
  BY <2>1 DEF ToolInv
<2>. QED
  BY <2>1, <2>2, <2>3, <2>4 DEF RaceInv
<1>. QED
  BY <1>1, <1>2, <1>3, PTL DEF Spec

-----------------------------------------------------------------------------
(* Clean.  A VM that it will remove is of a cluster that was being created  *)
(* while it listed, or of one of which nothing runs any more.               *)

Gone(q) == pc[q] \in Ended /\ \A m \in MachinesOf(q) : power[m] # "on"

CleanInv ==
  \A p \in Commands :
    /\ backend = "aws" => stale[p] = {} /\ kind[p] \notin {"clean", "clean-all"}
    /\ pc[p] = "all" => kind[p] \in {"clean", "clean-all"}
    /\ pc[p] \in {"start", "all"} => stale[p] = {}
    /\ pc[p] = "all" => \A q \in Commands :
         kind[q] = "create" =>
           q \in building[p] \/ id[q] \in todo[p] \/ Still(q)
    /\ \A m \in stale[p] :
         kind[m[1]] = "create" /\ (m[1] \in building[p] \/ Gone(m[1]))

LEMMA CleanInit ==
  ASSUME Init
  PROVE  CleanInv
  BY DEF Init, CleanInv

\* Steps that are not about the lists of clean.
LEMMA CleanKept ==
  ASSUME TypeOK, ToolInv, CleanInv, [Next]_vars, stale' = stale,
         \A p \in Commands :
           /\ building[p] \subseteq building'[p]
           /\ pc'[p] # pc[p] => pc'[p] \notin {"start", "all"}
           /\ pc'[p] = "all" => todo'[p] = todo[p]
           /\ pc'[p] = "all" => \A q \in Commands :
                pc[q] = "start" /\ pc'[q] \in {"import", "stack"} =>
                  q \in building'[p]
  PROVE  CleanInv'
<1> SUFFICES ASSUME NEW p \in Commands
             PROVE
    /\ backend' = "aws" => stale'[p] = {} /\ kind'[p] \notin {"clean", "clean-all"}
    /\ pc'[p] = "all" => kind'[p] \in {"clean", "clean-all"}
    /\ pc'[p] \in {"start", "all"} => stale'[p] = {}
    /\ pc'[p] = "all" => \A q \in Commands :
         kind'[q] = "create" =>
           q \in building'[p] \/ id'[q] \in todo'[p] \/ Still(q)'
    /\ \A m \in stale'[p] :
         kind'[m[1]] = "create" /\ (m[1] \in building'[p] \/ Gone(m[1])')
  BY DEF CleanInv
<1>1. /\ backend' = "aws" => stale'[p] = {} /\ kind'[p] \notin {"clean", "clean-all"}
      /\ pc'[p] = "all" => kind'[p] \in {"clean", "clean-all"}
      /\ pc'[p] \in {"start", "all"} => stale'[p] = {}
  BY Constant DEF CleanInv
<1>2. ASSUME pc'[p] = "all", NEW q \in Commands, kind'[q] = "create"
      PROVE  q \in building'[p] \/ id'[q] \in todo'[p] \/ Still(q)'
<2>1. backend = "vagrant" /\ pc[p] = "all" /\ kind[q] = "create" /\ id'[q] = id[q]
  BY <1>2, Constant DEF CleanInv, TypeOK, Backends
<2>2. Begin(q) => pc[q] = "start" /\ pc'[q] \in {"import", "stack"}
  BY DEF Begin, At, Goto, TypeOK
<2>. QED
  BY <1>2, <2>1, <2>2, StillStays DEF CleanInv
<1>3. ASSUME NEW m \in stale'[p]
      PROVE  kind'[m[1]] = "create" /\ (m[1] \in building'[p] \/ Gone(m[1])')
<2>1. m \in stale[p] /\ m[1] \in Commands /\ kind[m[1]] = "create"
  BY <1>3, MachineFacts DEF CleanInv, TypeOK
<2>2. backend = "vagrant"
  BY <2>1 DEF CleanInv, TypeOK, Backends
<2>3. CASE m[1] \in building[p]
  BY <2>1, <2>3, Constant
<2>4. CASE Gone(m[1])
<3>1. Still(m[1]) /\ pc[m[1]] \in Ended
  BY <2>4 DEF Gone, Still
<3>2. ~ Begin(m[1])
  BY <3>1 DEF Begin, At, Ended
<3>3. Gone(m[1])'
  BY <2>1, <2>2, <3>1, <3>2, StillStays DEF Gone, Still
<3>. QED
  BY <2>1, <3>3, Constant
<2>. QED
  BY <2>1, <2>3, <2>4 DEF CleanInv
<1>. QED
  BY <1>1, <1>2, <1>3

LEMMA CleanReads ==
  ASSUME TypeOK, ToolInv, ListedInv, IdInv, CleanInv, [Next]_vars,
         NEW p \in Commands, ReadRunning(p)
  PROVE  CleanInv'
<1> USE DEF At, Goto, args, command, machines, history, bounds
<1>1. backend = "vagrant" /\ kind[p] # "create"
  BY DEF ReadRunning, CleanInv, TypeOK, Backends
<1>2. /\ UNCHANGED <<backend, kind, id, power, stale>>
      /\ pc' = [pc EXCEPT ![p] = "all"]
      /\ todo' = [todo EXCEPT ![p] = existing_cluster_ids]
      /\ building' = [building EXCEPT ![p] = {q \in Commands : Creating(q)}]
      /\ pc[p] = "start" /\ kind[p] \in {"clean", "clean-all"}
  BY DEF ReadRunning
<1>3. ASSUME NEW q \in Commands, kind[q] = "create"
      PROVE  q \in building'[p] \/ id'[q] \in todo'[p] \/ Still(q)'
<2>1. CASE Active(q)
  BY <1>2, <1>3, <2>1 DEF Creating, TypeOK
<2>2. CASE ~ Active(q)
<3>1. Still(q) \/ id[q] \in existing_cluster_ids
  BY <1>1, <1>3, <2>2, StillOrListed DEF Active, IdInv
<3>2. pc'[q] = pc[q]
  BY <1>1, <1>2, <1>3 DEF TypeOK
<3>. QED
  BY <1>2, <3>1, <3>2 DEF Still, TypeOK
<2>. QED
  BY <2>1, <2>2
<1>4. ASSUME NEW r \in Commands, r # p
      PROVE  pc'[r] = pc[r] /\ todo'[r] = todo[r] /\ building'[r] = building[r]
  BY <1>2, <1>4 DEF TypeOK
<1>5. ASSUME NEW q \in Commands, kind[q] = "create"
      PROVE  (Still(q) => Still(q)') /\ (Gone(q) => Gone(q)')
  BY <1>1, <1>4, <1>5, <1>2 DEF Still, Gone
<1>6. stale[p] = {} /\ pc'[p] = "all"
  BY <1>2 DEF CleanInv, TypeOK
<1>7. ASSUME NEW r \in Commands, NEW m \in stale'[r]
      PROVE  kind'[m[1]] = "create" /\ (m[1] \in building'[r] \/ Gone(m[1])')
<2>1. r # p /\ m \in stale[r] /\ m[1] \in Commands
  BY <1>2, <1>6, <1>7, MachineFacts DEF TypeOK
<2>. QED
  BY <2>1, <1>2, <1>4, <1>5 DEF CleanInv
<1>8. ASSUME NEW r \in Commands, pc'[r] = "all", NEW q \in Commands,
             kind'[q] = "create"
      PROVE  q \in building'[r] \/ id'[q] \in todo'[r] \/ Still(q)'
<2>1. CASE r = p
  BY <1>2, <1>3, <1>8, <2>1
<2>2. CASE r # p
  BY <1>2, <1>4, <1>5, <1>8, <2>2 DEF CleanInv
<2>. QED
  BY <2>1, <2>2
<1>9. ASSUME NEW r \in Commands
      PROVE  /\ backend' = "aws" => stale'[r] = {} /\ kind'[r] \notin {"clean", "clean-all"}
             /\ pc'[r] = "all" => kind'[r] \in {"clean", "clean-all"}
             /\ pc'[r] \in {"start", "all"} => stale'[r] = {}
  BY <1>2, <1>4, <1>6 DEF CleanInv
<1>. QED
  BY <1>7, <1>8, <1>9 DEF CleanInv

LEMMA CleanReadsAll ==
  ASSUME TypeOK, ToolInv, CleanInv, NEW p \in Commands, ReadAll(p)
  PROVE  CleanInv'
<1> USE DEF At, Goto, args, command, machines, history, bounds
<1>1. /\ UNCHANGED <<backend, kind, id, power, todo, building, marked>>
      /\ pc' = [pc EXCEPT ![p] = IF kind[p] = "clean-all" THEN "list" ELSE "unregister"]
      /\ stale' = [stale EXCEPT ![p] = {m \in marked : IdOf(m) \notin todo[p]}]
      /\ pc[p] = "all"
  BY DEF ReadAll
<1>2. backend = "vagrant" /\ kind[p] # "create"
  BY <1>1 DEF CleanInv, TypeOK, Backends
<1>3. ASSUME NEW r \in Commands, r # p
      PROVE  pc'[r] = pc[r] /\ stale'[r] = stale[r]
  BY <1>1, <1>3 DEF TypeOK
<1>4. ASSUME NEW q \in Commands, kind[q] = "create"
      PROVE  (Still(q) => Still(q)') /\ (Gone(q) => Gone(q)')
  BY <1>1, <1>2, <1>3, <1>4 DEF Still, Gone
<1>5. ASSUME NEW m \in stale'[p]
      PROVE  kind'[m[1]] = "create" /\ (m[1] \in building'[p] \/ Gone(m[1])')
<2>1. m \in Machines /\ m \in marked /\ m[1] \in Commands /\ id[m[1]] \notin todo[p]
  BY <1>1, <1>5, MachineFacts DEF TypeOK, IdOf
<2>2. kind[m[1]] = "create" /\ pc[m[1]] # "start"
  BY <2>1 DEF ToolInv
<2>3. m[1] \in building[p] \/ Still(m[1])
  BY <1>1, <2>1, <2>2 DEF CleanInv
<2>4. Still(m[1]) => Gone(m[1])
  BY <2>2 DEF Still, Gone
<2>. QED
  BY <1>1, <1>4, <2>1, <2>2, <2>3, <2>4
<1>6. ASSUME NEW r \in Commands, NEW m \in stale'[r]
      PROVE  kind'[m[1]] = "create" /\ (m[1] \in building'[r] \/ Gone(m[1])')
<2>1. CASE r = p
  BY <1>5, <1>6, <2>1
<2>2. CASE r # p
<3>1. m \in stale[r] /\ m[1] \in Commands
  BY <1>3, <1>6, <2>2, MachineFacts DEF TypeOK
<3>. QED
  BY <1>1, <1>4, <3>1 DEF CleanInv
<2>. QED
  BY <2>1, <2>2
<1>7. pc'[p] \notin {"start", "all"}
  BY <1>1 DEF TypeOK
<1>8. ASSUME NEW r \in Commands, pc'[r] = "all", NEW q \in Commands,
             kind'[q] = "create"
      PROVE  q \in building'[r] \/ id'[q] \in todo'[r] \/ Still(q)'
  BY <1>1, <1>3, <1>4, <1>7, <1>8 DEF CleanInv
<1>9. ASSUME NEW r \in Commands
      PROVE  /\ backend' = "aws" => stale'[r] = {} /\ kind'[r] \notin {"clean", "clean-all"}
             /\ pc'[r] = "all" => kind'[r] \in {"clean", "clean-all"}
             /\ pc'[r] \in {"start", "all"} => stale'[r] = {}
  BY <1>1, <1>2, <1>3, <1>7 DEF CleanInv
<1>. QED
  BY <1>6, <1>8, <1>9 DEF CleanInv

LEMMA CleanUnregisters ==
  ASSUME TypeOK, ToolInv, CleanInv, [Next]_vars, NEW p \in Commands, Unregister(p)
  PROVE  CleanInv'
<1> USE DEF At, Goto, args, command, machines, history, bounds
<1>1. /\ UNCHANGED <<backend, kind, id, pc, todo, building>>
      /\ pc[p] = "unregister"
      /\ \A r \in Commands : stale'[r] \subseteq stale[r]
      /\ \A m \in Machines : power'[m] = "on" => power[m] = "on"
  BY DEF Unregister, TypeOK
<1>2. ASSUME NEW q \in Commands
      PROVE  (Still(q) => Still(q)') /\ (Gone(q) => Gone(q)')
  BY <1>1, MachineFacts DEF Still, Gone
<1>3. ASSUME NEW r \in Commands, NEW m \in stale'[r]
      PROVE  kind'[m[1]] = "create" /\ (m[1] \in building'[r] \/ Gone(m[1])')
<2>1. m \in stale[r] /\ m[1] \in Commands
  BY <1>1, <1>3, MachineFacts DEF TypeOK
<2>. QED
  BY <1>1, <1>2, <2>1 DEF CleanInv
<1>4. ASSUME NEW r \in Commands, pc'[r] = "all", NEW q \in Commands,
             kind'[q] = "create"
      PROVE  q \in building'[r] \/ id'[q] \in todo'[r] \/ Still(q)'
  BY <1>1, <1>2, <1>4 DEF CleanInv
<1>5. ASSUME NEW r \in Commands
      PROVE  /\ backend' = "aws" => stale'[r] = {} /\ kind'[r] \notin {"clean", "clean-all"}
             /\ pc'[r] = "all" => kind'[r] \in {"clean", "clean-all"}
             /\ pc'[r] \in {"start", "all"} => stale'[r] = {}
  BY <1>1 DEF CleanInv
<1>. QED
  BY <1>3, <1>4, <1>5 DEF CleanInv

LEMMA CleanStep ==
  ASSUME TypeOK, ToolInv, ListedInv, IdInv, CleanInv, [Next]_vars
  PROVE  CleanInv'
<1> DEFINE Kept ==
      /\ stale' = stale
      /\ \A p \in Commands :
           /\ building[p] \subseteq building'[p]
           /\ pc'[p] # pc[p] => pc'[p] \notin {"start", "all"}
           /\ pc'[p] = "all" => todo'[p] = todo[p]
           /\ pc'[p] = "all" => \A q \in Commands :
                pc[q] = "start" /\ pc'[q] \in {"import", "stack"} =>
                  q \in building'[p]
<1> USE DEF TypeOK, At, Goto, args, command, machines, history, bounds
<1>0. Kept => CleanInv'
  BY CleanKept
<1> USE <1>0
<1>1. ASSUME NEW p \in Commands, Begin(p) PROVE CleanInv'
  BY <1>1 DEF Begin
<1>2. ASSUME NEW p \in Commands, NotUnique(p) PROVE CleanInv'
  BY <1>2 DEF NotUnique
<1>3. ASSUME NEW p \in Commands, Import(p) PROVE CleanInv'
  BY <1>3 DEF Import
<1>4. ASSUME NEW p \in Commands, Describe(p) PROVE CleanInv'
  BY <1>4 DEF Describe
<1>5. ASSUME NEW p \in Commands, Boot(p) PROVE CleanInv'
  BY <1>5 DEF Boot
<1>6. ASSUME NEW p \in Commands, BootFails(p) PROVE CleanInv'
  BY <1>6 DEF BootFails
<1>7. ASSUME NEW p \in Commands, RequestStack(p) PROVE CleanInv'
  BY <1>7 DEF RequestStack
<1>8. ASSUME NEW p \in Commands, NameIsTaken(p) PROVE CleanInv'
  BY <1>8 DEF NameIsTaken
<1>9. ASSUME NEW p \in Commands, Waited(p) PROVE CleanInv'
  BY <1>9 DEF Waited
<1>10. ASSUME NEW p \in Commands, Tag(p) PROVE CleanInv'
  BY <1>10 DEF Tag, AfterTagging, Roles
<1>11. ASSUME NEW p \in Commands, Provisioned(p) PROVE CleanInv'
  BY <1>11 DEF Provisioned
<1>12. ASSUME NEW p \in Commands, BeginInstall(p) PROVE CleanInv'
  BY <1>12 DEF BeginInstall
<1>13. ASSUME NEW p \in Commands, Installed(p) PROVE CleanInv'
  BY <1>13 DEF Installed
<1>14. ASSUME NEW p \in Commands, InstallFails(p) PROVE CleanInv'
  BY <1>14 DEF InstallFails
<1>15. ASSUME NEW p \in Commands, CheckExists(p) PROVE CleanInv'
  BY <1>15 DEF CheckExists
<1>16. ASSUME NEW p \in Commands, NextCluster(p) PROVE CleanInv'
  BY <1>16 DEF NextCluster
<1>17. ASSUME NEW p \in Commands, ListEnds(p) PROVE CleanInv'
  BY <1>17 DEF ListEnds
<1>18. ASSUME NEW p \in Commands, Names(p) PROVE CleanInv'
  BY <1>18 DEF Names, AfterNames
<1>19. ASSUME NEW p \in Commands, NoNames(p) PROVE CleanInv'
  BY <1>19 DEF NoNames
<1>20. ASSUME NEW p \in Commands, DestroyVm(p) PROVE CleanInv'
  BY <1>20 DEF DestroyVm
<1>21. ASSUME NEW p \in Commands, VmsDestroyed(p) PROVE CleanInv'
  BY <1>21 DEF VmsDestroyed
<1>22. ASSUME NEW p \in Commands, RemoveWorkspace(p) PROVE CleanInv'
  BY <1>22 DEF RemoveWorkspace, Return
<1>23. ASSUME NEW p \in Commands, ListInstances(p) PROVE CleanInv'
  BY <1>23 DEF ListInstances
<1>24. ASSUME NEW p \in Commands, NoInstances(p) PROVE CleanInv'
  BY <1>24 DEF NoInstances
<1>25. ASSUME NEW p \in Commands, Delete(p) PROVE CleanInv'
  BY <1>25 DEF Delete
<1>26. ASSUME NEW p \in Commands, DeletedBefore(p) PROVE CleanInv'
  BY <1>26 DEF DeletedBefore, Return
<1>27. ASSUME NEW p \in Commands, DeleteWaited(p) PROVE CleanInv'
  BY <1>27 DEF DeleteWaited, Return
<1>28. ASSUME NEW p \in Commands, ReadRunning(p) PROVE CleanInv'
  BY <1>28, CleanReads
<1>29. ASSUME NEW p \in Commands, ReadAll(p) PROVE CleanInv'
  BY <1>29, CleanReadsAll
<1>30. ASSUME NEW p \in Commands, CleanEnds(p) PROVE CleanInv'
  BY <1>30 DEF CleanEnds
<1>31. ASSUME NEW p \in Commands, Unregister(p) PROVE CleanInv'
  BY <1>31, CleanUnregisters
<1>32. ASSUME NEW p \in Commands, UnregisterFails(p) PROVE CleanInv'
  BY <1>32 DEF UnregisterFails
<1>33. ASSUME NEW p \in Commands, Stops(p) PROVE CleanInv'
  BY <1>33 DEF Stops
<1>34. ASSUME NEW p \in Commands, StackComplete(p) PROVE CleanInv'
  BY <1>34 DEF StackComplete
<1>35. ASSUME NEW p \in Commands, StackFails(p) PROVE CleanInv'
  BY <1>35 DEF StackFails
<1>36. ASSUME NEW p \in Commands, StackDeleted(p) PROVE CleanInv'
  BY <1>36 DEF StackDeleted
<1>37. ASSUME NEW p \in Commands, DeletionFails(p) PROVE CleanInv'
  BY <1>37 DEF DeletionFails
<1>38. ASSUME NEW m \in Machines, Launch(m) PROVE CleanInv'
  BY <1>38 DEF Launch
<1>39. ASSUME NEW m \in Machines, Terminate(m) PROVE CleanInv'
  BY <1>39 DEF Terminate
<1>40. ASSUME Reboot PROVE CleanInv'
  BY <1>40 DEF Reboot, Active, Ended
<1>41. CASE UNCHANGED vars
  BY <1>41 DEF vars
<1>. QED
  BY <1>1, <1>2, <1>3, <1>4, <1>5, <1>6, <1>7, <1>8, <1>9, <1>10, <1>11,
    <1>12, <1>13, <1>14, <1>15, <1>16, <1>17, <1>18, <1>19, <1>20, <1>21,
    <1>22, <1>23, <1>24, <1>25, <1>26, <1>27, <1>28, <1>29, <1>30, <1>31,
    <1>32, <1>33, <1>34, <1>35, <1>36, <1>37, <1>38, <1>39, <1>40, <1>41
  DEF Next, Create, Destroy, Clean, CloudFormation, AllEnded

\* Clean removes no VM of a cluster of which a VM runs, unless it was being
\* created while clean listed the VMs.
THEOREM CleanIsSafe == Spec => CleanSparesRunning
<1> DEFINE Inv == TypeOK /\ ToolInv /\ ListedInv /\ IdInv /\ CleanInv
           Spares == \A p \in Commands : \A m \in stale[p] \ stale'[p] :
                       \A n \in MachinesOf(m[1]) :
                         power[n] = "on" => m[1] \in building[p]
<1>1. Init => Inv
  BY TypeInit, ToolInit, ListedInit, CleanInit, CloudAssumption DEF Init, IdInv
<1>2. Inv /\ [Next]_vars => Inv'
  BY TypeStep, ToolStep, ListedStep, IdStep, CleanStep
<1>3. Inv => Spares
  BY DEF CleanInv, Gone
<1>4. Inv /\ [Next]_vars => [Spares]_vars
  BY <1>3
<1>. QED
  BY <1>1, <1>2, <1>4, PTL DEF Spec, CleanSparesRunning

-----------------------------------------------------------------------------
(* What is left of a cluster can be destroyed.                             *)

\* Who does what.
PathInv ==
  \A p \in Commands :
    /\ backend = "aws" => pc[p] \notin {"destroying", "rmtree"}
    /\ kind[p] = "clean" => pc[p] \in {"start", "all", "unregister"} \cup Ended

\* Vagrant: a VM has its workspace, which a destroy removes only when the VMs
\* that it has listed, all of that workspace, are gone.
WorkspaceInv ==
  backend = "vagrant" =>
    /\ \A m \in Machines :
         power[m] = "on" => m[1] \in workspace \cup struck
    /\ \A p \in Commands :
         pc[p] \in {"import", "describe", "boot"} => p \in workspace \cup struck

OwnerInv ==
  backend = "vagrant" =>
    \A p \in Commands :
      pc[p] \in {"install", "destroying", "rmtree"} /\ owner[p] \notin struck =>
        /\ pc[owner[p]] \notin {"start", "import", "describe", "boot"}
        /\ \A m \in MachinesOf(owner[p]) :
             power[m] = "on" => m \in left[p] /\ pc[p] # "rmtree"

\* AWS: the masters of a stack have their tags first, and only a deletion takes
\* instances out of a complete stack.
StackTagsInv ==
  backend = "aws" =>
    /\ \A p \in Commands \ struck :
         /\ stack[p] \notin {"deleting", "stuck"}
         /\ pc[p] \in Roles => stack[p] = "complete"
         /\ pc[p] \in {"agent", "public_agent"} => <<p, 1>> \in marked
    /\ \A m \in Machines : m[1] \notin struck =>
         /\ stack[m[1]] = "complete" => power[m] = "on"
         /\ m \in marked => stack[m[1]] = "complete" /\ <<m[1], 1>> \in marked

LEMMA ReachInit ==
  ASSUME Init
  PROVE  PathInv /\ WorkspaceInv /\ OwnerInv /\ StackTagsInv
  BY MachineFacts DEF Init, PathInv, WorkspaceInv, OwnerInv, StackTagsInv, Roles, Ended

LEMMA FirstMaster ==
  ASSUME NEW p \in Commands
  PROVE  /\ <<p, 1>> \in Machines /\ <<p, 1>> \in MachinesOf(p)
         /\ Role(<<p, 1>>) = "master"
  BY Sizes, CloudAssumption DEF Machines, MachinesOf, Role

LEMMA PathStep ==
  ASSUME TypeOK, ToolInv, PathInv, [Next]_vars
  PROVE  PathInv'
<1> USE MachineFacts DEF TypeOK, ToolInv, At, Goto, args, command, machines,
      history, bounds, Roles, Backends, Kinds, Ended, CreateOnly, OthersOnly,
      PathInv
<1>1. ASSUME NEW p \in Commands, Begin(p) PROVE PathInv'
  BY <1>1 DEF Begin, Creating, Active
<1>2. ASSUME NEW p \in Commands, NotUnique(p) PROVE PathInv'
  BY <1>2 DEF NotUnique
<1>3. ASSUME NEW p \in Commands, Import(p) PROVE PathInv'
  BY <1>3 DEF Import
<1>4. ASSUME NEW p \in Commands, Describe(p) PROVE PathInv'
  BY <1>4 DEF Describe
<1>5. ASSUME NEW p \in Commands, Boot(p) PROVE PathInv'
  BY <1>5 DEF Boot
<1>6. ASSUME NEW p \in Commands, BootFails(p) PROVE PathInv'
  BY <1>6 DEF BootFails
<1>7. ASSUME NEW p \in Commands, RequestStack(p) PROVE PathInv'
  BY <1>7 DEF RequestStack
<1>8. ASSUME NEW p \in Commands, NameIsTaken(p) PROVE PathInv'
  BY <1>8 DEF NameIsTaken
<1>9. ASSUME NEW p \in Commands, Waited(p) PROVE PathInv'
  BY <1>9 DEF Waited
<1>10. ASSUME NEW p \in Commands, Tag(p) PROVE PathInv'
  BY <1>10 DEF Tag, AfterTagging, Role
<1>11. ASSUME NEW p \in Commands, Provisioned(p) PROVE PathInv'
  BY <1>11 DEF Provisioned
<1>12. ASSUME NEW p \in Commands, BeginInstall(p) PROVE PathInv'
  BY <1>12 DEF BeginInstall
<1>13. ASSUME NEW p \in Commands, Installed(p) PROVE PathInv'
  BY <1>13 DEF Installed
<1>14. ASSUME NEW p \in Commands, InstallFails(p) PROVE PathInv'
  BY <1>14 DEF InstallFails
<1>15. ASSUME NEW p \in Commands, CheckExists(p) PROVE PathInv'
  BY <1>15 DEF CheckExists
<1>16. ASSUME NEW p \in Commands, NextCluster(p) PROVE PathInv'
  BY <1>16 DEF NextCluster
<1>17. ASSUME NEW p \in Commands, ListEnds(p) PROVE PathInv'
  BY <1>17 DEF ListEnds
<1>18. ASSUME NEW p \in Commands, Names(p) PROVE PathInv'
  BY <1>18 DEF Names, AfterNames, Running, IdOf, Creating, Active
<1>19. ASSUME NEW p \in Commands, NoNames(p) PROVE PathInv'
  BY <1>19 DEF NoNames
<1>20. ASSUME NEW p \in Commands, DestroyVm(p) PROVE PathInv'
  BY <1>20 DEF DestroyVm
<1>21. ASSUME NEW p \in Commands, VmsDestroyed(p) PROVE PathInv'
  BY <1>21 DEF VmsDestroyed
<1>22. ASSUME NEW p \in Commands, RemoveWorkspace(p) PROVE PathInv'
  BY <1>22 DEF RemoveWorkspace, Return
<1>23. ASSUME NEW p \in Commands, ListInstances(p) PROVE PathInv'
  BY <1>23 DEF ListInstances
<1>24. ASSUME NEW p \in Commands, NoInstances(p) PROVE PathInv'
  BY <1>24 DEF NoInstances
<1>25. ASSUME NEW p \in Commands, Delete(p) PROVE PathInv'
  BY <1>25 DEF Delete
<1>26. ASSUME NEW p \in Commands, DeletedBefore(p) PROVE PathInv'
  BY <1>26 DEF DeletedBefore, Return
<1>27. ASSUME NEW p \in Commands, DeleteWaited(p) PROVE PathInv'
  BY <1>27 DEF DeleteWaited, Return
<1>28. ASSUME NEW p \in Commands, ReadRunning(p) PROVE PathInv'
  BY <1>28 DEF ReadRunning
<1>29. ASSUME NEW p \in Commands, ReadAll(p) PROVE PathInv'
  BY <1>29 DEF ReadAll
<1>30. ASSUME NEW p \in Commands, CleanEnds(p) PROVE PathInv'
  BY <1>30 DEF CleanEnds
<1>31. ASSUME NEW p \in Commands, Unregister(p) PROVE PathInv'
  BY <1>31 DEF Unregister
<1>32. ASSUME NEW p \in Commands, UnregisterFails(p) PROVE PathInv'
  BY <1>32 DEF UnregisterFails
<1>33. ASSUME NEW p \in Commands, Stops(p) PROVE PathInv'
  BY <1>33 DEF Stops, Active
<1>34. ASSUME NEW p \in Commands, StackComplete(p) PROVE PathInv'
  BY <1>34 DEF StackComplete
<1>35. ASSUME NEW p \in Commands, StackFails(p) PROVE PathInv'
  BY <1>35 DEF StackFails
<1>36. ASSUME NEW p \in Commands, StackDeleted(p) PROVE PathInv'
  BY <1>36 DEF StackDeleted
<1>37. ASSUME NEW p \in Commands, DeletionFails(p) PROVE PathInv'
  BY <1>37 DEF DeletionFails
<1>38. ASSUME NEW m \in Machines, Launch(m) PROVE PathInv'
  BY <1>38 DEF Launch
<1>39. ASSUME NEW m \in Machines, Terminate(m) PROVE PathInv'
  BY <1>39 DEF Terminate
<1>40. ASSUME Reboot PROVE PathInv'
  BY <1>40 DEF Reboot, Active
<1>41. CASE UNCHANGED vars
  BY <1>41 DEF vars
<1>. QED
  BY <1>1, <1>2, <1>3, <1>4, <1>5, <1>6, <1>7, <1>8, <1>9, <1>10, <1>11,
    <1>12, <1>13, <1>14, <1>15, <1>16, <1>17, <1>18, <1>19, <1>20, <1>21,
    <1>22, <1>23, <1>24, <1>25, <1>26, <1>27, <1>28, <1>29, <1>30, <1>31,
    <1>32, <1>33, <1>34, <1>35, <1>36, <1>37, <1>38, <1>39, <1>40, <1>41
  DEF Next, Create, Destroy, Clean, CloudFormation, AllEnded

LEMMA WorkspaceStep ==
  ASSUME TypeOK, ToolInv, OwnerInv, WorkspaceInv, [Next]_vars
  PROVE  WorkspaceInv'
<1> USE MachineFacts DEF TypeOK, ToolInv, At, Goto, args, command, machines,
      history, bounds, Roles, Backends, Kinds, Ended, CreateOnly, OthersOnly,
      WorkspaceInv
<1>1. ASSUME NEW p \in Commands, Begin(p) PROVE WorkspaceInv'
  BY <1>1 DEF Begin, Creating, Active
<1>2. ASSUME NEW p \in Commands, NotUnique(p) PROVE WorkspaceInv'
  BY <1>2 DEF NotUnique
<1>3. ASSUME NEW p \in Commands, Import(p) PROVE WorkspaceInv'
  BY <1>3 DEF Import
<1>4. ASSUME NEW p \in Commands, Describe(p) PROVE WorkspaceInv'
  BY <1>4 DEF Describe
<1>5. ASSUME NEW p \in Commands, Boot(p) PROVE WorkspaceInv'
  BY <1>5 DEF Boot
<1>6. ASSUME NEW p \in Commands, BootFails(p) PROVE WorkspaceInv'
  BY <1>6 DEF BootFails
<1>7. ASSUME NEW p \in Commands, RequestStack(p) PROVE WorkspaceInv'
  BY <1>7 DEF RequestStack
<1>8. ASSUME NEW p \in Commands, NameIsTaken(p) PROVE WorkspaceInv'
  BY <1>8 DEF NameIsTaken
<1>9. ASSUME NEW p \in Commands, Waited(p) PROVE WorkspaceInv'
  BY <1>9 DEF Waited
<1>10. ASSUME NEW p \in Commands, Tag(p) PROVE WorkspaceInv'
  BY <1>10 DEF Tag, AfterTagging, Role
<1>11. ASSUME NEW p \in Commands, Provisioned(p) PROVE WorkspaceInv'
  BY <1>11 DEF Provisioned
<1>12. ASSUME NEW p \in Commands, BeginInstall(p) PROVE WorkspaceInv'
  BY <1>12 DEF BeginInstall
<1>13. ASSUME NEW p \in Commands, Installed(p) PROVE WorkspaceInv'
  BY <1>13 DEF Installed
<1>14. ASSUME NEW p \in Commands, InstallFails(p) PROVE WorkspaceInv'
  BY <1>14 DEF InstallFails
<1>15. ASSUME NEW p \in Commands, CheckExists(p) PROVE WorkspaceInv'
  BY <1>15 DEF CheckExists
<1>16. ASSUME NEW p \in Commands, NextCluster(p) PROVE WorkspaceInv'
  BY <1>16 DEF NextCluster
<1>17. ASSUME NEW p \in Commands, ListEnds(p) PROVE WorkspaceInv'
  BY <1>17 DEF ListEnds
<1>18. ASSUME NEW p \in Commands, Names(p) PROVE WorkspaceInv'
  BY <1>18 DEF Names, AfterNames, Running, IdOf, Creating, Active
<1>19. ASSUME NEW p \in Commands, NoNames(p) PROVE WorkspaceInv'
  BY <1>19 DEF NoNames
<1>20. ASSUME NEW p \in Commands, DestroyVm(p) PROVE WorkspaceInv'
  BY <1>20 DEF DestroyVm
<1>21. ASSUME NEW p \in Commands, VmsDestroyed(p) PROVE WorkspaceInv'
  BY <1>21 DEF VmsDestroyed
<1>22. ASSUME NEW p \in Commands, RemoveWorkspace(p) PROVE WorkspaceInv'
  BY <1>22 DEF RemoveWorkspace, Return, OwnerInv
<1>23. ASSUME NEW p \in Commands, ListInstances(p) PROVE WorkspaceInv'
  BY <1>23 DEF ListInstances
<1>24. ASSUME NEW p \in Commands, NoInstances(p) PROVE WorkspaceInv'
  BY <1>24 DEF NoInstances
<1>25. ASSUME NEW p \in Commands, Delete(p) PROVE WorkspaceInv'
  BY <1>25 DEF Delete
<1>26. ASSUME NEW p \in Commands, DeletedBefore(p) PROVE WorkspaceInv'
  BY <1>26 DEF DeletedBefore, Return
<1>27. ASSUME NEW p \in Commands, DeleteWaited(p) PROVE WorkspaceInv'
  BY <1>27 DEF DeleteWaited, Return
<1>28. ASSUME NEW p \in Commands, ReadRunning(p) PROVE WorkspaceInv'
  BY <1>28 DEF ReadRunning
<1>29. ASSUME NEW p \in Commands, ReadAll(p) PROVE WorkspaceInv'
  BY <1>29 DEF ReadAll
<1>30. ASSUME NEW p \in Commands, CleanEnds(p) PROVE WorkspaceInv'
  BY <1>30 DEF CleanEnds
<1>31. ASSUME NEW p \in Commands, Unregister(p) PROVE WorkspaceInv'
  BY <1>31 DEF Unregister
<1>32. ASSUME NEW p \in Commands, UnregisterFails(p) PROVE WorkspaceInv'
  BY <1>32 DEF UnregisterFails
<1>33. ASSUME NEW p \in Commands, Stops(p) PROVE WorkspaceInv'
  BY <1>33 DEF Stops, Active
<1>34. ASSUME NEW p \in Commands, StackComplete(p) PROVE WorkspaceInv'
  BY <1>34 DEF StackComplete
<1>35. ASSUME NEW p \in Commands, StackFails(p) PROVE WorkspaceInv'
  BY <1>35 DEF StackFails
<1>36. ASSUME NEW p \in Commands, StackDeleted(p) PROVE WorkspaceInv'
  BY <1>36 DEF StackDeleted
<1>37. ASSUME NEW p \in Commands, DeletionFails(p) PROVE WorkspaceInv'
  BY <1>37 DEF DeletionFails
<1>38. ASSUME NEW m \in Machines, Launch(m) PROVE WorkspaceInv'
  BY <1>38 DEF Launch
<1>39. ASSUME NEW m \in Machines, Terminate(m) PROVE WorkspaceInv'
  BY <1>39 DEF Terminate
<1>40. ASSUME Reboot PROVE WorkspaceInv'
  BY <1>40 DEF Reboot, Active
<1>41. CASE UNCHANGED vars
  BY <1>41 DEF vars
<1>. QED
  BY <1>1, <1>2, <1>3, <1>4, <1>5, <1>6, <1>7, <1>8, <1>9, <1>10, <1>11,
    <1>12, <1>13, <1>14, <1>15, <1>16, <1>17, <1>18, <1>19, <1>20, <1>21,
    <1>22, <1>23, <1>24, <1>25, <1>26, <1>27, <1>28, <1>29, <1>30, <1>31,
    <1>32, <1>33, <1>34, <1>35, <1>36, <1>37, <1>38, <1>39, <1>40, <1>41
  DEF Next, Create, Destroy, Clean, CloudFormation, AllEnded

LEMMA OwnerStep ==
  ASSUME TypeOK, ToolInv, ListedInv, OwnerInv, [Next]_vars
  PROVE  OwnerInv'
<1> USE MachineFacts DEF TypeOK, ToolInv, At, Goto, args, command, machines,
      history, bounds, Roles, Backends, Kinds, Ended, CreateOnly, OthersOnly,
      OwnerInv
<1>1. ASSUME NEW p \in Commands, Begin(p) PROVE OwnerInv'
  BY <1>1 DEF Begin, Creating, Active
<1>2. ASSUME NEW p \in Commands, NotUnique(p) PROVE OwnerInv'
  BY <1>2 DEF NotUnique
<1>3. ASSUME NEW p \in Commands, Import(p) PROVE OwnerInv'
  BY <1>3 DEF Import
<1>4. ASSUME NEW p \in Commands, Describe(p) PROVE OwnerInv'
  BY <1>4 DEF Describe
<1>5. ASSUME NEW p \in Commands, Boot(p) PROVE OwnerInv'
  BY <1>5 DEF Boot
<1>6. ASSUME NEW p \in Commands, BootFails(p) PROVE OwnerInv'
  BY <1>6 DEF BootFails
<1>7. ASSUME NEW p \in Commands, RequestStack(p) PROVE OwnerInv'
  BY <1>7 DEF RequestStack
<1>8. ASSUME NEW p \in Commands, NameIsTaken(p) PROVE OwnerInv'
  BY <1>8 DEF NameIsTaken
<1>9. ASSUME NEW p \in Commands, Waited(p) PROVE OwnerInv'
  BY <1>9 DEF Waited
<1>10. ASSUME NEW p \in Commands, Tag(p) PROVE OwnerInv'
  BY <1>10 DEF Tag, AfterTagging, Role
<1>11. ASSUME NEW p \in Commands, Provisioned(p) PROVE OwnerInv'
  BY <1>11 DEF Provisioned
<1>12. ASSUME NEW p \in Commands, BeginInstall(p) PROVE OwnerInv'
  BY <1>12 DEF BeginInstall
<1>13. ASSUME NEW p \in Commands, Installed(p) PROVE OwnerInv'
  BY <1>13 DEF Installed
<1>14. ASSUME NEW p \in Commands, InstallFails(p) PROVE OwnerInv'
  BY <1>14 DEF InstallFails
<1>15. ASSUME NEW p \in Commands, CheckExists(p) PROVE OwnerInv'
  BY <1>15 DEF CheckExists
<1>16. ASSUME NEW p \in Commands, NextCluster(p) PROVE OwnerInv'
  BY <1>16 DEF NextCluster
<1>17. ASSUME NEW p \in Commands, ListEnds(p) PROVE OwnerInv'
  BY <1>17 DEF ListEnds
<1>18. ASSUME NEW p \in Commands, Names(p) PROVE OwnerInv'
  BY <1>18 DEF Names, AfterNames, Running, IdOf, Creating, Active, ListedInv, VmInv
<1>19. ASSUME NEW p \in Commands, NoNames(p) PROVE OwnerInv'
  BY <1>19 DEF NoNames
<1>20. ASSUME NEW p \in Commands, DestroyVm(p) PROVE OwnerInv'
  BY <1>20 DEF DestroyVm
<1>21. ASSUME NEW p \in Commands, VmsDestroyed(p) PROVE OwnerInv'
  BY <1>21 DEF VmsDestroyed
<1>22. ASSUME NEW p \in Commands, RemoveWorkspace(p) PROVE OwnerInv'
  BY <1>22 DEF RemoveWorkspace, Return
<1>23. ASSUME NEW p \in Commands, ListInstances(p) PROVE OwnerInv'
  BY <1>23 DEF ListInstances
<1>24. ASSUME NEW p \in Commands, NoInstances(p) PROVE OwnerInv'
  BY <1>24 DEF NoInstances
<1>25. ASSUME NEW p \in Commands, Delete(p) PROVE OwnerInv'
  BY <1>25 DEF Delete
<1>26. ASSUME NEW p \in Commands, DeletedBefore(p) PROVE OwnerInv'
  BY <1>26 DEF DeletedBefore, Return
<1>27. ASSUME NEW p \in Commands, DeleteWaited(p) PROVE OwnerInv'
  BY <1>27 DEF DeleteWaited, Return
<1>28. ASSUME NEW p \in Commands, ReadRunning(p) PROVE OwnerInv'
  BY <1>28 DEF ReadRunning
<1>29. ASSUME NEW p \in Commands, ReadAll(p) PROVE OwnerInv'
  BY <1>29 DEF ReadAll
<1>30. ASSUME NEW p \in Commands, CleanEnds(p) PROVE OwnerInv'
  BY <1>30 DEF CleanEnds
<1>31. ASSUME NEW p \in Commands, Unregister(p) PROVE OwnerInv'
  BY <1>31 DEF Unregister
<1>32. ASSUME NEW p \in Commands, UnregisterFails(p) PROVE OwnerInv'
  BY <1>32 DEF UnregisterFails
<1>33. ASSUME NEW p \in Commands, Stops(p) PROVE OwnerInv'
  BY <1>33 DEF Stops, Active
<1>34. ASSUME NEW p \in Commands, StackComplete(p) PROVE OwnerInv'
  BY <1>34 DEF StackComplete
<1>35. ASSUME NEW p \in Commands, StackFails(p) PROVE OwnerInv'
  BY <1>35 DEF StackFails
<1>36. ASSUME NEW p \in Commands, StackDeleted(p) PROVE OwnerInv'
  BY <1>36 DEF StackDeleted
<1>37. ASSUME NEW p \in Commands, DeletionFails(p) PROVE OwnerInv'
  BY <1>37 DEF DeletionFails
<1>38. ASSUME NEW m \in Machines, Launch(m) PROVE OwnerInv'
  BY <1>38 DEF Launch
<1>39. ASSUME NEW m \in Machines, Terminate(m) PROVE OwnerInv'
  BY <1>39 DEF Terminate
<1>40. ASSUME Reboot PROVE OwnerInv'
  BY <1>40 DEF Reboot, Active
<1>41. CASE UNCHANGED vars
  BY <1>41 DEF vars
<1>. QED
  BY <1>1, <1>2, <1>3, <1>4, <1>5, <1>6, <1>7, <1>8, <1>9, <1>10, <1>11,
    <1>12, <1>13, <1>14, <1>15, <1>16, <1>17, <1>18, <1>19, <1>20, <1>21,
    <1>22, <1>23, <1>24, <1>25, <1>26, <1>27, <1>28, <1>29, <1>30, <1>31,
    <1>32, <1>33, <1>34, <1>35, <1>36, <1>37, <1>38, <1>39, <1>40, <1>41
  DEF Next, Create, Destroy, Clean, CloudFormation, AllEnded

LEMMA StackTagsStep ==
  ASSUME TypeOK, ToolInv, PathInv, CleanInv, TaggedInv, StackTagsInv, [Next]_vars
  PROVE  StackTagsInv'
<1> USE MachineFacts DEF TypeOK, ToolInv, At, Goto, args, command, machines,
      history, bounds, Roles, Backends, Kinds, Ended, CreateOnly, OthersOnly,
      StackTagsInv, PathInv, CleanInv
<1>1. ASSUME NEW p \in Commands, Begin(p) PROVE StackTagsInv'
  BY <1>1 DEF Begin, Creating, Active
<1>2. ASSUME NEW p \in Commands, NotUnique(p) PROVE StackTagsInv'
  BY <1>2 DEF NotUnique
<1>3. ASSUME NEW p \in Commands, Import(p) PROVE StackTagsInv'
  BY <1>3 DEF Import
<1>4. ASSUME NEW p \in Commands, Describe(p) PROVE StackTagsInv'
  BY <1>4 DEF Describe
<1>5. ASSUME NEW p \in Commands, Boot(p) PROVE StackTagsInv'
  BY <1>5 DEF Boot
<1>6. ASSUME NEW p \in Commands, BootFails(p) PROVE StackTagsInv'
  BY <1>6 DEF BootFails
<1>7. ASSUME NEW p \in Commands, RequestStack(p) PROVE StackTagsInv'
  BY <1>7 DEF RequestStack, NameIsFree
<1>8. ASSUME NEW p \in Commands, NameIsTaken(p) PROVE StackTagsInv'
  BY <1>8 DEF NameIsTaken
<1>9. ASSUME NEW p \in Commands, Waited(p) PROVE StackTagsInv'
  BY <1>9 DEF Waited
<1>10. ASSUME NEW p \in Commands, Tag(p) PROVE StackTagsInv'
  BY <1>10, FirstMaster DEF Tag, AfterTagging
<1>11. ASSUME NEW p \in Commands, Provisioned(p) PROVE StackTagsInv'
  BY <1>11 DEF Provisioned
<1>12. ASSUME NEW p \in Commands, BeginInstall(p) PROVE StackTagsInv'
  BY <1>12 DEF BeginInstall
<1>13. ASSUME NEW p \in Commands, Installed(p) PROVE StackTagsInv'
  BY <1>13 DEF Installed
<1>14. ASSUME NEW p \in Commands, InstallFails(p) PROVE StackTagsInv'
  BY <1>14 DEF InstallFails
<1>15. ASSUME NEW p \in Commands, CheckExists(p) PROVE StackTagsInv'
  BY <1>15 DEF CheckExists
<1>16. ASSUME NEW p \in Commands, NextCluster(p) PROVE StackTagsInv'
  BY <1>16 DEF NextCluster
<1>17. ASSUME NEW p \in Commands, ListEnds(p) PROVE StackTagsInv'
  BY <1>17 DEF ListEnds
<1>18. ASSUME NEW p \in Commands, Names(p) PROVE StackTagsInv'
  BY <1>18 DEF Names, AfterNames, Running, IdOf, Creating, Active
<1>19. ASSUME NEW p \in Commands, NoNames(p) PROVE StackTagsInv'
  BY <1>19 DEF NoNames
<1>20. ASSUME NEW p \in Commands, DestroyVm(p) PROVE StackTagsInv'
  BY <1>20 DEF DestroyVm
<1>21. ASSUME NEW p \in Commands, VmsDestroyed(p) PROVE StackTagsInv'
  BY <1>21 DEF VmsDestroyed
<1>22. ASSUME NEW p \in Commands, RemoveWorkspace(p) PROVE StackTagsInv'
  BY <1>22 DEF RemoveWorkspace, Return
<1>23. ASSUME NEW p \in Commands, ListInstances(p) PROVE StackTagsInv'
  BY <1>23 DEF ListInstances
<1>24. ASSUME NEW p \in Commands, NoInstances(p) PROVE StackTagsInv'
  BY <1>24 DEF NoInstances
<1>25. ASSUME NEW p \in Commands, Delete(p) PROVE StackTagsInv'
  BY <1>25 DEF Delete
<1>26. ASSUME NEW p \in Commands, DeletedBefore(p) PROVE StackTagsInv'
  BY <1>26 DEF DeletedBefore, Return
<1>27. ASSUME NEW p \in Commands, DeleteWaited(p) PROVE StackTagsInv'
  BY <1>27 DEF DeleteWaited, Return
<1>28. ASSUME NEW p \in Commands, ReadRunning(p) PROVE StackTagsInv'
  BY <1>28 DEF ReadRunning
<1>29. ASSUME NEW p \in Commands, ReadAll(p) PROVE StackTagsInv'
  BY <1>29 DEF ReadAll
<1>30. ASSUME NEW p \in Commands, CleanEnds(p) PROVE StackTagsInv'
  BY <1>30 DEF CleanEnds
<1>31. ASSUME NEW p \in Commands, Unregister(p) PROVE StackTagsInv'
  BY <1>31 DEF Unregister
<1>32. ASSUME NEW p \in Commands, UnregisterFails(p) PROVE StackTagsInv'
  BY <1>32 DEF UnregisterFails
<1>33. ASSUME NEW p \in Commands, Stops(p) PROVE StackTagsInv'
  BY <1>33 DEF Stops, Active
<1>34. ASSUME NEW p \in Commands, StackComplete(p) PROVE StackTagsInv'
  BY <1>34 DEF StackComplete
<1>35. ASSUME NEW p \in Commands, StackFails(p) PROVE StackTagsInv'
  BY <1>35 DEF StackFails
<1>36. ASSUME NEW p \in Commands, StackDeleted(p) PROVE StackTagsInv'
  BY <1>36 DEF StackDeleted
<1>37. ASSUME NEW p \in Commands, DeletionFails(p) PROVE StackTagsInv'
  BY <1>37 DEF DeletionFails
<1>38. ASSUME NEW m \in Machines, Launch(m) PROVE StackTagsInv'
  BY <1>38 DEF Launch
<1>39. ASSUME NEW m \in Machines, Terminate(m) PROVE StackTagsInv'
  BY <1>39 DEF Terminate
<1>40. ASSUME Reboot PROVE StackTagsInv'
  BY <1>40 DEF Reboot, Active
<1>41. CASE UNCHANGED vars
  BY <1>41 DEF vars
<1> HIDE DEF StackTagsInv, PathInv, CleanInv, TypeOK, ToolInv
<1>. QED
  BY <1>1, <1>2, <1>3, <1>4, <1>5, <1>6, <1>7, <1>8, <1>9, <1>10, <1>11,
    <1>12, <1>13, <1>14, <1>15, <1>16, <1>17, <1>18, <1>19, <1>20, <1>21,
    <1>22, <1>23, <1>24, <1>25, <1>26, <1>27, <1>28, <1>29, <1>30, <1>31,
    <1>32, <1>33, <1>34, <1>35, <1>36, <1>37, <1>38, <1>39, <1>40, <1>41
  DEF Next, Create, Destroy, Clean, CloudFormation, AllEnded

\* What is left of a cluster can be destroyed with minidcos, unless a destroy
\* met its creation or its stack has been deleted in part.
THEOREM LeftIsDestroyable == Spec => []Destroyable
<1> DEFINE Inv == /\ TypeOK /\ ToolInv /\ ListedInv /\ IdInv /\ CleanInv
                  /\ PathInv /\ WorkspaceInv /\ OwnerInv /\ StackTagsInv
<1>1. Init => Inv
  BY TypeInit, ToolInit, ListedInit, CleanInit, ReachInit, CloudAssumption
  DEF Init, IdInv
<1>2. Inv /\ [Next]_vars => Inv'
  BY TypeStep, ToolStep, ListedStep, IdStep, CleanStep, PathStep, WorkspaceStep,
     OwnerStep, StackTagsStep DEF ListedInv
<1>3. Inv => Destroyable
  <2> SUFFICES ASSUME Inv, NEW m \in marked, power[m] = "on", m[1] \notin struck
               PROVE  IF backend = "vagrant"
                        THEN m[1] \in workspace
                        ELSE \E n \in marked : /\ n[1] = m[1] /\ power[n] = "on"
                                               /\ Role(n) = "master"
    BY DEF Destroyable
  <2>1. m \in Machines /\ m[1] \in Commands
    BY MachineFacts DEF TypeOK
  <2>2. CASE backend = "vagrant"
    BY <2>1, <2>2 DEF WorkspaceInv
  <2>3. CASE backend = "aws"
    <3> DEFINE n == <<m[1], 1>>
    <3>1. n \in Machines /\ n[1] = m[1] /\ Role(n) = "master"
      BY <2>1, FirstMaster
    <3>2. n \in marked /\ stack[n[1]] = "complete"
      BY <2>1, <2>3, <3>1 DEF StackTagsInv
    <3>3. power[n] = "on"
      BY <2>3, <3>1, <3>2 DEF StackTagsInv
    <3>. QED
      BY <2>3, <3>1, <3>2, <3>3
  <2>. QED
    BY <2>2, <2>3 DEF TypeOK, Backends
<1>. QED
  BY <1>1, <1>2, <1>3, PTL DEF Spec

-----------------------------------------------------------------------------
(* Destroying is complete but for creates that raced.  On AWS an instance   *)
(* that runs unseen has no tags.                                           *)

Unlisted(q) ==
  /\ pc[q] \in Ended \cup {"start"}
  /\ \A m \in MachinesOf(q) : power[m] # "on" \/ m \notin marked

\* A stack that is created has no tags.
UntaggedInv ==
  backend = "aws" =>
    \A m \in marked :
      pc[m[1]] \notin {"start", "stack", "wait"} /\ stack[m[1]] # "creating"

\* Of two creates with one ID that did not race one has nothing that is listed.
TagRaceInv ==
  backend = "aws" =>
    \A p, q \in Commands :
      p # q /\ kind[p] = "create" /\ kind[q] = "create" /\ id[p] = id[q] =>
        (p \in raced /\ q \in raced) \/ Unlisted(p) \/ Unlisted(q)

\* What a destroy does not reach: on Vagrant nothing runs of it, on AWS it has
\* no stack.
OutOfReach(r) ==
  IF backend = "vagrant" THEN Still(r)
  ELSE pc[r] \in Ended \cup {"start"} /\ stack[r] = "none"

\* A cluster with the ID that a destroy is about, but not the one it has listed.
DestroyInv ==
  \A p \in Commands :
    kind[p] # "create" /\ pc[p] \in {"destroying", "rmtree", "delete", "deleted"} =>
      \A r \in Commands \ {owner[p]} :
        kind[r] = "create" /\ id[r] = id[p] => r \in raced \/ OutOfReach(r)

LEMMA DestroyInit ==
  ASSUME Init
  PROVE  UntaggedInv /\ TagRaceInv /\ DestroyInv
  BY MachineFacts DEF Init, UntaggedInv, TagRaceInv, DestroyInv, Unlisted, Ended

LEMMA UntaggedStep ==
  ASSUME TypeOK, ToolInv, TaggedInv, UntaggedInv, [Next]_vars
  PROVE  UntaggedInv'
<1> USE MachineFacts DEF TypeOK, ToolInv, At, Goto, args, command, machines,
      history, bounds, Roles, Backends, Kinds, Ended, CreateOnly, OthersOnly,
      UntaggedInv
<1>1. ASSUME NEW p \in Commands, Begin(p) PROVE UntaggedInv'
  BY <1>1 DEF Begin, Creating, Active
<1>2. ASSUME NEW p \in Commands, NotUnique(p) PROVE UntaggedInv'
  BY <1>2 DEF NotUnique
<1>3. ASSUME NEW p \in Commands, Import(p) PROVE UntaggedInv'
  BY <1>3 DEF Import
<1>4. ASSUME NEW p \in Commands, Describe(p) PROVE UntaggedInv'
  BY <1>4 DEF Describe
<1>5. ASSUME NEW p \in Commands, Boot(p) PROVE UntaggedInv'
  BY <1>5 DEF Boot
<1>6. ASSUME NEW p \in Commands, BootFails(p) PROVE UntaggedInv'
  BY <1>6 DEF BootFails
<1>7. ASSUME NEW p \in Commands, RequestStack(p) PROVE UntaggedInv'
  BY <1>7 DEF RequestStack
<1>8. ASSUME NEW p \in Commands, NameIsTaken(p) PROVE UntaggedInv'
  BY <1>8 DEF NameIsTaken
<1>9. ASSUME NEW p \in Commands, Waited(p) PROVE UntaggedInv'
  BY <1>9 DEF Waited
<1>10. ASSUME NEW p \in Commands, Tag(p) PROVE UntaggedInv'
  BY <1>10 DEF Tag, AfterTagging, Role, TaggedInv
<1>11. ASSUME NEW p \in Commands, Provisioned(p) PROVE UntaggedInv'
  BY <1>11 DEF Provisioned
<1>12. ASSUME NEW p \in Commands, BeginInstall(p) PROVE UntaggedInv'
  BY <1>12 DEF BeginInstall
<1>13. ASSUME NEW p \in Commands, Installed(p) PROVE UntaggedInv'
  BY <1>13 DEF Installed
<1>14. ASSUME NEW p \in Commands, InstallFails(p) PROVE UntaggedInv'
  BY <1>14 DEF InstallFails
<1>15. ASSUME NEW p \in Commands, CheckExists(p) PROVE UntaggedInv'
  BY <1>15 DEF CheckExists
<1>16. ASSUME NEW p \in Commands, NextCluster(p) PROVE UntaggedInv'
  BY <1>16 DEF NextCluster
<1>17. ASSUME NEW p \in Commands, ListEnds(p) PROVE UntaggedInv'
  BY <1>17 DEF ListEnds
<1>18. ASSUME NEW p \in Commands, Names(p) PROVE UntaggedInv'
  BY <1>18 DEF Names, AfterNames, Running, IdOf, Creating, Active
<1>19. ASSUME NEW p \in Commands, NoNames(p) PROVE UntaggedInv'
  BY <1>19 DEF NoNames
<1>20. ASSUME NEW p \in Commands, DestroyVm(p) PROVE UntaggedInv'
  BY <1>20 DEF DestroyVm
<1>21. ASSUME NEW p \in Commands, VmsDestroyed(p) PROVE UntaggedInv'
  BY <1>21 DEF VmsDestroyed
<1>22. ASSUME NEW p \in Commands, RemoveWorkspace(p) PROVE UntaggedInv'
  BY <1>22 DEF RemoveWorkspace, Return
<1>23. ASSUME NEW p \in Commands, ListInstances(p) PROVE UntaggedInv'
  BY <1>23 DEF ListInstances
<1>24. ASSUME NEW p \in Commands, NoInstances(p) PROVE UntaggedInv'
  BY <1>24 DEF NoInstances
<1>25. ASSUME NEW p \in Commands, Delete(p) PROVE UntaggedInv'
  BY <1>25 DEF Delete
<1>26. ASSUME NEW p \in Commands, DeletedBefore(p) PROVE UntaggedInv'
  BY <1>26 DEF DeletedBefore, Return
<1>27. ASSUME NEW p \in Commands, DeleteWaited(p) PROVE UntaggedInv'
  BY <1>27 DEF DeleteWaited, Return
<1>28. ASSUME NEW p \in Commands, ReadRunning(p) PROVE UntaggedInv'
  BY <1>28 DEF ReadRunning
<1>29. ASSUME NEW p \in Commands, ReadAll(p) PROVE UntaggedInv'
  BY <1>29 DEF ReadAll
<1>30. ASSUME NEW p \in Commands, CleanEnds(p) PROVE UntaggedInv'
  BY <1>30 DEF CleanEnds
<1>31. ASSUME NEW p \in Commands, Unregister(p) PROVE UntaggedInv'
  BY <1>31 DEF Unregister
<1>32. ASSUME NEW p \in Commands, UnregisterFails(p) PROVE UntaggedInv'
  BY <1>32 DEF UnregisterFails
<1>33. ASSUME NEW p \in Commands, Stops(p) PROVE UntaggedInv'
  BY <1>33 DEF Stops, Active
<1>34. ASSUME NEW p \in Commands, StackComplete(p) PROVE UntaggedInv'
  BY <1>34 DEF StackComplete
<1>35. ASSUME NEW p \in Commands, StackFails(p) PROVE UntaggedInv'
  BY <1>35 DEF StackFails
<1>36. ASSUME NEW p \in Commands, StackDeleted(p) PROVE UntaggedInv'
  BY <1>36 DEF StackDeleted
<1>37. ASSUME NEW p \in Commands, DeletionFails(p) PROVE UntaggedInv'
  BY <1>37 DEF DeletionFails
<1>38. ASSUME NEW m \in Machines, Launch(m) PROVE UntaggedInv'
  BY <1>38 DEF Launch
<1>39. ASSUME NEW m \in Machines, Terminate(m) PROVE UntaggedInv'
  BY <1>39 DEF Terminate
<1>40. ASSUME Reboot PROVE UntaggedInv'
  BY <1>40 DEF Reboot, Active
<1>41. CASE UNCHANGED vars
  BY <1>41 DEF vars
<1>. QED
  BY <1>1, <1>2, <1>3, <1>4, <1>5, <1>6, <1>7, <1>8, <1>9, <1>10, <1>11,
    <1>12, <1>13, <1>14, <1>15, <1>16, <1>17, <1>18, <1>19, <1>20, <1>21,
    <1>22, <1>23, <1>24, <1>25, <1>26, <1>27, <1>28, <1>29, <1>30, <1>31,
    <1>32, <1>33, <1>34, <1>35, <1>36, <1>37, <1>38, <1>39, <1>40, <1>41
  DEF Next, Create, Destroy, Clean, CloudFormation, AllEnded

\* An instance with tags comes from the create of its cluster only.
LEMMA UnlistedStays ==
  ASSUME TypeOK, ToolInv, UntaggedInv, [Next]_vars, backend = "aws",
         NEW q \in Commands, kind[q] = "create", Unlisted(q)
  PROVE  Begin(q) \/ Unlisted(q)'
<1> DEFINE Stays == Begin(q) \/ Unlisted(q)'
<1> USE MachineFacts DEF TypeOK, ToolInv, At, Goto, args, command, machines,
      history, bounds, Roles, Backends, Kinds, Ended, CreateOnly, OthersOnly,
      UntaggedInv, Unlisted
<1>1. ASSUME NEW p \in Commands, Begin(p) PROVE Stays
  <2>1. CASE p = q
    BY <1>1, <2>1
  <2>2. CASE p # q
    BY <1>1, <2>2 DEF Begin
  <2>. QED
    BY <2>1, <2>2
<1>2. ASSUME NEW p \in Commands, NotUnique(p) PROVE Stays
  BY <1>2 DEF NotUnique
<1>3. ASSUME NEW p \in Commands, Import(p) PROVE Stays
  BY <1>3 DEF Import
<1>4. ASSUME NEW p \in Commands, Describe(p) PROVE Stays
  BY <1>4 DEF Describe
<1>5. ASSUME NEW p \in Commands, Boot(p) PROVE Stays
  BY <1>5 DEF Boot
<1>6. ASSUME NEW p \in Commands, BootFails(p) PROVE Stays
  BY <1>6 DEF BootFails
<1>7. ASSUME NEW p \in Commands, RequestStack(p) PROVE Stays
  BY <1>7 DEF RequestStack
<1>8. ASSUME NEW p \in Commands, NameIsTaken(p) PROVE Stays
  BY <1>8 DEF NameIsTaken
<1>9. ASSUME NEW p \in Commands, Waited(p) PROVE Stays
  BY <1>9 DEF Waited
<1>10. ASSUME NEW p \in Commands, Tag(p) PROVE Stays
  BY <1>10 DEF Tag, AfterTagging, MachinesOf
<1>11. ASSUME NEW p \in Commands, Provisioned(p) PROVE Stays
  BY <1>11 DEF Provisioned
<1>12. ASSUME NEW p \in Commands, BeginInstall(p) PROVE Stays
  BY <1>12 DEF BeginInstall
<1>13. ASSUME NEW p \in Commands, Installed(p) PROVE Stays
  BY <1>13 DEF Installed
<1>14. ASSUME NEW p \in Commands, InstallFails(p) PROVE Stays
  BY <1>14 DEF InstallFails
<1>15. ASSUME NEW p \in Commands, CheckExists(p) PROVE Stays
  BY <1>15 DEF CheckExists
<1>16. ASSUME NEW p \in Commands, NextCluster(p) PROVE Stays
  BY <1>16 DEF NextCluster
<1>17. ASSUME NEW p \in Commands, ListEnds(p) PROVE Stays
  BY <1>17 DEF ListEnds
<1>18. ASSUME NEW p \in Commands, Names(p) PROVE Stays
  BY <1>18 DEF Names, AfterNames, Running, IdOf, Creating, Active
<1>19. ASSUME NEW p \in Commands, NoNames(p) PROVE Stays
  BY <1>19 DEF NoNames
<1>20. ASSUME NEW p \in Commands, DestroyVm(p) PROVE Stays
  BY <1>20 DEF DestroyVm
<1>21. ASSUME NEW p \in Commands, VmsDestroyed(p) PROVE Stays
  BY <1>21 DEF VmsDestroyed
<1>22. ASSUME NEW p \in Commands, RemoveWorkspace(p) PROVE Stays
  BY <1>22 DEF RemoveWorkspace, Return
<1>23. ASSUME NEW p \in Commands, ListInstances(p) PROVE Stays
  BY <1>23 DEF ListInstances
<1>24. ASSUME NEW p \in Commands, NoInstances(p) PROVE Stays
  BY <1>24 DEF NoInstances
<1>25. ASSUME NEW p \in Commands, Delete(p) PROVE Stays
  BY <1>25 DEF Delete
<1>26. ASSUME NEW p \in Commands, DeletedBefore(p) PROVE Stays
  BY <1>26 DEF DeletedBefore, Return
<1>27. ASSUME NEW p \in Commands, DeleteWaited(p) PROVE Stays
  BY <1>27 DEF DeleteWaited, Return
<1>28. ASSUME NEW p \in Commands, ReadRunning(p) PROVE Stays
  BY <1>28 DEF ReadRunning
<1>29. ASSUME NEW p \in Commands, ReadAll(p) PROVE Stays
  BY <1>29 DEF ReadAll
<1>30. ASSUME NEW p \in Commands, CleanEnds(p) PROVE Stays
  BY <1>30 DEF CleanEnds
<1>31. ASSUME NEW p \in Commands, Unregister(p) PROVE Stays
  BY <1>31 DEF Unregister
<1>32. ASSUME NEW p \in Commands, UnregisterFails(p) PROVE Stays
  BY <1>32 DEF UnregisterFails
<1>33. ASSUME NEW p \in Commands, Stops(p) PROVE Stays
  BY <1>33 DEF Stops, Active
<1>34. ASSUME NEW p \in Commands, StackComplete(p) PROVE Stays
  BY <1>34 DEF StackComplete
<1>35. ASSUME NEW p \in Commands, StackFails(p) PROVE Stays
  BY <1>35 DEF StackFails
<1>36. ASSUME NEW p \in Commands, StackDeleted(p) PROVE Stays
  BY <1>36 DEF StackDeleted
<1>37. ASSUME NEW p \in Commands, DeletionFails(p) PROVE Stays
  BY <1>37 DEF DeletionFails
<1>38. ASSUME NEW m \in Machines, Launch(m) PROVE Stays
  BY <1>38 DEF Launch
<1>39. ASSUME NEW m \in Machines, Terminate(m) PROVE Stays
  BY <1>39 DEF Terminate
<1>40. ASSUME Reboot PROVE Stays
  BY <1>40 DEF Reboot, Active
<1>41. CASE UNCHANGED vars
  BY <1>41 DEF vars
<1>. QED
  BY <1>1, <1>2, <1>3, <1>4, <1>5, <1>6, <1>7, <1>8, <1>9, <1>10, <1>11,
    <1>12, <1>13, <1>14, <1>15, <1>16, <1>17, <1>18, <1>19, <1>20, <1>21,
    <1>22, <1>23, <1>24, <1>25, <1>26, <1>27, <1>28, <1>29, <1>30, <1>31,
    <1>32, <1>33, <1>34, <1>35, <1>36, <1>37, <1>38, <1>39, <1>40, <1>41
  DEF Next, Create, Destroy, Clean, CloudFormation, AllEnded

LEMMA UnlistedOrExists ==
  ASSUME TypeOK, NEW q \in Commands, id[q] \in Ids, pc[q] \in Ended \cup {"start"}
  PROVE  Unlisted(q) \/ id[q] \in existing_cluster_ids
<1>1. ASSUME NEW m \in MachinesOf(q), power[m] = "on", m \in marked
      PROVE  id[q] \in existing_cluster_ids
  <2>1. m \in Running(id[q])
    BY <1>1, MachineFacts DEF Running, IdOf
  <2>. QED
    BY <2>1 DEF existing_cluster_ids
<1>. QED
  BY <1>1 DEF Unlisted

\* A create that begins while another one with its ID is active races with it.
LEMMA BeginMeets ==
  ASSUME TypeOK, NEW p \in Commands, Begin(p), NEW q \in Commands \ {p},
         Active(q), id[p] \in About(q)
  PROVE  p \in raced' /\ (kind[q] = "create" => q \in raced')
<1>1. q \in {r \in Commands \ {p} : Active(r) /\ id[p] \in About(r)}
  OBVIOUS
<1>2. kind[q] = "create" => Creating(q)
  BY DEF Creating
<1>. QED
  BY <1>1, <1>2 DEF Begin

LEMMA BeginTagRace ==
  ASSUME TypeOK, NEW p \in Commands, NEW q \in Commands \ {p}, Begin(p),
         kind[q] = "create", id[p] = id[q], id[q] \in Ids
  PROVE  (p \in raced' /\ q \in raced') \/ Unlisted(q)'
<1>1. CASE Active(q)
  <2>1. id[p] \in About(q)
    BY DEF About
  <2>. QED
    BY <1>1, <2>1, BeginMeets
<1>2. CASE ~ Active(q)
  <2>1. id[q] \notin existing_cluster_ids
    BY DEF Begin
  <2>2. Unlisted(q)
    BY <1>2, <2>1, UnlistedOrExists DEF Active
  <2>. QED
    BY <2>2 DEF Begin, Unlisted, Goto, machines, TypeOK
<1>. QED
  BY <1>1, <1>2

LEMMA TagRaceStep ==
  ASSUME TypeOK, ToolInv, IdInv, UntaggedInv, TagRaceInv, [Next]_vars
  PROVE  TagRaceInv'
<1> SUFFICES ASSUME backend = "aws", NEW p \in Commands, NEW q \in Commands,
                    p # q, kind[p] = "create", kind[q] = "create", id[p] = id[q]
             PROVE  (p \in raced' /\ q \in raced') \/ Unlisted(p)' \/ Unlisted(q)'
  BY Constant DEF TagRaceInv
<1>1. CASE p \in raced /\ q \in raced
  BY <1>1, Constant
<1>2. CASE Unlisted(p)
  BY <1>2, UnlistedStays, BeginTagRace DEF IdInv
<1>3. CASE Unlisted(q)
  BY <1>3, UnlistedStays, BeginTagRace DEF IdInv
<1>. QED
  BY <1>1, <1>2, <1>3 DEF TagRaceInv

LEMMA ReachKept ==
  ASSUME TypeOK, ToolInv, [Next]_vars, NEW r \in Commands, kind[r] = "create",
         pc[r] \in Ended \cup {"start"}, stack[r] = "none", ~ Begin(r)
  PROVE  pc'[r] \in Ended \cup {"start"} /\ stack'[r] = "none"
<1> DEFINE Same == pc'[r] \in Ended \cup {"start"} /\ stack'[r] = "none"
<1> USE MachineFacts DEF TypeOK, ToolInv, At, Goto, args, command, machines,
      history, bounds, Roles, Backends, Kinds, Ended, CreateOnly, OthersOnly
<1>1. ASSUME NEW p \in Commands, Begin(p) PROVE Same
  <2>1. p # r
    BY <1>1
  <2>. QED
    BY <1>1, <2>1 DEF Begin
<1>2. ASSUME NEW p \in Commands, NotUnique(p) PROVE Same
  BY <1>2 DEF NotUnique
<1>3. ASSUME NEW p \in Commands, Import(p) PROVE Same
  BY <1>3 DEF Import
<1>4. ASSUME NEW p \in Commands, Describe(p) PROVE Same
  BY <1>4 DEF Describe
<1>5. ASSUME NEW p \in Commands, Boot(p) PROVE Same
  BY <1>5 DEF Boot
<1>6. ASSUME NEW p \in Commands, BootFails(p) PROVE Same
  BY <1>6 DEF BootFails
<1>7. ASSUME NEW p \in Commands, RequestStack(p) PROVE Same
  BY <1>7 DEF RequestStack
<1>8. ASSUME NEW p \in Commands, NameIsTaken(p) PROVE Same
  BY <1>8 DEF NameIsTaken
<1>9. ASSUME NEW p \in Commands, Waited(p) PROVE Same
  BY <1>9 DEF Waited
<1>10. ASSUME NEW p \in Commands, Tag(p) PROVE Same
  BY <1>10 DEF Tag, AfterTagging, Role
<1>11. ASSUME NEW p \in Commands, Provisioned(p) PROVE Same
  BY <1>11 DEF Provisioned
<1>12. ASSUME NEW p \in Commands, BeginInstall(p) PROVE Same
  BY <1>12 DEF BeginInstall
<1>13. ASSUME NEW p \in Commands, Installed(p) PROVE Same
  BY <1>13 DEF Installed
<1>14. ASSUME NEW p \in Commands, InstallFails(p) PROVE Same
  BY <1>14 DEF InstallFails
<1>15. ASSUME NEW p \in Commands, CheckExists(p) PROVE Same
  BY <1>15 DEF CheckExists
<1>16. ASSUME NEW p \in Commands, NextCluster(p) PROVE Same
  BY <1>16 DEF NextCluster
<1>17. ASSUME NEW p \in Commands, ListEnds(p) PROVE Same
  BY <1>17 DEF ListEnds
<1>18. ASSUME NEW p \in Commands, Names(p) PROVE Same
  BY <1>18 DEF Names, AfterNames, Running, IdOf, Creating, Active
<1>19. ASSUME NEW p \in Commands, NoNames(p) PROVE Same
  BY <1>19 DEF NoNames
<1>20. ASSUME NEW p \in Commands, DestroyVm(p) PROVE Same
  BY <1>20 DEF DestroyVm
<1>21. ASSUME NEW p \in Commands, VmsDestroyed(p) PROVE Same
  BY <1>21 DEF VmsDestroyed
<1>22. ASSUME NEW p \in Commands, RemoveWorkspace(p) PROVE Same
  BY <1>22 DEF RemoveWorkspace, Return
<1>23. ASSUME NEW p \in Commands, ListInstances(p) PROVE Same
  BY <1>23 DEF ListInstances
<1>24. ASSUME NEW p \in Commands, NoInstances(p) PROVE Same
  BY <1>24 DEF NoInstances
<1>25. ASSUME NEW p \in Commands, Delete(p) PROVE Same
  BY <1>25 DEF Delete
<1>26. ASSUME NEW p \in Commands, DeletedBefore(p) PROVE Same
  BY <1>26 DEF DeletedBefore, Return
<1>27. ASSUME NEW p \in Commands, DeleteWaited(p) PROVE Same
  BY <1>27 DEF DeleteWaited, Return
<1>28. ASSUME NEW p \in Commands, ReadRunning(p) PROVE Same
  BY <1>28 DEF ReadRunning
<1>29. ASSUME NEW p \in Commands, ReadAll(p) PROVE Same
  BY <1>29 DEF ReadAll
<1>30. ASSUME NEW p \in Commands, CleanEnds(p) PROVE Same
  BY <1>30 DEF CleanEnds
<1>31. ASSUME NEW p \in Commands, Unregister(p) PROVE Same
  BY <1>31 DEF Unregister
<1>32. ASSUME NEW p \in Commands, UnregisterFails(p) PROVE Same
  BY <1>32 DEF UnregisterFails
<1>33. ASSUME NEW p \in Commands, Stops(p) PROVE Same
  BY <1>33 DEF Stops, Active
<1>34. ASSUME NEW p \in Commands, StackComplete(p) PROVE Same
  BY <1>34 DEF StackComplete
<1>35. ASSUME NEW p \in Commands, StackFails(p) PROVE Same
  BY <1>35 DEF StackFails
<1>36. ASSUME NEW p \in Commands, StackDeleted(p) PROVE Same
  BY <1>36 DEF StackDeleted
<1>37. ASSUME NEW p \in Commands, DeletionFails(p) PROVE Same
  BY <1>37 DEF DeletionFails
<1>38. ASSUME NEW m \in Machines, Launch(m) PROVE Same
  BY <1>38 DEF Launch
<1>39. ASSUME NEW m \in Machines, Terminate(m) PROVE Same
  BY <1>39 DEF Terminate
<1>40. ASSUME Reboot PROVE Same
  BY <1>40 DEF Reboot, Active
<1>41. CASE UNCHANGED vars
  BY <1>41 DEF vars
<1>. QED
  BY <1>1, <1>2, <1>3, <1>4, <1>5, <1>6, <1>7, <1>8, <1>9, <1>10, <1>11,
    <1>12, <1>13, <1>14, <1>15, <1>16, <1>17, <1>18, <1>19, <1>20, <1>21,
    <1>22, <1>23, <1>24, <1>25, <1>26, <1>27, <1>28, <1>29, <1>30, <1>31,
    <1>32, <1>33, <1>34, <1>35, <1>36, <1>37, <1>38, <1>39, <1>40, <1>41
  DEF Next, Create, Destroy, Clean, CloudFormation, AllEnded

\* What is out of reach stays so, or begins.
LEMMA OutOfReachStays ==
  ASSUME TypeOK, ToolInv, [Next]_vars, NEW r \in Commands, kind[r] = "create",
         OutOfReach(r)
  PROVE  Begin(r) \/ OutOfReach(r)'
<1>1. CASE backend = "vagrant"
  BY <1>1, StillStays, Constant DEF OutOfReach
<1>2. CASE backend = "aws"
  <2> SUFFICES ASSUME ~ Begin(r)
               PROVE  pc'[r] \in Ended \cup {"start"} /\ stack'[r] = "none"
    BY <1>2, Constant DEF OutOfReach
  <2>1. pc[r] \in Ended \cup {"start"} /\ stack[r] = "none"
    BY <1>2 DEF OutOfReach
  <2>. QED
    BY <1>2, <2>1, ReachKept
<1>. QED
  BY <1>1, <1>2 DEF TypeOK, Backends

\* Whoever comes into reach after a destroy has listed its machines races.
LEMMA DestroyKept ==
  ASSUME TypeOK, ToolInv, IdInv, DestroyInv, [Next]_vars,
         NEW p \in Commands, kind[p] # "create",
         pc[p] \in {"destroying", "rmtree", "delete", "deleted"},
         owner'[p] = owner[p], id'[p] = id[p],
         NEW r \in Commands \ {owner[p]}, kind[r] = "create", id[r] = id[p]
  PROVE  r \in raced' \/ OutOfReach(r)'
<1>1. r \in raced \/ OutOfReach(r)
  BY DEF DestroyInv
<1>2. CASE r \in raced
  BY <1>2, Constant
<1>3. CASE OutOfReach(r) /\ ~ Begin(r)
  BY <1>3, OutOfReachStays
<1>4. CASE Begin(r)
  <2>1. Active(p) /\ p # r
    BY DEF Active, Ended
  <2>2. id[r] \in About(p)
    BY DEF About, IdInv
  <2>. QED
    BY <1>4, <2>1, <2>2, BeginMeets
<1>. QED
  BY <1>1, <1>2, <1>3, <1>4

\* The listing that a destroy begins with finds all that is in reach.
LEMMA DestroyLists ==
  ASSUME TypeOK, ToolInv, ListedInv, IdInv, StackInv, RaceInv, UntaggedInv,
         TagRaceInv, NEW p \in Commands, Names(p) \/ ListInstances(p),
         NEW r \in Commands, r # owner'[p], kind[r] = "create", id[r] = id[p]
  PROVE  r \in raced \/ OutOfReach(r)
<1>1. CASE Names(p)
  <2>1. PICK m \in Running(id[p]) : owner' = [owner EXCEPT ![p] = m[1]]
    BY <1>1 DEF Names
  <2>2. /\ m \in Machines /\ m[1] \in Commands /\ power[m] = "on"
        /\ id[m[1]] = id[p] /\ kind[m[1]] = "create" /\ owner'[p] = m[1]
    BY <2>1, MachineFacts DEF Running, IdOf, TypeOK, ToolInv
  <2>3. ~ Still(m[1]) /\ backend = "vagrant"
    BY <1>1, <2>2, MachineFacts DEF Still, Names
  <2>. QED
    BY <2>2, <2>3 DEF RaceInv, OutOfReach
<1>2. CASE ListInstances(p)
  <2>1. /\ backend = "aws" /\ owner'[p] \in Commands /\ stack[owner'[p]] # "none"
        /\ id[owner'[p]] = id[p] /\ Running(id[p]) # {}
    <3>1. PICK q \in Commands : /\ id[q] = id[p] /\ stack[q] # "none"
                               /\ owner' = [owner EXCEPT ![p] = q]
      BY <1>2 DEF ListInstances
    <3>2. Running(id[p]) # {}
      <4> SUFFICES ASSUME Running(id[p]) = {} PROVE FALSE
        OBVIOUS
      <4>1. {m \in Running(id[p]) : Role(m) = "master"} = {}
        OBVIOUS
      <4>2. Cardinality({m \in Running(id[p]) : Role(m) = "master"}) = 0
        BY <4>1, FS_EmptySet
      <4>. QED
        BY <1>2, <4>2 DEF ListInstances
    <3>. QED
      BY <1>2, <3>1, <3>2 DEF ListInstances, TypeOK
  <2> DEFINE q == owner'[p]
  <2>2. PICK m \in Running(id[p]) : TRUE
    BY <2>1
  <2>3. /\ m \in Machines /\ m[1] \in Commands /\ power[m] = "on" /\ m \in marked
        /\ id[m[1]] = id[p] /\ kind[m[1]] = "create"
    BY MachineFacts DEF Running, IdOf, TypeOK, ToolInv
  <2>4. m[1] = q
    BY <2>1, <2>3 DEF StackInv
  <2>5. stack[r] = "none"
    BY <2>1 DEF StackInv
  <2>6. ~ Unlisted(q)
    BY <2>3, <2>4, MachineFacts DEF Unlisted
  <2>7. r \in raced \/ Unlisted(r)
    BY <2>1, <2>3, <2>4, <2>6 DEF TagRaceInv
  <2>. QED
    BY <2>1, <2>5, <2>7 DEF OutOfReach, Unlisted
<1>. QED
  BY <1>1, <1>2

LEMMA Reaches ==
  ASSUME TypeOK, ToolInv, [Next]_vars, NEW q \in Commands, kind[q] # "create",
         pc'[q] \in {"destroying", "rmtree", "delete", "deleted"}
  PROVE  \/ /\ pc[q] \in {"destroying", "rmtree", "delete", "deleted"}
            /\ owner'[q] = owner[q] /\ id'[q] = id[q]
         \/ (Names(q) \/ ListInstances(q)) /\ id'[q] = id[q]
<1> DEFINE Before ==
      \/ /\ pc[q] \in {"destroying", "rmtree", "delete", "deleted"}
         /\ owner'[q] = owner[q] /\ id'[q] = id[q]
      \/ (Names(q) \/ ListInstances(q)) /\ id'[q] = id[q]
<1> USE MachineFacts DEF TypeOK, ToolInv, At, Goto, args, command, machines,
      history, bounds, Roles, Backends, Kinds, Ended, CreateOnly, OthersOnly
<1>1. ASSUME NEW p \in Commands, Begin(p) PROVE Before
  BY <1>1 DEF Begin, Creating, Active
<1>2. ASSUME NEW p \in Commands, NotUnique(p) PROVE Before
  BY <1>2 DEF NotUnique
<1>3. ASSUME NEW p \in Commands, Import(p) PROVE Before
  BY <1>3 DEF Import
<1>4. ASSUME NEW p \in Commands, Describe(p) PROVE Before
  BY <1>4 DEF Describe
<1>5. ASSUME NEW p \in Commands, Boot(p) PROVE Before
  BY <1>5 DEF Boot
<1>6. ASSUME NEW p \in Commands, BootFails(p) PROVE Before
  BY <1>6 DEF BootFails
<1>7. ASSUME NEW p \in Commands, RequestStack(p) PROVE Before
  BY <1>7 DEF RequestStack
<1>8. ASSUME NEW p \in Commands, NameIsTaken(p) PROVE Before
  BY <1>8 DEF NameIsTaken
<1>9. ASSUME NEW p \in Commands, Waited(p) PROVE Before
  BY <1>9 DEF Waited
<1>10. ASSUME NEW p \in Commands, Tag(p) PROVE Before
  BY <1>10 DEF Tag, AfterTagging, Role
<1>11. ASSUME NEW p \in Commands, Provisioned(p) PROVE Before
  BY <1>11 DEF Provisioned
<1>12. ASSUME NEW p \in Commands, BeginInstall(p) PROVE Before
  BY <1>12 DEF BeginInstall
<1>13. ASSUME NEW p \in Commands, Installed(p) PROVE Before
  BY <1>13 DEF Installed
<1>14. ASSUME NEW p \in Commands, InstallFails(p) PROVE Before
  BY <1>14 DEF InstallFails
<1>15. ASSUME NEW p \in Commands, CheckExists(p) PROVE Before
  BY <1>15 DEF CheckExists
<1>16. ASSUME NEW p \in Commands, NextCluster(p) PROVE Before
  BY <1>16 DEF NextCluster
<1>17. ASSUME NEW p \in Commands, ListEnds(p) PROVE Before
  BY <1>17 DEF ListEnds
<1>18. ASSUME NEW p \in Commands, Names(p) PROVE Before
  <2>1. CASE p = q
    BY <1>18, <2>1 DEF command, Names
  <2>2. CASE p # q
    BY <1>18, <2>2 DEF Names, AfterNames
  <2>. QED
    BY <2>1, <2>2
<1>19. ASSUME NEW p \in Commands, NoNames(p) PROVE Before
  BY <1>19 DEF NoNames
<1>20. ASSUME NEW p \in Commands, DestroyVm(p) PROVE Before
  BY <1>20 DEF DestroyVm
<1>21. ASSUME NEW p \in Commands, VmsDestroyed(p) PROVE Before
  BY <1>21 DEF VmsDestroyed
<1>22. ASSUME NEW p \in Commands, RemoveWorkspace(p) PROVE Before
  BY <1>22 DEF RemoveWorkspace, Return
<1>23. ASSUME NEW p \in Commands, ListInstances(p) PROVE Before
  <2>1. CASE p = q
    BY <1>23, <2>1 DEF command, ListInstances
  <2>2. CASE p # q
    BY <1>23, <2>2 DEF ListInstances, AfterNames
  <2>. QED
    BY <2>1, <2>2
<1>24. ASSUME NEW p \in Commands, NoInstances(p) PROVE Before
  BY <1>24 DEF NoInstances
<1>25. ASSUME NEW p \in Commands, Delete(p) PROVE Before
  BY <1>25 DEF Delete
<1>26. ASSUME NEW p \in Commands, DeletedBefore(p) PROVE Before
  BY <1>26 DEF DeletedBefore, Return
<1>27. ASSUME NEW p \in Commands, DeleteWaited(p) PROVE Before
  BY <1>27 DEF DeleteWaited, Return
<1>28. ASSUME NEW p \in Commands, ReadRunning(p) PROVE Before
  BY <1>28 DEF ReadRunning
<1>29. ASSUME NEW p \in Commands, ReadAll(p) PROVE Before
  BY <1>29 DEF ReadAll
<1>30. ASSUME NEW p \in Commands, CleanEnds(p) PROVE Before
  BY <1>30 DEF CleanEnds
<1>31. ASSUME NEW p \in Commands, Unregister(p) PROVE Before
  BY <1>31 DEF Unregister
<1>32. ASSUME NEW p \in Commands, UnregisterFails(p) PROVE Before
  BY <1>32 DEF UnregisterFails
<1>33. ASSUME NEW p \in Commands, Stops(p) PROVE Before
  BY <1>33 DEF Stops, Active
<1>34. ASSUME NEW p \in Commands, StackComplete(p) PROVE Before
  BY <1>34 DEF StackComplete
<1>35. ASSUME NEW p \in Commands, StackFails(p) PROVE Before
  BY <1>35 DEF StackFails
<1>36. ASSUME NEW p \in Commands, StackDeleted(p) PROVE Before
  BY <1>36 DEF StackDeleted
<1>37. ASSUME NEW p \in Commands, DeletionFails(p) PROVE Before
  BY <1>37 DEF DeletionFails
<1>38. ASSUME NEW m \in Machines, Launch(m) PROVE Before
  BY <1>38 DEF Launch
<1>39. ASSUME NEW m \in Machines, Terminate(m) PROVE Before
  BY <1>39 DEF Terminate
<1>40. ASSUME Reboot PROVE Before
  BY <1>40 DEF Reboot, Active
<1>41. CASE UNCHANGED vars
  BY <1>41 DEF vars
<1>. QED
  BY <1>1, <1>2, <1>3, <1>4, <1>5, <1>6, <1>7, <1>8, <1>9, <1>10, <1>11,
    <1>12, <1>13, <1>14, <1>15, <1>16, <1>17, <1>18, <1>19, <1>20, <1>21,
    <1>22, <1>23, <1>24, <1>25, <1>26, <1>27, <1>28, <1>29, <1>30, <1>31,
    <1>32, <1>33, <1>34, <1>35, <1>36, <1>37, <1>38, <1>39, <1>40, <1>41
  DEF Next, Create, Destroy, Clean, CloudFormation, AllEnded

LEMMA DestroyStep ==
  ASSUME TypeOK, ToolInv, ListedInv, IdInv, StackInv, RaceInv, UntaggedInv,
         TagRaceInv, DestroyInv, [Next]_vars
  PROVE  DestroyInv'
<1> DEFINE Reaching == {"destroying", "rmtree", "delete", "deleted"}
<1>1. ASSUME NEW p \in Commands, kind[p] # "create", pc'[p] \in Reaching
      PROVE  \/ pc[p] \in Reaching /\ owner'[p] = owner[p] /\ id'[p] = id[p]
             \/ (Names(p) \/ ListInstances(p)) /\ id'[p] = id[p]
  BY <1>1, Reaches
<1>2. ASSUME NEW p \in Commands, kind[p] # "create", Names(p) \/ ListInstances(p),
             NEW r \in Commands
      PROVE  ~ Begin(r)
  <2>1. pc'[p] # pc[p] /\ pc[p] \notin {"start"}
    BY <1>2 DEF Names, ListInstances, AfterNames, At, Goto, TypeOK
  <2>. QED
    BY <1>2, <2>1 DEF Begin, At, Goto, TypeOK
<1> SUFFICES ASSUME NEW p \in Commands, kind[p] # "create", pc'[p] \in Reaching,
                    NEW r \in Commands, r # owner'[p], kind[r] = "create",
                    id[r] = id'[p]
             PROVE  r \in raced' \/ OutOfReach(r)'
  BY Constant DEF DestroyInv
<1>3. CASE pc[p] \in Reaching /\ owner'[p] = owner[p] /\ id'[p] = id[p]
  BY <1>3, DestroyKept
<1>4. CASE (Names(p) \/ ListInstances(p)) /\ id'[p] = id[p]
  <2>1. r \in raced \/ OutOfReach(r)
    BY <1>4, DestroyLists
  <2>. QED
    BY <1>2, <1>4, <2>1, OutOfReachStays, Constant
<1>. QED
  BY <1>1, <1>3, <1>4

\* How a destroy comes to its end.
LEMMA DestroyEnds ==
  ASSUME TypeOK, ToolInv, [Next]_vars, NEW q \in Commands,
         pc[q] \in {"rmtree", "deleted"}, pc'[q] \in {"done", "list"}
  PROVE  \/ RemoveWorkspace(q) /\ pc[q] = "rmtree"
         \/ DeleteWaited(q) /\ pc[q] = "deleted" /\ stack[owner[q]] = "none"
<1> DEFINE Ends ==
      \/ RemoveWorkspace(q) /\ pc[q] = "rmtree"
      \/ DeleteWaited(q) /\ pc[q] = "deleted" /\ stack[owner[q]] = "none"
<1> USE MachineFacts DEF TypeOK, ToolInv, At, Goto, args, command, machines,
      history, bounds, Roles, Backends, Kinds, Ended, CreateOnly, OthersOnly
<1>1. ASSUME NEW p \in Commands, Begin(p) PROVE Ends
  BY <1>1 DEF Begin, Creating, Active
<1>2. ASSUME NEW p \in Commands, NotUnique(p) PROVE Ends
  BY <1>2 DEF NotUnique
<1>3. ASSUME NEW p \in Commands, Import(p) PROVE Ends
  BY <1>3 DEF Import
<1>4. ASSUME NEW p \in Commands, Describe(p) PROVE Ends
  BY <1>4 DEF Describe
<1>5. ASSUME NEW p \in Commands, Boot(p) PROVE Ends
  BY <1>5 DEF Boot
<1>6. ASSUME NEW p \in Commands, BootFails(p) PROVE Ends
  BY <1>6 DEF BootFails
<1>7. ASSUME NEW p \in Commands, RequestStack(p) PROVE Ends
  BY <1>7 DEF RequestStack
<1>8. ASSUME NEW p \in Commands, NameIsTaken(p) PROVE Ends
  BY <1>8 DEF NameIsTaken
<1>9. ASSUME NEW p \in Commands, Waited(p) PROVE Ends
  BY <1>9 DEF Waited
<1>10. ASSUME NEW p \in Commands, Tag(p) PROVE Ends
  BY <1>10 DEF Tag, AfterTagging, Role
<1>11. ASSUME NEW p \in Commands, Provisioned(p) PROVE Ends
  BY <1>11 DEF Provisioned
<1>12. ASSUME NEW p \in Commands, BeginInstall(p) PROVE Ends
  BY <1>12 DEF BeginInstall
<1>13. ASSUME NEW p \in Commands, Installed(p) PROVE Ends
  BY <1>13 DEF Installed
<1>14. ASSUME NEW p \in Commands, InstallFails(p) PROVE Ends
  BY <1>14 DEF InstallFails
<1>15. ASSUME NEW p \in Commands, CheckExists(p) PROVE Ends
  BY <1>15 DEF CheckExists
<1>16. ASSUME NEW p \in Commands, NextCluster(p) PROVE Ends
  BY <1>16 DEF NextCluster
<1>17. ASSUME NEW p \in Commands, ListEnds(p) PROVE Ends
  BY <1>17 DEF ListEnds
<1>18. ASSUME NEW p \in Commands, Names(p) PROVE Ends
  BY <1>18 DEF Names, AfterNames, Running, IdOf, Creating, Active
<1>19. ASSUME NEW p \in Commands, NoNames(p) PROVE Ends
  BY <1>19 DEF NoNames
<1>20. ASSUME NEW p \in Commands, DestroyVm(p) PROVE Ends
  BY <1>20 DEF DestroyVm
<1>21. ASSUME NEW p \in Commands, VmsDestroyed(p) PROVE Ends
  BY <1>21 DEF VmsDestroyed
<1>22. ASSUME NEW p \in Commands, RemoveWorkspace(p) PROVE Ends
  <2>1. CASE p = q
    BY <1>22, <2>1 DEF RemoveWorkspace
  <2>2. CASE p # q
    BY <1>22, <2>2 DEF RemoveWorkspace, Return
  <2>. QED
    BY <2>1, <2>2
<1>23. ASSUME NEW p \in Commands, ListInstances(p) PROVE Ends
  BY <1>23 DEF ListInstances
<1>24. ASSUME NEW p \in Commands, NoInstances(p) PROVE Ends
  BY <1>24 DEF NoInstances
<1>25. ASSUME NEW p \in Commands, Delete(p) PROVE Ends
  BY <1>25 DEF Delete
<1>26. ASSUME NEW p \in Commands, DeletedBefore(p) PROVE Ends
  BY <1>26 DEF DeletedBefore, Return
<1>27. ASSUME NEW p \in Commands, DeleteWaited(p) PROVE Ends
  <2>1. CASE p = q
    BY <1>27, <2>1 DEF DeleteWaited
  <2>2. CASE p # q
    BY <1>27, <2>2 DEF DeleteWaited, Return
  <2>. QED
    BY <2>1, <2>2
<1>28. ASSUME NEW p \in Commands, ReadRunning(p) PROVE Ends
  BY <1>28 DEF ReadRunning
<1>29. ASSUME NEW p \in Commands, ReadAll(p) PROVE Ends
  BY <1>29 DEF ReadAll
<1>30. ASSUME NEW p \in Commands, CleanEnds(p) PROVE Ends
  BY <1>30 DEF CleanEnds
<1>31. ASSUME NEW p \in Commands, Unregister(p) PROVE Ends
  BY <1>31 DEF Unregister
<1>32. ASSUME NEW p \in Commands, UnregisterFails(p) PROVE Ends
  BY <1>32 DEF UnregisterFails
<1>33. ASSUME NEW p \in Commands, Stops(p) PROVE Ends
  BY <1>33 DEF Stops, Active
<1>34. ASSUME NEW p \in Commands, StackComplete(p) PROVE Ends
  BY <1>34 DEF StackComplete
<1>35. ASSUME NEW p \in Commands, StackFails(p) PROVE Ends
  BY <1>35 DEF StackFails
<1>36. ASSUME NEW p \in Commands, StackDeleted(p) PROVE Ends
  BY <1>36 DEF StackDeleted
<1>37. ASSUME NEW p \in Commands, DeletionFails(p) PROVE Ends
  BY <1>37 DEF DeletionFails
<1>38. ASSUME NEW m \in Machines, Launch(m) PROVE Ends
  BY <1>38 DEF Launch
<1>39. ASSUME NEW m \in Machines, Terminate(m) PROVE Ends
  BY <1>39 DEF Terminate
<1>40. ASSUME Reboot PROVE Ends
  BY <1>40 DEF Reboot, Active
<1>41. CASE UNCHANGED vars
  BY <1>41 DEF vars
<1>. QED
  BY <1>1, <1>2, <1>3, <1>4, <1>5, <1>6, <1>7, <1>8, <1>9, <1>10, <1>11,
    <1>12, <1>13, <1>14, <1>15, <1>16, <1>17, <1>18, <1>19, <1>20, <1>21,
    <1>22, <1>23, <1>24, <1>25, <1>26, <1>27, <1>28, <1>29, <1>30, <1>31,
    <1>32, <1>33, <1>34, <1>35, <1>36, <1>37, <1>38, <1>39, <1>40, <1>41
  DEF Next, Create, Destroy, Clean, CloudFormation, AllEnded

\* When a cluster has been destroyed none of its machines runs, nor of any
\* cluster with its ID but one that met another command.
THEOREM DestroyedIsWhole == Spec => DestroyIsWhole
<1> DEFINE Inv == /\ TypeOK /\ ToolInv /\ ListedInv /\ IdInv /\ StackInv /\ RaceInv
                  /\ PathInv /\ OwnerInv /\ UntaggedInv /\ TagRaceInv /\ DestroyInv
           Whole == \A p \in Commands :
                      pc[p] \in {"rmtree", "deleted"} /\ pc'[p] \in {"done", "list"} =>
                        \A m \in Machines : IdOf(m) = id[p] /\ power'[m] = "on" =>
                          m[1] \in raced \/ (backend = "vagrant" /\ m[1] \in struck)
<1>1. Init => Inv
  BY TypeInit, ToolInit, ListedInit, StackInit, ReachInit, DestroyInit,
     CloudAssumption DEF Init, IdInv
<1>2. Inv /\ [Next]_vars => Inv'
  BY TypeStep, ToolStep, ListedStep, IdStep, StackStep, RaceStep, PathStep,
     OwnerStep, UntaggedStep, TagRaceStep, DestroyStep DEF ListedInv
<1>3. Inv /\ [Next]_vars => Whole
  <2> SUFFICES ASSUME Inv, [Next]_vars, NEW p \in Commands,
                      pc[p] \in {"rmtree", "deleted"}, pc'[p] \in {"done", "list"},
                      NEW m \in Machines, IdOf(m) = id[p], power'[m] = "on"
               PROVE  m[1] \in raced \/ (backend = "vagrant" /\ m[1] \in struck)
    OBVIOUS
  <2> DEFINE r == m[1]
  <2>1. \/ RemoveWorkspace(p) /\ pc[p] = "rmtree"
        \/ DeleteWaited(p) /\ pc[p] = "deleted" /\ stack[owner[p]] = "none"
    BY DestroyEnds
  <2>2. power[m] = "on" /\ kind[p] # "create"
    BY <2>1 DEF RemoveWorkspace, DeleteWaited, machines, Return, Goto, TypeOK
  <2>3. r \in Commands /\ id[r] = id[p] /\ kind[r] = "create" /\ m \in MachinesOf(r)
    BY <2>2, MachineFacts DEF IdOf, ToolInv
  <2>4. CASE r # owner[p]
    <3>1. r \in raced \/ OutOfReach(r)
      BY <2>2, <2>3, <2>4 DEF DestroyInv
    <3>2. ~ OutOfReach(r)
      BY <2>2, <2>3 DEF OutOfReach, Still, StackInv, TypeOK, Backends
    <3>. QED
      BY <3>1, <3>2
  <2>5. CASE r = owner[p] /\ pc[p] = "rmtree"
    <3>1. backend = "vagrant"
      BY <2>5 DEF PathInv, TypeOK, Backends
    <3>. QED
      BY <2>2, <2>3, <2>5, <3>1 DEF OwnerInv
  <2>6. CASE r = owner[p] /\ pc[p] = "deleted"
    <3>1. backend = "aws"
      BY <2>6 DEF ToolInv, TypeOK, Backends
    <3>2. stack[r] = "none"
      BY <2>1, <2>6
    <3>. QED
      BY <2>2, <2>3, <3>1, <3>2 DEF StackInv
  <2>. QED
    BY <2>4, <2>5, <2>6
<1>4. Inv /\ [Next]_vars => [Whole]_vars
  BY <1>3
<1>. QED
  BY <1>1, <1>2, <1>4, PTL DEF Spec, DestroyIsWhole

-----------------------------------------------------------------------------
(* Clean removes the VMs that did not run when it began.                   *)

\* vagrant up will not import the VM any more.
Past(m) ==
  /\ pc[m[1]] # "start"
  /\ pc[m[1]] \in {"import", "describe"} => m[2] < at[m[1]]
  /\ pc[m[1]] = "boot" => m[2] <= at[m[1]]

PastInv == backend = "vagrant" => \A m \in marked : Past(m)

\* The clean has removed the VM, or still will, or has stopped.
Dealt(p, m) ==
  \/ power[m] = "absent"
  \/ pc[p] = "all" /\ m \in marked /\ id[m[1]] \notin todo[p]
  \/ m \in stale[p] /\ pc[p] # "done"
  \/ pc[p] \in {"failed", "interrupted"}

AbortedInv ==
  \A p \in Commands :
    /\ pc[p] = "start" => aborted[p] = {}
    /\ \A m \in aborted[p] :
         /\ backend = "vagrant" /\ kind[p] \in {"clean", "clean-all"}
         /\ kind[m[1]] = "create" /\ Past(m) /\ Dealt(p, m)

LEMMA AbortedInit ==
  ASSUME Init
  PROVE  PastInv /\ AbortedInv
  BY DEF Init, PastInv, AbortedInv

LEMMA PastStays ==
  ASSUME TypeOK, ToolInv, [Next]_vars, backend = "vagrant",
         NEW r \in Machines, Past(r)
  PROVE  Past(r)'
<1> USE MachineFacts DEF TypeOK, ToolInv, At, Goto, args, command, machines,
      history, bounds, Roles, Backends, Kinds, Ended, CreateOnly, OthersOnly,
      Past
<1> USE Sizes
<1>1. ASSUME NEW p \in Commands, Begin(p) PROVE Past(r)'
  BY <1>1 DEF Begin, Creating, Active
<1>2. ASSUME NEW p \in Commands, NotUnique(p) PROVE Past(r)'
  BY <1>2 DEF NotUnique
<1>3. ASSUME NEW p \in Commands, Import(p) PROVE Past(r)'
  BY <1>3 DEF Import
<1>4. ASSUME NEW p \in Commands, Describe(p) PROVE Past(r)'
  BY <1>4 DEF Describe
<1>5. ASSUME NEW p \in Commands, Boot(p) PROVE Past(r)'
  BY <1>5 DEF Boot
<1>6. ASSUME NEW p \in Commands, BootFails(p) PROVE Past(r)'
  BY <1>6 DEF BootFails
<1>7. ASSUME NEW p \in Commands, RequestStack(p) PROVE Past(r)'
  BY <1>7 DEF RequestStack
<1>8. ASSUME NEW p \in Commands, NameIsTaken(p) PROVE Past(r)'
  BY <1>8 DEF NameIsTaken
<1>9. ASSUME NEW p \in Commands, Waited(p) PROVE Past(r)'
  BY <1>9 DEF Waited
<1>10. ASSUME NEW p \in Commands, Tag(p) PROVE Past(r)'
  BY <1>10 DEF Tag, AfterTagging, Role
<1>11. ASSUME NEW p \in Commands, Provisioned(p) PROVE Past(r)'
  BY <1>11 DEF Provisioned
<1>12. ASSUME NEW p \in Commands, BeginInstall(p) PROVE Past(r)'
  BY <1>12 DEF BeginInstall
<1>13. ASSUME NEW p \in Commands, Installed(p) PROVE Past(r)'
  BY <1>13 DEF Installed
<1>14. ASSUME NEW p \in Commands, InstallFails(p) PROVE Past(r)'
  BY <1>14 DEF InstallFails
<1>15. ASSUME NEW p \in Commands, CheckExists(p) PROVE Past(r)'
  BY <1>15 DEF CheckExists
<1>16. ASSUME NEW p \in Commands, NextCluster(p) PROVE Past(r)'
  BY <1>16 DEF NextCluster
<1>17. ASSUME NEW p \in Commands, ListEnds(p) PROVE Past(r)'
  BY <1>17 DEF ListEnds
<1>18. ASSUME NEW p \in Commands, Names(p) PROVE Past(r)'
  BY <1>18 DEF Names, AfterNames, Running, IdOf, Creating, Active
<1>19. ASSUME NEW p \in Commands, NoNames(p) PROVE Past(r)'
  BY <1>19 DEF NoNames
<1>20. ASSUME NEW p \in Commands, DestroyVm(p) PROVE Past(r)'
  BY <1>20 DEF DestroyVm
<1>21. ASSUME NEW p \in Commands, VmsDestroyed(p) PROVE Past(r)'
  BY <1>21 DEF VmsDestroyed
<1>22. ASSUME NEW p \in Commands, RemoveWorkspace(p) PROVE Past(r)'
  BY <1>22 DEF RemoveWorkspace, Return
<1>23. ASSUME NEW p \in Commands, ListInstances(p) PROVE Past(r)'
  BY <1>23 DEF ListInstances
<1>24. ASSUME NEW p \in Commands, NoInstances(p) PROVE Past(r)'
  BY <1>24 DEF NoInstances
<1>25. ASSUME NEW p \in Commands, Delete(p) PROVE Past(r)'
  BY <1>25 DEF Delete
<1>26. ASSUME NEW p \in Commands, DeletedBefore(p) PROVE Past(r)'
  BY <1>26 DEF DeletedBefore, Return
<1>27. ASSUME NEW p \in Commands, DeleteWaited(p) PROVE Past(r)'
  BY <1>27 DEF DeleteWaited, Return
<1>28. ASSUME NEW p \in Commands, ReadRunning(p) PROVE Past(r)'
  BY <1>28 DEF ReadRunning
<1>29. ASSUME NEW p \in Commands, ReadAll(p) PROVE Past(r)'
  BY <1>29 DEF ReadAll
<1>30. ASSUME NEW p \in Commands, CleanEnds(p) PROVE Past(r)'
  BY <1>30 DEF CleanEnds
<1>31. ASSUME NEW p \in Commands, Unregister(p) PROVE Past(r)'
  BY <1>31 DEF Unregister
<1>32. ASSUME NEW p \in Commands, UnregisterFails(p) PROVE Past(r)'
  BY <1>32 DEF UnregisterFails
<1>33. ASSUME NEW p \in Commands, Stops(p) PROVE Past(r)'
  BY <1>33 DEF Stops, Active
<1>34. ASSUME NEW p \in Commands, StackComplete(p) PROVE Past(r)'
  BY <1>34 DEF StackComplete
<1>35. ASSUME NEW p \in Commands, StackFails(p) PROVE Past(r)'
  BY <1>35 DEF StackFails
<1>36. ASSUME NEW p \in Commands, StackDeleted(p) PROVE Past(r)'
  BY <1>36 DEF StackDeleted
<1>37. ASSUME NEW p \in Commands, DeletionFails(p) PROVE Past(r)'
  BY <1>37 DEF DeletionFails
<1>38. ASSUME NEW m \in Machines, Launch(m) PROVE Past(r)'
  BY <1>38 DEF Launch
<1>39. ASSUME NEW m \in Machines, Terminate(m) PROVE Past(r)'
  BY <1>39 DEF Terminate
<1>40. ASSUME Reboot PROVE Past(r)'
  BY <1>40 DEF Reboot, Active
<1>41. CASE UNCHANGED vars
  BY <1>41 DEF vars
<1>. QED
  BY <1>1, <1>2, <1>3, <1>4, <1>5, <1>6, <1>7, <1>8, <1>9, <1>10, <1>11,
    <1>12, <1>13, <1>14, <1>15, <1>16, <1>17, <1>18, <1>19, <1>20, <1>21,
    <1>22, <1>23, <1>24, <1>25, <1>26, <1>27, <1>28, <1>29, <1>30, <1>31,
    <1>32, <1>33, <1>34, <1>35, <1>36, <1>37, <1>38, <1>39, <1>40, <1>41
  DEF Next, Create, Destroy, Clean, CloudFormation, AllEnded

LEMMA NewlyMarked ==
  ASSUME TypeOK, ToolInv, [Next]_vars, backend = "vagrant",
         NEW r \in marked', r \notin marked
  PROVE  Past(r)'
<1> USE MachineFacts DEF TypeOK, ToolInv, At, Goto, args, command, machines,
      history, bounds, Roles, Backends, Kinds, Ended, CreateOnly, OthersOnly,
      Past
<1> USE Sizes
<1>1. ASSUME NEW p \in Commands, Begin(p) PROVE Past(r)'
  BY <1>1 DEF Begin, Creating, Active
<1>2. ASSUME NEW p \in Commands, NotUnique(p) PROVE Past(r)'
  BY <1>2 DEF NotUnique
<1>3. ASSUME NEW p \in Commands, Import(p) PROVE Past(r)'
  BY <1>3 DEF Import
<1>4. ASSUME NEW p \in Commands, Describe(p) PROVE Past(r)'
  BY <1>4 DEF Describe
<1>5. ASSUME NEW p \in Commands, Boot(p) PROVE Past(r)'
  BY <1>5 DEF Boot
<1>6. ASSUME NEW p \in Commands, BootFails(p) PROVE Past(r)'
  BY <1>6 DEF BootFails
<1>7. ASSUME NEW p \in Commands, RequestStack(p) PROVE Past(r)'
  BY <1>7 DEF RequestStack
<1>8. ASSUME NEW p \in Commands, NameIsTaken(p) PROVE Past(r)'
  BY <1>8 DEF NameIsTaken
<1>9. ASSUME NEW p \in Commands, Waited(p) PROVE Past(r)'
  BY <1>9 DEF Waited
<1>10. ASSUME NEW p \in Commands, Tag(p) PROVE Past(r)'
  BY <1>10 DEF Tag, AfterTagging, Role
<1>11. ASSUME NEW p \in Commands, Provisioned(p) PROVE Past(r)'
  BY <1>11 DEF Provisioned
<1>12. ASSUME NEW p \in Commands, BeginInstall(p) PROVE Past(r)'
  BY <1>12 DEF BeginInstall
<1>13. ASSUME NEW p \in Commands, Installed(p) PROVE Past(r)'
  BY <1>13 DEF Installed
<1>14. ASSUME NEW p \in Commands, InstallFails(p) PROVE Past(r)'
  BY <1>14 DEF InstallFails
<1>15. ASSUME NEW p \in Commands, CheckExists(p) PROVE Past(r)'
  BY <1>15 DEF CheckExists
<1>16. ASSUME NEW p \in Commands, NextCluster(p) PROVE Past(r)'
  BY <1>16 DEF NextCluster
<1>17. ASSUME NEW p \in Commands, ListEnds(p) PROVE Past(r)'
  BY <1>17 DEF ListEnds
<1>18. ASSUME NEW p \in Commands, Names(p) PROVE Past(r)'
  BY <1>18 DEF Names, AfterNames, Running, IdOf, Creating, Active
<1>19. ASSUME NEW p \in Commands, NoNames(p) PROVE Past(r)'
  BY <1>19 DEF NoNames
<1>20. ASSUME NEW p \in Commands, DestroyVm(p) PROVE Past(r)'
  BY <1>20 DEF DestroyVm
<1>21. ASSUME NEW p \in Commands, VmsDestroyed(p) PROVE Past(r)'
  BY <1>21 DEF VmsDestroyed
<1>22. ASSUME NEW p \in Commands, RemoveWorkspace(p) PROVE Past(r)'
  BY <1>22 DEF RemoveWorkspace, Return
<1>23. ASSUME NEW p \in Commands, ListInstances(p) PROVE Past(r)'
  BY <1>23 DEF ListInstances
<1>24. ASSUME NEW p \in Commands, NoInstances(p) PROVE Past(r)'
  BY <1>24 DEF NoInstances
<1>25. ASSUME NEW p \in Commands, Delete(p) PROVE Past(r)'
  BY <1>25 DEF Delete
<1>26. ASSUME NEW p \in Commands, DeletedBefore(p) PROVE Past(r)'
  BY <1>26 DEF DeletedBefore, Return
<1>27. ASSUME NEW p \in Commands, DeleteWaited(p) PROVE Past(r)'
  BY <1>27 DEF DeleteWaited, Return
<1>28. ASSUME NEW p \in Commands, ReadRunning(p) PROVE Past(r)'
  BY <1>28 DEF ReadRunning
<1>29. ASSUME NEW p \in Commands, ReadAll(p) PROVE Past(r)'
  BY <1>29 DEF ReadAll
<1>30. ASSUME NEW p \in Commands, CleanEnds(p) PROVE Past(r)'
  BY <1>30 DEF CleanEnds
<1>31. ASSUME NEW p \in Commands, Unregister(p) PROVE Past(r)'
  BY <1>31 DEF Unregister
<1>32. ASSUME NEW p \in Commands, UnregisterFails(p) PROVE Past(r)'
  BY <1>32 DEF UnregisterFails
<1>33. ASSUME NEW p \in Commands, Stops(p) PROVE Past(r)'
  BY <1>33 DEF Stops, Active
<1>34. ASSUME NEW p \in Commands, StackComplete(p) PROVE Past(r)'
  BY <1>34 DEF StackComplete
<1>35. ASSUME NEW p \in Commands, StackFails(p) PROVE Past(r)'
  BY <1>35 DEF StackFails
<1>36. ASSUME NEW p \in Commands, StackDeleted(p) PROVE Past(r)'
  BY <1>36 DEF StackDeleted
<1>37. ASSUME NEW p \in Commands, DeletionFails(p) PROVE Past(r)'
  BY <1>37 DEF DeletionFails
<1>38. ASSUME NEW m \in Machines, Launch(m) PROVE Past(r)'
  BY <1>38 DEF Launch
<1>39. ASSUME NEW m \in Machines, Terminate(m) PROVE Past(r)'
  BY <1>39 DEF Terminate
<1>40. ASSUME Reboot PROVE Past(r)'
  BY <1>40 DEF Reboot, Active
<1>41. CASE UNCHANGED vars
  BY <1>41 DEF vars
<1>. QED
  BY <1>1, <1>2, <1>3, <1>4, <1>5, <1>6, <1>7, <1>8, <1>9, <1>10, <1>11,
    <1>12, <1>13, <1>14, <1>15, <1>16, <1>17, <1>18, <1>19, <1>20, <1>21,
    <1>22, <1>23, <1>24, <1>25, <1>26, <1>27, <1>28, <1>29, <1>30, <1>31,
    <1>32, <1>33, <1>34, <1>35, <1>36, <1>37, <1>38, <1>39, <1>40, <1>41
  DEF Next, Create, Destroy, Clean, CloudFormation, AllEnded

LEMMA PastStep ==
  ASSUME TypeOK, ToolInv, PastInv, [Next]_vars
  PROVE  PastInv'
<1> SUFFICES ASSUME backend = "vagrant", NEW r \in marked'
             PROVE  Past(r)'
  BY Constant DEF PastInv
<1>1. CASE r \in marked
  BY <1>1, PastStays DEF PastInv, TypeOK
<1>2. CASE r \notin marked
  BY <1>2, NewlyMarked
<1>. QED
  BY <1>1, <1>2

LEMMA DealtStays ==
  ASSUME TypeOK, ToolInv, CleanInv, PathInv, [Next]_vars, backend = "vagrant",
         NEW q \in Commands, kind[q] \in {"clean", "clean-all"}, pc[q] # "start",
         NEW r \in Machines, kind[r[1]] = "create", Past(r), Dealt(q, r)
  PROVE  Dealt(q, r)'
<1> USE MachineFacts DEF TypeOK, ToolInv, At, Goto, args, command, machines,
      history, bounds, Roles, Backends, Kinds, Ended, CreateOnly, OthersOnly,
      Past, Dealt
<1> USE Sizes
<1>1. ASSUME NEW p \in Commands, Begin(p) PROVE Dealt(q, r)'
  BY <1>1 DEF Begin, Creating, Active
<1>2. ASSUME NEW p \in Commands, NotUnique(p) PROVE Dealt(q, r)'
  BY <1>2 DEF NotUnique
<1>3. ASSUME NEW p \in Commands, Import(p) PROVE Dealt(q, r)'
  BY <1>3 DEF Import
<1>4. ASSUME NEW p \in Commands, Describe(p) PROVE Dealt(q, r)'
  BY <1>4 DEF Describe
<1>5. ASSUME NEW p \in Commands, Boot(p) PROVE Dealt(q, r)'
  <2>1. pc'[q] = pc[q] /\ UNCHANGED <<marked, id, todo, stale>>
    BY <1>5 DEF Boot
  <2>2. power[r] = "absent" => power'[r] = "absent"
    <3>1. power[<<p, at[p]>>] # "absent"
      BY <1>5 DEF Boot
    <3>2. \A n \in Machines : n # <<p, at[p]>> => power'[n] = power[n]
      BY <1>5 DEF Boot
    <3>. QED
      BY <3>1, <3>2
  <2>. QED
    BY <2>1, <2>2
<1>6. ASSUME NEW p \in Commands, BootFails(p) PROVE Dealt(q, r)'
  BY <1>6 DEF BootFails
<1>7. ASSUME NEW p \in Commands, RequestStack(p) PROVE Dealt(q, r)'
  BY <1>7 DEF RequestStack
<1>8. ASSUME NEW p \in Commands, NameIsTaken(p) PROVE Dealt(q, r)'
  BY <1>8 DEF NameIsTaken
<1>9. ASSUME NEW p \in Commands, Waited(p) PROVE Dealt(q, r)'
  BY <1>9 DEF Waited
<1>10. ASSUME NEW p \in Commands, Tag(p) PROVE Dealt(q, r)'
  BY <1>10 DEF Tag, AfterTagging, Role
<1>11. ASSUME NEW p \in Commands, Provisioned(p) PROVE Dealt(q, r)'
  BY <1>11 DEF Provisioned
<1>12. ASSUME NEW p \in Commands, BeginInstall(p) PROVE Dealt(q, r)'
  BY <1>12 DEF BeginInstall
<1>13. ASSUME NEW p \in Commands, Installed(p) PROVE Dealt(q, r)'
  BY <1>13 DEF Installed
<1>14. ASSUME NEW p \in Commands, InstallFails(p) PROVE Dealt(q, r)'
  BY <1>14 DEF InstallFails
<1>15. ASSUME NEW p \in Commands, CheckExists(p) PROVE Dealt(q, r)'
  BY <1>15 DEF CheckExists
<1>16. ASSUME NEW p \in Commands, NextCluster(p) PROVE Dealt(q, r)'
  BY <1>16 DEF NextCluster
<1>17. ASSUME NEW p \in Commands, ListEnds(p) PROVE Dealt(q, r)'
  BY <1>17 DEF ListEnds, PathInv
<1>18. ASSUME NEW p \in Commands, Names(p) PROVE Dealt(q, r)'
  BY <1>18 DEF Names, AfterNames, Running, IdOf, Creating, Active
<1>19. ASSUME NEW p \in Commands, NoNames(p) PROVE Dealt(q, r)'
  BY <1>19 DEF NoNames
<1>20. ASSUME NEW p \in Commands, DestroyVm(p) PROVE Dealt(q, r)'
  BY <1>20 DEF DestroyVm
<1>21. ASSUME NEW p \in Commands, VmsDestroyed(p) PROVE Dealt(q, r)'
  BY <1>21 DEF VmsDestroyed
<1>22. ASSUME NEW p \in Commands, RemoveWorkspace(p) PROVE Dealt(q, r)'
  BY <1>22 DEF RemoveWorkspace, Return
<1>23. ASSUME NEW p \in Commands, ListInstances(p) PROVE Dealt(q, r)'
  BY <1>23 DEF ListInstances
<1>24. ASSUME NEW p \in Commands, NoInstances(p) PROVE Dealt(q, r)'
  BY <1>24 DEF NoInstances
<1>25. ASSUME NEW p \in Commands, Delete(p) PROVE Dealt(q, r)'
  BY <1>25 DEF Delete
<1>26. ASSUME NEW p \in Commands, DeletedBefore(p) PROVE Dealt(q, r)'
  BY <1>26 DEF DeletedBefore, Return
<1>27. ASSUME NEW p \in Commands, DeleteWaited(p) PROVE Dealt(q, r)'
  BY <1>27 DEF DeleteWaited, Return
<1>28. ASSUME NEW p \in Commands, ReadRunning(p) PROVE Dealt(q, r)'
  BY <1>28 DEF ReadRunning
<1>29. ASSUME NEW p \in Commands, ReadAll(p) PROVE Dealt(q, r)'
  <2>1. CASE p = q
    <3>1. stale[q] = {} \/ pc[q] # "all"
      BY DEF CleanInv
    <3>2. r \in marked /\ id[r[1]] \notin todo[q] => r \in stale'[q] /\ pc'[q] # "done"
      BY <1>29, <2>1 DEF ReadAll, IdOf
    <3>3. pc[q] = "all" /\ power' = power
      BY <1>29, <2>1 DEF ReadAll
    <3>. QED
      BY <3>1, <3>2, <3>3
  <2>2. CASE p # q
    <3>1. /\ pc'[q] = pc[q] /\ stale'[q] = stale[q]
          /\ UNCHANGED <<power, marked, id, todo>>
      BY <1>29, <2>2 DEF ReadAll
    <3>. QED
      BY <3>1
  <2>. QED
    BY <2>1, <2>2
<1>30. ASSUME NEW p \in Commands, CleanEnds(p) PROVE Dealt(q, r)'
  BY <1>30 DEF CleanEnds
<1>31. ASSUME NEW p \in Commands, Unregister(p) PROVE Dealt(q, r)'
  BY <1>31 DEF Unregister
<1>32. ASSUME NEW p \in Commands, UnregisterFails(p) PROVE Dealt(q, r)'
  BY <1>32 DEF UnregisterFails
<1>33. ASSUME NEW p \in Commands, Stops(p) PROVE Dealt(q, r)'
  BY <1>33 DEF Stops, Active
<1>34. ASSUME NEW p \in Commands, StackComplete(p) PROVE Dealt(q, r)'
  BY <1>34 DEF StackComplete
<1>35. ASSUME NEW p \in Commands, StackFails(p) PROVE Dealt(q, r)'
  BY <1>35 DEF StackFails
<1>36. ASSUME NEW p \in Commands, StackDeleted(p) PROVE Dealt(q, r)'
  BY <1>36 DEF StackDeleted
<1>37. ASSUME NEW p \in Commands, DeletionFails(p) PROVE Dealt(q, r)'
  BY <1>37 DEF DeletionFails
<1>38. ASSUME NEW m \in Machines, Launch(m) PROVE Dealt(q, r)'
  BY <1>38 DEF Launch
<1>39. ASSUME NEW m \in Machines, Terminate(m) PROVE Dealt(q, r)'
  BY <1>39 DEF Terminate
<1>40. ASSUME Reboot PROVE Dealt(q, r)'
  BY <1>40 DEF Reboot, Active
<1>41. CASE UNCHANGED vars
  BY <1>41 DEF vars
<1>. QED
  BY <1>1, <1>2, <1>3, <1>4, <1>5, <1>6, <1>7, <1>8, <1>9, <1>10, <1>11,
    <1>12, <1>13, <1>14, <1>15, <1>16, <1>17, <1>18, <1>19, <1>20, <1>21,
    <1>22, <1>23, <1>24, <1>25, <1>26, <1>27, <1>28, <1>29, <1>30, <1>31,
    <1>32, <1>33, <1>34, <1>35, <1>36, <1>37, <1>38, <1>39, <1>40, <1>41
  DEF Next, Create, Destroy, Clean, CloudFormation, AllEnded

LEMMA AbortedSet ==
  ASSUME TypeOK, ToolInv, [Next]_vars, NEW q \in Commands
  PROVE  /\ aborted'[q] = aborted[q] \/ ReadRunning(q)
         /\ pc'[q] = "start" => pc[q] = "start" /\ aborted'[q] = aborted[q]
<1> DEFINE Changes ==
      /\ aborted'[q] = aborted[q] \/ ReadRunning(q)
      /\ pc'[q] = "start" => pc[q] = "start" /\ aborted'[q] = aborted[q]
<1> USE MachineFacts DEF TypeOK, ToolInv, At, Goto, args, command, machines,
      history, bounds, Roles, Backends, Kinds, Ended, CreateOnly, OthersOnly
<1>1. ASSUME NEW p \in Commands, Begin(p) PROVE Changes
  BY <1>1 DEF Begin, Creating, Active
<1>2. ASSUME NEW p \in Commands, NotUnique(p) PROVE Changes
  BY <1>2 DEF NotUnique
<1>3. ASSUME NEW p \in Commands, Import(p) PROVE Changes
  BY <1>3 DEF Import
<1>4. ASSUME NEW p \in Commands, Describe(p) PROVE Changes
  BY <1>4 DEF Describe
<1>5. ASSUME NEW p \in Commands, Boot(p) PROVE Changes
  BY <1>5 DEF Boot
<1>6. ASSUME NEW p \in Commands, BootFails(p) PROVE Changes
  BY <1>6 DEF BootFails
<1>7. ASSUME NEW p \in Commands, RequestStack(p) PROVE Changes
  BY <1>7 DEF RequestStack
<1>8. ASSUME NEW p \in Commands, NameIsTaken(p) PROVE Changes
  BY <1>8 DEF NameIsTaken
<1>9. ASSUME NEW p \in Commands, Waited(p) PROVE Changes
  BY <1>9 DEF Waited
<1>10. ASSUME NEW p \in Commands, Tag(p) PROVE Changes
  BY <1>10 DEF Tag, AfterTagging, Role
<1>11. ASSUME NEW p \in Commands, Provisioned(p) PROVE Changes
  BY <1>11 DEF Provisioned
<1>12. ASSUME NEW p \in Commands, BeginInstall(p) PROVE Changes
  BY <1>12 DEF BeginInstall
<1>13. ASSUME NEW p \in Commands, Installed(p) PROVE Changes
  BY <1>13 DEF Installed
<1>14. ASSUME NEW p \in Commands, InstallFails(p) PROVE Changes
  BY <1>14 DEF InstallFails
<1>15. ASSUME NEW p \in Commands, CheckExists(p) PROVE Changes
  BY <1>15 DEF CheckExists
<1>16. ASSUME NEW p \in Commands, NextCluster(p) PROVE Changes
  BY <1>16 DEF NextCluster
<1>17. ASSUME NEW p \in Commands, ListEnds(p) PROVE Changes
  BY <1>17 DEF ListEnds
<1>18. ASSUME NEW p \in Commands, Names(p) PROVE Changes
  BY <1>18 DEF Names, AfterNames, Running, IdOf, Creating, Active
<1>19. ASSUME NEW p \in Commands, NoNames(p) PROVE Changes
  BY <1>19 DEF NoNames
<1>20. ASSUME NEW p \in Commands, DestroyVm(p) PROVE Changes
  BY <1>20 DEF DestroyVm
<1>21. ASSUME NEW p \in Commands, VmsDestroyed(p) PROVE Changes
  BY <1>21 DEF VmsDestroyed
<1>22. ASSUME NEW p \in Commands, RemoveWorkspace(p) PROVE Changes
  BY <1>22 DEF RemoveWorkspace, Return
<1>23. ASSUME NEW p \in Commands, ListInstances(p) PROVE Changes
  BY <1>23 DEF ListInstances
<1>24. ASSUME NEW p \in Commands, NoInstances(p) PROVE Changes
  BY <1>24 DEF NoInstances
<1>25. ASSUME NEW p \in Commands, Delete(p) PROVE Changes
  BY <1>25 DEF Delete
<1>26. ASSUME NEW p \in Commands, DeletedBefore(p) PROVE Changes
  BY <1>26 DEF DeletedBefore, Return
<1>27. ASSUME NEW p \in Commands, DeleteWaited(p) PROVE Changes
  BY <1>27 DEF DeleteWaited, Return
<1>28. ASSUME NEW p \in Commands, ReadRunning(p) PROVE Changes
  <2>1. CASE p = q
    BY <1>28, <2>1 DEF ReadRunning
  <2>2. CASE p # q
    BY <1>28, <2>2 DEF ReadRunning
  <2>. QED
    BY <2>1, <2>2
<1>29. ASSUME NEW p \in Commands, ReadAll(p) PROVE Changes
  BY <1>29 DEF ReadAll
<1>30. ASSUME NEW p \in Commands, CleanEnds(p) PROVE Changes
  BY <1>30 DEF CleanEnds
<1>31. ASSUME NEW p \in Commands, Unregister(p) PROVE Changes
  BY <1>31 DEF Unregister
<1>32. ASSUME NEW p \in Commands, UnregisterFails(p) PROVE Changes
  BY <1>32 DEF UnregisterFails
<1>33. ASSUME NEW p \in Commands, Stops(p) PROVE Changes
  BY <1>33 DEF Stops, Active
<1>34. ASSUME NEW p \in Commands, StackComplete(p) PROVE Changes
  BY <1>34 DEF StackComplete
<1>35. ASSUME NEW p \in Commands, StackFails(p) PROVE Changes
  BY <1>35 DEF StackFails
<1>36. ASSUME NEW p \in Commands, StackDeleted(p) PROVE Changes
  BY <1>36 DEF StackDeleted
<1>37. ASSUME NEW p \in Commands, DeletionFails(p) PROVE Changes
  BY <1>37 DEF DeletionFails
<1>38. ASSUME NEW m \in Machines, Launch(m) PROVE Changes
  BY <1>38 DEF Launch
<1>39. ASSUME NEW m \in Machines, Terminate(m) PROVE Changes
  BY <1>39 DEF Terminate
<1>40. ASSUME Reboot PROVE Changes
  BY <1>40 DEF Reboot, Active
<1>41. CASE UNCHANGED vars
  BY <1>41 DEF vars
<1>. QED
  BY <1>1, <1>2, <1>3, <1>4, <1>5, <1>6, <1>7, <1>8, <1>9, <1>10, <1>11,
    <1>12, <1>13, <1>14, <1>15, <1>16, <1>17, <1>18, <1>19, <1>20, <1>21,
    <1>22, <1>23, <1>24, <1>25, <1>26, <1>27, <1>28, <1>29, <1>30, <1>31,
    <1>32, <1>33, <1>34, <1>35, <1>36, <1>37, <1>38, <1>39, <1>40, <1>41
  DEF Next, Create, Destroy, Clean, CloudFormation, AllEnded

LEMMA AbortedStep ==
  ASSUME TypeOK, ToolInv, CleanInv, PathInv, PastInv, AbortedInv, [Next]_vars
  PROVE  AbortedInv'
<1>1. ASSUME NEW q \in Commands, pc'[q] = "start" PROVE aborted'[q] = {}
  BY <1>1, AbortedSet DEF AbortedInv
<1>2. ASSUME NEW q \in Commands, NEW r \in aborted'[q]
      PROVE  /\ backend = "vagrant" /\ kind[q] \in {"clean", "clean-all"}
             /\ kind[r[1]] = "create" /\ Past(r)' /\ Dealt(q, r)'
  <2>1. CASE aborted'[q] = aborted[q]
    <3>1. r \in Machines /\ pc[q] # "start"
      BY <1>2, <2>1 DEF TypeOK, AbortedInv
    <3>. QED
      BY <1>2, <2>1, <3>1, PastStays, DealtStays DEF AbortedInv
  <2>2. CASE ReadRunning(q)
    <3>1. /\ kind[q] \in {"clean", "clean-all"} /\ pc'[q] = "all"
          /\ r \in marked /\ marked' = marked /\ id' = id
          /\ id[r[1]] \notin todo'[q]
      BY <1>2, <2>2 DEF ReadRunning, At, Goto, machines, IdOf, TypeOK
    <3>2. backend = "vagrant"
      BY <3>1 DEF CleanInv, TypeOK, Backends
    <3>3. r \in Machines /\ kind[r[1]] = "create"
      BY <3>1 DEF ToolInv, TypeOK
    <3>4. Past(r)'
      BY <3>1, <3>2, <3>3, PastStays DEF PastInv
    <3>. QED
      BY <3>1, <3>2, <3>3, <3>4 DEF Dealt
  <2>. QED
    BY <2>1, <2>2, AbortedSet
<1>. QED
  BY <1>1, <1>2, Constant DEF AbortedInv

\* A clean that comes to its end has removed the VMs that did not run when it
\* began, but for those whose ID a running cluster had.
THEOREM AbortedAreCleaned == Spec => []CleanRemovesAborted
<1> DEFINE Inv == /\ TypeOK /\ ToolInv /\ ListedInv /\ IdInv /\ CleanInv
                  /\ PathInv /\ PastInv /\ AbortedInv
<1>1. Init => Inv
  BY TypeInit, ToolInit, ListedInit, CleanInit, ReachInit, AbortedInit,
     CloudAssumption DEF Init, IdInv
<1>2. Inv /\ [Next]_vars => Inv'
  BY TypeStep, ToolStep, ListedStep, IdStep, CleanStep, PathStep, PastStep,
     AbortedStep
<1>3. Inv => CleanRemovesAborted
  BY DEF AbortedInv, Dealt, CleanRemovesAborted, At
<1>. QED
  BY <1>1, <1>2, <1>3, PTL DEF Spec
=============================================================================
