--------------------------- MODULE DockerCli_proofs ---------------------------
(***************************************************************************)
(* Proofs, for any number of calls of minidcos docker and of nodes, that   *)
(* the calls of DockerCli are well typed, that the ID of a cluster stays   *)
(* unique as far as create can see, that what has been created stays       *)
(* whole, that destroy leaves nothing of it and clean no container, and    *)
(* that loop devices are detached.                                         *)
(***************************************************************************)
EXTENDS DockerCli, TLAPS

-----------------------------------------------------------------------------
(* Containers.                                                             *)

LEMMA Owned ==
  ASSUME NEW p \in Calls
  PROVE  /\ \A x \in Own(p) : x \in Containers /\ x[1] = p /\ x[2] \in Nodes
         /\ \A k \in Nodes : <<p, k>> \in Own(p) /\ <<p, k>> \in Containers
         /\ \A x \in Containers : x[1] = p => x \in Own(p)
         /\ Sidecar(p) \in Sidecars /\ Sidecar(p)[1] = p
         /\ \A x \in Sidecars : x[1] = p => x = Sidecar(p)
  BY DEF Own, Containers, Sidecar, Sidecars

LEMMA Apart ==
  /\ \A x \in Containers : x \notin Sidecars /\ x[1] \in Calls /\ x # NoContainer
  /\ \A x \in Sidecars : x \notin Containers /\ x[1] \in Calls /\ x # NoContainer
<1>1. \A x \in Containers : x[1] \in Calls /\ x[2] \in Nat /\ x[2] # 0
  BY CliAssumption DEF Containers, Nodes, Size
<1>2. \A x \in Sidecars : x[1] \in Calls /\ x[2] = 0
  BY DEF Sidecars, Sidecar
<1>3. \A x \in Containers \cup Sidecars : x # NoContainer
  BY DEF Containers, Sidecars, Sidecar, NoContainer
<1>. QED
  BY <1>1, <1>2, <1>3

LEMMA Roles ==
  ASSUME NEW k \in Nodes
  PROVE  RoleOf(k) \in 1 .. 3
  BY DEF RoleOf

-----------------------------------------------------------------------------
(* Types.                                                                  *)

LEMMA TypeInit ==
  ASSUME Init
  PROVE  TypeOK
<1>1. faults \in 0 .. MaxFaults /\ exits \in 0 .. MaxFaults
  BY CliAssumption DEF Init
<1>. QED
  BY <1>1, CliAssumption DEF Init, TypeOK, Labels, Ended

LEMMA TypeStep ==
  ASSUME TypeOK, [Next]_vars
  PROVE  TypeOK'
<1> USE CliAssumption, Owned, Apart DEF TypeOK, Labels, Ended, At, Goto,
      LookAround, args, workspaces, locals, devices, counters
<1>1. ASSUME NEW p \in Calls, MakeWorkspace(p) PROVE TypeOK'
  BY <1>1 DEF MakeWorkspace
<1>2. ASSUME NEW p \in Calls, CheckUnique(p) PROVE TypeOK'
  BY <1>2 DEF CheckUnique
<1>3. ASSUME NEW p \in Calls, IdTaken(p) PROVE TypeOK'
  BY <1>3 DEF IdTaken
<1>4. ASSUME NEW p \in Calls, CreateContainer(p) PROVE TypeOK'
  BY <1>4 DEF CreateContainer
<1>5. ASSUME NEW p \in Calls, StartContainer(p) PROVE TypeOK'
<2>1. i' \in [Calls -> Nat \ {0}] /\ pc' \in [Calls -> Labels]
  BY <1>5 DEF StartContainer
<2>2. status' \in [Containers \cup Sidecars ->
                    {"absent", "created", "running", "exited", "removed"}]
  BY <1>5 DEF StartContainer
<2>. QED
  BY <1>5, <2>1, <2>2 DEF StartContainer
<1>6. ASSUME NEW p \in Calls, StartGone(p) PROVE TypeOK'
  BY <1>6 DEF StartGone
<1>7. ASSUME NEW p \in Calls, SshAnswers(p) PROVE TypeOK'
  BY <1>7 DEF SshAnswers
<1>8. ASSUME NEW p \in Calls, NodeHasGone(p) PROVE TypeOK'
  BY <1>8 DEF NodeHasGone
<1>9. ASSUME NEW p \in Calls, MakeKeyDir(p) PROVE TypeOK'
  BY <1>9 DEF MakeKeyDir
<1>10. ASSUME NEW p \in Calls, MakeKeyDirFails(p) PROVE TypeOK'
  BY <1>10 DEF MakeKeyDirFails
<1>11. ASSUME NEW p \in Calls, MoveKey(p) PROVE TypeOK'
  BY <1>11 DEF MoveKey
<1>12. ASSUME NEW p \in Calls, MoveKeyFails(p) PROVE TypeOK'
  BY <1>12 DEF MoveKeyFails
<1>13. ASSUME NEW p \in Calls, Authorize(p) PROVE TypeOK'
  BY <1>13 DEF Authorize
<1>14. ASSUME NEW p \in Calls, AuthorizeFails(p) PROVE TypeOK'
  BY <1>14 DEF AuthorizeFails
<1>15. ASSUME NEW p \in Calls, CheckExists(p) PROVE TypeOK'
  BY <1>15 DEF CheckExists
<1>16. ASSUME NEW p \in Calls, NoSuchCluster(p) PROVE TypeOK'
  BY <1>16 DEF NoSuchCluster
<1>17. ASSUME NEW p \in Calls, ListRole(p) PROVE TypeOK'
  BY <1>17 DEF ListRole, AfterListing, Found, WithRole, IsMaster
<1>18. ASSUME NEW p \in Calls, ListingBreaks(p) PROVE TypeOK'
  BY <1>18 DEF ListingBreaks
<1>19. ASSUME NEW p \in Calls, Install(p) PROVE TypeOK'
  BY <1>19 DEF Install
<1>20. ASSUME NEW p \in Calls, InstallFails(p) PROVE TypeOK'
  BY <1>20 DEF InstallFails
<1>21. ASSUME NEW p \in Calls, RemoveWorkspace(p) PROVE TypeOK'
  BY <1>21 DEF RemoveWorkspace
<1>22. ASSUME NEW p \in Calls, NoMaster(p) PROVE TypeOK'
  BY <1>22 DEF NoMaster
<1>23. ASSUME NEW p \in Calls, ListAll(p) PROVE TypeOK'
  BY <1>23 DEF ListAll
<1>24. ASSUME NEW p \in Calls, StopContainer(p) PROVE TypeOK'
  BY <1>24 DEF StopContainer
<1>25. ASSUME NEW p \in Calls, RemoveContainer(p) PROVE TypeOK'
  BY <1>25 DEF RemoveContainer
<1>26. ASSUME NEW p \in Calls, CannotRemove(p) PROVE TypeOK'
  BY <1>26 DEF CannotRemove
<1>27. ASSUME NEW p \in Calls, AllRemoved(p) PROVE TypeOK'
  BY <1>27 DEF AllRemoved
<1>28. ASSUME NEW p \in Calls, CreateSidecar(p) PROVE TypeOK'
  BY <1>28 DEF CreateSidecar
<1>29. ASSUME NEW p \in Calls, StartSidecar(p) PROVE TypeOK'
  BY <1>29 DEF StartSidecar
<1>30. ASSUME NEW p \in Calls, AttachDevice(p) PROVE TypeOK'
  BY <1>30 DEF AttachDevice
<1>31. ASSUME NEW p \in Calls, RecordDevice(p) PROVE TypeOK'
  BY <1>31 DEF RecordDevice
<1>32. ASSUME NEW p \in Calls, SidecarGone(p) PROVE TypeOK'
  BY <1>32 DEF SidecarGone
<1>33. ASSUME NEW p \in Calls, SidecarRefused(p) PROVE TypeOK'
  BY <1>33 DEF SidecarRefused
<1>34. ASSUME NEW p \in Calls, FindSidecar(p) PROVE TypeOK'
  BY <1>34 DEF FindSidecar, SidecarsNamed
<1>35. ASSUME NEW p \in Calls, ListSidecars(p) PROVE TypeOK'
  BY <1>35 DEF ListSidecars
<1>36. ASSUME NEW p \in Calls, Detach(p) PROVE TypeOK'
  BY <1>36 DEF Detach
<1>37. ASSUME NEW p \in Calls, CannotDetach(p) PROVE TypeOK'
  BY <1>37 DEF CannotDetach
<1>38. ASSUME NEW p \in Calls, StopSidecar(p) PROVE TypeOK'
  BY <1>38 DEF StopSidecar
<1>39. ASSUME NEW p \in Calls, RemoveSidecar(p) PROVE TypeOK'
  BY <1>39 DEF RemoveSidecar
<1>40. ASSUME NEW p \in Calls, SidecarRemovedBefore(p) PROVE TypeOK'
  BY <1>40 DEF SidecarRemovedBefore
<1>41. ASSUME NEW p \in Calls, SidecarsDestroyed(p) PROVE TypeOK'
  BY <1>41 DEF SidecarsDestroyed
<1>42. ASSUME NEW p \in Calls, Fails(p) PROVE TypeOK'
  BY <1>42 DEF Fails
<1>43. ASSUME NEW x \in Containers \cup Sidecars, ContainerExits(x) PROVE TypeOK'
  BY <1>43 DEF ContainerExits
<1>44. CASE UNCHANGED vars
  BY <1>44 DEF vars
<1>. QED
  BY <1>1, <1>2, <1>3, <1>4, <1>5, <1>6, <1>7, <1>8, <1>9, <1>10, <1>11,
    <1>12, <1>13, <1>14, <1>15, <1>16, <1>17, <1>18, <1>19, <1>20, <1>21,
    <1>22, <1>23, <1>24, <1>25, <1>26, <1>27, <1>28, <1>29, <1>30, <1>31,
    <1>32, <1>33, <1>34, <1>35, <1>36, <1>37, <1>38, <1>39, <1>40, <1>41,
    <1>42, <1>43, <1>44
  DEF Next, Create, Represent, Remove, Loopback, AllEnded

\* Every reachable state of any number of calls is well typed.
THEOREM TypeCorrect == Spec => []TypeOK
<1>1. Init => TypeOK
  BY TypeInit
<1>2. TypeOK /\ [Next]_vars => TypeOK'
  BY TypeStep
<1>. QED
  BY <1>1, <1>2, PTL DEF Spec

-----------------------------------------------------------------------------
(* Which command is where, and who has ended.                              *)

Control ==
  \A p \in Calls :
    /\ pc[p] \in {"unique", "create", "run", "ssh", "mkdir", "move", "authorize"} =>
         command[p] \in Creators
    /\ pc[p] = "list" => command[p] \in Creators \cup {"install", "destroy"}
    /\ pc[p] = "install" => command[p] \in {"create", "install"}
    /\ pc[p] = "rmtree" => command[p] \in {"create", "install", "destroy"}
    /\ pc[p] \in {"stop", "remove"} =>
         command[p] \in {"create", "install", "destroy", "clean"}
    /\ pc[p] \in {"boot", "losetup", "record"} =>
         command[p] = "create-loopback-sidecar"
    /\ pc[p] \in {"sidecars", "detach", "halt", "discard"} =>
         command[p] \in {"clean", "destroy-loopback-sidecar"}
    /\ pc[p] = "all" => command[p] = "clean"
    /\ i[p] \in 1 .. 3 \/ pc[p] \in {"create", "run"} \cup Ended
    /\ pc[p] \in {"start", "unique", "ssh"} => i[p] = 1
    /\ pc[p] = "list" /\ command[p] = "provision" => i[p] = 1

\* What a call has seen to have ended had ended.
SettledInv ==
  \A p \in Calls :
    /\ \A q \in settled[p] : pc[q] \in Ended
    /\ pc[p] \in {"start", "unique"} => settled[p] = {}

\* Sidecars and nodes are held by different commands, but for clean.
HeldInv ==
  \A p \in Calls :
    /\ pc[p] \in {"detach", "halt", "discard"} => held[p] \subseteq Sidecars
    /\ pc[p] \in {"halt", "discard"} => victim[p] \in Sidecars
    /\ command[p] \notin {"clean", "destroy-loopback-sidecar"} =>
         held[p] \subseteq Containers /\ victim[p] \in Containers \cup {NoContainer}
    /\ pc[p] = "remove" => victim[p] # NoContainer
    /\ pc[p] = "halt" => status[victim[p]] # "absent"

\* Only calls of create and provision that have passed the check of the ID have
\* containers.
MadeInv ==
  \A p \in Calls : \A x \in Own(p) :
    status[x] # "absent" =>
      command[p] \in Creators /\ pc[p] \notin {"start", "unique", "refused"}

LEMMA ControlInit ==
  ASSUME Init
  PROVE  Control /\ SettledInv /\ HeldInv /\ MadeInv
  BY Owned DEF Init, Control, SettledInv, HeldInv, MadeInv

LEMMA ControlStep ==
  ASSUME TypeOK, Control, [Next]_vars
  PROVE  Control'
<1> USE CliAssumption DEF TypeOK, Labels, Ended, Creators, Control, At, Goto,
      LookAround, args, workspaces, locals, devices, counters
<1>1. ASSUME NEW p \in Calls, MakeWorkspace(p) PROVE Control'
  BY <1>1 DEF MakeWorkspace
<1>2. ASSUME NEW p \in Calls, CheckUnique(p) PROVE Control'
  BY <1>2 DEF CheckUnique
<1>3. ASSUME NEW p \in Calls, IdTaken(p) PROVE Control'
  BY <1>3 DEF IdTaken
<1>4. ASSUME NEW p \in Calls, CreateContainer(p) PROVE Control'
  BY <1>4 DEF CreateContainer
<1>5. ASSUME NEW p \in Calls, StartContainer(p) PROVE Control'
  BY <1>5 DEF StartContainer
<1>6. ASSUME NEW p \in Calls, StartGone(p) PROVE Control'
  BY <1>6 DEF StartGone
<1>7. ASSUME NEW p \in Calls, SshAnswers(p) PROVE Control'
  BY <1>7 DEF SshAnswers
<1>8. ASSUME NEW p \in Calls, NodeHasGone(p) PROVE Control'
  BY <1>8 DEF NodeHasGone
<1>9. ASSUME NEW p \in Calls, MakeKeyDir(p) PROVE Control'
  BY <1>9 DEF MakeKeyDir
<1>10. ASSUME NEW p \in Calls, MakeKeyDirFails(p) PROVE Control'
  BY <1>10 DEF MakeKeyDirFails
<1>11. ASSUME NEW p \in Calls, MoveKey(p) PROVE Control'
  BY <1>11 DEF MoveKey
<1>12. ASSUME NEW p \in Calls, MoveKeyFails(p) PROVE Control'
  BY <1>12 DEF MoveKeyFails
<1>13. ASSUME NEW p \in Calls, Authorize(p) PROVE Control'
  BY <1>13 DEF Authorize
<1>14. ASSUME NEW p \in Calls, AuthorizeFails(p) PROVE Control'
  BY <1>14 DEF AuthorizeFails
<1>15. ASSUME NEW p \in Calls, CheckExists(p) PROVE Control'
  BY <1>15 DEF CheckExists
<1>16. ASSUME NEW p \in Calls, NoSuchCluster(p) PROVE Control'
  BY <1>16 DEF NoSuchCluster
<1>17. ASSUME NEW p \in Calls, ListRole(p) PROVE Control'
  BY <1>17 DEF ListRole, AfterListing, Found, WithRole
<1>18. ASSUME NEW p \in Calls, ListingBreaks(p) PROVE Control'
  BY <1>18 DEF ListingBreaks
<1>19. ASSUME NEW p \in Calls, Install(p) PROVE Control'
  BY <1>19 DEF Install
<1>20. ASSUME NEW p \in Calls, InstallFails(p) PROVE Control'
  BY <1>20 DEF InstallFails
<1>21. ASSUME NEW p \in Calls, RemoveWorkspace(p) PROVE Control'
  BY <1>21 DEF RemoveWorkspace
<1>22. ASSUME NEW p \in Calls, NoMaster(p) PROVE Control'
  BY <1>22 DEF NoMaster
<1>23. ASSUME NEW p \in Calls, ListAll(p) PROVE Control'
  BY <1>23 DEF ListAll
<1>24. ASSUME NEW p \in Calls, StopContainer(p) PROVE Control'
  BY <1>24 DEF StopContainer
<1>25. ASSUME NEW p \in Calls, RemoveContainer(p) PROVE Control'
  BY <1>25 DEF RemoveContainer
<1>26. ASSUME NEW p \in Calls, CannotRemove(p) PROVE Control'
  BY <1>26 DEF CannotRemove
<1>27. ASSUME NEW p \in Calls, AllRemoved(p) PROVE Control'
  BY <1>27 DEF AllRemoved
<1>28. ASSUME NEW p \in Calls, CreateSidecar(p) PROVE Control'
  BY <1>28 DEF CreateSidecar
<1>29. ASSUME NEW p \in Calls, StartSidecar(p) PROVE Control'
  BY <1>29 DEF StartSidecar
<1>30. ASSUME NEW p \in Calls, AttachDevice(p) PROVE Control'
  BY <1>30 DEF AttachDevice
<1>31. ASSUME NEW p \in Calls, RecordDevice(p) PROVE Control'
  BY <1>31 DEF RecordDevice
<1>32. ASSUME NEW p \in Calls, SidecarGone(p) PROVE Control'
  BY <1>32 DEF SidecarGone
<1>33. ASSUME NEW p \in Calls, SidecarRefused(p) PROVE Control'
  BY <1>33 DEF SidecarRefused
<1>34. ASSUME NEW p \in Calls, FindSidecar(p) PROVE Control'
  BY <1>34 DEF FindSidecar
<1>35. ASSUME NEW p \in Calls, ListSidecars(p) PROVE Control'
  BY <1>35 DEF ListSidecars
<1>36. ASSUME NEW p \in Calls, Detach(p) PROVE Control'
  BY <1>36 DEF Detach
<1>37. ASSUME NEW p \in Calls, CannotDetach(p) PROVE Control'
  BY <1>37 DEF CannotDetach
<1>38. ASSUME NEW p \in Calls, StopSidecar(p) PROVE Control'
  BY <1>38 DEF StopSidecar
<1>39. ASSUME NEW p \in Calls, RemoveSidecar(p) PROVE Control'
  BY <1>39 DEF RemoveSidecar
<1>40. ASSUME NEW p \in Calls, SidecarRemovedBefore(p) PROVE Control'
  BY <1>40 DEF SidecarRemovedBefore
<1>41. ASSUME NEW p \in Calls, SidecarsDestroyed(p) PROVE Control'
  BY <1>41 DEF SidecarsDestroyed
<1>42. ASSUME NEW p \in Calls, Fails(p) PROVE Control'
  BY <1>42 DEF Fails
<1>43. ASSUME NEW x \in Containers \cup Sidecars, ContainerExits(x) PROVE Control'
  BY <1>43 DEF ContainerExits
<1>44. CASE UNCHANGED vars
  BY <1>44 DEF vars
<1>. QED
  BY <1>1, <1>2, <1>3, <1>4, <1>5, <1>6, <1>7, <1>8, <1>9, <1>10, <1>11,
    <1>12, <1>13, <1>14, <1>15, <1>16, <1>17, <1>18, <1>19, <1>20, <1>21,
    <1>22, <1>23, <1>24, <1>25, <1>26, <1>27, <1>28, <1>29, <1>30, <1>31,
    <1>32, <1>33, <1>34, <1>35, <1>36, <1>37, <1>38, <1>39, <1>40, <1>41,
    <1>42, <1>43, <1>44
  DEF Next, Create, Represent, Remove, Loopback, AllEnded

LEMMA SettledStep ==
  ASSUME TypeOK, Control, SettledInv, [Next]_vars
  PROVE  SettledInv'
<1> USE DEF TypeOK, Ended, Creators, SettledInv, Control, At, Goto,
      LookAround, args, workspaces, locals, devices, counters
<1>1. ASSUME NEW p \in Calls, MakeWorkspace(p) PROVE SettledInv'
  BY <1>1 DEF MakeWorkspace
<1>2. ASSUME NEW p \in Calls, CheckUnique(p) PROVE SettledInv'
  BY <1>2 DEF CheckUnique
<1>3. ASSUME NEW p \in Calls, IdTaken(p) PROVE SettledInv'
  BY <1>3 DEF IdTaken
<1>4. ASSUME NEW p \in Calls, CreateContainer(p) PROVE SettledInv'
  BY <1>4 DEF CreateContainer
<1>5. ASSUME NEW p \in Calls, StartContainer(p) PROVE SettledInv'
  BY <1>5 DEF StartContainer
<1>6. ASSUME NEW p \in Calls, StartGone(p) PROVE SettledInv'
  BY <1>6 DEF StartGone
<1>7. ASSUME NEW p \in Calls, SshAnswers(p) PROVE SettledInv'
  BY <1>7 DEF SshAnswers
<1>8. ASSUME NEW p \in Calls, NodeHasGone(p) PROVE SettledInv'
  BY <1>8 DEF NodeHasGone
<1>9. ASSUME NEW p \in Calls, MakeKeyDir(p) PROVE SettledInv'
  BY <1>9 DEF MakeKeyDir
<1>10. ASSUME NEW p \in Calls, MakeKeyDirFails(p) PROVE SettledInv'
  BY <1>10 DEF MakeKeyDirFails
<1>11. ASSUME NEW p \in Calls, MoveKey(p) PROVE SettledInv'
  BY <1>11 DEF MoveKey
<1>12. ASSUME NEW p \in Calls, MoveKeyFails(p) PROVE SettledInv'
  BY <1>12 DEF MoveKeyFails
<1>13. ASSUME NEW p \in Calls, Authorize(p) PROVE SettledInv'
  BY <1>13 DEF Authorize
<1>14. ASSUME NEW p \in Calls, AuthorizeFails(p) PROVE SettledInv'
  BY <1>14 DEF AuthorizeFails
<1>15. ASSUME NEW p \in Calls, CheckExists(p) PROVE SettledInv'
  BY <1>15 DEF CheckExists
<1>16. ASSUME NEW p \in Calls, NoSuchCluster(p) PROVE SettledInv'
  BY <1>16 DEF NoSuchCluster
<1>17. ASSUME NEW p \in Calls, ListRole(p) PROVE SettledInv'
  BY <1>17 DEF ListRole, AfterListing, Found, WithRole
<1>18. ASSUME NEW p \in Calls, ListingBreaks(p) PROVE SettledInv'
  BY <1>18 DEF ListingBreaks
<1>19. ASSUME NEW p \in Calls, Install(p) PROVE SettledInv'
  BY <1>19 DEF Install
<1>20. ASSUME NEW p \in Calls, InstallFails(p) PROVE SettledInv'
  BY <1>20 DEF InstallFails
<1>21. ASSUME NEW p \in Calls, RemoveWorkspace(p) PROVE SettledInv'
  BY <1>21 DEF RemoveWorkspace
<1>22. ASSUME NEW p \in Calls, NoMaster(p) PROVE SettledInv'
  BY <1>22 DEF NoMaster
<1>23. ASSUME NEW p \in Calls, ListAll(p) PROVE SettledInv'
  BY <1>23 DEF ListAll
<1>24. ASSUME NEW p \in Calls, StopContainer(p) PROVE SettledInv'
  BY <1>24 DEF StopContainer
<1>25. ASSUME NEW p \in Calls, RemoveContainer(p) PROVE SettledInv'
  BY <1>25 DEF RemoveContainer
<1>26. ASSUME NEW p \in Calls, CannotRemove(p) PROVE SettledInv'
  BY <1>26 DEF CannotRemove
<1>27. ASSUME NEW p \in Calls, AllRemoved(p) PROVE SettledInv'
  BY <1>27 DEF AllRemoved
<1>28. ASSUME NEW p \in Calls, CreateSidecar(p) PROVE SettledInv'
  BY <1>28 DEF CreateSidecar
<1>29. ASSUME NEW p \in Calls, StartSidecar(p) PROVE SettledInv'
  BY <1>29 DEF StartSidecar
<1>30. ASSUME NEW p \in Calls, AttachDevice(p) PROVE SettledInv'
  BY <1>30 DEF AttachDevice
<1>31. ASSUME NEW p \in Calls, RecordDevice(p) PROVE SettledInv'
  BY <1>31 DEF RecordDevice
<1>32. ASSUME NEW p \in Calls, SidecarGone(p) PROVE SettledInv'
  BY <1>32 DEF SidecarGone
<1>33. ASSUME NEW p \in Calls, SidecarRefused(p) PROVE SettledInv'
  BY <1>33 DEF SidecarRefused
<1>34. ASSUME NEW p \in Calls, FindSidecar(p) PROVE SettledInv'
  BY <1>34 DEF FindSidecar
<1>35. ASSUME NEW p \in Calls, ListSidecars(p) PROVE SettledInv'
  BY <1>35 DEF ListSidecars
<1>36. ASSUME NEW p \in Calls, Detach(p) PROVE SettledInv'
  BY <1>36 DEF Detach
<1>37. ASSUME NEW p \in Calls, CannotDetach(p) PROVE SettledInv'
  BY <1>37 DEF CannotDetach
<1>38. ASSUME NEW p \in Calls, StopSidecar(p) PROVE SettledInv'
  BY <1>38 DEF StopSidecar
<1>39. ASSUME NEW p \in Calls, RemoveSidecar(p) PROVE SettledInv'
  BY <1>39 DEF RemoveSidecar
<1>40. ASSUME NEW p \in Calls, SidecarRemovedBefore(p) PROVE SettledInv'
  BY <1>40 DEF SidecarRemovedBefore
<1>41. ASSUME NEW p \in Calls, SidecarsDestroyed(p) PROVE SettledInv'
  BY <1>41 DEF SidecarsDestroyed
<1>42. ASSUME NEW p \in Calls, Fails(p) PROVE SettledInv'
  BY <1>42 DEF Fails
<1>43. ASSUME NEW x \in Containers \cup Sidecars, ContainerExits(x) PROVE SettledInv'
  BY <1>43 DEF ContainerExits
<1>44. CASE UNCHANGED vars
  BY <1>44 DEF vars
<1>. QED
  BY <1>1, <1>2, <1>3, <1>4, <1>5, <1>6, <1>7, <1>8, <1>9, <1>10, <1>11,
    <1>12, <1>13, <1>14, <1>15, <1>16, <1>17, <1>18, <1>19, <1>20, <1>21,
    <1>22, <1>23, <1>24, <1>25, <1>26, <1>27, <1>28, <1>29, <1>30, <1>31,
    <1>32, <1>33, <1>34, <1>35, <1>36, <1>37, <1>38, <1>39, <1>40, <1>41,
    <1>42, <1>43, <1>44
  DEF Next, Create, Represent, Remove, Loopback, AllEnded

LEMMA HeldStep ==
  ASSUME TypeOK, Control, HeldInv, [Next]_vars
  PROVE  HeldInv'
<1> USE Apart DEF TypeOK, Labels, Ended, Creators, HeldInv, Control, Running,
      At, Goto, LookAround, args, workspaces, locals, devices, counters
<1>1. ASSUME NEW p \in Calls, MakeWorkspace(p) PROVE HeldInv'
  BY <1>1 DEF MakeWorkspace
<1>2. ASSUME NEW p \in Calls, CheckUnique(p) PROVE HeldInv'
  BY <1>2 DEF CheckUnique
<1>3. ASSUME NEW p \in Calls, IdTaken(p) PROVE HeldInv'
  BY <1>3 DEF IdTaken
<1>4. ASSUME NEW p \in Calls, CreateContainer(p) PROVE HeldInv'
  BY <1>4 DEF CreateContainer
<1>5. ASSUME NEW p \in Calls, StartContainer(p) PROVE HeldInv'
  BY <1>5 DEF StartContainer
<1>6. ASSUME NEW p \in Calls, StartGone(p) PROVE HeldInv'
  BY <1>6 DEF StartGone
<1>7. ASSUME NEW p \in Calls, SshAnswers(p) PROVE HeldInv'
  BY <1>7 DEF SshAnswers
<1>8. ASSUME NEW p \in Calls, NodeHasGone(p) PROVE HeldInv'
  BY <1>8 DEF NodeHasGone
<1>9. ASSUME NEW p \in Calls, MakeKeyDir(p) PROVE HeldInv'
  BY <1>9 DEF MakeKeyDir
<1>10. ASSUME NEW p \in Calls, MakeKeyDirFails(p) PROVE HeldInv'
  BY <1>10 DEF MakeKeyDirFails
<1>11. ASSUME NEW p \in Calls, MoveKey(p) PROVE HeldInv'
  BY <1>11 DEF MoveKey
<1>12. ASSUME NEW p \in Calls, MoveKeyFails(p) PROVE HeldInv'
  BY <1>12 DEF MoveKeyFails
<1>13. ASSUME NEW p \in Calls, Authorize(p) PROVE HeldInv'
  BY <1>13 DEF Authorize
<1>14. ASSUME NEW p \in Calls, AuthorizeFails(p) PROVE HeldInv'
  BY <1>14 DEF AuthorizeFails
<1>15. ASSUME NEW p \in Calls, CheckExists(p) PROVE HeldInv'
  BY <1>15 DEF CheckExists
<1>16. ASSUME NEW p \in Calls, NoSuchCluster(p) PROVE HeldInv'
  BY <1>16 DEF NoSuchCluster
<1>17. ASSUME NEW p \in Calls, ListRole(p) PROVE HeldInv'
  BY <1>17 DEF ListRole, AfterListing, Found, WithRole
<1>18. ASSUME NEW p \in Calls, ListingBreaks(p) PROVE HeldInv'
  BY <1>18 DEF ListingBreaks
<1>19. ASSUME NEW p \in Calls, Install(p) PROVE HeldInv'
  BY <1>19 DEF Install
<1>20. ASSUME NEW p \in Calls, InstallFails(p) PROVE HeldInv'
  BY <1>20 DEF InstallFails
<1>21. ASSUME NEW p \in Calls, RemoveWorkspace(p) PROVE HeldInv'
  BY <1>21 DEF RemoveWorkspace
<1>22. ASSUME NEW p \in Calls, NoMaster(p) PROVE HeldInv'
  BY <1>22 DEF NoMaster
<1>23. ASSUME NEW p \in Calls, ListAll(p) PROVE HeldInv'
  BY <1>23 DEF ListAll
<1>24. ASSUME NEW p \in Calls, StopContainer(p) PROVE HeldInv'
  BY <1>24 DEF StopContainer
<1>25. ASSUME NEW p \in Calls, RemoveContainer(p) PROVE HeldInv'
  BY <1>25 DEF RemoveContainer
<1>26. ASSUME NEW p \in Calls, CannotRemove(p) PROVE HeldInv'
  BY <1>26 DEF CannotRemove
<1>27. ASSUME NEW p \in Calls, AllRemoved(p) PROVE HeldInv'
  BY <1>27 DEF AllRemoved
<1>28. ASSUME NEW p \in Calls, CreateSidecar(p) PROVE HeldInv'
  BY <1>28 DEF CreateSidecar
<1>29. ASSUME NEW p \in Calls, StartSidecar(p) PROVE HeldInv'
  BY <1>29 DEF StartSidecar
<1>30. ASSUME NEW p \in Calls, AttachDevice(p) PROVE HeldInv'
  BY <1>30 DEF AttachDevice
<1>31. ASSUME NEW p \in Calls, RecordDevice(p) PROVE HeldInv'
  BY <1>31 DEF RecordDevice
<1>32. ASSUME NEW p \in Calls, SidecarGone(p) PROVE HeldInv'
  BY <1>32 DEF SidecarGone
<1>33. ASSUME NEW p \in Calls, SidecarRefused(p) PROVE HeldInv'
  BY <1>33 DEF SidecarRefused
<1>34. ASSUME NEW p \in Calls, FindSidecar(p) PROVE HeldInv'
  BY <1>34 DEF FindSidecar, SidecarsNamed
<1>35. ASSUME NEW p \in Calls, ListSidecars(p) PROVE HeldInv'
  BY <1>35 DEF ListSidecars
<1>36. ASSUME NEW p \in Calls, Detach(p) PROVE HeldInv'
  BY <1>36 DEF Detach
<1>37. ASSUME NEW p \in Calls, CannotDetach(p) PROVE HeldInv'
  BY <1>37 DEF CannotDetach
<1>38. ASSUME NEW p \in Calls, StopSidecar(p) PROVE HeldInv'
  BY <1>38 DEF StopSidecar
<1>39. ASSUME NEW p \in Calls, RemoveSidecar(p) PROVE HeldInv'
  BY <1>39 DEF RemoveSidecar
<1>40. ASSUME NEW p \in Calls, SidecarRemovedBefore(p) PROVE HeldInv'
  BY <1>40 DEF SidecarRemovedBefore
<1>41. ASSUME NEW p \in Calls, SidecarsDestroyed(p) PROVE HeldInv'
  BY <1>41 DEF SidecarsDestroyed
<1>42. ASSUME NEW p \in Calls, Fails(p) PROVE HeldInv'
  BY <1>42 DEF Fails
<1>43. ASSUME NEW x \in Containers \cup Sidecars, ContainerExits(x) PROVE HeldInv'
  BY <1>43 DEF ContainerExits
<1>44. CASE UNCHANGED vars
  BY <1>44 DEF vars
<1>. QED
  BY <1>1, <1>2, <1>3, <1>4, <1>5, <1>6, <1>7, <1>8, <1>9, <1>10, <1>11,
    <1>12, <1>13, <1>14, <1>15, <1>16, <1>17, <1>18, <1>19, <1>20, <1>21,
    <1>22, <1>23, <1>24, <1>25, <1>26, <1>27, <1>28, <1>29, <1>30, <1>31,
    <1>32, <1>33, <1>34, <1>35, <1>36, <1>37, <1>38, <1>39, <1>40, <1>41,
    <1>42, <1>43, <1>44
  DEF Next, Create, Represent, Remove, Loopback, AllEnded

LEMMA MadeStep ==
  ASSUME TypeOK, Control, HeldInv, MadeInv, [Next]_vars
  PROVE  MadeInv'
<1> USE Owned, Apart DEF TypeOK, Ended, Creators, HeldInv, MadeInv, Control,
      Running, At, Goto, LookAround, args, workspaces, locals, devices,
      counters
<1>1. ASSUME NEW p \in Calls, MakeWorkspace(p) PROVE MadeInv'
  BY <1>1 DEF MakeWorkspace
<1>2. ASSUME NEW p \in Calls, CheckUnique(p) PROVE MadeInv'
  BY <1>2 DEF CheckUnique
<1>3. ASSUME NEW p \in Calls, IdTaken(p) PROVE MadeInv'
  BY <1>3 DEF IdTaken
<1>4. ASSUME NEW p \in Calls, CreateContainer(p) PROVE MadeInv'
  BY <1>4 DEF CreateContainer
<1>5. ASSUME NEW p \in Calls, StartContainer(p) PROVE MadeInv'
  BY <1>5 DEF StartContainer
<1>6. ASSUME NEW p \in Calls, StartGone(p) PROVE MadeInv'
  BY <1>6 DEF StartGone
<1>7. ASSUME NEW p \in Calls, SshAnswers(p) PROVE MadeInv'
  BY <1>7 DEF SshAnswers
<1>8. ASSUME NEW p \in Calls, NodeHasGone(p) PROVE MadeInv'
  BY <1>8 DEF NodeHasGone
<1>9. ASSUME NEW p \in Calls, MakeKeyDir(p) PROVE MadeInv'
  BY <1>9 DEF MakeKeyDir
<1>10. ASSUME NEW p \in Calls, MakeKeyDirFails(p) PROVE MadeInv'
  BY <1>10 DEF MakeKeyDirFails
<1>11. ASSUME NEW p \in Calls, MoveKey(p) PROVE MadeInv'
  BY <1>11 DEF MoveKey
<1>12. ASSUME NEW p \in Calls, MoveKeyFails(p) PROVE MadeInv'
  BY <1>12 DEF MoveKeyFails
<1>13. ASSUME NEW p \in Calls, Authorize(p) PROVE MadeInv'
  BY <1>13 DEF Authorize
<1>14. ASSUME NEW p \in Calls, AuthorizeFails(p) PROVE MadeInv'
  BY <1>14 DEF AuthorizeFails
<1>15. ASSUME NEW p \in Calls, CheckExists(p) PROVE MadeInv'
  BY <1>15 DEF CheckExists
<1>16. ASSUME NEW p \in Calls, NoSuchCluster(p) PROVE MadeInv'
  BY <1>16 DEF NoSuchCluster
<1>17. ASSUME NEW p \in Calls, ListRole(p) PROVE MadeInv'
  BY <1>17 DEF ListRole, AfterListing, Found, WithRole
<1>18. ASSUME NEW p \in Calls, ListingBreaks(p) PROVE MadeInv'
  BY <1>18 DEF ListingBreaks
<1>19. ASSUME NEW p \in Calls, Install(p) PROVE MadeInv'
  BY <1>19 DEF Install
<1>20. ASSUME NEW p \in Calls, InstallFails(p) PROVE MadeInv'
  BY <1>20 DEF InstallFails
<1>21. ASSUME NEW p \in Calls, RemoveWorkspace(p) PROVE MadeInv'
  BY <1>21 DEF RemoveWorkspace
<1>22. ASSUME NEW p \in Calls, NoMaster(p) PROVE MadeInv'
  BY <1>22 DEF NoMaster
<1>23. ASSUME NEW p \in Calls, ListAll(p) PROVE MadeInv'
  BY <1>23 DEF ListAll
<1>24. ASSUME NEW p \in Calls, StopContainer(p) PROVE MadeInv'
  BY <1>24 DEF StopContainer
<1>25. ASSUME NEW p \in Calls, RemoveContainer(p) PROVE MadeInv'
  BY <1>25 DEF RemoveContainer
<1>26. ASSUME NEW p \in Calls, CannotRemove(p) PROVE MadeInv'
  BY <1>26 DEF CannotRemove
<1>27. ASSUME NEW p \in Calls, AllRemoved(p) PROVE MadeInv'
  BY <1>27 DEF AllRemoved
<1>28. ASSUME NEW p \in Calls, CreateSidecar(p) PROVE MadeInv'
  BY <1>28 DEF CreateSidecar
<1>29. ASSUME NEW p \in Calls, StartSidecar(p) PROVE MadeInv'
  BY <1>29 DEF StartSidecar
<1>30. ASSUME NEW p \in Calls, AttachDevice(p) PROVE MadeInv'
  BY <1>30 DEF AttachDevice
<1>31. ASSUME NEW p \in Calls, RecordDevice(p) PROVE MadeInv'
  BY <1>31 DEF RecordDevice
<1>32. ASSUME NEW p \in Calls, SidecarGone(p) PROVE MadeInv'
  BY <1>32 DEF SidecarGone
<1>33. ASSUME NEW p \in Calls, SidecarRefused(p) PROVE MadeInv'
  BY <1>33 DEF SidecarRefused
<1>34. ASSUME NEW p \in Calls, FindSidecar(p) PROVE MadeInv'
  BY <1>34 DEF FindSidecar
<1>35. ASSUME NEW p \in Calls, ListSidecars(p) PROVE MadeInv'
  BY <1>35 DEF ListSidecars
<1>36. ASSUME NEW p \in Calls, Detach(p) PROVE MadeInv'
  BY <1>36 DEF Detach
<1>37. ASSUME NEW p \in Calls, CannotDetach(p) PROVE MadeInv'
  BY <1>37 DEF CannotDetach
<1>38. ASSUME NEW p \in Calls, StopSidecar(p) PROVE MadeInv'
  BY <1>38 DEF StopSidecar
<1>39. ASSUME NEW p \in Calls, RemoveSidecar(p) PROVE MadeInv'
  BY <1>39 DEF RemoveSidecar
<1>40. ASSUME NEW p \in Calls, SidecarRemovedBefore(p) PROVE MadeInv'
  BY <1>40 DEF SidecarRemovedBefore
<1>41. ASSUME NEW p \in Calls, SidecarsDestroyed(p) PROVE MadeInv'
  BY <1>41 DEF SidecarsDestroyed
<1>42. ASSUME NEW p \in Calls, Fails(p) PROVE MadeInv'
  BY <1>42 DEF Fails
<1>43. ASSUME NEW x \in Containers \cup Sidecars, ContainerExits(x) PROVE MadeInv'
  BY <1>43 DEF ContainerExits
<1>44. CASE UNCHANGED vars
  BY <1>44 DEF vars
<1>. QED
  BY <1>1, <1>2, <1>3, <1>4, <1>5, <1>6, <1>7, <1>8, <1>9, <1>10, <1>11,
    <1>12, <1>13, <1>14, <1>15, <1>16, <1>17, <1>18, <1>19, <1>20, <1>21,
    <1>22, <1>23, <1>24, <1>25, <1>26, <1>27, <1>28, <1>29, <1>30, <1>31,
    <1>32, <1>33, <1>34, <1>35, <1>36, <1>37, <1>38, <1>39, <1>40, <1>41,
    <1>42, <1>43, <1>44
  DEF Next, Create, Represent, Remove, Loopback, AllEnded

Inv == TypeOK /\ Control /\ SettledInv /\ HeldInv /\ MadeInv

LEMMA InvInit == Init => Inv
  BY TypeInit, ControlInit DEF Inv

LEMMA InvStep == Inv /\ [Next]_vars => Inv'
  BY TypeStep, ControlStep, SettledStep, HeldStep, MadeStep DEF Inv

-----------------------------------------------------------------------------
(* Unique IDs.                                                             *)

\* From the check of its ID on, the clusters that a create has seen ended and
\* that have its ID do not run.
UniqueInv ==
  \A p \in Calls :
    command[p] \in Creators /\ pc[p] \notin {"start", "unique"} =>
      \A q \in settled[p] : id[q] = id[p] => \A x \in Own(q) : ~ Running(x)

LEMMA UniqueInit ==
  ASSUME Init
  PROVE  UniqueInv
  BY DEF Init, UniqueInv

\* The containers of a call that has ended begin to run no more.
EndedStay ==
  \A q \in Calls : pc[q] \in Ended =>
    pc'[q] = pc[q] /\ \A x \in Own(q) : Running(x)' => Running(x)

LEMMA EndedStep ==
  ASSUME TypeOK, HeldInv, [Next]_vars
  PROVE  EndedStay
<1> USE Owned, Apart DEF TypeOK, HeldInv, Ended, EndedStay, Running, At, Goto,
      LookAround, args, workspaces, locals, devices, counters
<1>1. ASSUME NEW p \in Calls, MakeWorkspace(p) PROVE EndedStay
  BY <1>1 DEF MakeWorkspace
<1>2. ASSUME NEW p \in Calls, CheckUnique(p) PROVE EndedStay
  BY <1>2 DEF CheckUnique
<1>3. ASSUME NEW p \in Calls, IdTaken(p) PROVE EndedStay
  BY <1>3 DEF IdTaken
<1>4. ASSUME NEW p \in Calls, CreateContainer(p) PROVE EndedStay
  BY <1>4 DEF CreateContainer
<1>5. ASSUME NEW p \in Calls, StartContainer(p) PROVE EndedStay
  BY <1>5 DEF StartContainer
<1>6. ASSUME NEW p \in Calls, StartGone(p) PROVE EndedStay
  BY <1>6 DEF StartGone
<1>7. ASSUME NEW p \in Calls, SshAnswers(p) PROVE EndedStay
  BY <1>7 DEF SshAnswers
<1>8. ASSUME NEW p \in Calls, NodeHasGone(p) PROVE EndedStay
  BY <1>8 DEF NodeHasGone
<1>9. ASSUME NEW p \in Calls, MakeKeyDir(p) PROVE EndedStay
  BY <1>9 DEF MakeKeyDir
<1>10. ASSUME NEW p \in Calls, MakeKeyDirFails(p) PROVE EndedStay
  BY <1>10 DEF MakeKeyDirFails
<1>11. ASSUME NEW p \in Calls, MoveKey(p) PROVE EndedStay
  BY <1>11 DEF MoveKey
<1>12. ASSUME NEW p \in Calls, MoveKeyFails(p) PROVE EndedStay
  BY <1>12 DEF MoveKeyFails
<1>13. ASSUME NEW p \in Calls, Authorize(p) PROVE EndedStay
  BY <1>13 DEF Authorize
<1>14. ASSUME NEW p \in Calls, AuthorizeFails(p) PROVE EndedStay
  BY <1>14 DEF AuthorizeFails
<1>15. ASSUME NEW p \in Calls, CheckExists(p) PROVE EndedStay
  BY <1>15 DEF CheckExists
<1>16. ASSUME NEW p \in Calls, NoSuchCluster(p) PROVE EndedStay
  BY <1>16 DEF NoSuchCluster
<1>17. ASSUME NEW p \in Calls, ListRole(p) PROVE EndedStay
  BY <1>17 DEF ListRole, AfterListing, Found, WithRole
<1>18. ASSUME NEW p \in Calls, ListingBreaks(p) PROVE EndedStay
  BY <1>18 DEF ListingBreaks
<1>19. ASSUME NEW p \in Calls, Install(p) PROVE EndedStay
  BY <1>19 DEF Install
<1>20. ASSUME NEW p \in Calls, InstallFails(p) PROVE EndedStay
  BY <1>20 DEF InstallFails
<1>21. ASSUME NEW p \in Calls, RemoveWorkspace(p) PROVE EndedStay
  BY <1>21 DEF RemoveWorkspace
<1>22. ASSUME NEW p \in Calls, NoMaster(p) PROVE EndedStay
  BY <1>22 DEF NoMaster
<1>23. ASSUME NEW p \in Calls, ListAll(p) PROVE EndedStay
  BY <1>23 DEF ListAll
<1>24. ASSUME NEW p \in Calls, StopContainer(p) PROVE EndedStay
  BY <1>24 DEF StopContainer
<1>25. ASSUME NEW p \in Calls, RemoveContainer(p) PROVE EndedStay
  BY <1>25 DEF RemoveContainer
<1>26. ASSUME NEW p \in Calls, CannotRemove(p) PROVE EndedStay
  BY <1>26 DEF CannotRemove
<1>27. ASSUME NEW p \in Calls, AllRemoved(p) PROVE EndedStay
  BY <1>27 DEF AllRemoved
<1>28. ASSUME NEW p \in Calls, CreateSidecar(p) PROVE EndedStay
  BY <1>28 DEF CreateSidecar
<1>29. ASSUME NEW p \in Calls, StartSidecar(p) PROVE EndedStay
  BY <1>29 DEF StartSidecar
<1>30. ASSUME NEW p \in Calls, AttachDevice(p) PROVE EndedStay
  BY <1>30 DEF AttachDevice
<1>31. ASSUME NEW p \in Calls, RecordDevice(p) PROVE EndedStay
  BY <1>31 DEF RecordDevice
<1>32. ASSUME NEW p \in Calls, SidecarGone(p) PROVE EndedStay
  BY <1>32 DEF SidecarGone
<1>33. ASSUME NEW p \in Calls, SidecarRefused(p) PROVE EndedStay
  BY <1>33 DEF SidecarRefused
<1>34. ASSUME NEW p \in Calls, FindSidecar(p) PROVE EndedStay
  BY <1>34 DEF FindSidecar
<1>35. ASSUME NEW p \in Calls, ListSidecars(p) PROVE EndedStay
  BY <1>35 DEF ListSidecars
<1>36. ASSUME NEW p \in Calls, Detach(p) PROVE EndedStay
  BY <1>36 DEF Detach
<1>37. ASSUME NEW p \in Calls, CannotDetach(p) PROVE EndedStay
  BY <1>37 DEF CannotDetach
<1>38. ASSUME NEW p \in Calls, StopSidecar(p) PROVE EndedStay
  BY <1>38 DEF StopSidecar
<1>39. ASSUME NEW p \in Calls, RemoveSidecar(p) PROVE EndedStay
  BY <1>39 DEF RemoveSidecar
<1>40. ASSUME NEW p \in Calls, SidecarRemovedBefore(p) PROVE EndedStay
  BY <1>40 DEF SidecarRemovedBefore
<1>41. ASSUME NEW p \in Calls, SidecarsDestroyed(p) PROVE EndedStay
  BY <1>41 DEF SidecarsDestroyed
<1>42. ASSUME NEW p \in Calls, Fails(p) PROVE EndedStay
  BY <1>42 DEF Fails
<1>43. ASSUME NEW x \in Containers \cup Sidecars, ContainerExits(x) PROVE EndedStay
  BY <1>43 DEF ContainerExits
<1>44. CASE UNCHANGED vars
  BY <1>44 DEF vars
<1>. QED
  BY <1>1, <1>2, <1>3, <1>4, <1>5, <1>6, <1>7, <1>8, <1>9, <1>10, <1>11,
    <1>12, <1>13, <1>14, <1>15, <1>16, <1>17, <1>18, <1>19, <1>20, <1>21,
    <1>22, <1>23, <1>24, <1>25, <1>26, <1>27, <1>28, <1>29, <1>30, <1>31,
    <1>32, <1>33, <1>34, <1>35, <1>36, <1>37, <1>38, <1>39, <1>40, <1>41,
    <1>42, <1>43, <1>44
  DEF Next, Create, Represent, Remove, Loopback, AllEnded

LEMMA UniqueStep ==
  ASSUME Inv, UniqueInv, EndedStay, [Next]_vars
  PROVE  UniqueInv'
<1> USE DEF Inv, TypeOK, SettledInv, UniqueInv, EndedStay, Creators, Ended,
      At, Goto, LookAround, args, workspaces, locals, devices, counters
<1>1. ASSUME NEW p \in Calls, MakeWorkspace(p) PROVE UniqueInv'
  BY <1>1 DEF MakeWorkspace
<1>2. ASSUME NEW p \in Calls, CheckUnique(p) PROVE UniqueInv'
<2>1. ASSUME NEW q \in Calls, id[q] = id[p], NEW x \in Own(q) PROVE ~ Running(x)
  BY <1>2, <2>1, Owned DEF CheckUnique, ExistingIds
<2>2. /\ \A r \in Calls \ {p} : pc'[r] = pc[r] /\ settled'[r] = settled[r]
      /\ settled'[p] \subseteq Calls
      /\ id' = id /\ command' = command /\ status' = status
  BY <1>2 DEF CheckUnique
<2>. QED
  BY <2>1, <2>2 DEF Running
<1>3. ASSUME NEW p \in Calls, IdTaken(p) PROVE UniqueInv'
  BY <1>3 DEF IdTaken
<1>4. ASSUME NEW p \in Calls, CreateContainer(p) PROVE UniqueInv'
  BY <1>4 DEF CreateContainer
<1>5. ASSUME NEW p \in Calls, StartContainer(p) PROVE UniqueInv'
  BY <1>5 DEF StartContainer
<1>6. ASSUME NEW p \in Calls, StartGone(p) PROVE UniqueInv'
  BY <1>6 DEF StartGone
<1>7. ASSUME NEW p \in Calls, SshAnswers(p) PROVE UniqueInv'
  BY <1>7 DEF SshAnswers
<1>8. ASSUME NEW p \in Calls, NodeHasGone(p) PROVE UniqueInv'
  BY <1>8 DEF NodeHasGone
<1>9. ASSUME NEW p \in Calls, MakeKeyDir(p) PROVE UniqueInv'
  BY <1>9 DEF MakeKeyDir
<1>10. ASSUME NEW p \in Calls, MakeKeyDirFails(p) PROVE UniqueInv'
  BY <1>10 DEF MakeKeyDirFails
<1>11. ASSUME NEW p \in Calls, MoveKey(p) PROVE UniqueInv'
  BY <1>11 DEF MoveKey
<1>12. ASSUME NEW p \in Calls, MoveKeyFails(p) PROVE UniqueInv'
  BY <1>12 DEF MoveKeyFails
<1>13. ASSUME NEW p \in Calls, Authorize(p) PROVE UniqueInv'
  BY <1>13 DEF Authorize
<1>14. ASSUME NEW p \in Calls, AuthorizeFails(p) PROVE UniqueInv'
  BY <1>14 DEF AuthorizeFails
<1>15. ASSUME NEW p \in Calls, CheckExists(p) PROVE UniqueInv'
  BY <1>15 DEF CheckExists
<1>16. ASSUME NEW p \in Calls, NoSuchCluster(p) PROVE UniqueInv'
  BY <1>16 DEF NoSuchCluster
<1>17. ASSUME NEW p \in Calls, ListRole(p) PROVE UniqueInv'
  BY <1>17 DEF ListRole, AfterListing, Found, WithRole
<1>18. ASSUME NEW p \in Calls, ListingBreaks(p) PROVE UniqueInv'
  BY <1>18 DEF ListingBreaks
<1>19. ASSUME NEW p \in Calls, Install(p) PROVE UniqueInv'
  BY <1>19 DEF Install
<1>20. ASSUME NEW p \in Calls, InstallFails(p) PROVE UniqueInv'
  BY <1>20 DEF InstallFails
<1>21. ASSUME NEW p \in Calls, RemoveWorkspace(p) PROVE UniqueInv'
  BY <1>21 DEF RemoveWorkspace
<1>22. ASSUME NEW p \in Calls, NoMaster(p) PROVE UniqueInv'
  BY <1>22 DEF NoMaster
<1>23. ASSUME NEW p \in Calls, ListAll(p) PROVE UniqueInv'
  BY <1>23 DEF ListAll
<1>24. ASSUME NEW p \in Calls, StopContainer(p) PROVE UniqueInv'
  BY <1>24 DEF StopContainer
<1>25. ASSUME NEW p \in Calls, RemoveContainer(p) PROVE UniqueInv'
  BY <1>25 DEF RemoveContainer
<1>26. ASSUME NEW p \in Calls, CannotRemove(p) PROVE UniqueInv'
  BY <1>26 DEF CannotRemove
<1>27. ASSUME NEW p \in Calls, AllRemoved(p) PROVE UniqueInv'
  BY <1>27 DEF AllRemoved
<1>28. ASSUME NEW p \in Calls, CreateSidecar(p) PROVE UniqueInv'
  BY <1>28 DEF CreateSidecar
<1>29. ASSUME NEW p \in Calls, StartSidecar(p) PROVE UniqueInv'
  BY <1>29 DEF StartSidecar
<1>30. ASSUME NEW p \in Calls, AttachDevice(p) PROVE UniqueInv'
  BY <1>30 DEF AttachDevice
<1>31. ASSUME NEW p \in Calls, RecordDevice(p) PROVE UniqueInv'
  BY <1>31 DEF RecordDevice
<1>32. ASSUME NEW p \in Calls, SidecarGone(p) PROVE UniqueInv'
  BY <1>32 DEF SidecarGone
<1>33. ASSUME NEW p \in Calls, SidecarRefused(p) PROVE UniqueInv'
  BY <1>33 DEF SidecarRefused
<1>34. ASSUME NEW p \in Calls, FindSidecar(p) PROVE UniqueInv'
  BY <1>34 DEF FindSidecar
<1>35. ASSUME NEW p \in Calls, ListSidecars(p) PROVE UniqueInv'
  BY <1>35 DEF ListSidecars
<1>36. ASSUME NEW p \in Calls, Detach(p) PROVE UniqueInv'
  BY <1>36 DEF Detach
<1>37. ASSUME NEW p \in Calls, CannotDetach(p) PROVE UniqueInv'
  BY <1>37 DEF CannotDetach
<1>38. ASSUME NEW p \in Calls, StopSidecar(p) PROVE UniqueInv'
  BY <1>38 DEF StopSidecar
<1>39. ASSUME NEW p \in Calls, RemoveSidecar(p) PROVE UniqueInv'
  BY <1>39 DEF RemoveSidecar
<1>40. ASSUME NEW p \in Calls, SidecarRemovedBefore(p) PROVE UniqueInv'
  BY <1>40 DEF SidecarRemovedBefore
<1>41. ASSUME NEW p \in Calls, SidecarsDestroyed(p) PROVE UniqueInv'
  BY <1>41 DEF SidecarsDestroyed
<1>42. ASSUME NEW p \in Calls, Fails(p) PROVE UniqueInv'
  BY <1>42 DEF Fails
<1>43. ASSUME NEW x \in Containers \cup Sidecars, ContainerExits(x) PROVE UniqueInv'
  BY <1>43 DEF ContainerExits
<1>44. CASE UNCHANGED vars
  BY <1>44 DEF vars
<1>. QED
  BY <1>1, <1>2, <1>3, <1>4, <1>5, <1>6, <1>7, <1>8, <1>9, <1>10, <1>11,
    <1>12, <1>13, <1>14, <1>15, <1>16, <1>17, <1>18, <1>19, <1>20, <1>21,
    <1>22, <1>23, <1>24, <1>25, <1>26, <1>27, <1>28, <1>29, <1>30, <1>31,
    <1>32, <1>33, <1>34, <1>35, <1>36, <1>37, <1>38, <1>39, <1>40, <1>41,
    <1>42, <1>43, <1>44
  DEF Next, Create, Represent, Remove, Loopback, AllEnded

\* However calls interleave, fail or are interrupted, a cluster is not created
\* under the ID of one that had been made before and that runs.
THEOREM IdsAreUnique == Spec => []UniqueUnlessConcurrent
<1>1. Inv /\ UniqueInv /\ [Next]_vars => UniqueInv'
  BY EndedStep, UniqueStep DEF Inv
<1>2. Inv /\ UniqueInv => UniqueUnlessConcurrent
<2> SUFFICES ASSUME Inv, UniqueInv, NEW p \in Calls, NEW q \in Calls,
                    q \in settled[p], id[q] = id[p],
                    NEW y \in Own(p), status[y] # "absent",
                    NEW x \in Own(q)
             PROVE  ~ Running(x)
  BY DEF UniqueUnlessConcurrent
<2>1. command[p] \in Creators /\ pc[p] \notin {"start", "unique"}
  BY DEF Inv, MadeInv
<2>. QED
  BY <2>1 DEF UniqueInv
<1>. QED
  BY <1>1, <1>2, InvInit, InvStep, UniqueInit, PTL DEF Spec

-----------------------------------------------------------------------------
(* Destroying clusters.                                                    *)

\* The nodes of a cluster that destroy has to reach are still to be listed, or
\* it holds them.
ReachInv ==
  \A p \in Calls :
    command[p] = "destroy" /\ pc[p] \in {"list", "rmtree", "stop", "remove", "done"} =>
      \A q \in settled[p] : id[q] = id[p] =>
        \A x \in Own(q) : Running(x) =>
          \/ x \in held[p] /\ pc[p] # "done"
          \/ pc[p] = "list" /\ i[p] <= RoleOf(x[2])

LEMMA ReachInit ==
  ASSUME Init
  PROVE  ReachInv
  BY DEF Init, ReachInv

LEMMA ReachStep ==
  ASSUME Inv, ReachInv, EndedStay, [Next]_vars
  PROVE  ReachInv'
<1> USE Owned, Roles DEF Inv, TypeOK, Control, SettledInv, HeldInv, ReachInv,
      EndedStay, Creators, Ended, At, Goto, LookAround, args, workspaces,
      locals, devices, counters
<1>1. ASSUME NEW p \in Calls, MakeWorkspace(p) PROVE ReachInv'
  BY <1>1 DEF MakeWorkspace
<1>2. ASSUME NEW p \in Calls, CheckUnique(p) PROVE ReachInv'
  BY <1>2 DEF CheckUnique
<1>3. ASSUME NEW p \in Calls, IdTaken(p) PROVE ReachInv'
  BY <1>3 DEF IdTaken
<1>4. ASSUME NEW p \in Calls, CreateContainer(p) PROVE ReachInv'
  BY <1>4 DEF CreateContainer
<1>5. ASSUME NEW p \in Calls, StartContainer(p) PROVE ReachInv'
  BY <1>5 DEF StartContainer
<1>6. ASSUME NEW p \in Calls, StartGone(p) PROVE ReachInv'
  BY <1>6 DEF StartGone
<1>7. ASSUME NEW p \in Calls, SshAnswers(p) PROVE ReachInv'
  BY <1>7 DEF SshAnswers
<1>8. ASSUME NEW p \in Calls, NodeHasGone(p) PROVE ReachInv'
  BY <1>8 DEF NodeHasGone
<1>9. ASSUME NEW p \in Calls, MakeKeyDir(p) PROVE ReachInv'
  BY <1>9 DEF MakeKeyDir
<1>10. ASSUME NEW p \in Calls, MakeKeyDirFails(p) PROVE ReachInv'
  BY <1>10 DEF MakeKeyDirFails
<1>11. ASSUME NEW p \in Calls, MoveKey(p) PROVE ReachInv'
  BY <1>11 DEF MoveKey
<1>12. ASSUME NEW p \in Calls, MoveKeyFails(p) PROVE ReachInv'
  BY <1>12 DEF MoveKeyFails
<1>13. ASSUME NEW p \in Calls, Authorize(p) PROVE ReachInv'
  BY <1>13 DEF Authorize
<1>14. ASSUME NEW p \in Calls, AuthorizeFails(p) PROVE ReachInv'
  BY <1>14 DEF AuthorizeFails
<1>15. ASSUME NEW p \in Calls, CheckExists(p) PROVE ReachInv'
  BY <1>15 DEF CheckExists
<1>16. ASSUME NEW p \in Calls, NoSuchCluster(p) PROVE ReachInv'
  BY <1>16 DEF NoSuchCluster
<1>17. ASSUME NEW p \in Calls, ListRole(p) PROVE ReachInv'
  BY <1>17 DEF ListRole, AfterListing, Found, WithRole
<1>18. ASSUME NEW p \in Calls, ListingBreaks(p) PROVE ReachInv'
  BY <1>18 DEF ListingBreaks
<1>19. ASSUME NEW p \in Calls, Install(p) PROVE ReachInv'
  BY <1>19 DEF Install
<1>20. ASSUME NEW p \in Calls, InstallFails(p) PROVE ReachInv'
  BY <1>20 DEF InstallFails
<1>21. ASSUME NEW p \in Calls, RemoveWorkspace(p) PROVE ReachInv'
  BY <1>21 DEF RemoveWorkspace
<1>22. ASSUME NEW p \in Calls, NoMaster(p) PROVE ReachInv'
  BY <1>22 DEF NoMaster
<1>23. ASSUME NEW p \in Calls, ListAll(p) PROVE ReachInv'
  BY <1>23 DEF ListAll
<1>24. ASSUME NEW p \in Calls, StopContainer(p) PROVE ReachInv'
  BY <1>24 DEF StopContainer, Running
<1>25. ASSUME NEW p \in Calls, RemoveContainer(p) PROVE ReachInv'
  BY <1>25 DEF RemoveContainer
<1>26. ASSUME NEW p \in Calls, CannotRemove(p) PROVE ReachInv'
  BY <1>26 DEF CannotRemove
<1>27. ASSUME NEW p \in Calls, AllRemoved(p) PROVE ReachInv'
  BY <1>27 DEF AllRemoved
<1>28. ASSUME NEW p \in Calls, CreateSidecar(p) PROVE ReachInv'
  BY <1>28 DEF CreateSidecar
<1>29. ASSUME NEW p \in Calls, StartSidecar(p) PROVE ReachInv'
  BY <1>29 DEF StartSidecar
<1>30. ASSUME NEW p \in Calls, AttachDevice(p) PROVE ReachInv'
  BY <1>30 DEF AttachDevice
<1>31. ASSUME NEW p \in Calls, RecordDevice(p) PROVE ReachInv'
  BY <1>31 DEF RecordDevice
<1>32. ASSUME NEW p \in Calls, SidecarGone(p) PROVE ReachInv'
  BY <1>32 DEF SidecarGone
<1>33. ASSUME NEW p \in Calls, SidecarRefused(p) PROVE ReachInv'
  BY <1>33 DEF SidecarRefused
<1>34. ASSUME NEW p \in Calls, FindSidecar(p) PROVE ReachInv'
  BY <1>34 DEF FindSidecar
<1>35. ASSUME NEW p \in Calls, ListSidecars(p) PROVE ReachInv'
  BY <1>35 DEF ListSidecars
<1>36. ASSUME NEW p \in Calls, Detach(p) PROVE ReachInv'
  BY <1>36 DEF Detach
<1>37. ASSUME NEW p \in Calls, CannotDetach(p) PROVE ReachInv'
  BY <1>37 DEF CannotDetach
<1>38. ASSUME NEW p \in Calls, StopSidecar(p) PROVE ReachInv'
  BY <1>38 DEF StopSidecar
<1>39. ASSUME NEW p \in Calls, RemoveSidecar(p) PROVE ReachInv'
  BY <1>39 DEF RemoveSidecar
<1>40. ASSUME NEW p \in Calls, SidecarRemovedBefore(p) PROVE ReachInv'
  BY <1>40 DEF SidecarRemovedBefore
<1>41. ASSUME NEW p \in Calls, SidecarsDestroyed(p) PROVE ReachInv'
  BY <1>41 DEF SidecarsDestroyed
<1>42. ASSUME NEW p \in Calls, Fails(p) PROVE ReachInv'
  BY <1>42 DEF Fails
<1>43. ASSUME NEW x \in Containers \cup Sidecars, ContainerExits(x) PROVE ReachInv'
  BY <1>43 DEF ContainerExits
<1>44. CASE UNCHANGED vars
  BY <1>44 DEF vars
<1>. QED
  BY <1>1, <1>2, <1>3, <1>4, <1>5, <1>6, <1>7, <1>8, <1>9, <1>10, <1>11,
    <1>12, <1>13, <1>14, <1>15, <1>16, <1>17, <1>18, <1>19, <1>20, <1>21,
    <1>22, <1>23, <1>24, <1>25, <1>26, <1>27, <1>28, <1>29, <1>30, <1>31,
    <1>32, <1>33, <1>34, <1>35, <1>36, <1>37, <1>38, <1>39, <1>40, <1>41,
    <1>42, <1>43, <1>44
  DEF Next, Create, Represent, Remove, Loopback, AllEnded

\* A destroy that succeeds has reached every node of every cluster with its ID
\* whose call had ended before.
THEOREM DestroyReaches == Spec => []DestroyReachesAll
<1>1. Inv /\ ReachInv /\ [Next]_vars => ReachInv'
  BY EndedStep, ReachStep DEF Inv
<1>2. Inv /\ ReachInv => DestroyReachesAll
  BY DEF Inv, TypeOK, ReachInv, DestroyReachesAll, At
<1>. QED
  BY <1>1, <1>2, InvInit, InvStep, ReachInit, PTL DEF Spec

-----------------------------------------------------------------------------
(* Cleaning.                                                               *)

Gone(x) == status[x] \in {"absent", "removed"}

\* What is left of the calls that had ended is held by clean.
CleanInv ==
  \A p \in Calls :
    command[p] = "clean" /\ pc[p] \in {"stop", "remove", "done"} =>
      \A q \in settled[p] : \A x \in Own(q) \cup {Sidecar(q)} :
        \/ Gone(x)
        \/ x \in held[p] /\ pc[p] # "done"
        \/ pc[p] = "remove" /\ x = victim[p]

LEMMA CleanInit ==
  ASSUME Init
  PROVE  CleanInv
  BY DEF Init, CleanInv

\* The containers of a call that has ended do not come back.
EndedGone ==
  \A q \in Calls : pc[q] \in Ended =>
    pc'[q] = pc[q] /\ \A x \in Own(q) \cup {Sidecar(q)} : Gone(x) => Gone(x)'

LEMMA EndedGoneStep ==
  ASSUME Inv, [Next]_vars
  PROVE  EndedGone
<1> USE Owned, Apart DEF Inv, TypeOK, HeldInv, Ended, EndedGone, Gone,
      Running, At, Goto, LookAround, args, workspaces, locals, devices,
      counters
<1>1. ASSUME NEW p \in Calls, MakeWorkspace(p) PROVE EndedGone
  BY <1>1 DEF MakeWorkspace
<1>2. ASSUME NEW p \in Calls, CheckUnique(p) PROVE EndedGone
  BY <1>2 DEF CheckUnique
<1>3. ASSUME NEW p \in Calls, IdTaken(p) PROVE EndedGone
  BY <1>3 DEF IdTaken
<1>4. ASSUME NEW p \in Calls, CreateContainer(p) PROVE EndedGone
  BY <1>4 DEF CreateContainer
<1>5. ASSUME NEW p \in Calls, StartContainer(p) PROVE EndedGone
  BY <1>5 DEF StartContainer
<1>6. ASSUME NEW p \in Calls, StartGone(p) PROVE EndedGone
  BY <1>6 DEF StartGone
<1>7. ASSUME NEW p \in Calls, SshAnswers(p) PROVE EndedGone
  BY <1>7 DEF SshAnswers
<1>8. ASSUME NEW p \in Calls, NodeHasGone(p) PROVE EndedGone
  BY <1>8 DEF NodeHasGone
<1>9. ASSUME NEW p \in Calls, MakeKeyDir(p) PROVE EndedGone
  BY <1>9 DEF MakeKeyDir
<1>10. ASSUME NEW p \in Calls, MakeKeyDirFails(p) PROVE EndedGone
  BY <1>10 DEF MakeKeyDirFails
<1>11. ASSUME NEW p \in Calls, MoveKey(p) PROVE EndedGone
  BY <1>11 DEF MoveKey
<1>12. ASSUME NEW p \in Calls, MoveKeyFails(p) PROVE EndedGone
  BY <1>12 DEF MoveKeyFails
<1>13. ASSUME NEW p \in Calls, Authorize(p) PROVE EndedGone
  BY <1>13 DEF Authorize
<1>14. ASSUME NEW p \in Calls, AuthorizeFails(p) PROVE EndedGone
  BY <1>14 DEF AuthorizeFails
<1>15. ASSUME NEW p \in Calls, CheckExists(p) PROVE EndedGone
  BY <1>15 DEF CheckExists
<1>16. ASSUME NEW p \in Calls, NoSuchCluster(p) PROVE EndedGone
  BY <1>16 DEF NoSuchCluster
<1>17. ASSUME NEW p \in Calls, ListRole(p) PROVE EndedGone
  BY <1>17 DEF ListRole, AfterListing, Found, WithRole
<1>18. ASSUME NEW p \in Calls, ListingBreaks(p) PROVE EndedGone
  BY <1>18 DEF ListingBreaks
<1>19. ASSUME NEW p \in Calls, Install(p) PROVE EndedGone
  BY <1>19 DEF Install
<1>20. ASSUME NEW p \in Calls, InstallFails(p) PROVE EndedGone
  BY <1>20 DEF InstallFails
<1>21. ASSUME NEW p \in Calls, RemoveWorkspace(p) PROVE EndedGone
  BY <1>21 DEF RemoveWorkspace
<1>22. ASSUME NEW p \in Calls, NoMaster(p) PROVE EndedGone
  BY <1>22 DEF NoMaster
<1>23. ASSUME NEW p \in Calls, ListAll(p) PROVE EndedGone
  BY <1>23 DEF ListAll
<1>24. ASSUME NEW p \in Calls, StopContainer(p) PROVE EndedGone
  BY <1>24 DEF StopContainer
<1>25. ASSUME NEW p \in Calls, RemoveContainer(p) PROVE EndedGone
  BY <1>25 DEF RemoveContainer
<1>26. ASSUME NEW p \in Calls, CannotRemove(p) PROVE EndedGone
  BY <1>26 DEF CannotRemove
<1>27. ASSUME NEW p \in Calls, AllRemoved(p) PROVE EndedGone
  BY <1>27 DEF AllRemoved
<1>28. ASSUME NEW p \in Calls, CreateSidecar(p) PROVE EndedGone
  BY <1>28 DEF CreateSidecar
<1>29. ASSUME NEW p \in Calls, StartSidecar(p) PROVE EndedGone
  BY <1>29 DEF StartSidecar
<1>30. ASSUME NEW p \in Calls, AttachDevice(p) PROVE EndedGone
  BY <1>30 DEF AttachDevice
<1>31. ASSUME NEW p \in Calls, RecordDevice(p) PROVE EndedGone
  BY <1>31 DEF RecordDevice
<1>32. ASSUME NEW p \in Calls, SidecarGone(p) PROVE EndedGone
  BY <1>32 DEF SidecarGone
<1>33. ASSUME NEW p \in Calls, SidecarRefused(p) PROVE EndedGone
  BY <1>33 DEF SidecarRefused
<1>34. ASSUME NEW p \in Calls, FindSidecar(p) PROVE EndedGone
  BY <1>34 DEF FindSidecar
<1>35. ASSUME NEW p \in Calls, ListSidecars(p) PROVE EndedGone
  BY <1>35 DEF ListSidecars
<1>36. ASSUME NEW p \in Calls, Detach(p) PROVE EndedGone
  BY <1>36 DEF Detach
<1>37. ASSUME NEW p \in Calls, CannotDetach(p) PROVE EndedGone
  BY <1>37 DEF CannotDetach
<1>38. ASSUME NEW p \in Calls, StopSidecar(p) PROVE EndedGone
  BY <1>38 DEF StopSidecar
<1>39. ASSUME NEW p \in Calls, RemoveSidecar(p) PROVE EndedGone
  BY <1>39 DEF RemoveSidecar
<1>40. ASSUME NEW p \in Calls, SidecarRemovedBefore(p) PROVE EndedGone
  BY <1>40 DEF SidecarRemovedBefore
<1>41. ASSUME NEW p \in Calls, SidecarsDestroyed(p) PROVE EndedGone
  BY <1>41 DEF SidecarsDestroyed
<1>42. ASSUME NEW p \in Calls, Fails(p) PROVE EndedGone
  BY <1>42 DEF Fails
<1>43. ASSUME NEW x \in Containers \cup Sidecars, ContainerExits(x) PROVE EndedGone
  BY <1>43 DEF ContainerExits
<1>44. CASE UNCHANGED vars
  BY <1>44 DEF vars
<1>. QED
  BY <1>1, <1>2, <1>3, <1>4, <1>5, <1>6, <1>7, <1>8, <1>9, <1>10, <1>11,
    <1>12, <1>13, <1>14, <1>15, <1>16, <1>17, <1>18, <1>19, <1>20, <1>21,
    <1>22, <1>23, <1>24, <1>25, <1>26, <1>27, <1>28, <1>29, <1>30, <1>31,
    <1>32, <1>33, <1>34, <1>35, <1>36, <1>37, <1>38, <1>39, <1>40, <1>41,
    <1>42, <1>43, <1>44
  DEF Next, Create, Represent, Remove, Loopback, AllEnded

LEMMA CleanStep ==
  ASSUME Inv, CleanInv, EndedGone, [Next]_vars
  PROVE  CleanInv'
<1> USE Owned, Apart DEF Inv, TypeOK, Control, SettledInv, HeldInv, CleanInv,
      EndedGone, Creators, Ended, At, Goto, LookAround, args, workspaces,
      locals, devices, counters
<1>1. ASSUME NEW p \in Calls, MakeWorkspace(p) PROVE CleanInv'
  BY <1>1 DEF MakeWorkspace
<1>2. ASSUME NEW p \in Calls, CheckUnique(p) PROVE CleanInv'
  BY <1>2 DEF CheckUnique
<1>3. ASSUME NEW p \in Calls, IdTaken(p) PROVE CleanInv'
  BY <1>3 DEF IdTaken
<1>4. ASSUME NEW p \in Calls, CreateContainer(p) PROVE CleanInv'
  BY <1>4 DEF CreateContainer
<1>5. ASSUME NEW p \in Calls, StartContainer(p) PROVE CleanInv'
  BY <1>5 DEF StartContainer
<1>6. ASSUME NEW p \in Calls, StartGone(p) PROVE CleanInv'
  BY <1>6 DEF StartGone
<1>7. ASSUME NEW p \in Calls, SshAnswers(p) PROVE CleanInv'
  BY <1>7 DEF SshAnswers
<1>8. ASSUME NEW p \in Calls, NodeHasGone(p) PROVE CleanInv'
  BY <1>8 DEF NodeHasGone
<1>9. ASSUME NEW p \in Calls, MakeKeyDir(p) PROVE CleanInv'
  BY <1>9 DEF MakeKeyDir
<1>10. ASSUME NEW p \in Calls, MakeKeyDirFails(p) PROVE CleanInv'
  BY <1>10 DEF MakeKeyDirFails
<1>11. ASSUME NEW p \in Calls, MoveKey(p) PROVE CleanInv'
  BY <1>11 DEF MoveKey
<1>12. ASSUME NEW p \in Calls, MoveKeyFails(p) PROVE CleanInv'
  BY <1>12 DEF MoveKeyFails
<1>13. ASSUME NEW p \in Calls, Authorize(p) PROVE CleanInv'
  BY <1>13 DEF Authorize
<1>14. ASSUME NEW p \in Calls, AuthorizeFails(p) PROVE CleanInv'
  BY <1>14 DEF AuthorizeFails
<1>15. ASSUME NEW p \in Calls, CheckExists(p) PROVE CleanInv'
  BY <1>15 DEF CheckExists
<1>16. ASSUME NEW p \in Calls, NoSuchCluster(p) PROVE CleanInv'
  BY <1>16 DEF NoSuchCluster
<1>17. ASSUME NEW p \in Calls, ListRole(p) PROVE CleanInv'
  BY <1>17 DEF ListRole, AfterListing, Found, WithRole
<1>18. ASSUME NEW p \in Calls, ListingBreaks(p) PROVE CleanInv'
  BY <1>18 DEF ListingBreaks
<1>19. ASSUME NEW p \in Calls, Install(p) PROVE CleanInv'
  BY <1>19 DEF Install
<1>20. ASSUME NEW p \in Calls, InstallFails(p) PROVE CleanInv'
  BY <1>20 DEF InstallFails
<1>21. ASSUME NEW p \in Calls, RemoveWorkspace(p) PROVE CleanInv'
  BY <1>21 DEF RemoveWorkspace
<1>22. ASSUME NEW p \in Calls, NoMaster(p) PROVE CleanInv'
  BY <1>22 DEF NoMaster
<1>23. ASSUME NEW p \in Calls, ListAll(p) PROVE CleanInv'
  BY <1>23 DEF ListAll, Gone
<1>24. ASSUME NEW p \in Calls, StopContainer(p) PROVE CleanInv'
  BY <1>24 DEF StopContainer
<1>25. ASSUME NEW p \in Calls, RemoveContainer(p) PROVE CleanInv'
  BY <1>25 DEF RemoveContainer, Gone
<1>26. ASSUME NEW p \in Calls, CannotRemove(p) PROVE CleanInv'
  BY <1>26 DEF CannotRemove
<1>27. ASSUME NEW p \in Calls, AllRemoved(p) PROVE CleanInv'
  BY <1>27 DEF AllRemoved
<1>28. ASSUME NEW p \in Calls, CreateSidecar(p) PROVE CleanInv'
  BY <1>28 DEF CreateSidecar
<1>29. ASSUME NEW p \in Calls, StartSidecar(p) PROVE CleanInv'
  BY <1>29 DEF StartSidecar
<1>30. ASSUME NEW p \in Calls, AttachDevice(p) PROVE CleanInv'
  BY <1>30 DEF AttachDevice
<1>31. ASSUME NEW p \in Calls, RecordDevice(p) PROVE CleanInv'
  BY <1>31 DEF RecordDevice
<1>32. ASSUME NEW p \in Calls, SidecarGone(p) PROVE CleanInv'
  BY <1>32 DEF SidecarGone
<1>33. ASSUME NEW p \in Calls, SidecarRefused(p) PROVE CleanInv'
  BY <1>33 DEF SidecarRefused
<1>34. ASSUME NEW p \in Calls, FindSidecar(p) PROVE CleanInv'
  BY <1>34 DEF FindSidecar
<1>35. ASSUME NEW p \in Calls, ListSidecars(p) PROVE CleanInv'
  BY <1>35 DEF ListSidecars
<1>36. ASSUME NEW p \in Calls, Detach(p) PROVE CleanInv'
  BY <1>36 DEF Detach
<1>37. ASSUME NEW p \in Calls, CannotDetach(p) PROVE CleanInv'
  BY <1>37 DEF CannotDetach
<1>38. ASSUME NEW p \in Calls, StopSidecar(p) PROVE CleanInv'
  BY <1>38 DEF StopSidecar
<1>39. ASSUME NEW p \in Calls, RemoveSidecar(p) PROVE CleanInv'
  BY <1>39 DEF RemoveSidecar
<1>40. ASSUME NEW p \in Calls, SidecarRemovedBefore(p) PROVE CleanInv'
  BY <1>40 DEF SidecarRemovedBefore
<1>41. ASSUME NEW p \in Calls, SidecarsDestroyed(p) PROVE CleanInv'
  BY <1>41 DEF SidecarsDestroyed
<1>42. ASSUME NEW p \in Calls, Fails(p) PROVE CleanInv'
  BY <1>42 DEF Fails
<1>43. ASSUME NEW x \in Containers \cup Sidecars, ContainerExits(x) PROVE CleanInv'
  BY <1>43 DEF ContainerExits
<1>44. CASE UNCHANGED vars
  BY <1>44 DEF vars
<1>. QED
  BY <1>1, <1>2, <1>3, <1>4, <1>5, <1>6, <1>7, <1>8, <1>9, <1>10, <1>11,
    <1>12, <1>13, <1>14, <1>15, <1>16, <1>17, <1>18, <1>19, <1>20, <1>21,
    <1>22, <1>23, <1>24, <1>25, <1>26, <1>27, <1>28, <1>29, <1>30, <1>31,
    <1>32, <1>33, <1>34, <1>35, <1>36, <1>37, <1>38, <1>39, <1>40, <1>41,
    <1>42, <1>43, <1>44
  DEF Next, Create, Represent, Remove, Loopback, AllEnded

\* A clean that succeeds has removed every container, started or not, of the
\* calls that had ended.
THEOREM CleanIsComplete == Spec => []CleanLeavesNoContainer
<1>1. Inv /\ CleanInv /\ [Next]_vars => CleanInv'
  BY EndedGoneStep, CleanStep
<1>2. Inv /\ CleanInv => CleanLeavesNoContainer
  BY DEF Inv, TypeOK, CleanInv, Gone, CleanLeavesNoContainer, At
<1>. QED
  BY <1>1, <1>2, InvInit, InvStep, CleanInit, PTL DEF Spec

-----------------------------------------------------------------------------
(* Loopback sidecars.                                                      *)

\* A clean has begun before the call that made the sidecar had ended.
Met(x) ==
  \E p \in Calls : command[p] = "clean" /\ ~ At(p, "start") /\ x[1] \notin settled[p]

\* A device is attached and then recorded by the call that makes the sidecar.
DeviceInv ==
  /\ \A x \in attached : pc[x[1]] \in {"record"} \cup Ended
  /\ \A x \in recorded : pc[x[1]] \in Ended
  /\ \A p \in Calls :
       pc[p] \in {"halt", "discard"} => victim[p] \in recorded /\ victim[p] \notin attached

\* As long as nothing stops on its own, a sidecar with a device runs; a clean
\* holds those of the calls that had ended, and then they have no device.
RunsInv ==
  exits = 0 =>
    /\ \A x \in attached : Met(x) \/ Running(x)
    /\ \A p \in Calls : command[p] = "clean" => \A x \in attached :
         x[1] \in settled[p] =>
           /\ pc[p] \in {"detach", "halt", "discard"} => x \in held[p] \/ Met(x)
           /\ pc[p] \in {"all", "stop", "remove"} => Met(x)

LEMMA DeviceInit ==
  ASSUME Init
  PROVE  DeviceInv /\ RunsInv
  BY DEF Init, DeviceInv, RunsInv

LEMMA DeviceStep ==
  ASSUME Inv, DeviceInv, [Next]_vars
  PROVE  DeviceInv'
<1> USE Owned, Apart DEF Inv, TypeOK, Control, HeldInv, DeviceInv, Ended,
      Running, At, Goto, LookAround, args, workspaces, locals, devices,
      counters
<1>1. ASSUME NEW p \in Calls, MakeWorkspace(p) PROVE DeviceInv'
  BY <1>1 DEF MakeWorkspace
<1>2. ASSUME NEW p \in Calls, CheckUnique(p) PROVE DeviceInv'
  BY <1>2 DEF CheckUnique
<1>3. ASSUME NEW p \in Calls, IdTaken(p) PROVE DeviceInv'
  BY <1>3 DEF IdTaken
<1>4. ASSUME NEW p \in Calls, CreateContainer(p) PROVE DeviceInv'
  BY <1>4 DEF CreateContainer
<1>5. ASSUME NEW p \in Calls, StartContainer(p) PROVE DeviceInv'
  BY <1>5 DEF StartContainer
<1>6. ASSUME NEW p \in Calls, StartGone(p) PROVE DeviceInv'
  BY <1>6 DEF StartGone
<1>7. ASSUME NEW p \in Calls, SshAnswers(p) PROVE DeviceInv'
  BY <1>7 DEF SshAnswers
<1>8. ASSUME NEW p \in Calls, NodeHasGone(p) PROVE DeviceInv'
  BY <1>8 DEF NodeHasGone
<1>9. ASSUME NEW p \in Calls, MakeKeyDir(p) PROVE DeviceInv'
  BY <1>9 DEF MakeKeyDir
<1>10. ASSUME NEW p \in Calls, MakeKeyDirFails(p) PROVE DeviceInv'
  BY <1>10 DEF MakeKeyDirFails
<1>11. ASSUME NEW p \in Calls, MoveKey(p) PROVE DeviceInv'
  BY <1>11 DEF MoveKey
<1>12. ASSUME NEW p \in Calls, MoveKeyFails(p) PROVE DeviceInv'
  BY <1>12 DEF MoveKeyFails
<1>13. ASSUME NEW p \in Calls, Authorize(p) PROVE DeviceInv'
  BY <1>13 DEF Authorize
<1>14. ASSUME NEW p \in Calls, AuthorizeFails(p) PROVE DeviceInv'
  BY <1>14 DEF AuthorizeFails
<1>15. ASSUME NEW p \in Calls, CheckExists(p) PROVE DeviceInv'
  BY <1>15 DEF CheckExists
<1>16. ASSUME NEW p \in Calls, NoSuchCluster(p) PROVE DeviceInv'
  BY <1>16 DEF NoSuchCluster
<1>17. ASSUME NEW p \in Calls, ListRole(p) PROVE DeviceInv'
  BY <1>17 DEF ListRole, AfterListing, Found, WithRole
<1>18. ASSUME NEW p \in Calls, ListingBreaks(p) PROVE DeviceInv'
  BY <1>18 DEF ListingBreaks
<1>19. ASSUME NEW p \in Calls, Install(p) PROVE DeviceInv'
  BY <1>19 DEF Install
<1>20. ASSUME NEW p \in Calls, InstallFails(p) PROVE DeviceInv'
  BY <1>20 DEF InstallFails
<1>21. ASSUME NEW p \in Calls, RemoveWorkspace(p) PROVE DeviceInv'
  BY <1>21 DEF RemoveWorkspace
<1>22. ASSUME NEW p \in Calls, NoMaster(p) PROVE DeviceInv'
  BY <1>22 DEF NoMaster
<1>23. ASSUME NEW p \in Calls, ListAll(p) PROVE DeviceInv'
  BY <1>23 DEF ListAll
<1>24. ASSUME NEW p \in Calls, StopContainer(p) PROVE DeviceInv'
  BY <1>24 DEF StopContainer
<1>25. ASSUME NEW p \in Calls, RemoveContainer(p) PROVE DeviceInv'
  BY <1>25 DEF RemoveContainer
<1>26. ASSUME NEW p \in Calls, CannotRemove(p) PROVE DeviceInv'
  BY <1>26 DEF CannotRemove
<1>27. ASSUME NEW p \in Calls, AllRemoved(p) PROVE DeviceInv'
  BY <1>27 DEF AllRemoved
<1>28. ASSUME NEW p \in Calls, CreateSidecar(p) PROVE DeviceInv'
  BY <1>28 DEF CreateSidecar
<1>29. ASSUME NEW p \in Calls, StartSidecar(p) PROVE DeviceInv'
  BY <1>29 DEF StartSidecar
<1>30. ASSUME NEW p \in Calls, AttachDevice(p) PROVE DeviceInv'
  BY <1>30 DEF AttachDevice
<1>31. ASSUME NEW p \in Calls, RecordDevice(p) PROVE DeviceInv'
  BY <1>31 DEF RecordDevice
<1>32. ASSUME NEW p \in Calls, SidecarGone(p) PROVE DeviceInv'
  BY <1>32 DEF SidecarGone
<1>33. ASSUME NEW p \in Calls, SidecarRefused(p) PROVE DeviceInv'
  BY <1>33 DEF SidecarRefused
<1>34. ASSUME NEW p \in Calls, FindSidecar(p) PROVE DeviceInv'
  BY <1>34 DEF FindSidecar
<1>35. ASSUME NEW p \in Calls, ListSidecars(p) PROVE DeviceInv'
  BY <1>35 DEF ListSidecars
<1>36. ASSUME NEW p \in Calls, Detach(p) PROVE DeviceInv'
  BY <1>36 DEF Detach
<1>37. ASSUME NEW p \in Calls, CannotDetach(p) PROVE DeviceInv'
  BY <1>37 DEF CannotDetach
<1>38. ASSUME NEW p \in Calls, StopSidecar(p) PROVE DeviceInv'
  BY <1>38 DEF StopSidecar
<1>39. ASSUME NEW p \in Calls, RemoveSidecar(p) PROVE DeviceInv'
  BY <1>39 DEF RemoveSidecar
<1>40. ASSUME NEW p \in Calls, SidecarRemovedBefore(p) PROVE DeviceInv'
  BY <1>40 DEF SidecarRemovedBefore
<1>41. ASSUME NEW p \in Calls, SidecarsDestroyed(p) PROVE DeviceInv'
  BY <1>41 DEF SidecarsDestroyed
<1>42. ASSUME NEW p \in Calls, Fails(p) PROVE DeviceInv'
  BY <1>42 DEF Fails
<1>43. ASSUME NEW x \in Containers \cup Sidecars, ContainerExits(x) PROVE DeviceInv'
  BY <1>43 DEF ContainerExits
<1>44. CASE UNCHANGED vars
  BY <1>44 DEF vars
<1>. QED
  BY <1>1, <1>2, <1>3, <1>4, <1>5, <1>6, <1>7, <1>8, <1>9, <1>10, <1>11,
    <1>12, <1>13, <1>14, <1>15, <1>16, <1>17, <1>18, <1>19, <1>20, <1>21,
    <1>22, <1>23, <1>24, <1>25, <1>26, <1>27, <1>28, <1>29, <1>30, <1>31,
    <1>32, <1>33, <1>34, <1>35, <1>36, <1>37, <1>38, <1>39, <1>40, <1>41,
    <1>42, <1>43, <1>44
  DEF Next, Create, Represent, Remove, Loopback, AllEnded

\* What a call has seen does not change, once it has begun to look.
Begun ==
  /\ command' = command
  /\ \A p \in Calls :
       command[p] = "clean" /\ pc[p] # "start" =>
         pc'[p] # "start" /\ settled'[p] = settled[p]

LEMMA StaysBegunStep ==
  ASSUME Inv, [Next]_vars
  PROVE  Begun
<1> USE DEF Inv, TypeOK, Control, Creators, Begun, At, Goto, LookAround, args,
      workspaces, locals, devices, counters
<1>1. ASSUME NEW p \in Calls, MakeWorkspace(p) PROVE Begun
  BY <1>1 DEF MakeWorkspace
<1>2. ASSUME NEW p \in Calls, CheckUnique(p) PROVE Begun
  BY <1>2 DEF CheckUnique
<1>3. ASSUME NEW p \in Calls, IdTaken(p) PROVE Begun
  BY <1>3 DEF IdTaken
<1>4. ASSUME NEW p \in Calls, CreateContainer(p) PROVE Begun
  BY <1>4 DEF CreateContainer
<1>5. ASSUME NEW p \in Calls, StartContainer(p) PROVE Begun
  BY <1>5 DEF StartContainer
<1>6. ASSUME NEW p \in Calls, StartGone(p) PROVE Begun
  BY <1>6 DEF StartGone
<1>7. ASSUME NEW p \in Calls, SshAnswers(p) PROVE Begun
  BY <1>7 DEF SshAnswers
<1>8. ASSUME NEW p \in Calls, NodeHasGone(p) PROVE Begun
  BY <1>8 DEF NodeHasGone
<1>9. ASSUME NEW p \in Calls, MakeKeyDir(p) PROVE Begun
  BY <1>9 DEF MakeKeyDir
<1>10. ASSUME NEW p \in Calls, MakeKeyDirFails(p) PROVE Begun
  BY <1>10 DEF MakeKeyDirFails
<1>11. ASSUME NEW p \in Calls, MoveKey(p) PROVE Begun
  BY <1>11 DEF MoveKey
<1>12. ASSUME NEW p \in Calls, MoveKeyFails(p) PROVE Begun
  BY <1>12 DEF MoveKeyFails
<1>13. ASSUME NEW p \in Calls, Authorize(p) PROVE Begun
  BY <1>13 DEF Authorize
<1>14. ASSUME NEW p \in Calls, AuthorizeFails(p) PROVE Begun
  BY <1>14 DEF AuthorizeFails
<1>15. ASSUME NEW p \in Calls, CheckExists(p) PROVE Begun
  BY <1>15 DEF CheckExists
<1>16. ASSUME NEW p \in Calls, NoSuchCluster(p) PROVE Begun
  BY <1>16 DEF NoSuchCluster
<1>17. ASSUME NEW p \in Calls, ListRole(p) PROVE Begun
  BY <1>17 DEF ListRole, AfterListing, Found, WithRole
<1>18. ASSUME NEW p \in Calls, ListingBreaks(p) PROVE Begun
  BY <1>18 DEF ListingBreaks
<1>19. ASSUME NEW p \in Calls, Install(p) PROVE Begun
  BY <1>19 DEF Install
<1>20. ASSUME NEW p \in Calls, InstallFails(p) PROVE Begun
  BY <1>20 DEF InstallFails
<1>21. ASSUME NEW p \in Calls, RemoveWorkspace(p) PROVE Begun
  BY <1>21 DEF RemoveWorkspace
<1>22. ASSUME NEW p \in Calls, NoMaster(p) PROVE Begun
  BY <1>22 DEF NoMaster
<1>23. ASSUME NEW p \in Calls, ListAll(p) PROVE Begun
  BY <1>23 DEF ListAll
<1>24. ASSUME NEW p \in Calls, StopContainer(p) PROVE Begun
  BY <1>24 DEF StopContainer
<1>25. ASSUME NEW p \in Calls, RemoveContainer(p) PROVE Begun
  BY <1>25 DEF RemoveContainer
<1>26. ASSUME NEW p \in Calls, CannotRemove(p) PROVE Begun
  BY <1>26 DEF CannotRemove
<1>27. ASSUME NEW p \in Calls, AllRemoved(p) PROVE Begun
  BY <1>27 DEF AllRemoved
<1>28. ASSUME NEW p \in Calls, CreateSidecar(p) PROVE Begun
  BY <1>28 DEF CreateSidecar
<1>29. ASSUME NEW p \in Calls, StartSidecar(p) PROVE Begun
  BY <1>29 DEF StartSidecar
<1>30. ASSUME NEW p \in Calls, AttachDevice(p) PROVE Begun
  BY <1>30 DEF AttachDevice
<1>31. ASSUME NEW p \in Calls, RecordDevice(p) PROVE Begun
  BY <1>31 DEF RecordDevice
<1>32. ASSUME NEW p \in Calls, SidecarGone(p) PROVE Begun
  BY <1>32 DEF SidecarGone
<1>33. ASSUME NEW p \in Calls, SidecarRefused(p) PROVE Begun
  BY <1>33 DEF SidecarRefused
<1>34. ASSUME NEW p \in Calls, FindSidecar(p) PROVE Begun
  BY <1>34 DEF FindSidecar
<1>35. ASSUME NEW p \in Calls, ListSidecars(p) PROVE Begun
  BY <1>35 DEF ListSidecars
<1>36. ASSUME NEW p \in Calls, Detach(p) PROVE Begun
  BY <1>36 DEF Detach
<1>37. ASSUME NEW p \in Calls, CannotDetach(p) PROVE Begun
  BY <1>37 DEF CannotDetach
<1>38. ASSUME NEW p \in Calls, StopSidecar(p) PROVE Begun
  BY <1>38 DEF StopSidecar
<1>39. ASSUME NEW p \in Calls, RemoveSidecar(p) PROVE Begun
  BY <1>39 DEF RemoveSidecar
<1>40. ASSUME NEW p \in Calls, SidecarRemovedBefore(p) PROVE Begun
  BY <1>40 DEF SidecarRemovedBefore
<1>41. ASSUME NEW p \in Calls, SidecarsDestroyed(p) PROVE Begun
  BY <1>41 DEF SidecarsDestroyed
<1>42. ASSUME NEW p \in Calls, Fails(p) PROVE Begun
  BY <1>42 DEF Fails
<1>43. ASSUME NEW x \in Containers \cup Sidecars, ContainerExits(x) PROVE Begun
  BY <1>43 DEF ContainerExits
<1>44. CASE UNCHANGED vars
  BY <1>44 DEF vars
<1>. QED
  BY <1>1, <1>2, <1>3, <1>4, <1>5, <1>6, <1>7, <1>8, <1>9, <1>10, <1>11,
    <1>12, <1>13, <1>14, <1>15, <1>16, <1>17, <1>18, <1>19, <1>20, <1>21,
    <1>22, <1>23, <1>24, <1>25, <1>26, <1>27, <1>28, <1>29, <1>30, <1>31,
    <1>32, <1>33, <1>34, <1>35, <1>36, <1>37, <1>38, <1>39, <1>40, <1>41,
    <1>42, <1>43, <1>44
  DEF Next, Create, Represent, Remove, Loopback, AllEnded

LEMMA MetStays ==
  ASSUME Inv, NEW x, Met(x), [Next]_vars
  PROVE  Met(x)'
<1>1. PICK p \in Calls :
        command[p] = "clean" /\ ~ At(p, "start") /\ x[1] \notin settled[p]
  BY DEF Met
<1>2. command' = command /\ pc'[p] # "start" /\ settled'[p] = settled[p]
  BY <1>1, StaysBegunStep DEF Begun, At
<1>. QED
  BY <1>1, <1>2 DEF Met, At

LEMMA RunsStep ==
  ASSUME Inv, DeviceInv, RunsInv, \A x \in attached : Met(x) => Met(x)', [Next]_vars
  PROVE  RunsInv'
<1> USE Owned, Apart DEF Inv, TypeOK, Control, SettledInv, HeldInv, DeviceInv,
      RunsInv, Ended, Running, At, Goto, LookAround, args, workspaces, locals,
      devices, counters
<1>1. ASSUME NEW p \in Calls, MakeWorkspace(p) PROVE RunsInv'
  BY <1>1 DEF MakeWorkspace
<1>2. ASSUME NEW p \in Calls, CheckUnique(p) PROVE RunsInv'
  BY <1>2 DEF CheckUnique
<1>3. ASSUME NEW p \in Calls, IdTaken(p) PROVE RunsInv'
  BY <1>3 DEF IdTaken
<1>4. ASSUME NEW p \in Calls, CreateContainer(p) PROVE RunsInv'
  BY <1>4 DEF CreateContainer
<1>5. ASSUME NEW p \in Calls, StartContainer(p) PROVE RunsInv'
  BY <1>5 DEF StartContainer
<1>6. ASSUME NEW p \in Calls, StartGone(p) PROVE RunsInv'
  BY <1>6 DEF StartGone
<1>7. ASSUME NEW p \in Calls, SshAnswers(p) PROVE RunsInv'
  BY <1>7 DEF SshAnswers
<1>8. ASSUME NEW p \in Calls, NodeHasGone(p) PROVE RunsInv'
  BY <1>8 DEF NodeHasGone
<1>9. ASSUME NEW p \in Calls, MakeKeyDir(p) PROVE RunsInv'
  BY <1>9 DEF MakeKeyDir
<1>10. ASSUME NEW p \in Calls, MakeKeyDirFails(p) PROVE RunsInv'
  BY <1>10 DEF MakeKeyDirFails
<1>11. ASSUME NEW p \in Calls, MoveKey(p) PROVE RunsInv'
  BY <1>11 DEF MoveKey
<1>12. ASSUME NEW p \in Calls, MoveKeyFails(p) PROVE RunsInv'
  BY <1>12 DEF MoveKeyFails
<1>13. ASSUME NEW p \in Calls, Authorize(p) PROVE RunsInv'
  BY <1>13 DEF Authorize
<1>14. ASSUME NEW p \in Calls, AuthorizeFails(p) PROVE RunsInv'
  BY <1>14 DEF AuthorizeFails
<1>15. ASSUME NEW p \in Calls, CheckExists(p) PROVE RunsInv'
  BY <1>15 DEF CheckExists
<1>16. ASSUME NEW p \in Calls, NoSuchCluster(p) PROVE RunsInv'
  BY <1>16 DEF NoSuchCluster
<1>17. ASSUME NEW p \in Calls, ListRole(p) PROVE RunsInv'
  BY <1>17 DEF ListRole, AfterListing, Found, WithRole
<1>18. ASSUME NEW p \in Calls, ListingBreaks(p) PROVE RunsInv'
  BY <1>18 DEF ListingBreaks
<1>19. ASSUME NEW p \in Calls, Install(p) PROVE RunsInv'
  BY <1>19 DEF Install
<1>20. ASSUME NEW p \in Calls, InstallFails(p) PROVE RunsInv'
  BY <1>20 DEF InstallFails
<1>21. ASSUME NEW p \in Calls, RemoveWorkspace(p) PROVE RunsInv'
  BY <1>21 DEF RemoveWorkspace
<1>22. ASSUME NEW p \in Calls, NoMaster(p) PROVE RunsInv'
  BY <1>22 DEF NoMaster
<1>23. ASSUME NEW p \in Calls, ListAll(p) PROVE RunsInv'
  BY <1>23 DEF ListAll
<1>24. ASSUME NEW p \in Calls, StopContainer(p) PROVE RunsInv'
<2>1. PICK y \in held[p] :
        status' = [status EXCEPT ![y] = IF @ = "running" THEN "exited" ELSE @]
  BY <1>24 DEF StopContainer
<2>2. /\ pc[p] = "stop" /\ pc' = [pc EXCEPT ![p] = "remove"]
      /\ exits' = exits /\ attached' = attached /\ settled' = settled
      /\ command' = command /\ \A r \in Calls \ {p} : held'[r] = held[r]
  BY <1>24 DEF StopContainer
<2>3. ASSUME exits = 0, NEW x \in attached PROVE Met(x)' \/ Running(x)'
<3>1. CASE x = y /\ x[1] \notin settled[p]
<4>1. command[p] = "clean"
  BY <2>1, <2>2, <3>1
<4>. QED
  BY <2>2, <3>1, <4>1 DEF Met
<3>2. CASE x = y /\ x[1] \in settled[p]
<4>1. command[p] = "clean"
  BY <2>1, <2>2, <3>2
<4>2. Met(x)
  BY <2>2, <2>3, <3>2, <4>1
<4>. QED
  BY <4>2
<3>3. CASE x # y
  BY <2>1, <2>3, <3>3
<3>. QED
  BY <3>1, <3>2, <3>3
<2>4. ASSUME exits = 0, NEW r \in Calls, command[r] = "clean",
             NEW x \in attached, x[1] \in settled[r]
      PROVE  /\ pc'[r] \in {"detach", "halt", "discard"} => x \in held'[r] \/ Met(x)'
             /\ pc'[r] \in {"all", "stop", "remove"} => Met(x)'
  BY <2>2, <2>4
<2>. QED
  BY <2>2, <2>3, <2>4
<1>25. ASSUME NEW p \in Calls, RemoveContainer(p) PROVE RunsInv'
  BY <1>25 DEF RemoveContainer
<1>26. ASSUME NEW p \in Calls, CannotRemove(p) PROVE RunsInv'
  BY <1>26 DEF CannotRemove
<1>27. ASSUME NEW p \in Calls, AllRemoved(p) PROVE RunsInv'
  BY <1>27 DEF AllRemoved
<1>28. ASSUME NEW p \in Calls, CreateSidecar(p) PROVE RunsInv'
  BY <1>28 DEF CreateSidecar
<1>29. ASSUME NEW p \in Calls, StartSidecar(p) PROVE RunsInv'
  BY <1>29 DEF StartSidecar
<1>30. ASSUME NEW p \in Calls, AttachDevice(p) PROVE RunsInv'
  BY <1>30 DEF AttachDevice
<1>31. ASSUME NEW p \in Calls, RecordDevice(p) PROVE RunsInv'
  BY <1>31 DEF RecordDevice
<1>32. ASSUME NEW p \in Calls, SidecarGone(p) PROVE RunsInv'
  BY <1>32 DEF SidecarGone
<1>33. ASSUME NEW p \in Calls, SidecarRefused(p) PROVE RunsInv'
  BY <1>33 DEF SidecarRefused
<1>34. ASSUME NEW p \in Calls, FindSidecar(p) PROVE RunsInv'
  BY <1>34 DEF FindSidecar
<1>35. ASSUME NEW p \in Calls, ListSidecars(p) PROVE RunsInv'
  BY <1>35 DEF ListSidecars
<1>36. ASSUME NEW p \in Calls, Detach(p) PROVE RunsInv'
  BY <1>36 DEF Detach
<1>37. ASSUME NEW p \in Calls, CannotDetach(p) PROVE RunsInv'
  BY <1>37 DEF CannotDetach
<1>38. ASSUME NEW p \in Calls, StopSidecar(p) PROVE RunsInv'
  BY <1>38 DEF StopSidecar
<1>39. ASSUME NEW p \in Calls, RemoveSidecar(p) PROVE RunsInv'
  BY <1>39 DEF RemoveSidecar
<1>40. ASSUME NEW p \in Calls, SidecarRemovedBefore(p) PROVE RunsInv'
  BY <1>40 DEF SidecarRemovedBefore
<1>41. ASSUME NEW p \in Calls, SidecarsDestroyed(p) PROVE RunsInv'
  BY <1>41 DEF SidecarsDestroyed
<1>42. ASSUME NEW p \in Calls, Fails(p) PROVE RunsInv'
  BY <1>42 DEF Fails
<1>43. ASSUME NEW x \in Containers \cup Sidecars, ContainerExits(x) PROVE RunsInv'
  BY <1>43 DEF ContainerExits
<1>44. CASE UNCHANGED vars
  BY <1>44 DEF vars
<1>. QED
  BY <1>1, <1>2, <1>3, <1>4, <1>5, <1>6, <1>7, <1>8, <1>9, <1>10, <1>11,
    <1>12, <1>13, <1>14, <1>15, <1>16, <1>17, <1>18, <1>19, <1>20, <1>21,
    <1>22, <1>23, <1>24, <1>25, <1>26, <1>27, <1>28, <1>29, <1>30, <1>31,
    <1>32, <1>33, <1>34, <1>35, <1>36, <1>37, <1>38, <1>39, <1>40, <1>41,
    <1>42, <1>43, <1>44
  DEF Next, Create, Represent, Remove, Loopback, AllEnded

\* No sidecar is removed with its device attached, but for one that stopped on
\* its own or that was still being created when a clean began.
THEOREM DevicesAreReleased == Spec => []DeviceIsReleased
<1>1. Inv /\ DeviceInv /\ RunsInv /\ [Next]_vars => DeviceInv' /\ RunsInv'
  BY DeviceStep, RunsStep, MetStays
<1>2. Inv /\ RunsInv => DeviceIsReleased
  BY DEF Inv, TypeOK, RunsInv, DeviceIsReleased, Met, Running
<1>. QED
  BY <1>1, <1>2, InvInit, InvStep, DeviceInit, PTL DEF Spec

-----------------------------------------------------------------------------
(* Creating clusters.                                                      *)

\* A call holds, and finds its workspace with, containers of its own ID.
SameId(p, x) == x[1] \in Calls /\ id[x[1]] = id[p]

IdInv ==
  \A p \in Calls :
    /\ lead[p] # NoContainer => SameId(p, lead[p])
    /\ pc[p] \in {"move", "authorize"} => lead[p] # NoContainer
    /\ command[p] \notin {"clean", "destroy-loopback-sidecar"} =>
         /\ \A x \in held[p] : SameId(p, x)
         /\ victim[p] # NoContainer => SameId(p, victim[p])

LEMMA IdInit ==
  ASSUME Init
  PROVE  IdInv
  BY DEF Init, IdInv

LEMMA IdStep ==
  ASSUME Inv, IdInv, [Next]_vars
  PROVE  IdInv'
<1> USE Owned, Apart DEF Inv, TypeOK, Control, HeldInv, IdInv, SameId, Ended,
      Creators, At, Goto, LookAround, args, workspaces, locals, devices,
      counters
<1>1. ASSUME NEW p \in Calls, MakeWorkspace(p) PROVE IdInv'
  BY <1>1 DEF MakeWorkspace
<1>2. ASSUME NEW p \in Calls, CheckUnique(p) PROVE IdInv'
  BY <1>2 DEF CheckUnique
<1>3. ASSUME NEW p \in Calls, IdTaken(p) PROVE IdInv'
  BY <1>3 DEF IdTaken
<1>4. ASSUME NEW p \in Calls, CreateContainer(p) PROVE IdInv'
  BY <1>4 DEF CreateContainer
<1>5. ASSUME NEW p \in Calls, StartContainer(p) PROVE IdInv'
  BY <1>5 DEF StartContainer
<1>6. ASSUME NEW p \in Calls, StartGone(p) PROVE IdInv'
  BY <1>6 DEF StartGone
<1>7. ASSUME NEW p \in Calls, SshAnswers(p) PROVE IdInv'
  BY <1>7 DEF SshAnswers
<1>8. ASSUME NEW p \in Calls, NodeHasGone(p) PROVE IdInv'
  BY <1>8 DEF NodeHasGone
<1>9. ASSUME NEW p \in Calls, MakeKeyDir(p) PROVE IdInv'
  BY <1>9 DEF MakeKeyDir
<1>10. ASSUME NEW p \in Calls, MakeKeyDirFails(p) PROVE IdInv'
  BY <1>10 DEF MakeKeyDirFails
<1>11. ASSUME NEW p \in Calls, MoveKey(p) PROVE IdInv'
  BY <1>11 DEF MoveKey
<1>12. ASSUME NEW p \in Calls, MoveKeyFails(p) PROVE IdInv'
  BY <1>12 DEF MoveKeyFails
<1>13. ASSUME NEW p \in Calls, Authorize(p) PROVE IdInv'
  BY <1>13 DEF Authorize
<1>14. ASSUME NEW p \in Calls, AuthorizeFails(p) PROVE IdInv'
  BY <1>14 DEF AuthorizeFails
<1>15. ASSUME NEW p \in Calls, CheckExists(p) PROVE IdInv'
  BY <1>15 DEF CheckExists
<1>16. ASSUME NEW p \in Calls, NoSuchCluster(p) PROVE IdInv'
  BY <1>16 DEF NoSuchCluster
<1>17. ASSUME NEW p \in Calls, ListRole(p) PROVE IdInv'
  BY <1>17 DEF ListRole, AfterListing, Found, WithRole
<1>18. ASSUME NEW p \in Calls, ListingBreaks(p) PROVE IdInv'
  BY <1>18 DEF ListingBreaks
<1>19. ASSUME NEW p \in Calls, Install(p) PROVE IdInv'
  BY <1>19 DEF Install
<1>20. ASSUME NEW p \in Calls, InstallFails(p) PROVE IdInv'
  BY <1>20 DEF InstallFails
<1>21. ASSUME NEW p \in Calls, RemoveWorkspace(p) PROVE IdInv'
  BY <1>21 DEF RemoveWorkspace
<1>22. ASSUME NEW p \in Calls, NoMaster(p) PROVE IdInv'
  BY <1>22 DEF NoMaster
<1>23. ASSUME NEW p \in Calls, ListAll(p) PROVE IdInv'
  BY <1>23 DEF ListAll
<1>24. ASSUME NEW p \in Calls, StopContainer(p) PROVE IdInv'
  BY <1>24 DEF StopContainer
<1>25. ASSUME NEW p \in Calls, RemoveContainer(p) PROVE IdInv'
  BY <1>25 DEF RemoveContainer
<1>26. ASSUME NEW p \in Calls, CannotRemove(p) PROVE IdInv'
  BY <1>26 DEF CannotRemove
<1>27. ASSUME NEW p \in Calls, AllRemoved(p) PROVE IdInv'
  BY <1>27 DEF AllRemoved
<1>28. ASSUME NEW p \in Calls, CreateSidecar(p) PROVE IdInv'
  BY <1>28 DEF CreateSidecar
<1>29. ASSUME NEW p \in Calls, StartSidecar(p) PROVE IdInv'
  BY <1>29 DEF StartSidecar
<1>30. ASSUME NEW p \in Calls, AttachDevice(p) PROVE IdInv'
  BY <1>30 DEF AttachDevice
<1>31. ASSUME NEW p \in Calls, RecordDevice(p) PROVE IdInv'
  BY <1>31 DEF RecordDevice
<1>32. ASSUME NEW p \in Calls, SidecarGone(p) PROVE IdInv'
  BY <1>32 DEF SidecarGone
<1>33. ASSUME NEW p \in Calls, SidecarRefused(p) PROVE IdInv'
  BY <1>33 DEF SidecarRefused
<1>34. ASSUME NEW p \in Calls, FindSidecar(p) PROVE IdInv'
  BY <1>34 DEF FindSidecar
<1>35. ASSUME NEW p \in Calls, ListSidecars(p) PROVE IdInv'
  BY <1>35 DEF ListSidecars
<1>36. ASSUME NEW p \in Calls, Detach(p) PROVE IdInv'
  BY <1>36 DEF Detach
<1>37. ASSUME NEW p \in Calls, CannotDetach(p) PROVE IdInv'
  BY <1>37 DEF CannotDetach
<1>38. ASSUME NEW p \in Calls, StopSidecar(p) PROVE IdInv'
  BY <1>38 DEF StopSidecar
<1>39. ASSUME NEW p \in Calls, RemoveSidecar(p) PROVE IdInv'
  BY <1>39 DEF RemoveSidecar
<1>40. ASSUME NEW p \in Calls, SidecarRemovedBefore(p) PROVE IdInv'
  BY <1>40 DEF SidecarRemovedBefore
<1>41. ASSUME NEW p \in Calls, SidecarsDestroyed(p) PROVE IdInv'
  BY <1>41 DEF SidecarsDestroyed
<1>42. ASSUME NEW p \in Calls, Fails(p) PROVE IdInv'
  BY <1>42 DEF Fails
<1>43. ASSUME NEW x \in Containers \cup Sidecars, ContainerExits(x) PROVE IdInv'
  BY <1>43 DEF ContainerExits
<1>44. CASE UNCHANGED vars
  BY <1>44 DEF vars
<1>. QED
  BY <1>1, <1>2, <1>3, <1>4, <1>5, <1>6, <1>7, <1>8, <1>9, <1>10, <1>11,
    <1>12, <1>13, <1>14, <1>15, <1>16, <1>17, <1>18, <1>19, <1>20, <1>21,
    <1>22, <1>23, <1>24, <1>25, <1>26, <1>27, <1>28, <1>29, <1>30, <1>31,
    <1>32, <1>33, <1>34, <1>35, <1>36, <1>37, <1>38, <1>39, <1>40, <1>41,
    <1>42, <1>43, <1>44
  DEF Next, Create, Represent, Remove, Loopback, AllEnded

\* What has not begun, or has been refused, was so before.
Back ==
  /\ id' = id /\ command' = command
  /\ exits' = 0 => exits = 0
  /\ \A q \in Calls :
       /\ pc'[q] = "start" => pc[q] = "start"
       /\ pc'[q] \in {"start", "unique", "refused"} =>
            pc[q] \in {"start", "unique", "refused"}

LEMMA BackStep ==
  ASSUME Inv, [Next]_vars
  PROVE  Back
<1> USE DEF Inv, TypeOK, Control, Ended, Creators, Back, At, Goto, LookAround,
      args, workspaces, locals, devices, counters
<1>1. ASSUME NEW p \in Calls, MakeWorkspace(p) PROVE Back
  BY <1>1 DEF MakeWorkspace
<1>2. ASSUME NEW p \in Calls, CheckUnique(p) PROVE Back
  BY <1>2 DEF CheckUnique
<1>3. ASSUME NEW p \in Calls, IdTaken(p) PROVE Back
  BY <1>3 DEF IdTaken
<1>4. ASSUME NEW p \in Calls, CreateContainer(p) PROVE Back
  BY <1>4 DEF CreateContainer
<1>5. ASSUME NEW p \in Calls, StartContainer(p) PROVE Back
  BY <1>5 DEF StartContainer
<1>6. ASSUME NEW p \in Calls, StartGone(p) PROVE Back
  BY <1>6 DEF StartGone
<1>7. ASSUME NEW p \in Calls, SshAnswers(p) PROVE Back
  BY <1>7 DEF SshAnswers
<1>8. ASSUME NEW p \in Calls, NodeHasGone(p) PROVE Back
  BY <1>8 DEF NodeHasGone
<1>9. ASSUME NEW p \in Calls, MakeKeyDir(p) PROVE Back
  BY <1>9 DEF MakeKeyDir
<1>10. ASSUME NEW p \in Calls, MakeKeyDirFails(p) PROVE Back
  BY <1>10 DEF MakeKeyDirFails
<1>11. ASSUME NEW p \in Calls, MoveKey(p) PROVE Back
  BY <1>11 DEF MoveKey
<1>12. ASSUME NEW p \in Calls, MoveKeyFails(p) PROVE Back
  BY <1>12 DEF MoveKeyFails
<1>13. ASSUME NEW p \in Calls, Authorize(p) PROVE Back
  BY <1>13 DEF Authorize
<1>14. ASSUME NEW p \in Calls, AuthorizeFails(p) PROVE Back
  BY <1>14 DEF AuthorizeFails
<1>15. ASSUME NEW p \in Calls, CheckExists(p) PROVE Back
  BY <1>15 DEF CheckExists
<1>16. ASSUME NEW p \in Calls, NoSuchCluster(p) PROVE Back
  BY <1>16 DEF NoSuchCluster
<1>17. ASSUME NEW p \in Calls, ListRole(p) PROVE Back
  BY <1>17 DEF ListRole, AfterListing, Found, WithRole
<1>18. ASSUME NEW p \in Calls, ListingBreaks(p) PROVE Back
  BY <1>18 DEF ListingBreaks
<1>19. ASSUME NEW p \in Calls, Install(p) PROVE Back
  BY <1>19 DEF Install
<1>20. ASSUME NEW p \in Calls, InstallFails(p) PROVE Back
  BY <1>20 DEF InstallFails
<1>21. ASSUME NEW p \in Calls, RemoveWorkspace(p) PROVE Back
  BY <1>21 DEF RemoveWorkspace
<1>22. ASSUME NEW p \in Calls, NoMaster(p) PROVE Back
  BY <1>22 DEF NoMaster
<1>23. ASSUME NEW p \in Calls, ListAll(p) PROVE Back
  BY <1>23 DEF ListAll
<1>24. ASSUME NEW p \in Calls, StopContainer(p) PROVE Back
  BY <1>24 DEF StopContainer
<1>25. ASSUME NEW p \in Calls, RemoveContainer(p) PROVE Back
  BY <1>25 DEF RemoveContainer
<1>26. ASSUME NEW p \in Calls, CannotRemove(p) PROVE Back
  BY <1>26 DEF CannotRemove
<1>27. ASSUME NEW p \in Calls, AllRemoved(p) PROVE Back
  BY <1>27 DEF AllRemoved
<1>28. ASSUME NEW p \in Calls, CreateSidecar(p) PROVE Back
  BY <1>28 DEF CreateSidecar
<1>29. ASSUME NEW p \in Calls, StartSidecar(p) PROVE Back
  BY <1>29 DEF StartSidecar
<1>30. ASSUME NEW p \in Calls, AttachDevice(p) PROVE Back
  BY <1>30 DEF AttachDevice
<1>31. ASSUME NEW p \in Calls, RecordDevice(p) PROVE Back
  BY <1>31 DEF RecordDevice
<1>32. ASSUME NEW p \in Calls, SidecarGone(p) PROVE Back
  BY <1>32 DEF SidecarGone
<1>33. ASSUME NEW p \in Calls, SidecarRefused(p) PROVE Back
  BY <1>33 DEF SidecarRefused
<1>34. ASSUME NEW p \in Calls, FindSidecar(p) PROVE Back
  BY <1>34 DEF FindSidecar
<1>35. ASSUME NEW p \in Calls, ListSidecars(p) PROVE Back
  BY <1>35 DEF ListSidecars
<1>36. ASSUME NEW p \in Calls, Detach(p) PROVE Back
  BY <1>36 DEF Detach
<1>37. ASSUME NEW p \in Calls, CannotDetach(p) PROVE Back
  BY <1>37 DEF CannotDetach
<1>38. ASSUME NEW p \in Calls, StopSidecar(p) PROVE Back
  BY <1>38 DEF StopSidecar
<1>39. ASSUME NEW p \in Calls, RemoveSidecar(p) PROVE Back
  BY <1>39 DEF RemoveSidecar
<1>40. ASSUME NEW p \in Calls, SidecarRemovedBefore(p) PROVE Back
  BY <1>40 DEF SidecarRemovedBefore
<1>41. ASSUME NEW p \in Calls, SidecarsDestroyed(p) PROVE Back
  BY <1>41 DEF SidecarsDestroyed
<1>42. ASSUME NEW p \in Calls, Fails(p) PROVE Back
  BY <1>42 DEF Fails
<1>43. ASSUME NEW x \in Containers \cup Sidecars, ContainerExits(x) PROVE Back
  BY <1>43 DEF ContainerExits
<1>44. CASE UNCHANGED vars
  BY <1>44 DEF vars
<1>. QED
  BY <1>1, <1>2, <1>3, <1>4, <1>5, <1>6, <1>7, <1>8, <1>9, <1>10, <1>11,
    <1>12, <1>13, <1>14, <1>15, <1>16, <1>17, <1>18, <1>19, <1>20, <1>21,
    <1>22, <1>23, <1>24, <1>25, <1>26, <1>27, <1>28, <1>29, <1>30, <1>31,
    <1>32, <1>33, <1>34, <1>35, <1>36, <1>37, <1>38, <1>39, <1>40, <1>41,
    <1>42, <1>43, <1>44
  DEF Next, Create, Represent, Remove, Loopback, AllEnded

Cleaned == \E q \in Calls : command[q] = "clean" /\ ~ At(q, "start")

\* As long as a create is alone with its ID it finds its own workspace and puts
\* its key there, and its nodes run.
WorkspaceInv ==
  \A p \in Calls : command[p] \in Creators /\ Alone(p) =>
    /\ pc[p] \in {"unique", "create", "run", "ssh", "list", "mkdir", "move",
                  "authorize", "install", "done"} => dir[p]
    /\ lead[p] # NoContainer => lead[p][1] = p
    /\ pc[p] \in {"authorize", "install", "done"} \/ (pc[p] = "list" /\ i[p] > 1) =>
         placedKey[p] = p

\* A node runs, or its call has not come to it yet, or does not go on.
Stands(p, k) ==
  \/ Running(<<p, k>>)
  \/ pc[p] \in {"create", "run"} /\ k >= i[p]
  \/ pc[p] \notin {"create", "run", "ssh", "list", "mkdir", "move", "authorize",
                   "install", "done"}

NodesInv ==
  \A p \in Calls : command[p] \in Creators /\ Alone(p) /\ exits = 0 /\ ~ Cleaned =>
    \A k \in Nodes : Stands(p, k)

LEMMA WholeInit ==
  ASSUME Init
  PROVE  WorkspaceInv /\ NodesInv
  BY DEF Init, WorkspaceInv, NodesInv, Stands

\* A call that is alone with its ID finds no other call's containers.
LEMMA FindsOwn ==
  ASSUME Inv, NEW p \in Calls, command[p] \in Creators, Alone(p),
         NEW x \in WithRole(p, 1)
  PROVE  x[1] = p
<1> SUFFICES ASSUME x[1] # p PROVE FALSE
  OBVIOUS
<1>1. x \in Containers /\ x[1] \in Calls /\ id[x[1]] = id[p] /\ status[x] # "absent"
  BY Apart DEF WithRole, Running
<1>2. pc[x[1]] \in {"start", "unique", "refused"}
  BY <1>1 DEF Alone
<1>3. x \in Own(x[1])
  BY <1>1, Owned
<1>. QED
  BY <1>1, <1>2, <1>3 DEF Inv, MadeInv

LEMMA WorkspaceStep ==
  ASSUME Inv, IdInv, WorkspaceInv, Back, [Next]_vars
  PROVE  WorkspaceInv'
<1> USE DEF Inv, TypeOK, Control, IdInv, SameId, WorkspaceInv, Back, Alone,
      Ended, Creators, At, Goto, LookAround, args, workspaces, locals,
      devices, counters
<1>1. ASSUME NEW p \in Calls, MakeWorkspace(p) PROVE WorkspaceInv'
  BY <1>1 DEF MakeWorkspace
<1>2. ASSUME NEW p \in Calls, CheckUnique(p) PROVE WorkspaceInv'
  BY <1>2 DEF CheckUnique
<1>3. ASSUME NEW p \in Calls, IdTaken(p) PROVE WorkspaceInv'
  BY <1>3 DEF IdTaken
<1>4. ASSUME NEW p \in Calls, CreateContainer(p) PROVE WorkspaceInv'
  BY <1>4 DEF CreateContainer
<1>5. ASSUME NEW p \in Calls, StartContainer(p) PROVE WorkspaceInv'
  BY <1>5 DEF StartContainer
<1>6. ASSUME NEW p \in Calls, StartGone(p) PROVE WorkspaceInv'
  BY <1>6 DEF StartGone
<1>7. ASSUME NEW p \in Calls, SshAnswers(p) PROVE WorkspaceInv'
  BY <1>7 DEF SshAnswers
<1>8. ASSUME NEW p \in Calls, NodeHasGone(p) PROVE WorkspaceInv'
  BY <1>8 DEF NodeHasGone
<1>9. ASSUME NEW p \in Calls, MakeKeyDir(p) PROVE WorkspaceInv'
  BY <1>9 DEF MakeKeyDir
<1>10. ASSUME NEW p \in Calls, MakeKeyDirFails(p) PROVE WorkspaceInv'
  BY <1>10 DEF MakeKeyDirFails
<1>11. ASSUME NEW p \in Calls, MoveKey(p) PROVE WorkspaceInv'
  BY <1>11 DEF MoveKey
<1>12. ASSUME NEW p \in Calls, MoveKeyFails(p) PROVE WorkspaceInv'
  BY <1>12 DEF MoveKeyFails
<1>13. ASSUME NEW p \in Calls, Authorize(p) PROVE WorkspaceInv'
  BY <1>13 DEF Authorize
<1>14. ASSUME NEW p \in Calls, AuthorizeFails(p) PROVE WorkspaceInv'
  BY <1>14 DEF AuthorizeFails
<1>15. ASSUME NEW p \in Calls, CheckExists(p) PROVE WorkspaceInv'
  BY <1>15 DEF CheckExists
<1>16. ASSUME NEW p \in Calls, NoSuchCluster(p) PROVE WorkspaceInv'
  BY <1>16 DEF NoSuchCluster
<1>17. ASSUME NEW p \in Calls, ListRole(p) PROVE WorkspaceInv'
  <2> SUFFICES ASSUME NEW q \in Calls, command[q]' \in Creators, Alone(q)'
               PROVE  /\ pc'[q] \in {"unique", "create", "run", "ssh", "list", "mkdir", "move",
                            "authorize", "install", "done"} => dir'[q]
                      /\ lead'[q] # NoContainer => lead'[q][1] = q
                      /\ pc'[q] \in {"authorize", "install", "done"} \/ (pc'[q] = "list" /\ i'[q] > 1) =>
                           placedKey'[q] = q
    BY DEF WorkspaceInv
  <2>1. command[q] \in Creators /\ Alone(q)
    BY DEF Back, Alone
  <2>2. CASE q # p
    BY <1>17, <2>1, <2>2 DEF ListRole
  <2>3. CASE q = p
    <3>1. \A x \in Found(p, 1) : x[1] = p
      BY <2>1, <2>3, FindsOwn DEF Found
    <3>2. lead'[p] # NoContainer => lead'[p][1] = p
      BY <1>17, <2>1, <2>3, <3>1 DEF ListRole
    <3>3. dir'[p] /\ placedKey' = placedKey
      BY <1>17, <2>1, <2>3 DEF ListRole
    <3>4. i[p] \in Nat /\ pc[p] = "list"
      BY <1>17 DEF ListRole
    <3>5. CASE i[p] = 1
      BY <1>17, <2>3, <2>1, <3>2, <3>3, <3>5 DEF ListRole, AfterListing
    <3>6. CASE i[p] > 1
      BY <1>17, <2>3, <2>1, <3>2, <3>3, <3>6 DEF ListRole
    <3>. QED
      BY <2>3, <3>4, <3>5, <3>6
  <2>. QED
    BY <2>2, <2>3
<1>18. ASSUME NEW p \in Calls, ListingBreaks(p) PROVE WorkspaceInv'
  BY <1>18 DEF ListingBreaks
<1>19. ASSUME NEW p \in Calls, Install(p) PROVE WorkspaceInv'
  BY <1>19 DEF Install
<1>20. ASSUME NEW p \in Calls, InstallFails(p) PROVE WorkspaceInv'
  BY <1>20 DEF InstallFails
<1>21. ASSUME NEW p \in Calls, RemoveWorkspace(p) PROVE WorkspaceInv'
  BY <1>21 DEF RemoveWorkspace
<1>22. ASSUME NEW p \in Calls, NoMaster(p) PROVE WorkspaceInv'
  BY <1>22 DEF NoMaster
<1>23. ASSUME NEW p \in Calls, ListAll(p) PROVE WorkspaceInv'
  BY <1>23 DEF ListAll
<1>24. ASSUME NEW p \in Calls, StopContainer(p) PROVE WorkspaceInv'
  BY <1>24 DEF StopContainer
<1>25. ASSUME NEW p \in Calls, RemoveContainer(p) PROVE WorkspaceInv'
  BY <1>25 DEF RemoveContainer
<1>26. ASSUME NEW p \in Calls, CannotRemove(p) PROVE WorkspaceInv'
  BY <1>26 DEF CannotRemove
<1>27. ASSUME NEW p \in Calls, AllRemoved(p) PROVE WorkspaceInv'
  BY <1>27 DEF AllRemoved
<1>28. ASSUME NEW p \in Calls, CreateSidecar(p) PROVE WorkspaceInv'
  BY <1>28 DEF CreateSidecar
<1>29. ASSUME NEW p \in Calls, StartSidecar(p) PROVE WorkspaceInv'
  BY <1>29 DEF StartSidecar
<1>30. ASSUME NEW p \in Calls, AttachDevice(p) PROVE WorkspaceInv'
  BY <1>30 DEF AttachDevice
<1>31. ASSUME NEW p \in Calls, RecordDevice(p) PROVE WorkspaceInv'
  BY <1>31 DEF RecordDevice
<1>32. ASSUME NEW p \in Calls, SidecarGone(p) PROVE WorkspaceInv'
  BY <1>32 DEF SidecarGone
<1>33. ASSUME NEW p \in Calls, SidecarRefused(p) PROVE WorkspaceInv'
  BY <1>33 DEF SidecarRefused
<1>34. ASSUME NEW p \in Calls, FindSidecar(p) PROVE WorkspaceInv'
  BY <1>34 DEF FindSidecar
<1>35. ASSUME NEW p \in Calls, ListSidecars(p) PROVE WorkspaceInv'
  BY <1>35 DEF ListSidecars
<1>36. ASSUME NEW p \in Calls, Detach(p) PROVE WorkspaceInv'
  BY <1>36 DEF Detach
<1>37. ASSUME NEW p \in Calls, CannotDetach(p) PROVE WorkspaceInv'
  BY <1>37 DEF CannotDetach
<1>38. ASSUME NEW p \in Calls, StopSidecar(p) PROVE WorkspaceInv'
  BY <1>38 DEF StopSidecar
<1>39. ASSUME NEW p \in Calls, RemoveSidecar(p) PROVE WorkspaceInv'
  BY <1>39 DEF RemoveSidecar
<1>40. ASSUME NEW p \in Calls, SidecarRemovedBefore(p) PROVE WorkspaceInv'
  BY <1>40 DEF SidecarRemovedBefore
<1>41. ASSUME NEW p \in Calls, SidecarsDestroyed(p) PROVE WorkspaceInv'
  BY <1>41 DEF SidecarsDestroyed
<1>42. ASSUME NEW p \in Calls, Fails(p) PROVE WorkspaceInv'
  BY <1>42 DEF Fails
<1>43. ASSUME NEW x \in Containers \cup Sidecars, ContainerExits(x) PROVE WorkspaceInv'
  BY <1>43 DEF ContainerExits
<1>44. CASE UNCHANGED vars
  BY <1>44 DEF vars
<1>. QED
  BY <1>1, <1>2, <1>3, <1>4, <1>5, <1>6, <1>7, <1>8, <1>9, <1>10, <1>11,
    <1>12, <1>13, <1>14, <1>15, <1>16, <1>17, <1>18, <1>19, <1>20, <1>21,
    <1>22, <1>23, <1>24, <1>25, <1>26, <1>27, <1>28, <1>29, <1>30, <1>31,
    <1>32, <1>33, <1>34, <1>35, <1>36, <1>37, <1>38, <1>39, <1>40, <1>41,
    <1>42, <1>43, <1>44
  DEF Next, Create, Represent, Remove, Loopback, AllEnded

LEMMA StoodBefore ==
  ASSUME NodesInv, Back, NEW q \in Calls, command[q]' \in Creators, Alone(q)',
         exits' = 0, ~ Cleaned'
  PROVE  /\ command[q] \in Creators /\ Alone(q) /\ exits = 0 /\ ~ Cleaned
         /\ \A k \in Nodes : Stands(q, k)
<1>1. command[q] \in Creators /\ Alone(q) /\ exits = 0
  BY DEF Back, Alone
<1>2. ~ Cleaned
  BY DEF Back, Cleaned, At
<1>. QED
  BY <1>1, <1>2 DEF NodesInv

LEMMA NodesStep ==
  ASSUME Inv, IdInv, NodesInv, Back, [Next]_vars
  PROVE  NodesInv'
<1> USE Owned, Apart DEF Inv, TypeOK, Control, HeldInv, IdInv, SameId,
      NodesInv, Stands, Back, Alone, Cleaned, Running, Ended, Creators, At,
      Goto, LookAround, args, workspaces, locals, devices, counters
<1>1. ASSUME NEW p \in Calls, MakeWorkspace(p) PROVE NodesInv'
  BY <1>1 DEF MakeWorkspace
<1>2. ASSUME NEW p \in Calls, CheckUnique(p) PROVE NodesInv'
  <2> SUFFICES ASSUME NEW q \in Calls, command[q]' \in Creators, Alone(q)',
                      exits' = 0, ~ Cleaned', NEW k \in Nodes
               PROVE  Stands(q, k)'
    BY DEF NodesInv
  <2>1. command[q] \in Creators /\ Alone(q) /\ ~ Cleaned /\ Stands(q, k)
    BY StoodBefore
  <2>2. <<q, k>> \in Containers \cup Sidecars /\ k \in Nat /\ k >= 1 /\ k <= Size
    BY CliAssumption, Owned DEF Nodes, Size
  <2>. QED
    BY <1>2, <2>1, <2>2 DEF CheckUnique
<1>3. ASSUME NEW p \in Calls, IdTaken(p) PROVE NodesInv'
  <2> SUFFICES ASSUME NEW q \in Calls, command[q]' \in Creators, Alone(q)',
                      exits' = 0, ~ Cleaned', NEW k \in Nodes
               PROVE  Stands(q, k)'
    BY DEF NodesInv
  <2>1. command[q] \in Creators /\ Alone(q) /\ ~ Cleaned /\ Stands(q, k)
    BY StoodBefore
  <2>2. <<q, k>> \in Containers \cup Sidecars /\ k \in Nat /\ k >= 1 /\ k <= Size
    BY CliAssumption, Owned DEF Nodes, Size
  <2>. QED
    BY <1>3, <2>1, <2>2 DEF IdTaken
<1>4. ASSUME NEW p \in Calls, CreateContainer(p) PROVE NodesInv'
  BY <1>4 DEF CreateContainer
<1>5. ASSUME NEW p \in Calls, StartContainer(p) PROVE NodesInv'
  <2> SUFFICES ASSUME NEW q \in Calls, command[q]' \in Creators, Alone(q)',
                      exits' = 0, ~ Cleaned', NEW k \in Nodes
               PROVE  Stands(q, k)'
    BY DEF NodesInv
  <2>1. command[q] \in Creators /\ Alone(q) /\ ~ Cleaned /\ Stands(q, k)
    BY StoodBefore
  <2>2. <<q, k>> \in Containers \cup Sidecars /\ k \in Nat /\ k >= 1 /\ k <= Size
    BY CliAssumption, Owned DEF Nodes, Size
  <2>3. i[p] \in Nat /\ Size \in Nat
    BY CliAssumption DEF Size
  <2>4. CASE q # p
    BY <1>5, <2>1, <2>2, <2>4 DEF StartContainer
  <2>5. CASE q = p /\ k = i[p]
    BY <1>5, <2>2, <2>5 DEF StartContainer
  <2>6. CASE q = p /\ k # i[p] /\ Running(<<q, k>>)
    BY <1>5, <2>2, <2>6 DEF StartContainer
  <2>7. CASE q = p /\ k > i[p]
    BY <1>5, <2>2, <2>3, <2>7 DEF StartContainer
  <2>8. q = p => Running(<<q, k>>) \/ k >= i[p]
    BY <1>5, <2>1 DEF StartContainer
  <2>9. q # p \/ k = i[p] \/ k > i[p] \/ (k # i[p] /\ Running(<<q, k>>))
    BY ONLY <2>2, <2>3, <2>8
  <2>. QED
    BY ONLY <2>4, <2>5, <2>6, <2>7, <2>9
<1>6. ASSUME NEW p \in Calls, StartGone(p) PROVE NodesInv'
  BY <1>6 DEF StartGone
<1>7. ASSUME NEW p \in Calls, SshAnswers(p) PROVE NodesInv'
  <2> SUFFICES ASSUME NEW q \in Calls, command[q]' \in Creators, Alone(q)',
                      exits' = 0, ~ Cleaned', NEW k \in Nodes
               PROVE  Stands(q, k)'
    BY DEF NodesInv
  <2>1. command[q] \in Creators /\ Alone(q) /\ ~ Cleaned /\ Stands(q, k)
    BY StoodBefore
  <2>2. <<q, k>> \in Containers \cup Sidecars /\ k \in Nat /\ k >= 1 /\ k <= Size
    BY CliAssumption, Owned DEF Nodes, Size
  <2>. QED
    BY <1>7, <2>1, <2>2 DEF SshAnswers
<1>8. ASSUME NEW p \in Calls, NodeHasGone(p) PROVE NodesInv'
  BY <1>8 DEF NodeHasGone
<1>9. ASSUME NEW p \in Calls, MakeKeyDir(p) PROVE NodesInv'
  BY <1>9 DEF MakeKeyDir
<1>10. ASSUME NEW p \in Calls, MakeKeyDirFails(p) PROVE NodesInv'
  BY <1>10 DEF MakeKeyDirFails
<1>11. ASSUME NEW p \in Calls, MoveKey(p) PROVE NodesInv'
  <2> SUFFICES ASSUME NEW q \in Calls, command[q]' \in Creators, Alone(q)',
                      exits' = 0, ~ Cleaned', NEW k \in Nodes
               PROVE  Stands(q, k)'
    BY DEF NodesInv
  <2>1. command[q] \in Creators /\ Alone(q) /\ ~ Cleaned /\ Stands(q, k)
    BY StoodBefore
  <2>2. <<q, k>> \in Containers \cup Sidecars /\ k \in Nat /\ k >= 1 /\ k <= Size
    BY CliAssumption, Owned DEF Nodes, Size
  <2>. QED
    BY <1>11, <2>1, <2>2 DEF MoveKey
<1>12. ASSUME NEW p \in Calls, MoveKeyFails(p) PROVE NodesInv'
  BY <1>12 DEF MoveKeyFails
<1>13. ASSUME NEW p \in Calls, Authorize(p) PROVE NodesInv'
  BY <1>13 DEF Authorize
<1>14. ASSUME NEW p \in Calls, AuthorizeFails(p) PROVE NodesInv'
  BY <1>14 DEF AuthorizeFails
<1>15. ASSUME NEW p \in Calls, CheckExists(p) PROVE NodesInv'
  BY <1>15 DEF CheckExists
<1>16. ASSUME NEW p \in Calls, NoSuchCluster(p) PROVE NodesInv'
  BY <1>16 DEF NoSuchCluster
<1>17. ASSUME NEW p \in Calls, ListRole(p) PROVE NodesInv'
  BY <1>17 DEF ListRole, AfterListing, Found, WithRole
<1>18. ASSUME NEW p \in Calls, ListingBreaks(p) PROVE NodesInv'
  BY <1>18 DEF ListingBreaks
<1>19. ASSUME NEW p \in Calls, Install(p) PROVE NodesInv'
  <2> SUFFICES ASSUME NEW q \in Calls, command[q]' \in Creators, Alone(q)',
                      exits' = 0, ~ Cleaned', NEW k \in Nodes
               PROVE  Stands(q, k)'
    BY DEF NodesInv
  <2>1. command[q] \in Creators /\ Alone(q) /\ ~ Cleaned /\ Stands(q, k)
    BY StoodBefore
  <2>2. <<q, k>> \in Containers \cup Sidecars /\ k \in Nat /\ k >= 1 /\ k <= Size
    BY CliAssumption, Owned DEF Nodes, Size
  <2>. QED
    BY <1>19, <2>1, <2>2 DEF Install
<1>20. ASSUME NEW p \in Calls, InstallFails(p) PROVE NodesInv'
  <2> SUFFICES ASSUME NEW q \in Calls, command[q]' \in Creators, Alone(q)',
                      exits' = 0, ~ Cleaned', NEW k \in Nodes
               PROVE  Stands(q, k)'
    BY DEF NodesInv
  <2>1. command[q] \in Creators /\ Alone(q) /\ ~ Cleaned /\ Stands(q, k)
    BY StoodBefore
  <2>2. <<q, k>> \in Containers \cup Sidecars /\ k \in Nat /\ k >= 1 /\ k <= Size
    BY CliAssumption, Owned DEF Nodes, Size
  <2>. QED
    BY <1>20, <2>1, <2>2 DEF InstallFails
<1>21. ASSUME NEW p \in Calls, RemoveWorkspace(p) PROVE NodesInv'
  BY <1>21 DEF RemoveWorkspace
<1>22. ASSUME NEW p \in Calls, NoMaster(p) PROVE NodesInv'
  <2> SUFFICES ASSUME NEW q \in Calls, command[q]' \in Creators, Alone(q)',
                      exits' = 0, ~ Cleaned', NEW k \in Nodes
               PROVE  Stands(q, k)'
    BY DEF NodesInv
  <2>1. command[q] \in Creators /\ Alone(q) /\ ~ Cleaned /\ Stands(q, k)
    BY StoodBefore
  <2>2. <<q, k>> \in Containers \cup Sidecars /\ k \in Nat /\ k >= 1 /\ k <= Size
    BY CliAssumption, Owned DEF Nodes, Size
  <2>. QED
    BY <1>22, <2>1, <2>2 DEF NoMaster
<1>23. ASSUME NEW p \in Calls, ListAll(p) PROVE NodesInv'
  BY <1>23 DEF ListAll
<1>24. ASSUME NEW p \in Calls, StopContainer(p) PROVE NodesInv'
  <2> SUFFICES ASSUME NEW q \in Calls, command[q]' \in Creators, Alone(q)',
                      exits' = 0, ~ Cleaned', NEW k \in Nodes
               PROVE  Stands(q, k)'
    BY DEF NodesInv
  <2>1. command[q] \in Creators /\ Alone(q) /\ ~ Cleaned /\ Stands(q, k)
    BY StoodBefore
  <2>2. <<q, k>> \in Containers \cup Sidecars /\ k \in Nat /\ k >= 1 /\ k <= Size
    BY CliAssumption, Owned DEF Nodes, Size
  <2>3. PICK y \in held[p] :
          status' = [status EXCEPT ![y] = IF status[y] = "running" THEN "exited" ELSE status[y]]
    BY <1>24 DEF StopContainer
  <2>4. pc' = [pc EXCEPT ![p] = "remove"] /\ pc[p] = "stop" /\ i' = i
    BY <1>24 DEF StopContainer
  <2>5. CASE q = p
    BY <2>4, <2>5
  <2>6. CASE q # p
    <3>1. y # <<q, k>>
      <4> SUFFICES ASSUME y = <<q, k>> PROVE FALSE
        OBVIOUS
      <4>1. command[p] # "clean"
        BY <2>1, <2>4 DEF Cleaned
      <4>2. id[q] = id[p]
        BY <2>4, <4>1
      <4>. QED
        BY <2>1, <2>4, <2>6, <4>2 DEF Alone
    <3>2. status'[<<q, k>>] = status[<<q, k>>]
      BY <2>2, <2>3, <3>1
    <3>. QED
      BY <2>1, <2>4, <2>6, <3>2
  <2>. QED
    BY <2>5, <2>6
<1>25. ASSUME NEW p \in Calls, RemoveContainer(p) PROVE NodesInv'
  BY <1>25 DEF RemoveContainer
<1>26. ASSUME NEW p \in Calls, CannotRemove(p) PROVE NodesInv'
  <2> SUFFICES ASSUME NEW q \in Calls, command[q]' \in Creators, Alone(q)',
                      exits' = 0, ~ Cleaned', NEW k \in Nodes
               PROVE  Stands(q, k)'
    BY DEF NodesInv
  <2>1. command[q] \in Creators /\ Alone(q) /\ ~ Cleaned /\ Stands(q, k)
    BY StoodBefore
  <2>2. <<q, k>> \in Containers \cup Sidecars /\ k \in Nat /\ k >= 1 /\ k <= Size
    BY CliAssumption, Owned DEF Nodes, Size
  <2>. QED
    BY <1>26, <2>1, <2>2 DEF CannotRemove
<1>27. ASSUME NEW p \in Calls, AllRemoved(p) PROVE NodesInv'
  BY <1>27 DEF AllRemoved
<1>28. ASSUME NEW p \in Calls, CreateSidecar(p) PROVE NodesInv'
  BY <1>28 DEF CreateSidecar
<1>29. ASSUME NEW p \in Calls, StartSidecar(p) PROVE NodesInv'
  BY <1>29 DEF StartSidecar
<1>30. ASSUME NEW p \in Calls, AttachDevice(p) PROVE NodesInv'
  BY <1>30 DEF AttachDevice
<1>31. ASSUME NEW p \in Calls, RecordDevice(p) PROVE NodesInv'
  BY <1>31 DEF RecordDevice
<1>32. ASSUME NEW p \in Calls, SidecarGone(p) PROVE NodesInv'
  <2> SUFFICES ASSUME NEW q \in Calls, command[q]' \in Creators, Alone(q)',
                      exits' = 0, ~ Cleaned', NEW k \in Nodes
               PROVE  Stands(q, k)'
    BY DEF NodesInv
  <2>1. command[q] \in Creators /\ Alone(q) /\ ~ Cleaned /\ Stands(q, k)
    BY StoodBefore
  <2>2. <<q, k>> \in Containers \cup Sidecars /\ k \in Nat /\ k >= 1 /\ k <= Size
    BY CliAssumption, Owned DEF Nodes, Size
  <2>. QED
    BY <1>32, <2>1, <2>2 DEF SidecarGone
<1>33. ASSUME NEW p \in Calls, SidecarRefused(p) PROVE NodesInv'
  BY <1>33 DEF SidecarRefused
<1>34. ASSUME NEW p \in Calls, FindSidecar(p) PROVE NodesInv'
  BY <1>34 DEF FindSidecar
<1>35. ASSUME NEW p \in Calls, ListSidecars(p) PROVE NodesInv'
  BY <1>35 DEF ListSidecars
<1>36. ASSUME NEW p \in Calls, Detach(p) PROVE NodesInv'
  BY <1>36 DEF Detach
<1>37. ASSUME NEW p \in Calls, CannotDetach(p) PROVE NodesInv'
  <2> SUFFICES ASSUME NEW q \in Calls, command[q]' \in Creators, Alone(q)',
                      exits' = 0, ~ Cleaned', NEW k \in Nodes
               PROVE  Stands(q, k)'
    BY DEF NodesInv
  <2>1. command[q] \in Creators /\ Alone(q) /\ ~ Cleaned /\ Stands(q, k)
    BY StoodBefore
  <2>2. <<q, k>> \in Containers \cup Sidecars /\ k \in Nat /\ k >= 1 /\ k <= Size
    BY CliAssumption, Owned DEF Nodes, Size
  <2>. QED
    BY <1>37, <2>1, <2>2 DEF CannotDetach
<1>38. ASSUME NEW p \in Calls, StopSidecar(p) PROVE NodesInv'
  BY <1>38 DEF StopSidecar
<1>39. ASSUME NEW p \in Calls, RemoveSidecar(p) PROVE NodesInv'
  <2> SUFFICES ASSUME NEW q \in Calls, command[q]' \in Creators, Alone(q)',
                      exits' = 0, ~ Cleaned', NEW k \in Nodes
               PROVE  Stands(q, k)'
    BY DEF NodesInv
  <2>1. command[q] \in Creators /\ Alone(q) /\ ~ Cleaned /\ Stands(q, k)
    BY StoodBefore
  <2>2. <<q, k>> \in Containers \cup Sidecars /\ k \in Nat /\ k >= 1 /\ k <= Size
    BY CliAssumption, Owned DEF Nodes, Size
  <2>. QED
    BY <1>39, <2>1, <2>2 DEF RemoveSidecar
<1>40. ASSUME NEW p \in Calls, SidecarRemovedBefore(p) PROVE NodesInv'
  BY <1>40 DEF SidecarRemovedBefore
<1>41. ASSUME NEW p \in Calls, SidecarsDestroyed(p) PROVE NodesInv'
  BY <1>41 DEF SidecarsDestroyed
<1>42. ASSUME NEW p \in Calls, Fails(p) PROVE NodesInv'
  BY <1>42 DEF Fails
<1>43. ASSUME NEW x \in Containers \cup Sidecars, ContainerExits(x) PROVE NodesInv'
  BY <1>43 DEF ContainerExits
<1>44. CASE UNCHANGED vars
  BY <1>44 DEF vars
<1>. QED
  BY <1>1, <1>2, <1>3, <1>4, <1>5, <1>6, <1>7, <1>8, <1>9, <1>10, <1>11,
    <1>12, <1>13, <1>14, <1>15, <1>16, <1>17, <1>18, <1>19, <1>20, <1>21,
    <1>22, <1>23, <1>24, <1>25, <1>26, <1>27, <1>28, <1>29, <1>30, <1>31,
    <1>32, <1>33, <1>34, <1>35, <1>36, <1>37, <1>38, <1>39, <1>40, <1>41,
    <1>42, <1>43, <1>44
  DEF Next, Create, Represent, Remove, Loopback, AllEnded

\* A cluster that was created while no other call had its ID keeps its
\* workspace with its own key and its nodes, whatever other calls do.
THEOREM CreatedStaysWhole == Spec => []CreatedIsWhole
<1>1. Inv /\ IdInv /\ WorkspaceInv /\ NodesInv /\ [Next]_vars =>
        IdInv' /\ WorkspaceInv' /\ NodesInv'
  BY IdStep, BackStep, WorkspaceStep, NodesStep
<1>2. Inv /\ WorkspaceInv /\ NodesInv => CreatedIsWhole
<2> SUFFICES ASSUME Inv, WorkspaceInv, NodesInv, NEW p \in Calls, At(p, "done"),
                    command[p] \in Creators, Alone(p)
             PROVE  /\ dir[p] /\ placedKey[p] = p
                    /\ \/ exits > 0
                       \/ \E q \in Calls : command[q] = "clean" /\ ~ At(q, "start")
                       \/ \A x \in Own(p) : Running(x)
  BY DEF CreatedIsWhole
<2>1. dir[p] /\ placedKey[p] = p
  BY DEF WorkspaceInv, At
<2>2. exits > 0 \/ Cleaned \/ \A k \in Nodes : Running(<<p, k>>)
  BY DEF Inv, TypeOK, NodesInv, Stands, At
<2>. QED
  BY <2>1, <2>2, Owned DEF Cleaned, Own
<1>. QED
  BY <1>1, <1>2, InvInit, InvStep, IdInit, WholeInit, PTL DEF Spec

-----------------------------------------------------------------------------
(* Destroying a complete cluster.                                          *)

\* Call p destroys the cluster that q had created, and nothing else happens to it.
Undisturbed(p, q) ==
  /\ command[p] = "destroy" /\ command[q] \in Creators
  /\ q \in settled[p] /\ id[q] = id[p] /\ pc[q] = "done"
  /\ \A r \in Calls \ {p, q} : At(r, "start") \/ id[r] # id[p]
  /\ ~ Cleaned /\ exits = 0

\* How far p has got with it.
Progress(p, q) ==
  /\ lead[p] # NoContainer => lead[p][1] = q
  /\ (pc[p] = "list" /\ i[p] > 1) \/ pc[p] = "rmtree" => lead[p] # NoContainer
  /\ pc[p] \in {"stop", "remove", "done"} => ~ dir[q]
  /\ \A k \in Nodes :
       \/ /\ pc[p] = "list" /\ Running(<<q, k>>)
          /\ RoleOf(k) < i[p] => <<q, k>> \in held[p]
       \/ pc[p] \in {"rmtree", "stop", "remove"} /\ <<q, k>> \in held[p]
       \/ pc[p] = "remove" /\ victim[p] = <<q, k>>
       \/ pc[p] \in {"stop", "remove", "done"} /\ status[<<q, k>>] = "removed"

DestroyInv ==
  \A p, q \in Calls :
    pc[p] \in {"list", "rmtree", "stop", "remove", "done"} /\ Undisturbed(p, q) =>
      Progress(p, q)

\* A call knows no cluster before it looks for one.
BlankInv ==
  \A p \in Calls : pc[p] = "start" => lead[p] = NoContainer

LEMMA DestroyInit ==
  ASSUME Init
  PROVE  DestroyInv /\ BlankInv
  BY DEF Init, DestroyInv, BlankInv

\* A cluster that is undisturbed was so before, unless it was just found.
LEMMA UndisturbedBefore ==
  ASSUME Inv, Back, EndedStay, NEW p \in Calls, NEW q \in Calls,
         settled'[p] = settled[p], Undisturbed(p, q)'
  PROVE  Undisturbed(p, q)
<1>1. pc[q] = "done"
  BY DEF Inv, SettledInv, EndedStay, Undisturbed, Back
<1>2. ~ Cleaned
  BY DEF Undisturbed, Back, Cleaned, At
<1>3. exits = 0
  BY DEF Undisturbed, Back
<1>. QED
  BY <1>1, <1>2, <1>3 DEF Undisturbed, Back, At

\* No call but p stops, removes or looks for a part of it.
LEMMA OthersKeepOff ==
  ASSUME Inv, IdInv, NEW c \in Calls, NEW q \in Calls, Undisturbed(c, q),
         NEW r \in Calls, r # c, pc[r] \notin Ended \cup {"start"}
  PROVE  /\ r # q
         /\ pc[r] \in {"stop", "remove"} =>
              \A k \in Nodes : <<q, k>> \notin held[r] /\ victim[r] # <<q, k>>
         /\ lead[r] # NoContainer => lead[r][1] # q
<1>1. r # q /\ command[r] # "clean" /\ id[r] # id[q]
  BY DEF Undisturbed, Cleaned, At, Ended
<1>2. \A k \in Nodes : <<q, k>> # NoContainer /\ <<q, k>>[1] = q
  BY Owned, Apart
<1>3. lead[r] # NoContainer => lead[r][1] # q
  BY <1>1 DEF IdInv, SameId
<1>4. ASSUME pc[r] \in {"stop", "remove"}, NEW k \in Nodes
      PROVE  <<q, k>> \notin held[r] /\ victim[r] # <<q, k>>
  <2>1. command[r] \notin {"clean", "destroy-loopback-sidecar"}
    BY <1>1, <1>4 DEF Inv, Control
  <2>. QED
    BY <1>1, <1>2, <2>1 DEF IdInv, SameId
<1>. QED
  BY <1>1, <1>3, <1>4

\* What call c knows of the cluster of q, and the cluster, stay as they are.
Kept(c, q) ==
  /\ pc'[c] = pc[c] /\ i'[c] = i[c] /\ held'[c] = held[c] /\ lead'[c] = lead[c]
  /\ victim'[c] = victim[c] /\ settled'[c] = settled[c]
  /\ dir'[q] => dir[q]
  /\ \A k \in Nodes : status'[<<q, k>>] = status[<<q, k>>]

\* What a destroy does.
Destroys(c) ==
  \/ CheckExists(c) \/ ListRole(c) \/ RemoveWorkspace(c)
  \/ StopContainer(c) \/ RemoveContainer(c) \/ AllRemoved(c)
  \/ pc'[c] \in {"failed", "noMaster", "refused"}

\* The other calls leave the cluster alone.
LEMMA OthersLeaveIt ==
  ASSUME Inv, IdInv, NEW c \in Calls, NEW q \in Calls, Undisturbed(c, q),
         command[c] = "destroy", pc[q] = "done", pc[c] # "start", exits' = 0, [Next]_vars
  PROVE  Kept(c, q) \/ Destroys(c)
<1> USE Owned, Apart DEF Inv, TypeOK, Control, HeldInv, Kept, Ended, Creators,
      At, Goto, LookAround, args, workspaces, locals, devices, counters
<1>1. ASSUME NEW p \in Calls, MakeWorkspace(p) PROVE Kept(c, q) \/ Destroys(c)
  <2>1. CASE p = c
    BY <1>1, <2>1 DEF MakeWorkspace, Destroys
  <2>2. CASE p # c
    BY <1>1, <2>2, OthersKeepOff DEF MakeWorkspace
  <2>. QED
    BY <2>1, <2>2
<1>2. ASSUME NEW p \in Calls, CheckUnique(p) PROVE Kept(c, q) \/ Destroys(c)
  <2>1. CASE p = c
    BY <1>2, <2>1 DEF CheckUnique, Destroys
  <2>2. CASE p # c
    BY <1>2, <2>2, OthersKeepOff DEF CheckUnique
  <2>. QED
    BY <2>1, <2>2
<1>3. ASSUME NEW p \in Calls, IdTaken(p) PROVE Kept(c, q) \/ Destroys(c)
  <2>1. CASE p = c
    BY <1>3, <2>1 DEF IdTaken, Destroys
  <2>2. CASE p # c
    BY <1>3, <2>2, OthersKeepOff DEF IdTaken
  <2>. QED
    BY <2>1, <2>2
<1>4. ASSUME NEW p \in Calls, CreateContainer(p) PROVE Kept(c, q) \/ Destroys(c)
  <2>1. CASE p = c
    BY <1>4, <2>1 DEF CreateContainer, Destroys
  <2>2. CASE p # c
    BY <1>4, <2>2, OthersKeepOff DEF CreateContainer
  <2>. QED
    BY <2>1, <2>2
<1>5. ASSUME NEW p \in Calls, StartContainer(p) PROVE Kept(c, q) \/ Destroys(c)
  <2>1. CASE p = c
    BY <1>5, <2>1 DEF StartContainer, Destroys
  <2>2. CASE p # c
    BY <1>5, <2>2, OthersKeepOff DEF StartContainer
  <2>. QED
    BY <2>1, <2>2
<1>6. ASSUME NEW p \in Calls, StartGone(p) PROVE Kept(c, q) \/ Destroys(c)
  <2>1. CASE p = c
    BY <1>6, <2>1 DEF StartGone, Destroys
  <2>2. CASE p # c
    BY <1>6, <2>2, OthersKeepOff DEF StartGone
  <2>. QED
    BY <2>1, <2>2
<1>7. ASSUME NEW p \in Calls, SshAnswers(p) PROVE Kept(c, q) \/ Destroys(c)
  <2>1. CASE p = c
    BY <1>7, <2>1 DEF SshAnswers, Destroys
  <2>2. CASE p # c
    BY <1>7, <2>2, OthersKeepOff DEF SshAnswers
  <2>. QED
    BY <2>1, <2>2
<1>8. ASSUME NEW p \in Calls, NodeHasGone(p) PROVE Kept(c, q) \/ Destroys(c)
  <2>1. CASE p = c
    BY <1>8, <2>1 DEF NodeHasGone, Destroys
  <2>2. CASE p # c
    BY <1>8, <2>2, OthersKeepOff DEF NodeHasGone
  <2>. QED
    BY <2>1, <2>2
<1>9. ASSUME NEW p \in Calls, MakeKeyDir(p) PROVE Kept(c, q) \/ Destroys(c)
  <2>1. CASE p = c
    BY <1>9, <2>1 DEF MakeKeyDir, Destroys
  <2>2. CASE p # c
    BY <1>9, <2>2, OthersKeepOff DEF MakeKeyDir
  <2>. QED
    BY <2>1, <2>2
<1>10. ASSUME NEW p \in Calls, MakeKeyDirFails(p) PROVE Kept(c, q) \/ Destroys(c)
  <2>1. CASE p = c
    BY <1>10, <2>1 DEF MakeKeyDirFails, Destroys
  <2>2. CASE p # c
    BY <1>10, <2>2, OthersKeepOff DEF MakeKeyDirFails
  <2>. QED
    BY <2>1, <2>2
<1>11. ASSUME NEW p \in Calls, MoveKey(p) PROVE Kept(c, q) \/ Destroys(c)
  <2>1. CASE p = c
    BY <1>11, <2>1 DEF MoveKey, Destroys
  <2>2. CASE p # c
    BY <1>11, <2>2, OthersKeepOff DEF MoveKey
  <2>. QED
    BY <2>1, <2>2
<1>12. ASSUME NEW p \in Calls, MoveKeyFails(p) PROVE Kept(c, q) \/ Destroys(c)
  <2>1. CASE p = c
    BY <1>12, <2>1 DEF MoveKeyFails, Destroys
  <2>2. CASE p # c
    BY <1>12, <2>2, OthersKeepOff DEF MoveKeyFails
  <2>. QED
    BY <2>1, <2>2
<1>13. ASSUME NEW p \in Calls, Authorize(p) PROVE Kept(c, q) \/ Destroys(c)
  <2>1. CASE p = c
    BY <1>13, <2>1 DEF Authorize, Destroys
  <2>2. CASE p # c
    BY <1>13, <2>2, OthersKeepOff DEF Authorize
  <2>. QED
    BY <2>1, <2>2
<1>14. ASSUME NEW p \in Calls, AuthorizeFails(p) PROVE Kept(c, q) \/ Destroys(c)
  <2>1. CASE p = c
    BY <1>14, <2>1 DEF AuthorizeFails, Destroys
  <2>2. CASE p # c
    BY <1>14, <2>2, OthersKeepOff DEF AuthorizeFails
  <2>. QED
    BY <2>1, <2>2
<1>15. ASSUME NEW p \in Calls, CheckExists(p) PROVE Kept(c, q) \/ Destroys(c)
  <2>1. CASE p = c
    BY <1>15, <2>1 DEF Destroys
  <2>2. CASE p # c
    BY <1>15, <2>2, OthersKeepOff DEF CheckExists
  <2>. QED
    BY <2>1, <2>2
<1>16. ASSUME NEW p \in Calls, NoSuchCluster(p) PROVE Kept(c, q) \/ Destroys(c)
  <2>1. CASE p = c
    BY <1>16, <2>1 DEF NoSuchCluster, Destroys
  <2>2. CASE p # c
    BY <1>16, <2>2, OthersKeepOff DEF NoSuchCluster
  <2>. QED
    BY <2>1, <2>2
<1>17. ASSUME NEW p \in Calls, ListRole(p) PROVE Kept(c, q) \/ Destroys(c)
  <2>1. CASE p = c
    BY <1>17, <2>1 DEF Destroys
  <2>2. CASE p # c
    BY <1>17, <2>2, OthersKeepOff DEF ListRole
  <2>. QED
    BY <2>1, <2>2
<1>18. ASSUME NEW p \in Calls, ListingBreaks(p) PROVE Kept(c, q) \/ Destroys(c)
  <2>1. CASE p = c
    BY <1>18, <2>1 DEF ListingBreaks, Destroys
  <2>2. CASE p # c
    BY <1>18, <2>2, OthersKeepOff DEF ListingBreaks
  <2>. QED
    BY <2>1, <2>2
<1>19. ASSUME NEW p \in Calls, Install(p) PROVE Kept(c, q) \/ Destroys(c)
  <2>1. CASE p = c
    BY <1>19, <2>1 DEF Install, Destroys
  <2>2. CASE p # c
    BY <1>19, <2>2, OthersKeepOff DEF Install
  <2>. QED
    BY <2>1, <2>2
<1>20. ASSUME NEW p \in Calls, InstallFails(p) PROVE Kept(c, q) \/ Destroys(c)
  <2>1. CASE p = c
    BY <1>20, <2>1 DEF InstallFails, Destroys
  <2>2. CASE p # c
    BY <1>20, <2>2, OthersKeepOff DEF InstallFails
  <2>. QED
    BY <2>1, <2>2
<1>21. ASSUME NEW p \in Calls, RemoveWorkspace(p) PROVE Kept(c, q) \/ Destroys(c)
  <2>1. CASE p = c
    BY <1>21, <2>1 DEF Destroys
  <2>2. CASE p # c
    BY <1>21, <2>2, OthersKeepOff DEF RemoveWorkspace
  <2>. QED
    BY <2>1, <2>2
<1>22. ASSUME NEW p \in Calls, NoMaster(p) PROVE Kept(c, q) \/ Destroys(c)
  <2>1. CASE p = c
    BY <1>22, <2>1 DEF NoMaster, Destroys
  <2>2. CASE p # c
    BY <1>22, <2>2, OthersKeepOff DEF NoMaster
  <2>. QED
    BY <2>1, <2>2
<1>23. ASSUME NEW p \in Calls, ListAll(p) PROVE Kept(c, q) \/ Destroys(c)
  <2>1. CASE p = c
    BY <1>23, <2>1 DEF ListAll, Destroys
  <2>2. CASE p # c
    BY <1>23, <2>2, OthersKeepOff DEF ListAll
  <2>. QED
    BY <2>1, <2>2
<1>24. ASSUME NEW p \in Calls, StopContainer(p) PROVE Kept(c, q) \/ Destroys(c)
  <2>1. CASE p = c
    BY <1>24, <2>1 DEF Destroys
  <2>2. CASE p # c
    <3>0. pc[p] \in {"stop", "remove"}
      BY <1>24 DEF StopContainer
    <3>1. \A k \in Nodes : <<q, k>> \notin held[p] /\ victim[p] # <<q, k>>
      <4>1. pc[p] \notin Ended \cup {"start"}
        BY <3>0
      <4>. QED
        BY ONLY <3>0, <4>1, <2>2, OthersKeepOff, Inv, IdInv, Undisturbed(c, q),
           p \in Calls, c \in Calls, q \in Calls
    <3>2. PICK y \in Containers \cup Sidecars \cup {NoContainer} :
            /\ y \in held[p] \/ y = victim[p]
            /\ \A x \in Containers \cup Sidecars : x # y => status'[x] = status[x]
      BY <1>24 DEF StopContainer
    <3>3. \A k \in Nodes : status'[<<q, k>>] = status[<<q, k>>]
      BY <3>1, <3>2
    <3>. QED
      BY <1>24, <2>2, <3>3 DEF StopContainer
  <2>. QED
    BY <2>1, <2>2
<1>25. ASSUME NEW p \in Calls, RemoveContainer(p) PROVE Kept(c, q) \/ Destroys(c)
  <2>1. CASE p = c
    BY <1>25, <2>1 DEF Destroys
  <2>2. CASE p # c
    <3>0. pc[p] \in {"stop", "remove"}
      BY <1>25 DEF RemoveContainer
    <3>1. \A k \in Nodes : <<q, k>> \notin held[p] /\ victim[p] # <<q, k>>
      <4>1. pc[p] \notin Ended \cup {"start"}
        BY <3>0
      <4>. QED
        BY ONLY <3>0, <4>1, <2>2, OthersKeepOff, Inv, IdInv, Undisturbed(c, q),
           p \in Calls, c \in Calls, q \in Calls
    <3>2. PICK y \in Containers \cup Sidecars \cup {NoContainer} :
            /\ y \in held[p] \/ y = victim[p]
            /\ \A x \in Containers \cup Sidecars : x # y => status'[x] = status[x]
      BY <1>25 DEF RemoveContainer
    <3>3. \A k \in Nodes : status'[<<q, k>>] = status[<<q, k>>]
      BY <3>1, <3>2
    <3>. QED
      BY <1>25, <2>2, <3>3 DEF RemoveContainer
  <2>. QED
    BY <2>1, <2>2
<1>26. ASSUME NEW p \in Calls, CannotRemove(p) PROVE Kept(c, q) \/ Destroys(c)
  <2>1. CASE p = c
    BY <1>26, <2>1 DEF CannotRemove, Destroys
  <2>2. CASE p # c
    BY <1>26, <2>2, OthersKeepOff DEF CannotRemove
  <2>. QED
    BY <2>1, <2>2
<1>27. ASSUME NEW p \in Calls, AllRemoved(p) PROVE Kept(c, q) \/ Destroys(c)
  <2>1. CASE p = c
    BY <1>27, <2>1 DEF Destroys
  <2>2. CASE p # c
    BY <1>27, <2>2, OthersKeepOff DEF AllRemoved
  <2>. QED
    BY <2>1, <2>2
<1>28. ASSUME NEW p \in Calls, CreateSidecar(p) PROVE Kept(c, q) \/ Destroys(c)
  <2>1. CASE p = c
    BY <1>28, <2>1 DEF CreateSidecar, Destroys
  <2>2. CASE p # c
    BY <1>28, <2>2, OthersKeepOff DEF CreateSidecar
  <2>. QED
    BY <2>1, <2>2
<1>29. ASSUME NEW p \in Calls, StartSidecar(p) PROVE Kept(c, q) \/ Destroys(c)
  <2>1. CASE p = c
    BY <1>29, <2>1 DEF StartSidecar, Destroys
  <2>2. CASE p # c
    BY <1>29, <2>2, OthersKeepOff DEF StartSidecar
  <2>. QED
    BY <2>1, <2>2
<1>30. ASSUME NEW p \in Calls, AttachDevice(p) PROVE Kept(c, q) \/ Destroys(c)
  <2>1. CASE p = c
    BY <1>30, <2>1 DEF AttachDevice, Destroys
  <2>2. CASE p # c
    BY <1>30, <2>2, OthersKeepOff DEF AttachDevice
  <2>. QED
    BY <2>1, <2>2
<1>31. ASSUME NEW p \in Calls, RecordDevice(p) PROVE Kept(c, q) \/ Destroys(c)
  <2>1. CASE p = c
    BY <1>31, <2>1 DEF RecordDevice, Destroys
  <2>2. CASE p # c
    BY <1>31, <2>2, OthersKeepOff DEF RecordDevice
  <2>. QED
    BY <2>1, <2>2
<1>32. ASSUME NEW p \in Calls, SidecarGone(p) PROVE Kept(c, q) \/ Destroys(c)
  <2>1. CASE p = c
    BY <1>32, <2>1 DEF SidecarGone, Destroys
  <2>2. CASE p # c
    BY <1>32, <2>2, OthersKeepOff DEF SidecarGone
  <2>. QED
    BY <2>1, <2>2
<1>33. ASSUME NEW p \in Calls, SidecarRefused(p) PROVE Kept(c, q) \/ Destroys(c)
  <2>1. CASE p = c
    BY <1>33, <2>1 DEF SidecarRefused, Destroys
  <2>2. CASE p # c
    BY <1>33, <2>2, OthersKeepOff DEF SidecarRefused
  <2>. QED
    BY <2>1, <2>2
<1>34. ASSUME NEW p \in Calls, FindSidecar(p) PROVE Kept(c, q) \/ Destroys(c)
  <2>1. CASE p = c
    BY <1>34, <2>1 DEF FindSidecar, Destroys
  <2>2. CASE p # c
    BY <1>34, <2>2, OthersKeepOff DEF FindSidecar
  <2>. QED
    BY <2>1, <2>2
<1>35. ASSUME NEW p \in Calls, ListSidecars(p) PROVE Kept(c, q) \/ Destroys(c)
  <2>1. CASE p = c
    BY <1>35, <2>1 DEF ListSidecars, Destroys
  <2>2. CASE p # c
    BY <1>35, <2>2, OthersKeepOff DEF ListSidecars
  <2>. QED
    BY <2>1, <2>2
<1>36. ASSUME NEW p \in Calls, Detach(p) PROVE Kept(c, q) \/ Destroys(c)
  <2>1. CASE p = c
    BY <1>36, <2>1 DEF Detach, Destroys
  <2>2. CASE p # c
    BY <1>36, <2>2, OthersKeepOff DEF Detach
  <2>. QED
    BY <2>1, <2>2
<1>37. ASSUME NEW p \in Calls, CannotDetach(p) PROVE Kept(c, q) \/ Destroys(c)
  <2>1. CASE p = c
    BY <1>37, <2>1 DEF CannotDetach, Destroys
  <2>2. CASE p # c
    BY <1>37, <2>2, OthersKeepOff DEF CannotDetach
  <2>. QED
    BY <2>1, <2>2
<1>38. ASSUME NEW p \in Calls, StopSidecar(p) PROVE Kept(c, q) \/ Destroys(c)
  <2>1. CASE p = c
    BY <1>38, <2>1 DEF StopSidecar, Destroys
  <2>2. CASE p # c
    BY <1>38, <2>2, OthersKeepOff DEF StopSidecar
  <2>. QED
    BY <2>1, <2>2
<1>39. ASSUME NEW p \in Calls, RemoveSidecar(p) PROVE Kept(c, q) \/ Destroys(c)
  <2>1. CASE p = c
    BY <1>39, <2>1 DEF RemoveSidecar, Destroys
  <2>2. CASE p # c
    BY <1>39, <2>2, OthersKeepOff DEF RemoveSidecar
  <2>. QED
    BY <2>1, <2>2
<1>40. ASSUME NEW p \in Calls, SidecarRemovedBefore(p) PROVE Kept(c, q) \/ Destroys(c)
  <2>1. CASE p = c
    BY <1>40, <2>1 DEF SidecarRemovedBefore, Destroys
  <2>2. CASE p # c
    BY <1>40, <2>2, OthersKeepOff DEF SidecarRemovedBefore
  <2>. QED
    BY <2>1, <2>2
<1>41. ASSUME NEW p \in Calls, SidecarsDestroyed(p) PROVE Kept(c, q) \/ Destroys(c)
  <2>1. CASE p = c
    BY <1>41, <2>1 DEF SidecarsDestroyed, Destroys
  <2>2. CASE p # c
    BY <1>41, <2>2, OthersKeepOff DEF SidecarsDestroyed
  <2>. QED
    BY <2>1, <2>2
<1>42. ASSUME NEW p \in Calls, Fails(p) PROVE Kept(c, q) \/ Destroys(c)
  <2>1. CASE p = c
    BY <1>42, <2>1 DEF Fails, Destroys
  <2>2. CASE p # c
    BY <1>42, <2>2, OthersKeepOff DEF Fails
  <2>. QED
    BY <2>1, <2>2
<1>43. ASSUME NEW x \in Containers \cup Sidecars, ContainerExits(x) PROVE Kept(c, q) \/ Destroys(c)
  BY <1>43 DEF ContainerExits
<1>44. CASE UNCHANGED vars
  BY <1>44 DEF vars
<1>. QED
  BY <1>1, <1>2, <1>3, <1>4, <1>5, <1>6, <1>7, <1>8, <1>9, <1>10, <1>11,
    <1>12, <1>13, <1>14, <1>15, <1>16, <1>17, <1>18, <1>19, <1>20, <1>21,
    <1>22, <1>23, <1>24, <1>25, <1>26, <1>27, <1>28, <1>29, <1>30, <1>31,
    <1>32, <1>33, <1>34, <1>35, <1>36, <1>37, <1>38, <1>39, <1>40, <1>41,
    <1>42, <1>43, <1>44
  DEF Next, Create, Represent, Remove, Loopback, AllEnded

LEMMA BlankStep ==
  ASSUME Inv, BlankInv, [Next]_vars
  PROVE  BlankInv'
<1> USE DEF Inv, TypeOK, Control, BlankInv, Ended, At, Goto, LookAround, args,
      workspaces, locals, devices, counters
<1>1. ASSUME NEW p \in Calls, MakeWorkspace(p) PROVE BlankInv'
  BY <1>1 DEF MakeWorkspace
<1>2. ASSUME NEW p \in Calls, CheckUnique(p) PROVE BlankInv'
  BY <1>2 DEF CheckUnique
<1>3. ASSUME NEW p \in Calls, IdTaken(p) PROVE BlankInv'
  BY <1>3 DEF IdTaken
<1>4. ASSUME NEW p \in Calls, CreateContainer(p) PROVE BlankInv'
  BY <1>4 DEF CreateContainer
<1>5. ASSUME NEW p \in Calls, StartContainer(p) PROVE BlankInv'
  BY <1>5 DEF StartContainer
<1>6. ASSUME NEW p \in Calls, StartGone(p) PROVE BlankInv'
  BY <1>6 DEF StartGone
<1>7. ASSUME NEW p \in Calls, SshAnswers(p) PROVE BlankInv'
  BY <1>7 DEF SshAnswers
<1>8. ASSUME NEW p \in Calls, NodeHasGone(p) PROVE BlankInv'
  BY <1>8 DEF NodeHasGone
<1>9. ASSUME NEW p \in Calls, MakeKeyDir(p) PROVE BlankInv'
  BY <1>9 DEF MakeKeyDir
<1>10. ASSUME NEW p \in Calls, MakeKeyDirFails(p) PROVE BlankInv'
  BY <1>10 DEF MakeKeyDirFails
<1>11. ASSUME NEW p \in Calls, MoveKey(p) PROVE BlankInv'
  BY <1>11 DEF MoveKey
<1>12. ASSUME NEW p \in Calls, MoveKeyFails(p) PROVE BlankInv'
  BY <1>12 DEF MoveKeyFails
<1>13. ASSUME NEW p \in Calls, Authorize(p) PROVE BlankInv'
  BY <1>13 DEF Authorize
<1>14. ASSUME NEW p \in Calls, AuthorizeFails(p) PROVE BlankInv'
  BY <1>14 DEF AuthorizeFails
<1>15. ASSUME NEW p \in Calls, CheckExists(p) PROVE BlankInv'
  BY <1>15 DEF CheckExists
<1>16. ASSUME NEW p \in Calls, NoSuchCluster(p) PROVE BlankInv'
  BY <1>16 DEF NoSuchCluster
<1>17. ASSUME NEW p \in Calls, ListRole(p) PROVE BlankInv'
  BY <1>17 DEF ListRole, AfterListing, Found, WithRole
<1>18. ASSUME NEW p \in Calls, ListingBreaks(p) PROVE BlankInv'
  BY <1>18 DEF ListingBreaks
<1>19. ASSUME NEW p \in Calls, Install(p) PROVE BlankInv'
  BY <1>19 DEF Install
<1>20. ASSUME NEW p \in Calls, InstallFails(p) PROVE BlankInv'
  BY <1>20 DEF InstallFails
<1>21. ASSUME NEW p \in Calls, RemoveWorkspace(p) PROVE BlankInv'
  BY <1>21 DEF RemoveWorkspace
<1>22. ASSUME NEW p \in Calls, NoMaster(p) PROVE BlankInv'
  BY <1>22 DEF NoMaster
<1>23. ASSUME NEW p \in Calls, ListAll(p) PROVE BlankInv'
  BY <1>23 DEF ListAll
<1>24. ASSUME NEW p \in Calls, StopContainer(p) PROVE BlankInv'
  BY <1>24 DEF StopContainer
<1>25. ASSUME NEW p \in Calls, RemoveContainer(p) PROVE BlankInv'
  BY <1>25 DEF RemoveContainer
<1>26. ASSUME NEW p \in Calls, CannotRemove(p) PROVE BlankInv'
  BY <1>26 DEF CannotRemove
<1>27. ASSUME NEW p \in Calls, AllRemoved(p) PROVE BlankInv'
  BY <1>27 DEF AllRemoved
<1>28. ASSUME NEW p \in Calls, CreateSidecar(p) PROVE BlankInv'
  BY <1>28 DEF CreateSidecar
<1>29. ASSUME NEW p \in Calls, StartSidecar(p) PROVE BlankInv'
  BY <1>29 DEF StartSidecar
<1>30. ASSUME NEW p \in Calls, AttachDevice(p) PROVE BlankInv'
  BY <1>30 DEF AttachDevice
<1>31. ASSUME NEW p \in Calls, RecordDevice(p) PROVE BlankInv'
  BY <1>31 DEF RecordDevice
<1>32. ASSUME NEW p \in Calls, SidecarGone(p) PROVE BlankInv'
  BY <1>32 DEF SidecarGone
<1>33. ASSUME NEW p \in Calls, SidecarRefused(p) PROVE BlankInv'
  BY <1>33 DEF SidecarRefused
<1>34. ASSUME NEW p \in Calls, FindSidecar(p) PROVE BlankInv'
  BY <1>34 DEF FindSidecar
<1>35. ASSUME NEW p \in Calls, ListSidecars(p) PROVE BlankInv'
  BY <1>35 DEF ListSidecars
<1>36. ASSUME NEW p \in Calls, Detach(p) PROVE BlankInv'
  BY <1>36 DEF Detach
<1>37. ASSUME NEW p \in Calls, CannotDetach(p) PROVE BlankInv'
  BY <1>37 DEF CannotDetach
<1>38. ASSUME NEW p \in Calls, StopSidecar(p) PROVE BlankInv'
  BY <1>38 DEF StopSidecar
<1>39. ASSUME NEW p \in Calls, RemoveSidecar(p) PROVE BlankInv'
  BY <1>39 DEF RemoveSidecar
<1>40. ASSUME NEW p \in Calls, SidecarRemovedBefore(p) PROVE BlankInv'
  BY <1>40 DEF SidecarRemovedBefore
<1>41. ASSUME NEW p \in Calls, SidecarsDestroyed(p) PROVE BlankInv'
  BY <1>41 DEF SidecarsDestroyed
<1>42. ASSUME NEW p \in Calls, Fails(p) PROVE BlankInv'
  BY <1>42 DEF Fails
<1>43. ASSUME NEW x \in Containers \cup Sidecars, ContainerExits(x) PROVE BlankInv'
  BY <1>43 DEF ContainerExits
<1>44. CASE UNCHANGED vars
  BY <1>44 DEF vars
<1>. QED
  BY <1>1, <1>2, <1>3, <1>4, <1>5, <1>6, <1>7, <1>8, <1>9, <1>10, <1>11,
    <1>12, <1>13, <1>14, <1>15, <1>16, <1>17, <1>18, <1>19, <1>20, <1>21,
    <1>22, <1>23, <1>24, <1>25, <1>26, <1>27, <1>28, <1>29, <1>30, <1>31,
    <1>32, <1>33, <1>34, <1>35, <1>36, <1>37, <1>38, <1>39, <1>40, <1>41,
    <1>42, <1>43, <1>44
  DEF Next, Create, Represent, Remove, Loopback, AllEnded

Destroying == {"list", "rmtree", "stop", "remove", "done"}

\* What c does before it has found a cluster; only CheckExists finds one.
Knew(c) ==
  settled'[c] = settled[c] /\ (pc'[c] \in Destroying => pc[c] \in Destroying)

LEMMA FoundFirst ==
  ASSUME Inv, NEW c \in Calls, command[c] = "destroy", [Next]_vars
  PROVE  CheckExists(c) \/ Knew(c)
<1> USE DEF Inv, TypeOK, Control, Ended, Creators, Knew, Destroying, At, Goto,
      LookAround, args, workspaces, locals, devices, counters
<1>1. ASSUME NEW p \in Calls, MakeWorkspace(p) PROVE CheckExists(c) \/ Knew(c)
  BY <1>1 DEF MakeWorkspace
<1>2. ASSUME NEW p \in Calls, CheckUnique(p) PROVE CheckExists(c) \/ Knew(c)
  BY <1>2 DEF CheckUnique
<1>3. ASSUME NEW p \in Calls, IdTaken(p) PROVE CheckExists(c) \/ Knew(c)
  BY <1>3 DEF IdTaken
<1>4. ASSUME NEW p \in Calls, CreateContainer(p) PROVE CheckExists(c) \/ Knew(c)
  BY <1>4 DEF CreateContainer
<1>5. ASSUME NEW p \in Calls, StartContainer(p) PROVE CheckExists(c) \/ Knew(c)
  BY <1>5 DEF StartContainer
<1>6. ASSUME NEW p \in Calls, StartGone(p) PROVE CheckExists(c) \/ Knew(c)
  BY <1>6 DEF StartGone
<1>7. ASSUME NEW p \in Calls, SshAnswers(p) PROVE CheckExists(c) \/ Knew(c)
  BY <1>7 DEF SshAnswers
<1>8. ASSUME NEW p \in Calls, NodeHasGone(p) PROVE CheckExists(c) \/ Knew(c)
  BY <1>8 DEF NodeHasGone
<1>9. ASSUME NEW p \in Calls, MakeKeyDir(p) PROVE CheckExists(c) \/ Knew(c)
  BY <1>9 DEF MakeKeyDir
<1>10. ASSUME NEW p \in Calls, MakeKeyDirFails(p) PROVE CheckExists(c) \/ Knew(c)
  BY <1>10 DEF MakeKeyDirFails
<1>11. ASSUME NEW p \in Calls, MoveKey(p) PROVE CheckExists(c) \/ Knew(c)
  BY <1>11 DEF MoveKey
<1>12. ASSUME NEW p \in Calls, MoveKeyFails(p) PROVE CheckExists(c) \/ Knew(c)
  BY <1>12 DEF MoveKeyFails
<1>13. ASSUME NEW p \in Calls, Authorize(p) PROVE CheckExists(c) \/ Knew(c)
  BY <1>13 DEF Authorize
<1>14. ASSUME NEW p \in Calls, AuthorizeFails(p) PROVE CheckExists(c) \/ Knew(c)
  BY <1>14 DEF AuthorizeFails
<1>15. ASSUME NEW p \in Calls, CheckExists(p) PROVE CheckExists(c) \/ Knew(c)
  <2>1. CASE p = c
    BY <1>15, <2>1
  <2>2. CASE p # c
    BY <1>15, <2>2 DEF CheckExists
  <2>. QED
    BY <2>1, <2>2
<1>16. ASSUME NEW p \in Calls, NoSuchCluster(p) PROVE CheckExists(c) \/ Knew(c)
  BY <1>16 DEF NoSuchCluster
<1>17. ASSUME NEW p \in Calls, ListRole(p) PROVE CheckExists(c) \/ Knew(c)
  BY <1>17 DEF ListRole, AfterListing, Found, WithRole
<1>18. ASSUME NEW p \in Calls, ListingBreaks(p) PROVE CheckExists(c) \/ Knew(c)
  BY <1>18 DEF ListingBreaks
<1>19. ASSUME NEW p \in Calls, Install(p) PROVE CheckExists(c) \/ Knew(c)
  BY <1>19 DEF Install
<1>20. ASSUME NEW p \in Calls, InstallFails(p) PROVE CheckExists(c) \/ Knew(c)
  BY <1>20 DEF InstallFails
<1>21. ASSUME NEW p \in Calls, RemoveWorkspace(p) PROVE CheckExists(c) \/ Knew(c)
  BY <1>21 DEF RemoveWorkspace
<1>22. ASSUME NEW p \in Calls, NoMaster(p) PROVE CheckExists(c) \/ Knew(c)
  BY <1>22 DEF NoMaster
<1>23. ASSUME NEW p \in Calls, ListAll(p) PROVE CheckExists(c) \/ Knew(c)
  BY <1>23 DEF ListAll
<1>24. ASSUME NEW p \in Calls, StopContainer(p) PROVE CheckExists(c) \/ Knew(c)
  BY <1>24 DEF StopContainer
<1>25. ASSUME NEW p \in Calls, RemoveContainer(p) PROVE CheckExists(c) \/ Knew(c)
  BY <1>25 DEF RemoveContainer
<1>26. ASSUME NEW p \in Calls, CannotRemove(p) PROVE CheckExists(c) \/ Knew(c)
  BY <1>26 DEF CannotRemove
<1>27. ASSUME NEW p \in Calls, AllRemoved(p) PROVE CheckExists(c) \/ Knew(c)
  BY <1>27 DEF AllRemoved
<1>28. ASSUME NEW p \in Calls, CreateSidecar(p) PROVE CheckExists(c) \/ Knew(c)
  BY <1>28 DEF CreateSidecar
<1>29. ASSUME NEW p \in Calls, StartSidecar(p) PROVE CheckExists(c) \/ Knew(c)
  BY <1>29 DEF StartSidecar
<1>30. ASSUME NEW p \in Calls, AttachDevice(p) PROVE CheckExists(c) \/ Knew(c)
  BY <1>30 DEF AttachDevice
<1>31. ASSUME NEW p \in Calls, RecordDevice(p) PROVE CheckExists(c) \/ Knew(c)
  BY <1>31 DEF RecordDevice
<1>32. ASSUME NEW p \in Calls, SidecarGone(p) PROVE CheckExists(c) \/ Knew(c)
  BY <1>32 DEF SidecarGone
<1>33. ASSUME NEW p \in Calls, SidecarRefused(p) PROVE CheckExists(c) \/ Knew(c)
  BY <1>33 DEF SidecarRefused
<1>34. ASSUME NEW p \in Calls, FindSidecar(p) PROVE CheckExists(c) \/ Knew(c)
  BY <1>34 DEF FindSidecar
<1>35. ASSUME NEW p \in Calls, ListSidecars(p) PROVE CheckExists(c) \/ Knew(c)
  BY <1>35 DEF ListSidecars
<1>36. ASSUME NEW p \in Calls, Detach(p) PROVE CheckExists(c) \/ Knew(c)
  BY <1>36 DEF Detach
<1>37. ASSUME NEW p \in Calls, CannotDetach(p) PROVE CheckExists(c) \/ Knew(c)
  BY <1>37 DEF CannotDetach
<1>38. ASSUME NEW p \in Calls, StopSidecar(p) PROVE CheckExists(c) \/ Knew(c)
  BY <1>38 DEF StopSidecar
<1>39. ASSUME NEW p \in Calls, RemoveSidecar(p) PROVE CheckExists(c) \/ Knew(c)
  BY <1>39 DEF RemoveSidecar
<1>40. ASSUME NEW p \in Calls, SidecarRemovedBefore(p) PROVE CheckExists(c) \/ Knew(c)
  BY <1>40 DEF SidecarRemovedBefore
<1>41. ASSUME NEW p \in Calls, SidecarsDestroyed(p) PROVE CheckExists(c) \/ Knew(c)
  BY <1>41 DEF SidecarsDestroyed
<1>42. ASSUME NEW p \in Calls, Fails(p) PROVE CheckExists(c) \/ Knew(c)
  BY <1>42 DEF Fails
<1>43. ASSUME NEW x \in Containers \cup Sidecars, ContainerExits(x) PROVE CheckExists(c) \/ Knew(c)
  BY <1>43 DEF ContainerExits
<1>44. CASE UNCHANGED vars
  BY <1>44 DEF vars
<1>. QED
  BY <1>1, <1>2, <1>3, <1>4, <1>5, <1>6, <1>7, <1>8, <1>9, <1>10, <1>11,
    <1>12, <1>13, <1>14, <1>15, <1>16, <1>17, <1>18, <1>19, <1>20, <1>21,
    <1>22, <1>23, <1>24, <1>25, <1>26, <1>27, <1>28, <1>29, <1>30, <1>31,
    <1>32, <1>33, <1>34, <1>35, <1>36, <1>37, <1>38, <1>39, <1>40, <1>41,
    <1>42, <1>43, <1>44
  DEF Next, Create, Represent, Remove, Loopback, AllEnded

LEMMA DestroyStep ==
  ASSUME Inv, IdInv, WorkspaceInv, NodesInv, DestroyInv, BlankInv, Back,
         EndedStay, [Next]_vars
  PROVE  DestroyInv'
<1> SUFFICES ASSUME NEW c \in Calls, NEW q \in Calls, Undisturbed(c, q)',
                    pc'[c] \in {"list", "rmtree", "stop", "remove", "done"}
             PROVE  Progress(c, q)'
  BY DEF DestroyInv
<1>1. /\ command[c] = "destroy" /\ command[q] \in Creators /\ id[q] = id[c] /\ q # c
      /\ exits' = 0
  BY DEF Undisturbed, Back, Creators
<1>2. \A k \in Nodes : <<q, k>> \in Containers /\ RoleOf(k) \in 1 .. 3
  BY Owned, Roles
<1>3. 1 \in Nodes /\ RoleOf(1) = 1
  BY CliAssumption DEF Nodes, Size, RoleOf
<1>4. CASE CheckExists(c)
  <2>1. pc[c] = "start" /\ pc'[c] = "list" /\ i'[c] = 1 /\ lead'[c] = NoContainer
    BY <1>4 DEF CheckExists, Inv, TypeOK, Control, BlankInv, At, Goto, locals
  <2>2. pc[q] = "done" /\ status' = status /\ exits = 0
    BY <1>1, <1>4 DEF CheckExists, Inv, TypeOK, Undisturbed, At, Goto, counters
  <2>3. Alone(q) /\ ~ Cleaned
    <3>1. \A r \in Calls \ {c, q} : At(r, "start") \/ id[r] # id[c]
      BY DEF Undisturbed, Back, At
    <3>2. ~ Cleaned
      BY DEF Undisturbed, Back, Cleaned, At
    <3>. QED
      BY <1>1, <2>1, <3>1, <3>2 DEF Alone, At
  <2>4. \A k \in Nodes : Running(<<q, k>>)
    BY <1>1, <2>2, <2>3 DEF NodesInv, Stands
  <2>. QED
    BY <1>2, <2>1, <2>2, <2>4 DEF Progress, Running
<1>5. CASE ~ CheckExists(c)
  <2>1. pc[c] \in Destroying /\ settled'[c] = settled[c]
    BY <1>1, <1>5, FoundFirst DEF Knew, Destroying
  <2>2. Undisturbed(c, q) /\ pc[q] = "done" /\ command[c] = "destroy"
    BY <2>1, UndisturbedBefore DEF Undisturbed
  <2>3. Progress(c, q)
    BY <2>1, <2>2 DEF DestroyInv, Destroying
  <2>4. Kept(c, q) \/ Destroys(c)
    BY <1>1, <2>1, <2>2, OthersLeaveIt DEF Destroying
  <2>. USE DEF Inv, TypeOK, Running, At, Goto, args, workspaces, locals, devices,
     counters
  <2>5. CASE Kept(c, q)
    BY <1>2, <2>3, <2>5 DEF Kept, Progress
  <2>6. CASE ListRole(c)
    <3>1. /\ pc[c] = "list" /\ status' = status /\ held'[c] = held[c] \cup WithRole(c, i[c])
          /\ i[c] \in 1 .. 3 /\ dir' = dir
      BY <2>2, <2>6 DEF ListRole, Found, Control, Ended
    <3>2. \A k \in Nodes : Running(<<q, k>>)
      BY <2>3, <3>1 DEF Progress
    <3>3. \A k \in Nodes : RoleOf(k) = i[c] => <<q, k>> \in WithRole(c, i[c])
      BY <1>1, <1>2, <3>2 DEF WithRole
    <3>4. \A x \in WithRole(c, 1) : x[1] = q
      <4> SUFFICES ASSUME NEW x \in WithRole(c, 1) PROVE x[1] = q
        OBVIOUS
      <4>1. x \in Containers /\ x[1] \in Calls /\ id[x[1]] = id[c] /\ status[x] # "absent"
        BY Apart DEF WithRole
      <4>2. x \in Own(x[1])
        BY <4>1, Owned
      <4>3. command[x[1]] \in Creators /\ pc[x[1]] # "start"
        BY <4>1, <4>2 DEF MadeInv
      <4>. QED
        BY <1>1, <2>2, <4>1, <4>3 DEF Undisturbed, Creators
    <3>5. Found(c, 1) = WithRole(c, 1)
      BY <2>2 DEF Found
    <3>6. lead'[c] # NoContainer /\ lead'[c][1] = q
      <4>1. CASE i[c] = 1
        <5>1. <<q, 1>> \in WithRole(c, 1)
          BY <1>3, <3>3, <4>1
        <5>2. \E x \in WithRole(c, 1) : lead' = [lead EXCEPT ![c] = x]
          BY <2>6, <3>5, <4>1, <5>1 DEF ListRole
        <5>3. \A x \in WithRole(c, 1) : x # NoContainer
          BY Apart DEF WithRole
        <5>. QED
          BY <3>4, <5>2, <5>3
      <4>2. CASE i[c] > 1
        BY <2>3, <2>6, <3>1, <4>2 DEF ListRole, Progress
      <4>. QED
        BY <3>1, <4>1, <4>2
    <3>7. CASE i[c] < 3
      <4>1. pc'[c] = "list" /\ i'[c] = i[c] + 1
        BY <2>2, <2>6, <3>7 DEF ListRole, AfterListing, Creators
      <4>2. \A k \in Nodes : RoleOf(k) < i'[c] => RoleOf(k) < i[c] \/ RoleOf(k) = i[c]
        <5> SUFFICES ASSUME NEW k \in Nodes
                     PROVE  RoleOf(k) < i'[c] => RoleOf(k) < i[c] \/ RoleOf(k) = i[c]
          OBVIOUS
        <5>1. RoleOf(k) \in 1 .. 3
          BY <1>2
        <5>2. i[c] \in 1 .. 3
          BY <3>1
        <5>. QED
          BY ONLY <4>1, <5>1, <5>2
      <4>3. \A k \in Nodes : RoleOf(k) < i'[c] => <<q, k>> \in held'[c]
        BY <2>3, <3>1, <3>3, <4>2 DEF Progress
      <4>. QED
        BY <3>1, <3>2, <3>6, <4>1, <4>3 DEF Progress
    <3>8. CASE i[c] = 3
      <4>1. pc'[c] = "rmtree"
        BY <2>2, <2>6, <3>8 DEF ListRole, AfterListing, Creators
      <4>2. \A k \in Nodes : <<q, k>> \in held'[c]
        BY <1>2, <2>3, <3>1, <3>3, <3>8 DEF Progress
      <4>. QED
        BY <3>6, <4>1, <4>2 DEF Progress
    <3>. QED
      BY <3>1, <3>7, <3>8
  <2>7. CASE RemoveWorkspace(c)
    BY <1>2, <2>3, <2>7 DEF RemoveWorkspace, Progress
  <2>8. CASE StopContainer(c)
    <3>1. PICK y \in held[c] :
            /\ victim'[c] = y /\ held'[c] = held[c] \ {y} /\ status[y] # "removed"
            /\ status' = [status EXCEPT ![y] =
                 IF status[y] = "running" THEN "exited" ELSE status[y]]
      BY <2>8 DEF StopContainer
    <3>2. /\ pc[c] = "stop" /\ pc'[c] = "remove" /\ lead' = lead /\ dir' = dir
      BY <2>8 DEF StopContainer
    <3>3. ASSUME NEW k \in Nodes
          PROVE  <<q, k>> \in held'[c] \/ victim'[c] = <<q, k>> \/ status'[<<q, k>>] = "removed"
      BY <1>2, <2>3, <3>1, <3>2, <3>3 DEF Progress
    <3>. QED
      BY <2>3, <3>2, <3>3 DEF Progress
  <2>9. CASE RemoveContainer(c)
    <3>1. /\ pc[c] = "remove" /\ pc'[c] = "stop" /\ lead' = lead /\ dir' = dir
          /\ held' = held /\ status' = [status EXCEPT ![victim[c]] = "removed"]
      BY <2>9 DEF RemoveContainer
    <3>2. \A k \in Nodes : <<q, k>> \in held'[c] \/ status'[<<q, k>>] = "removed"
      BY <1>2, <2>3, <3>1 DEF Progress
    <3>. QED
      BY <2>3, <3>1, <3>2 DEF Progress
  <2>10. CASE AllRemoved(c)
    BY <2>2, <2>3, <2>10 DEF AllRemoved, Progress
  <2>11. CASE pc'[c] \in {"failed", "noMaster", "refused"}
    BY <2>11
  <2>. QED
    BY <1>5, <2>4, <2>5, <2>6, <2>7, <2>8, <2>9, <2>10, <2>11 DEF Destroys
<1>. QED
  BY <1>4, <1>5

\* A destroy that succeeds has reached every node, and leaves nothing of a
\* complete cluster that nothing else touches.
THEOREM DestroyCompletes == Spec => []DestroyIsComplete
<1>1. Inv /\ IdInv /\ WorkspaceInv /\ NodesInv /\ DestroyInv /\ BlankInv /\ [Next]_vars =>
        IdInv' /\ WorkspaceInv' /\ NodesInv' /\ DestroyInv' /\ BlankInv'
  BY IdStep, BackStep, WorkspaceStep, NodesStep, DestroyStep, BlankStep,
    EndedStep DEF Inv
<1>2. Inv /\ ReachInv /\ [Next]_vars => ReachInv'
  BY EndedStep, ReachStep DEF Inv
<1>3. Inv /\ ReachInv /\ DestroyInv => DestroyIsComplete
  <2>1. Inv /\ ReachInv => DestroyReachesAll
    BY DEF Inv, TypeOK, ReachInv, DestroyReachesAll, At
  <2> SUFFICES ASSUME Inv, DestroyInv,
                      NEW p \in Calls, NEW q \in Calls,
                      At(p, "done") /\ command[p] = "destroy",
                      At(q, "done") /\ command[q] \in Creators,
                      q \in settled[p] /\ id[q] = id[p],
                      \A r \in Calls \ {p, q} : At(r, "start") \/ id[r] # id[p],
                      \A r \in Calls : command[r] = "clean" => At(r, "start"),
                      exits = 0
               PROVE  ~ dir[q] /\ \A x \in Own(q) : status[x] \in {"absent", "removed"}
    BY <2>1 DEF DestroyIsComplete, DestroyLeavesNothing
  <2>2. Undisturbed(p, q)
    BY DEF Undisturbed, Cleaned, At
  <2>3. Progress(p, q) /\ pc[p] = "done"
    BY <2>2 DEF DestroyInv, At
  <2>. QED
    BY <2>3, Owned DEF Progress, Own
<1>. QED
  BY <1>1, <1>2, <1>3, InvInit, InvStep, IdInit, WholeInit, ReachInit,
    DestroyInit, PTL DEF Spec
===============================================================================
