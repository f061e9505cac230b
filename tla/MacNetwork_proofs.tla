-------------------------- MODULE MacNetwork_proofs --------------------------
(***************************************************************************)
(* Proofs, for any number of calls of setup-mac-network and                *)
(* destroy-mac-network, that a setup with --force which is alone meets no  *)
(* conflict, and that calls which end well have done what they promise.    *)
(***************************************************************************)
EXTENDS MacNetwork, TLAPS

-----------------------------------------------------------------------------
(* Types.                                                                  *)

\* Which command is where, and only containers that exist run.
Control ==
  /\ \A c \in Calls :
       /\ pc[c] \in {"get", "remove"} => command[c] \in {"force", "destroy"}
       /\ pc[c] \in {"build", "create", "run", "poll"} => command[c] \in {"setup", "force"}
       /\ pc[c] = "poll" => at[c] = "openvpn"
  /\ \A n \in running : owner[n] \in Calls

\* Where removing the containers leads.
LEMMA Removing ==
  ASSUME TypeOK, NEW c \in Calls, command[c] \in {"force", "destroy"},
         AfterRemoving(c)
  PROVE  \/ at[c] = "proxy" /\ GotoAt(c, "get", "openvpn")
         \/ at[c] = "openvpn" /\ command[c] = "force" /\ GotoAt(c, "build", "proxy")
         \/ at[c] = "openvpn" /\ command[c] = "destroy" /\ GotoAt(c, "done", "openvpn")
<1>1. at[c] \in {"proxy", "openvpn"}
  BY DEF TypeOK, Containers
<1>2. CASE at[c] = "proxy"
  BY <1>2 DEF AfterRemoving
<1>3. CASE at[c] = "openvpn" /\ command[c] = "force"
  BY <1>3 DEF AfterRemoving
<1>4. CASE at[c] = "openvpn" /\ command[c] = "destroy"
  BY <1>4 DEF AfterRemoving
<1>. QED
  BY <1>1, <1>2, <1>3, <1>4

LEMMA TypeInit ==
  ASSUME Init
  PROVE  TypeOK /\ Control
  BY MacAssumption DEF Init, TypeOK, Control, Labels, Ended, Containers

LEMMA TypeStep ==
  ASSUME TypeOK, Control, [Next]_vars
  PROVE  TypeOK' /\ Control'
<1> USE MacAssumption DEF TypeOK, Control, Labels, Ended, Containers, Commands,
      Active, At, Goto, GotoAt, daemon, history
<1>1. ASSUME NEW c \in Calls, Begin(c) PROVE TypeOK' /\ Control'
  BY <1>1 DEF Begin
<1>2. ASSUME NEW c \in Calls, Refused(c) PROVE TypeOK' /\ Control'
  BY <1>2 DEF Refused
<1>3. ASSUME NEW c \in Calls, GetContainer(c) PROVE TypeOK' /\ Control'
  <2>1. command[c] \in {"force", "destroy"}
    BY <1>3 DEF GetContainer
  <2>. QED
    BY <1>3, <2>1, Removing DEF GetContainer
<1>4. ASSUME NEW c \in Calls, RemoveContainer(c) PROVE TypeOK' /\ Control'
  <2>1. command[c] \in {"force", "destroy"}
    BY <1>4 DEF RemoveContainer
  <2>2. TypeOK'
    <3>1. running' \in SUBSET Containers /\ shaken' \in SUBSET Calls
      BY <1>4 DEF RemoveContainer
    <3>2. pc' \in [Calls -> Labels] /\ at' \in [Calls -> Containers]
      BY <1>4, <2>1, Removing DEF RemoveContainer
    <3>. QED
      BY <1>4, <3>1, <3>2 DEF RemoveContainer
  <2>3. Control'
    <3>1. \A n \in running' : owner'[n] \in Calls
      BY <1>4 DEF RemoveContainer
    <3>. QED
      BY <1>4, <2>1, <3>1, Removing DEF RemoveContainer
  <2>. QED
    BY <2>2, <2>3
<1>5. ASSUME NEW c \in Calls, RemovedBefore(c) PROVE TypeOK' /\ Control'
  BY <1>5 DEF RemovedBefore
<1>6. ASSUME NEW c \in Calls, BuildImages(c) PROVE TypeOK' /\ Control'
  BY <1>6 DEF BuildImages
<1>7. ASSUME NEW c \in Calls, CreateContainer(c) PROVE TypeOK' /\ Control'
  BY <1>7 DEF CreateContainer
<1>8. ASSUME NEW c \in Calls, Conflict(c) PROVE TypeOK' /\ Control'
  BY <1>8 DEF Conflict
<1>9. ASSUME NEW c \in Calls, StartContainer(c) PROVE TypeOK' /\ Control'
  <2>1. TypeOK'
    <3>1. running' \in SUBSET Containers
      BY <1>9 DEF StartContainer
    <3>. QED
      BY <1>9, <3>1 DEF StartContainer
  <2>2. Control'
    BY <1>9 DEF StartContainer
  <2>. QED
    BY <2>1, <2>2
<1>10. ASSUME NEW c \in Calls, StartFails(c) PROVE TypeOK' /\ Control'
  BY <1>10 DEF StartFails
<1>11. ASSUME NEW c \in Calls, CopyConfiguration(c) PROVE TypeOK' /\ Control'
  BY <1>11 DEF CopyConfiguration
<1>12. ASSUME NEW c \in Calls, Fails(c) PROVE TypeOK' /\ Control'
  BY <1>12 DEF Fails
<1>13. ASSUME Generate PROVE TypeOK' /\ Control'
  BY <1>13 DEF Generate
<1>14. CASE UNCHANGED vars
  BY <1>14 DEF vars
<1>. QED
  BY <1>1, <1>2, <1>3, <1>4, <1>5, <1>6, <1>7, <1>8, <1>9, <1>10, <1>11, <1>12,
     <1>13, <1>14
  DEF Next, SetUp, TakeDown, AllEnded

THEOREM TypeCorrect == Spec => []TypeOK
  BY TypeInit, TypeStep, PTL DEF Spec

-----------------------------------------------------------------------------
(* Calls that are alone.                                                   *)

\* Of two calls that are active at the same time both know.
OverlapInv ==
  \A c, d \in Calls : c # d /\ Active(c) /\ Active(d) => c \in overlapped

\* A call that is alone has removed the first container when it comes to the
\* second one, and a setup with --force then finds neither.
AloneInv ==
  \A c \in Calls : c \notin overlapped =>
    /\ pc[c] \in {"get", "remove"} /\ at[c] = "openvpn" => owner["proxy"] = None
    /\ command[c] = "force" =>
         /\ pc[c] = "build" \/ (pc[c] = "create" /\ at[c] = "proxy") =>
              \A n \in Containers : owner[n] = None
         /\ (pc[c] = "create" /\ at[c] = "openvpn") \/ (pc[c] = "run" /\ at[c] = "proxy") =>
              owner["openvpn"] = None
         /\ pc[c] # "conflict"

\* Unless another call removes containers, a setup has those it has made.
WholeInv ==
  \A c \in Calls : c \notin shaken =>
    /\ (pc[c] \in {"create", "run"} /\ at[c] = "openvpn") \/ pc[c] = "poll" =>
         owner["proxy"] = c /\ "proxy" \in running
    /\ pc[c] = "run" => owner[at[c]] = c
    /\ pc[c] = "poll" => owner["openvpn"] = c /\ "openvpn" \in running

LEMMA CallsInit ==
  ASSUME Init
  PROVE  OverlapInv /\ AloneInv /\ WholeInv
  BY DEF Init, OverlapInv, AloneInv, WholeInv, Active

LEMMA OverlapStep ==
  ASSUME TypeOK, Control, OverlapInv, [Next]_vars
  PROVE  OverlapInv'
<1> USE DEF TypeOK, Control, OverlapInv, Ended, Containers, Active, At, Goto, GotoAt, daemon, history
<1>1. ASSUME NEW c \in Calls, Begin(c) PROVE OverlapInv'
  BY <1>1 DEF Begin
<1>2. ASSUME NEW c \in Calls, Refused(c) PROVE OverlapInv'
  BY <1>2 DEF Refused
<1>3. ASSUME NEW c \in Calls, GetContainer(c) PROVE OverlapInv'
  <2>1. command[c] \in {"force", "destroy"}
    BY <1>3 DEF GetContainer
  <2>. QED
    BY <1>3, <2>1, Removing DEF GetContainer
<1>4. ASSUME NEW c \in Calls, RemoveContainer(c) PROVE OverlapInv'
  <2>1. command[c] \in {"force", "destroy"}
    BY <1>4 DEF RemoveContainer
  <2>. QED
    BY <1>4, <2>1, Removing DEF RemoveContainer
<1>5. ASSUME NEW c \in Calls, RemovedBefore(c) PROVE OverlapInv'
  BY <1>5 DEF RemovedBefore
<1>6. ASSUME NEW c \in Calls, BuildImages(c) PROVE OverlapInv'
  BY <1>6 DEF BuildImages
<1>7. ASSUME NEW c \in Calls, CreateContainer(c) PROVE OverlapInv'
  BY <1>7 DEF CreateContainer
<1>8. ASSUME NEW c \in Calls, Conflict(c) PROVE OverlapInv'
  BY <1>8 DEF Conflict
<1>9. ASSUME NEW c \in Calls, StartContainer(c) PROVE OverlapInv'
  BY <1>9 DEF StartContainer
<1>10. ASSUME NEW c \in Calls, StartFails(c) PROVE OverlapInv'
  BY <1>10 DEF StartFails
<1>11. ASSUME NEW c \in Calls, CopyConfiguration(c) PROVE OverlapInv'
  BY <1>11 DEF CopyConfiguration
<1>12. ASSUME NEW c \in Calls, Fails(c) PROVE OverlapInv'
  BY <1>12 DEF Fails
<1>13. ASSUME Generate PROVE OverlapInv'
  BY <1>13 DEF Generate
<1>14. CASE UNCHANGED vars
  BY <1>14 DEF vars
<1>. QED
  BY <1>1, <1>2, <1>3, <1>4, <1>5, <1>6, <1>7, <1>8, <1>9, <1>10, <1>11, <1>12,
     <1>13, <1>14
  DEF Next, SetUp, TakeDown, AllEnded

LEMMA AloneStep ==
  ASSUME TypeOK, Control, OverlapInv, AloneInv, [Next]_vars
  PROVE  AloneInv'
<1> USE DEF TypeOK, Control, OverlapInv, AloneInv, Ended, Containers,
      Active, At, Goto, GotoAt, daemon, history
<1>1. ASSUME NEW c \in Calls, Begin(c) PROVE AloneInv'
  BY <1>1 DEF Begin
<1>2. ASSUME NEW c \in Calls, Refused(c) PROVE AloneInv'
  BY <1>2 DEF Refused
<1>3. ASSUME NEW c \in Calls, GetContainer(c) PROVE AloneInv'
  <2>1. command[c] \in {"force", "destroy"}
    BY <1>3 DEF GetContainer
  <2>. QED
    BY <1>3, <2>1, Removing DEF GetContainer
<1>4. ASSUME NEW c \in Calls, RemoveContainer(c) PROVE AloneInv'
  <2>1. command[c] \in {"force", "destroy"}
    BY <1>4 DEF RemoveContainer
  <2>. QED
    BY <1>4, <2>1, Removing DEF RemoveContainer
<1>5. ASSUME NEW c \in Calls, RemovedBefore(c) PROVE AloneInv'
  BY <1>5 DEF RemovedBefore
<1>6. ASSUME NEW c \in Calls, BuildImages(c) PROVE AloneInv'
  BY <1>6 DEF BuildImages
<1>7. ASSUME NEW c \in Calls, CreateContainer(c) PROVE AloneInv'
  BY <1>7 DEF CreateContainer
<1>8. ASSUME NEW c \in Calls, Conflict(c) PROVE AloneInv'
  BY <1>8 DEF Conflict
<1>9. ASSUME NEW c \in Calls, StartContainer(c) PROVE AloneInv'
  BY <1>9 DEF StartContainer
<1>10. ASSUME NEW c \in Calls, StartFails(c) PROVE AloneInv'
  BY <1>10 DEF StartFails
<1>11. ASSUME NEW c \in Calls, CopyConfiguration(c) PROVE AloneInv'
  BY <1>11 DEF CopyConfiguration
<1>12. ASSUME NEW c \in Calls, Fails(c) PROVE AloneInv'
  BY <1>12 DEF Fails
<1>13. ASSUME Generate PROVE AloneInv'
  BY <1>13 DEF Generate
<1>14. CASE UNCHANGED vars
  BY <1>14 DEF vars
<1>. QED
  BY <1>1, <1>2, <1>3, <1>4, <1>5, <1>6, <1>7, <1>8, <1>9, <1>10, <1>11, <1>12,
     <1>13, <1>14
  DEF Next, SetUp, TakeDown, AllEnded

LEMMA WholeStep ==
  ASSUME TypeOK, Control, WholeInv, [Next]_vars
  PROVE  WholeInv'
<1> USE MacAssumption DEF TypeOK, Control, WholeInv, Ended, Containers, Active, At, Goto, GotoAt, daemon, history
<1>1. ASSUME NEW c \in Calls, Begin(c) PROVE WholeInv'
  BY <1>1 DEF Begin
<1>2. ASSUME NEW c \in Calls, Refused(c) PROVE WholeInv'
  BY <1>2 DEF Refused
<1>3. ASSUME NEW c \in Calls, GetContainer(c) PROVE WholeInv'
  <2>1. command[c] \in {"force", "destroy"}
    BY <1>3 DEF GetContainer
  <2>. QED
    BY <1>3, <2>1, Removing DEF GetContainer
<1>4. ASSUME NEW c \in Calls, RemoveContainer(c) PROVE WholeInv'
  <2>1. command[c] \in {"force", "destroy"}
    BY <1>4 DEF RemoveContainer
  <2>. QED
    BY <1>4, <2>1, Removing DEF RemoveContainer
<1>5. ASSUME NEW c \in Calls, RemovedBefore(c) PROVE WholeInv'
  BY <1>5 DEF RemovedBefore
<1>6. ASSUME NEW c \in Calls, BuildImages(c) PROVE WholeInv'
  BY <1>6 DEF BuildImages
<1>7. ASSUME NEW c \in Calls, CreateContainer(c) PROVE WholeInv'
  BY <1>7 DEF CreateContainer
<1>8. ASSUME NEW c \in Calls, Conflict(c) PROVE WholeInv'
  BY <1>8 DEF Conflict
<1>9. ASSUME NEW c \in Calls, StartContainer(c) PROVE WholeInv'
  BY <1>9 DEF StartContainer
<1>10. ASSUME NEW c \in Calls, StartFails(c) PROVE WholeInv'
  BY <1>10 DEF StartFails
<1>11. ASSUME NEW c \in Calls, CopyConfiguration(c) PROVE WholeInv'
  BY <1>11 DEF CopyConfiguration
<1>12. ASSUME NEW c \in Calls, Fails(c) PROVE WholeInv'
  BY <1>12 DEF Fails
<1>13. ASSUME Generate PROVE WholeInv'
  BY <1>13 DEF Generate
<1>14. CASE UNCHANGED vars
  BY <1>14 DEF vars
<1>. QED
  BY <1>1, <1>2, <1>3, <1>4, <1>5, <1>6, <1>7, <1>8, <1>9, <1>10, <1>11, <1>12,
     <1>13, <1>14
  DEF Next, SetUp, TakeDown, AllEnded

Inv == TypeOK /\ Control /\ OverlapInv /\ AloneInv /\ WholeInv

LEMMA InvAlways == Spec => []Inv
<1>1. Init => Inv
  BY TypeInit, CallsInit DEF Inv
<1>2. Inv /\ [Next]_vars => Inv'
  BY TypeStep, OverlapStep, AloneStep, WholeStep DEF Inv
<1>. QED
  BY <1>1, <1>2, PTL DEF Spec

\* A setup with --force that is alone meets no conflict, whatever the calls
\* before it have left.
THEOREM ForceIsEnough == Spec => []ForceResolvesConflicts
<1>1. Inv => ForceResolvesConflicts
  BY DEF Inv, AloneInv, ForceResolvesConflicts
<1>. QED
  BY <1>1, InvAlways, PTL

Whole(c) ==
  IF command[c] = "destroy"
    THEN c \notin overlapped => owner' = [n \in Containers |-> None]
    ELSE c \notin shaken =>
           /\ owner = [n \in Containers |-> c]
           /\ running = Containers
           /\ configuration' = c

Kept == \A d \in Calls : pc[d] # "done" /\ pc'[d] = "done" => Whole(d)

LEMMA KeptStep ==
  ASSUME Inv, [Next]_vars
  PROVE  Kept
<1> USE DEF Inv, TypeOK, Control, Ended, Containers, Active, At, Goto, GotoAt, daemon, history
<1>1. ASSUME NEW c \in Calls, Begin(c) PROVE Kept
  BY <1>1 DEF Begin, Kept
<1>2. ASSUME NEW c \in Calls, Refused(c) PROVE Kept
  BY <1>2 DEF Refused, Kept
<1>3. ASSUME NEW c \in Calls, GetContainer(c) PROVE Kept
  <2>1. command[c] \in {"force", "destroy"} /\ pc[c] \in {"get", "remove"}
    BY <1>3 DEF GetContainer
  <2>2. \A d \in Calls : pc[d] # "done" /\ pc'[d] = "done" => d = c
    BY <1>3, <2>1, Removing DEF GetContainer
  <2>3. pc'[c] = "done" => command[c] = "destroy" /\ at[c] = "openvpn"
    BY <1>3, <2>1, Removing DEF GetContainer
  <2>4. pc'[c] = "done" /\ c \notin overlapped => \A n \in Containers : owner'[n] = None
    BY <1>3, <2>1, <2>3 DEF GetContainer, AloneInv
  <2>5. owner' = [n \in Containers |-> owner'[n]]
    BY <1>3 DEF GetContainer
  <2>. QED
    BY <2>2, <2>3, <2>4, <2>5 DEF Kept, Whole
<1>4. ASSUME NEW c \in Calls, RemoveContainer(c) PROVE Kept
  <2>1. command[c] \in {"force", "destroy"} /\ pc[c] \in {"get", "remove"}
    BY <1>4 DEF RemoveContainer
  <2>2. \A d \in Calls : pc[d] # "done" /\ pc'[d] = "done" => d = c
    BY <1>4, <2>1, Removing DEF RemoveContainer
  <2>3. pc'[c] = "done" => command[c] = "destroy" /\ at[c] = "openvpn"
    BY <1>4, <2>1, Removing DEF RemoveContainer
  <2>4. pc'[c] = "done" /\ c \notin overlapped => \A n \in Containers : owner'[n] = None
    BY <1>4, <2>1, <2>3 DEF RemoveContainer, AloneInv
  <2>5. owner' = [n \in Containers |-> owner'[n]]
    BY <1>4 DEF RemoveContainer
  <2>. QED
    BY <2>2, <2>3, <2>4, <2>5 DEF Kept, Whole
<1>5. ASSUME NEW c \in Calls, RemovedBefore(c) PROVE Kept
  BY <1>5 DEF RemovedBefore, Kept
<1>6. ASSUME NEW c \in Calls, BuildImages(c) PROVE Kept
  BY <1>6 DEF BuildImages, Kept
<1>7. ASSUME NEW c \in Calls, CreateContainer(c) PROVE Kept
  BY <1>7 DEF CreateContainer, Kept
<1>8. ASSUME NEW c \in Calls, Conflict(c) PROVE Kept
  BY <1>8 DEF Conflict, Kept
<1>9. ASSUME NEW c \in Calls, StartContainer(c) PROVE Kept
  BY <1>9 DEF StartContainer, Kept
<1>10. ASSUME NEW c \in Calls, StartFails(c) PROVE Kept
  BY <1>10 DEF StartFails, Kept
<1>11. ASSUME NEW c \in Calls, CopyConfiguration(c) PROVE Kept
  <2>1. pc'[c] = "done" /\ pc[c] = "poll" /\ command[c] # "destroy" /\ configuration' = c
    BY <1>11 DEF CopyConfiguration
  <2>2. c \notin shaken => \A n \in Containers : owner[n] = c /\ n \in running
    BY <2>1 DEF WholeInv
  <2>3. owner = [n \in Containers |-> owner[n]] /\ running \subseteq Containers
    OBVIOUS
  <2>4. c \notin shaken => owner = [n \in Containers |-> c] /\ running = Containers
    <3>1. c \notin shaken => owner = [n \in Containers |-> c]
      BY <2>2, <2>3
    <3>2. running \subseteq Containers
      BY <2>3
    <3>3. c \notin shaken => running = Containers
      BY ONLY <2>2, <3>2
    <3>. QED
      BY <3>1, <3>3
  <2>5. \A d \in Calls : pc[d] # "done" /\ pc'[d] = "done" => d = c
    BY <1>11 DEF CopyConfiguration
  <2>. QED
    BY <2>1, <2>4, <2>5 DEF Kept, Whole
<1>12. ASSUME NEW c \in Calls, Fails(c) PROVE Kept
  BY <1>12 DEF Fails, Kept
<1>13. ASSUME Generate PROVE Kept
  BY <1>13 DEF Generate, Kept
<1>14. CASE UNCHANGED vars
  BY <1>14 DEF vars, Kept
<1>. QED
  BY <1>1, <1>2, <1>3, <1>4, <1>5, <1>6, <1>7, <1>8, <1>9, <1>10, <1>11, <1>12,
     <1>13, <1>14
  DEF Next, SetUp, TakeDown, AllEnded

\* A setup that ends well has both containers and their file, unless another
\* call took containers away; a destroy that was alone leaves none.
THEOREM EndsAreWhole == Spec => DoneIsWhole
<1>1. Inv /\ [Next]_vars => [Kept]_vars
  BY KeptStep
<1>2. [Kept]_vars => [\A c \in Calls :
       pc[c] # "done" /\ pc'[c] = "done" =>
         IF command[c] = "destroy"
           THEN c \notin overlapped => owner' = [n \in Containers |-> None]
           ELSE c \notin shaken =>
                  /\ owner = [n \in Containers |-> c]
                  /\ running = Containers
                  /\ configuration' = c]_vars
  BY DEF Kept, Whole
<1>. QED
  BY <1>1, <1>2, InvAlways, PTL DEF Spec, DoneIsWhole
===============================================================================
