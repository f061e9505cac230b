---------------------------- MODULE Calls_proofs ----------------------------
(***************************************************************************)
(* Proofs about three calls that an operator or a test makes and that keep *)
(* no cluster of their own: the waits for DC/OS (WaitForDcos), a run of a  *)
(* command on the host (RunSubprocess) and the doctor (Doctor).            *)
(***************************************************************************)
EXTENDS WaitForDcos, RunSubprocess, Doctor, SequenceTheorems, TLAPS

-----------------------------------------------------------------------------
(***************************************************************************)
(* WaitForDcos: for any number of waits, and any components that come and  *)
(* go, a wait on a cluster that is up does not fail, and a wait that       *)
(* succeeds has seen all of the cluster up and has left no user of its     *)
(* own.                                                                    *)
(***************************************************************************)

-----------------------------------------------------------------------------
(* Types.                                                                  *)

\* Both variants have stages, and every stage asks for a component.
LEMMA StagesAreComponents ==
  ASSUME NEW v \in Variants
  PROVE  Stages(v) \in Seq(Components) /\ Len(Stages(v)) \in Nat \ {0}
<1> DEFINE common == <<"adminrouter", "login", "marathon", "zk", "services",
                       "health", "units">>
           first == <<"ca">>
           last == <<"acls">>
<1>1. /\ common \in Seq(Components) /\ Len(common) = 7
      /\ first \in Seq(Components) /\ Len(first) = 1
      /\ last \in Seq(Components) /\ Len(last) = 1
  BY DEF Components
<1>2. Stages(v) = IF v = "oss" THEN common ELSE (first \o common) \o last
  BY DEF Stages
<1>. HIDE DEF common, first, last
<1>3. ASSUME NEW a \in Seq(Components), NEW b \in Seq(Components)
      PROVE  a \o b \in Seq(Components) /\ Len(a \o b) = Len(a) + Len(b)
  BY ConcatProperties
<1>4. /\ (first \o common) \o last \in Seq(Components)
      /\ Len((first \o common) \o last) = (1 + 7) + 1
  <2>1. first \o common \in Seq(Components) /\ Len(first \o common) = 1 + 7
    BY <1>1, <1>3, Zenon
  <2>. QED
    BY <1>1, <1>3, <2>1, Zenon
<1>. QED
  BY <1>1, <1>2, <1>4

LEMMA TypeInit ==
  ASSUME Init
  PROVE  TypeOK
  BY WaitAssumption, StagesAreComponents DEF Init, TypeOK, Labels, Ended, Albert, Other

LEMMA TypeStep ==
  ASSUME TypeOK, [Next]_vars
  PROVE  TypeOK'
<1>0. Len(Stages(variant)) \in Nat \ {0}
  BY StagesAreComponents DEF TypeOK
<1> USE WaitAssumption, <1>0 DEF TypeOK, Labels, Ended, At, Goto, End, cluster, session,
      history
<1>1. ASSUME NEW w \in Waits, Start(w) PROVE TypeOK'
  BY <1>1 DEF Start
<1>2. ASSUME NEW w \in Waits, VariantKnown(w) PROVE TypeOK'
  BY <1>2 DEF VariantKnown
<1>3. ASSUME NEW w \in Waits, VariantGivesUp(w) PROVE TypeOK'
  BY <1>3 DEF VariantGivesUp
<1>4. ASSUME NEW w \in Waits, Poststart(w) PROVE TypeOK'
  <2>1. CASE UNCHANGED session
    BY <1>4, <2>1 DEF Poststart
  <2>2. CASE End(w, "done")
    BY <1>4, <2>2 DEF Poststart
  <2>. QED
    BY <1>4, <2>1, <2>2 DEF Poststart
<1>5. ASSUME NEW w \in Waits, DeleteUser(w) PROVE TypeOK'
  BY <1>5 DEF DeleteUser
<1>6. ASSUME NEW w \in Waits, CreateUser(w) PROVE TypeOK'
  BY <1>6 DEF CreateUser
<1>7. ASSUME NEW w \in Waits, UserCommandFails(w) PROVE TypeOK'
  BY <1>7 DEF UserCommandFails
<1>8. ASSUME NEW w \in Waits, GetCaCert(w) PROVE TypeOK'
  BY <1>8 DEF GetCaCert
<1>9. ASSUME NEW w \in Waits, Pass(w) PROVE TypeOK'
  <2>1. /\ users' \subseteq {Albert, Other}
        /\ UNCHANGED <<variant, up, downs, early, shaken>>
    BY <1>9 DEF Pass
  <2>2. CASE stage[w] < Len(Stages(variant))
    <3>1. /\ stage' = [stage EXCEPT ![w] = stage[w] + 1]
          /\ token' = [token EXCEPT ![w] = token[w] \/ Current(w) = "login"]
          /\ pc' = pc /\ alarm' = alarm
      BY <1>9, <2>2 DEF Pass
    <3>2. (token[w] \/ Current(w) = "login") \in BOOLEAN
      OBVIOUS
    <3>. HIDE DEF Current
    <3>. QED
      BY <2>1, <2>2, <3>1, <3>2
  <2>3. CASE ~ (stage[w] < Len(Stages(variant)))
    <3>1. CASE Goto(w, "remove") /\ UNCHANGED session
      BY <2>1, <3>1
    <3>2. CASE End(w, "done")
      BY <2>1, <3>2
    <3>. QED
      BY <1>9, <2>3, <3>1, <3>2 DEF Pass
  <2>. QED
    BY <2>2, <2>3
<1>10. ASSUME NEW w \in Waits, StageRetries(w) PROVE TypeOK'
  BY <1>10 DEF StageRetries
<1>11. ASSUME NEW w \in Waits, StageGivesUp(w) PROVE TypeOK'
  BY <1>11 DEF StageGivesUp
<1>12. ASSUME NEW w \in Waits, StageRaises(w) PROVE TypeOK'
  BY <1>12 DEF StageRaises
<1>13. ASSUME NEW w \in Waits, RemoveUser(w) PROVE TypeOK'
  BY <1>13 DEF RemoveUser
<1>14. ASSUME NEW w \in Waits, Alarm(w) PROVE TypeOK'
  <2>1. CASE End(w, "timedOut")
    BY <1>14, <2>1 DEF Alarm
  <2>2. CASE ~ End(w, "timedOut")
    BY <1>14, <2>2 DEF Alarm
  <2>. QED
    BY <2>1, <2>2
<1>15. ASSUME NEW w \in Waits, Cancel(w) PROVE TypeOK'
  BY <1>15 DEF Cancel
<1>16. ASSUME NEW c \in Components, ComesUp(c) PROVE TypeOK'
  BY <1>16 DEF ComesUp
<1>17. ASSUME NEW c \in Components, GoesDown(c) PROVE TypeOK'
  BY <1>17 DEF GoesDown
<1>18. CASE SomebodyLogsIn
  BY <1>18 DEF SomebodyLogsIn
<1>19. CASE UNCHANGED vars
  BY <1>19 DEF vars
<1>. QED
  BY <1>1, <1>2, <1>3, <1>4, <1>5, <1>6, <1>7, <1>8, <1>9, <1>10, <1>11, <1>12,
    <1>13, <1>14, <1>15, <1>16, <1>17, <1>18, <1>19
  DEF Next, Prepare, InSession, Surroundings, AllEnded

\* Every reachable state of any number of waits is well typed.
THEOREM TypeCorrect == Spec => []TypeOK
  BY TypeInit, TypeStep, PTL DEF Spec

-----------------------------------------------------------------------------
(* A wait that nothing has disturbed is alone, and what it has seen up is   *)
(* still up.                                                                *)

\* Where a wait is on each variant, and what it is before its session.
PlaceInv ==
  \A w \in Waits :
    /\ pc[w] \in {"delete", "create", "remove"} => variant = "oss"
    /\ pc[w] = "ca" => variant = "ee"
    /\ pc[w] \notin {"session", "remove"} => stage[w] = 1 /\ ~ token[w]

\* What a wait has found up.
Seen(w) ==
  /\ token[w] => "login" \in up
  /\ pc[w] \in {"session", "remove"} /\ variant = "oss" => "auth" \in up
  /\ pc[w] = "session" =>
       \A k \in 1 .. Len(Stages(variant)) : k < stage[w] => Stages(variant)[k] \in up
  /\ pc[w] = "remove" => Range(Stages(variant)) \subseteq up

\* A wait that began when everything was up has nothing that it could fail of.
Favoured(w) ==
  /\ up = Components
  /\ pc[w] = "create" => Albert \notin users
  /\ pc[w] = "session" /\ variant = "oss" => Albert \in users

\* A wait that nothing has disturbed.
Undisturbed(w) ==
  /\ \A q \in Waits \ {w} : ~ Active(q)
  /\ Seen(w)
  /\ w \notin early => Favoured(w)

WaitInv == \A w \in Waits : Active(w) /\ w \notin shaken => Undisturbed(w)

LEMMA WaitInit ==
  ASSUME Init
  PROVE  PlaceInv /\ WaitInv /\ RunAgainWorks
  BY DEF Init, PlaceInv, WaitInv, RunAgainWorks, Active, Ended

LEMMA PlaceStep ==
  ASSUME TypeOK, PlaceInv, [Next]_vars
  PROVE  PlaceInv'
<1> USE DEF TypeOK, PlaceInv, Variants, Ended, At, Goto, End, cluster, session, history
<1>1. ASSUME NEW w \in Waits, Start(w) PROVE PlaceInv'
  BY <1>1 DEF Start
<1>2. ASSUME NEW w \in Waits, VariantKnown(w) PROVE PlaceInv'
  BY <1>2 DEF VariantKnown
<1>3. ASSUME NEW w \in Waits, VariantGivesUp(w) PROVE PlaceInv'
  BY <1>3 DEF VariantGivesUp
<1>4. ASSUME NEW w \in Waits, Poststart(w) PROVE PlaceInv'
  BY <1>4 DEF Poststart
<1>5. ASSUME NEW w \in Waits, DeleteUser(w) PROVE PlaceInv'
  BY <1>5 DEF DeleteUser
<1>6. ASSUME NEW w \in Waits, CreateUser(w) PROVE PlaceInv'
  BY <1>6 DEF CreateUser
<1>7. ASSUME NEW w \in Waits, UserCommandFails(w) PROVE PlaceInv'
  BY <1>7 DEF UserCommandFails
<1>8. ASSUME NEW w \in Waits, GetCaCert(w) PROVE PlaceInv'
  BY <1>8 DEF GetCaCert
<1>9. ASSUME NEW w \in Waits, Pass(w) PROVE PlaceInv'
  BY <1>9 DEF Pass
<1>10. ASSUME NEW w \in Waits, StageRetries(w) PROVE PlaceInv'
  BY <1>10 DEF StageRetries
<1>11. ASSUME NEW w \in Waits, StageGivesUp(w) PROVE PlaceInv'
  BY <1>11 DEF StageGivesUp
<1>12. ASSUME NEW w \in Waits, StageRaises(w) PROVE PlaceInv'
  BY <1>12 DEF StageRaises
<1>13. ASSUME NEW w \in Waits, RemoveUser(w) PROVE PlaceInv'
  BY <1>13 DEF RemoveUser
<1>14. ASSUME NEW w \in Waits, Alarm(w) PROVE PlaceInv'
  BY <1>14 DEF Alarm
<1>15. ASSUME NEW w \in Waits, Cancel(w) PROVE PlaceInv'
  BY <1>15 DEF Cancel
<1>16. ASSUME NEW c \in Components, ComesUp(c) PROVE PlaceInv'
  BY <1>16 DEF ComesUp
<1>17. ASSUME NEW c \in Components, GoesDown(c) PROVE PlaceInv'
  BY <1>17 DEF GoesDown
<1>18. CASE SomebodyLogsIn
  BY <1>18 DEF SomebodyLogsIn
<1>19. CASE UNCHANGED vars
  BY <1>19 DEF vars
<1>. QED
  BY <1>1, <1>2, <1>3, <1>4, <1>5, <1>6, <1>7, <1>8, <1>9, <1>10, <1>11, <1>12,
    <1>13, <1>14, <1>15, <1>16, <1>17, <1>18, <1>19
  DEF Next, Prepare, InSession, Surroundings, AllEnded

LEMMA WaitStep ==
  ASSUME TypeOK, PlaceInv, WaitInv, [Next]_vars
  PROVE  WaitInv'
<1> SUFFICES ASSUME NEW q \in Waits, Active(q)', q \notin shaken'
             PROVE  Undisturbed(q)'
  BY DEF WaitInv
<1>0. Len(Stages(variant)) \in Nat \ {0}
  BY StagesAreComponents DEF TypeOK
<1> USE <1>0 DEF TypeOK, PlaceInv, WaitInv, Undisturbed, Seen, Favoured, Active,
      Variants, Ended, Albert, Other, At, Goto, End, cluster, session, history
<1>1. ASSUME NEW w \in Waits, Start(w) PROVE Undisturbed(q)'
  <2>1. CASE w = q
    BY <1>1, <2>1 DEF Start
  <2>2. CASE w # q
    BY <1>1, <2>2 DEF Start
  <2>. QED
    BY <2>1, <2>2
<1>2. ASSUME NEW w \in Waits, VariantKnown(w) PROVE Undisturbed(q)'
  <2>1. CASE w = q
    BY <1>2, <2>1 DEF VariantKnown
  <2>2. CASE w # q
    BY <1>2, <2>2 DEF VariantKnown
  <2>. QED
    BY <2>1, <2>2
<1>3. ASSUME NEW w \in Waits, VariantGivesUp(w) PROVE Undisturbed(q)'
  <2>1. CASE w = q
    BY <1>3, <2>1 DEF VariantGivesUp
  <2>2. CASE w # q
    BY <1>3, <2>2 DEF VariantGivesUp
  <2>. QED
    BY <2>1, <2>2
<1>4. ASSUME NEW w \in Waits, Poststart(w) PROVE Undisturbed(q)'
  <2>1. CASE w = q
    BY <1>4, <2>1 DEF Poststart
  <2>2. CASE w # q
    BY <1>4, <2>2 DEF Poststart
  <2>. QED
    BY <2>1, <2>2
<1>5. ASSUME NEW w \in Waits, DeleteUser(w) PROVE Undisturbed(q)'
  <2>1. CASE w = q
    <3>1. pc[q] = "delete" /\ pc'[q] = "create" /\ stage' = stage /\ token' = token
      BY <1>5, <2>1 DEF DeleteUser
    <3>2. q \notin early => Albert \notin users'
      BY <1>5, <2>1, <3>1 DEF DeleteUser, Components
    <3>. QED
      BY <1>5, <2>1, <3>1, <3>2 DEF DeleteUser
  <2>2. CASE w # q
    BY <1>5, <2>2 DEF DeleteUser
  <2>. QED
    BY <2>1, <2>2
<1>6. ASSUME NEW w \in Waits, CreateUser(w) PROVE Undisturbed(q)'
  <2>1. CASE w = q
    BY <1>6, <2>1 DEF CreateUser
  <2>2. CASE w # q
    BY <1>6, <2>2 DEF CreateUser
  <2>. QED
    BY <2>1, <2>2
<1>7. ASSUME NEW w \in Waits, UserCommandFails(w) PROVE Undisturbed(q)'
  <2>1. CASE w = q
    BY <1>7, <2>1 DEF UserCommandFails
  <2>2. CASE w # q
    BY <1>7, <2>2 DEF UserCommandFails
  <2>. QED
    BY <2>1, <2>2
<1>8. ASSUME NEW w \in Waits, GetCaCert(w) PROVE Undisturbed(q)'
  <2>1. CASE w = q
    BY <1>8, <2>1 DEF GetCaCert
  <2>2. CASE w # q
    BY <1>8, <2>2 DEF GetCaCert
  <2>. QED
    BY <2>1, <2>2
<1>9. ASSUME NEW w \in Waits, Pass(w) PROVE Undisturbed(q)'
  <2>1. CASE w = q
    <3>1. /\ pc[q] = "session" /\ Answers(q) /\ up' = up /\ variant' = variant
          /\ Undisturbed(q) /\ early' = early
          /\ \A p \in Waits \ {q} : pc'[p] = pc[p]
      BY <1>9, <2>1 DEF Pass
    <3>2. Current(q) \in up
      BY <3>1 DEF Answers
    <3>3. Albert \in users => Albert \in users'
      BY <1>9, <2>1 DEF Pass
    <3>4. CASE stage[q] < Len(Stages(variant))
      <4>1. /\ stage'[q] = stage[q] + 1 /\ pc'[q] = pc[q]
            /\ token'[q] => token[q] \/ Current(q) = "login"
        BY <1>9, <2>1, <3>4 DEF Pass
      <4>2. \A k \in 1 .. Len(Stages(variant)) :
              k < stage[q] + 1 => Stages(variant)[k] \in up
        BY <3>1, <3>2 DEF Current
      <4>. QED
        BY <3>1, <3>2, <3>3, <4>1, <4>2
    <3>5. CASE ~ (stage[q] < Len(Stages(variant)))
      <4>1. /\ variant = "oss" /\ pc'[q] = "remove" /\ stage' = stage /\ token' = token
        BY <1>9, <2>1, <3>5 DEF Pass
      <4>2. \A k \in 1 .. Len(Stages(variant)) : Stages(variant)[k] \in up
        BY <3>1, <3>2, <3>5 DEF Current
      <4>3. Range(Stages(variant)) \subseteq up
        BY <4>2, StagesAreComponents DEF Range
      <4>. QED
        BY <3>1, <3>3, <4>1, <4>3
    <3>. QED
      BY <3>4, <3>5
  <2>2. CASE w # q
    BY <1>9, <2>2 DEF Pass
  <2>. QED
    BY <2>1, <2>2
<1>10. ASSUME NEW w \in Waits, StageRetries(w) PROVE Undisturbed(q)'
  <2>1. CASE w = q
    BY <1>10, <2>1 DEF StageRetries
  <2>2. CASE w # q
    BY <1>10, <2>2 DEF StageRetries
  <2>. QED
    BY <2>1, <2>2
<1>11. ASSUME NEW w \in Waits, StageGivesUp(w) PROVE Undisturbed(q)'
  <2>1. CASE w = q
    BY <1>11, <2>1 DEF StageGivesUp
  <2>2. CASE w # q
    BY <1>11, <2>2 DEF StageGivesUp
  <2>. QED
    BY <2>1, <2>2
<1>12. ASSUME NEW w \in Waits, StageRaises(w) PROVE Undisturbed(q)'
  <2>1. CASE w = q
    BY <1>12, <2>1 DEF StageRaises
  <2>2. CASE w # q
    BY <1>12, <2>2 DEF StageRaises
  <2>. QED
    BY <2>1, <2>2
<1>13. ASSUME NEW w \in Waits, RemoveUser(w) PROVE Undisturbed(q)'
  <2>1. CASE w = q
    BY <1>13, <2>1 DEF RemoveUser
  <2>2. CASE w # q
    BY <1>13, <2>2 DEF RemoveUser
  <2>. QED
    BY <2>1, <2>2
<1>14. ASSUME NEW w \in Waits, Alarm(w) PROVE Undisturbed(q)'
  <2>1. CASE w = q
    BY <1>14, <2>1 DEF Alarm
  <2>2. CASE w # q
    BY <1>14, <2>2 DEF Alarm
  <2>. QED
    BY <2>1, <2>2
<1>15. ASSUME NEW w \in Waits, Cancel(w) PROVE Undisturbed(q)'
  <2>1. CASE w = q
    BY <1>15, <2>1 DEF Cancel
  <2>2. CASE w # q
    BY <1>15, <2>2 DEF Cancel
  <2>. QED
    BY <2>1, <2>2
<1>16. ASSUME NEW c \in Components, ComesUp(c) PROVE Undisturbed(q)'
  BY <1>16 DEF ComesUp
<1>17. ASSUME NEW c \in Components, GoesDown(c) PROVE Undisturbed(q)'
  BY <1>17 DEF GoesDown
<1>18. CASE SomebodyLogsIn
  BY <1>18 DEF SomebodyLogsIn
<1>19. CASE UNCHANGED vars
  BY <1>19 DEF vars
<1>. QED
  BY <1>1, <1>2, <1>3, <1>4, <1>5, <1>6, <1>7, <1>8, <1>9, <1>10, <1>11, <1>12,
    <1>13, <1>14, <1>15, <1>16, <1>17, <1>18, <1>19
  DEF Next, Prepare, InSession, Surroundings, AllEnded

\* A wait on a cluster that is up has no stage to fail at, finds the user that
\* it needs and creates it without finding it there.
LEMMA FavouredDoesNotFail ==
  ASSUME TypeOK, PlaceInv, WaitInv, RunAgainWorks, [Next]_vars
  PROVE  RunAgainWorks'
<1> SUFFICES ASSUME NEW q \in Waits, q \notin early' \cup shaken'
             PROVE  pc'[q] \notin {"failed", "gaveUp"}
  BY DEF RunAgainWorks
<1> DEFINE Goal == pc'[q] \notin {"failed", "gaveUp"}
<1>0. ASSUME Active(q), q \notin early \cup shaken
      PROVE  Favoured(q) /\ (At(q, "session") => Answers(q))
  <2>1. Favoured(q)
    BY <1>0 DEF WaitInv, Undisturbed
  <2>2. ASSUME At(q, "session") PROVE Answers(q)
    <3>1. Current(q) \in Components
      BY StagesAreComponents DEF TypeOK, Current
    <3>. QED
      BY <2>1, <2>2, <3>1 DEF Answers, LoginWorks, Favoured, At, TypeOK, Variants,
        Components
  <2>. QED
    BY <2>1, <2>2
<1> USE <1>0 DEF TypeOK, RunAgainWorks, Active, Ended, At, Goto, End, cluster, session,
      history
<1>1. ASSUME NEW w \in Waits, Start(w) PROVE Goal
  BY <1>1 DEF Start
<1>2. ASSUME NEW w \in Waits, VariantKnown(w) PROVE Goal
  BY <1>2 DEF VariantKnown
<1>3. ASSUME NEW w \in Waits, VariantGivesUp(w) PROVE Goal
  BY <1>3 DEF VariantGivesUp, Favoured, Components
<1>4. ASSUME NEW w \in Waits, Poststart(w) PROVE Goal
  BY <1>4 DEF Poststart
<1>5. ASSUME NEW w \in Waits, DeleteUser(w) PROVE Goal
  BY <1>5 DEF DeleteUser
<1>6. ASSUME NEW w \in Waits, CreateUser(w) PROVE Goal
  BY <1>6 DEF CreateUser
<1>7. ASSUME NEW w \in Waits, UserCommandFails(w) PROVE Goal
  BY <1>7 DEF UserCommandFails, Favoured, Components
<1>8. ASSUME NEW w \in Waits, GetCaCert(w) PROVE Goal
  BY <1>8 DEF GetCaCert
<1>9. ASSUME NEW w \in Waits, Pass(w) PROVE Goal
  BY <1>9 DEF Pass
<1>10. ASSUME NEW w \in Waits, StageRetries(w) PROVE Goal
  BY <1>10 DEF StageRetries
<1>11. ASSUME NEW w \in Waits, StageGivesUp(w) PROVE Goal
  BY <1>11 DEF StageGivesUp, Favoured, Components
<1>12. ASSUME NEW w \in Waits, StageRaises(w) PROVE Goal
  BY <1>12 DEF StageRaises, Favoured, Components
<1>13. ASSUME NEW w \in Waits, RemoveUser(w) PROVE Goal
  BY <1>13 DEF RemoveUser
<1>14. ASSUME NEW w \in Waits, Alarm(w) PROVE Goal
  BY <1>14 DEF Alarm
<1>15. ASSUME NEW w \in Waits, Cancel(w) PROVE Goal
  BY <1>15 DEF Cancel
<1>16. ASSUME NEW c \in Components, ComesUp(c) PROVE Goal
  BY <1>16 DEF ComesUp
<1>17. ASSUME NEW c \in Components, GoesDown(c) PROVE Goal
  BY <1>17 DEF GoesDown
<1>18. CASE SomebodyLogsIn
  BY <1>18 DEF SomebodyLogsIn
<1>19. CASE UNCHANGED vars
  BY <1>19 DEF vars
<1>. QED
  BY <1>1, <1>2, <1>3, <1>4, <1>5, <1>6, <1>7, <1>8, <1>9, <1>10, <1>11, <1>12,
    <1>13, <1>14, <1>15, <1>16, <1>17, <1>18, <1>19
  DEF Next, Prepare, InSession, Surroundings, AllEnded

\* On a cluster that is up a wait that meets no other does not fail, whatever
\* waits before it, cancelled or not, have left behind.
THEOREM WaitsCanBeRepeated == Spec => []RunAgainWorks
<1> DEFINE Inv == TypeOK /\ PlaceInv /\ WaitInv /\ RunAgainWorks
<1>1. Init => Inv
  BY TypeInit, WaitInit
<1>2. Inv /\ [Next]_vars => Inv'
  BY TypeStep, PlaceStep, WaitStep, FavouredDoesNotFail
<1>. QED
  BY <1>1, <1>2, PTL DEF Spec

\* The step with which a wait succeeds.
LEMMA SuccessSeesAll ==
  ASSUME TypeOK, PlaceInv, WaitInv, [Next]_vars, NEW q \in Waits, Succeeds(q)
  PROVE  /\ Range(Stages(variant)) \subseteq up
         /\ variant = "oss" => Albert \notin users'
<1> DEFINE Goal == /\ Range(Stages(variant)) \subseteq up
                   /\ variant = "oss" => Albert \notin users'
<1>0. /\ pc[q] \in {"session", "remove"} /\ pc'[q] = "done"
      /\ Seen(q)
  BY DEF Succeeds, WaitInv, Undisturbed, Active, Ended
<1> USE <1>0 DEF TypeOK, PlaceInv, Seen, Ended, At, Goto, End, cluster, session, history
<1>1. ASSUME NEW w \in Waits, Start(w) PROVE Goal
  BY <1>1 DEF Start
<1>2. ASSUME NEW w \in Waits, VariantKnown(w) PROVE Goal
  BY <1>2 DEF VariantKnown
<1>3. ASSUME NEW w \in Waits, VariantGivesUp(w) PROVE Goal
  BY <1>3 DEF VariantGivesUp
<1>4. ASSUME NEW w \in Waits, Poststart(w) PROVE Goal
  BY <1>4 DEF Poststart
<1>5. ASSUME NEW w \in Waits, DeleteUser(w) PROVE Goal
  BY <1>5 DEF DeleteUser
<1>6. ASSUME NEW w \in Waits, CreateUser(w) PROVE Goal
  BY <1>6 DEF CreateUser
<1>7. ASSUME NEW w \in Waits, UserCommandFails(w) PROVE Goal
  BY <1>7 DEF UserCommandFails
<1>8. ASSUME NEW w \in Waits, GetCaCert(w) PROVE Goal
  BY <1>8 DEF GetCaCert
<1>9. ASSUME NEW w \in Waits, Pass(w) PROVE Goal
  <2>1. CASE w = q
    <3>1. variant = "ee" /\ ~ (stage[q] < Len(Stages(variant))) /\ Answers(q)
      BY <1>9, <2>1 DEF Pass, Variants
    <3>2. Current(q) \in up
      BY <1>9, <2>1, <3>1 DEF Answers, Pass
    <3>3. \A k \in 1 .. Len(Stages(variant)) : Stages(variant)[k] \in up
      BY <1>9, <2>1, <3>1, <3>2, StagesAreComponents DEF Current, Pass
    <3>4. Range(Stages(variant)) \subseteq up
      <4>1. DOMAIN Stages(variant) = 1 .. Len(Stages(variant))
        BY <3>1, StagesAreComponents
      <4>. QED
        BY <3>3, <4>1 DEF Range
    <3>. QED
      BY <3>1, <3>4
  <2>2. CASE w # q
    BY <1>9, <2>2 DEF Pass
  <2>. QED
    BY <2>1, <2>2
<1>10. ASSUME NEW w \in Waits, StageRetries(w) PROVE Goal
  BY <1>10 DEF StageRetries
<1>11. ASSUME NEW w \in Waits, StageGivesUp(w) PROVE Goal
  BY <1>11 DEF StageGivesUp
<1>12. ASSUME NEW w \in Waits, StageRaises(w) PROVE Goal
  BY <1>12 DEF StageRaises
<1>13. ASSUME NEW w \in Waits, RemoveUser(w) PROVE Goal
  BY <1>13 DEF RemoveUser
<1>14. ASSUME NEW w \in Waits, Alarm(w) PROVE Goal
  BY <1>14 DEF Alarm
<1>15. ASSUME NEW w \in Waits, Cancel(w) PROVE Goal
  BY <1>15 DEF Cancel
<1>16. ASSUME NEW c \in Components, ComesUp(c) PROVE Goal
  BY <1>16 DEF ComesUp
<1>17. ASSUME NEW c \in Components, GoesDown(c) PROVE Goal
  BY <1>17 DEF GoesDown
<1>18. CASE SomebodyLogsIn
  BY <1>18 DEF SomebodyLogsIn
<1>19. CASE UNCHANGED vars
  BY <1>19 DEF vars
<1>. QED
  BY <1>1, <1>2, <1>3, <1>4, <1>5, <1>6, <1>7, <1>8, <1>9, <1>10, <1>11, <1>12,
    <1>13, <1>14, <1>15, <1>16, <1>17, <1>18, <1>19
  DEF Next, Prepare, InSession, Surroundings, AllEnded

\* When a wait that nothing has disturbed succeeds, all that it asks for is up,
\* and no user is left that a wait has made.
THEOREM SuccessesAreWhole == Spec => SuccessIsWhole
<1> DEFINE Inv == TypeOK /\ PlaceInv /\ WaitInv
<1>1. Init => Inv
  BY TypeInit, WaitInit
<1>2. Inv /\ [Next]_vars => Inv'
  BY TypeStep, PlaceStep, WaitStep
<1>3. Inv /\ [Next]_vars =>
        [\A w \in Waits : Succeeds(w) =>
           /\ Range(Stages(variant)) \subseteq up
           /\ variant = "oss" => Albert \notin users']_vars
  BY SuccessSeesAll
<1>. QED
  BY <1>1, <1>2, <1>3, PTL DEF Spec, SuccessIsWhole

-----------------------------------------------------------------------------
(***************************************************************************)
(* RunSubprocess: however much the process writes and however the reads    *)
(* cut it, nothing is lost, torn, mixed or repeated.                       *)
(***************************************************************************)

-----------------------------------------------------------------------------
(* Sequences of bytes.                                                     *)

\* What is read from a pipe continues what was read before.
LEMMA ReadingContinues ==
  ASSUME NEW w \in Seq(Bytes), NEW t \in Seq(Bytes), IsPrefix(t, w),
         NEW n \in 0 .. Len(w) - Len(t), NEW d, d = SubSeq(w, Len(t) + 1, Len(t) + n)
  PROVE  /\ d \in Seq(Bytes) /\ t \o d \in Seq(Bytes)
         /\ IsPrefix(t \o d, w)
         /\ n = Len(w) - Len(t) => t \o d = w
<1>1. /\ Len(w) \in Nat /\ Len(t) \in Nat /\ Len(t) <= Len(w)
      /\ n \in Nat /\ Len(t) + n <= Len(w)
  BY LenProperties DEF IsPrefix
<1>2. d \in Seq(Bytes) /\ Len(d) = n
  <2>1. \A i \in Len(t) + 1 .. Len(t) + n : w[i] \in Bytes
    BY <1>1, ElementOfSeq
  <2>. QED
    BY <1>1, <2>1, SubSeqProperties
<1>3. t = SubSeq(w, 1, Len(t))
  <2>1. SubSeq(t, 1, Len(t)) = t
    BY SubSeqFull
  <2>. QED
    BY <2>1 DEF IsPrefix
<1>4. t \o d = SubSeq(w, 1, Len(t) + n)
  BY <1>1, <1>3, ConcatAdjacentSubSeq
<1>5. t \o d \in Seq(Bytes) /\ Len(t \o d) = Len(t) + n
  BY <1>2, ConcatProperties
<1>6. IsPrefix(t \o d, w)
  <2>1. SubSeq(t \o d, 1, Len(t \o d)) = t \o d
    BY <1>5, SubSeqFull
  <2>. QED
    BY <1>1, <1>4, <1>5, <2>1 DEF IsPrefix
<1>7. ASSUME n = Len(w) - Len(t) PROVE t \o d = w
  <2>1. Len(t) + n = Len(w)
    BY <1>1, <1>7
  <2>. QED
    BY <1>4, <2>1, SubSeqFull
<1>. QED
  BY <1>2, <1>5, <1>6, <1>7

\* What the process writes later does not change what has been read.
LEMMA WritingContinues ==
  ASSUME NEW w \in Seq(Bytes), NEW t \in Seq(Bytes), IsPrefix(t, w), NEW b \in Bytes
  PROVE  IsPrefix(t, Append(w, b))
<1>1. /\ Append(w, b) \in Seq(Bytes) /\ Len(Append(w, b)) = Len(w) + 1
      /\ \A i \in 1 .. Len(w) : Append(w, b)[i] = w[i]
  BY AppendProperties
<1>2. Len(w) \in Nat /\ Len(t) \in Nat /\ Len(t) <= Len(w)
  BY LenProperties DEF IsPrefix
<1>3. SubSeq(Append(w, b), 1, Len(t)) = SubSeq(w, 1, Len(t))
  BY <1>1, <1>2
<1>. QED
  BY <1>1, <1>2, <1>3 DEF IsPrefix

\* How three sequences are joined does not matter.
LEMMA Regroup ==
  ASSUME NEW a \in Seq(Bytes), NEW b \in Seq(Bytes), NEW c \in Seq(Bytes)
  PROVE  (a \o b) \o c = a \o (b \o c)
  BY ConcatAssociative

\* Two functions with the same values are the same.
LEMMA SameFunction ==
  ASSUME NEW S, NEW T, NEW f \in [S -> T], NEW g \in [S -> T],
         \A x \in S : f[x] = g[x]
  PROVE  f = g
  OBVIOUS

\* The line logger logs and keeps what it is given.
LEMMA LoggingKeeps ==
  ASSUME NEW s \in Streams, NEW data \in Seq(Bytes), log(s, data),
         buffer \in [Streams -> Seq(Bytes)], logged \in [Streams -> Seq(Bytes)]
  PROVE  /\ buffer' \in [Streams -> Seq(Bytes)] /\ logged' \in [Streams -> Seq(Bytes)]
         /\ \A q \in Streams \ {s} : logged'[q] = logged[q] /\ buffer'[q] = buffer[q]
         /\ logged'[s] \o buffer'[s] = (logged[s] \o buffer[s]) \o data
         /\ ~ Contains(buffer'[s], Newline)
<1> DEFINE bytes == buffer[s] \o data
<1>1. PICK n \in 0 .. Len(bytes) :
        /\ n > 0 => bytes[n] = Newline
        /\ \A i \in n + 1 .. Len(bytes) : bytes[i] # Newline
        /\ logged' = [logged EXCEPT ![s] = @ \o SubSeq(bytes, 1, n)]
        /\ buffer' = [buffer EXCEPT ![s] = SubSeq(bytes, n + 1, Len(bytes))]
  BY DEF log
<1>2. buffer[s] \in Seq(Bytes) /\ logged[s] \in Seq(Bytes)
  OBVIOUS
<1>3. bytes \in Seq(Bytes) /\ Len(bytes) \in Nat
  BY <1>2, ConcatProperties, LenProperties
<1>. HIDE DEF bytes
<1> DEFINE first == SubSeq(bytes, 1, n)
           last == SubSeq(bytes, n + 1, Len(bytes))
<1>4. /\ first \in Seq(Bytes)
      /\ last \in Seq(Bytes) /\ Len(last) = Len(bytes) - n
      /\ \A i \in 1 .. Len(bytes) - n : last[i] = bytes[n + i]
  <2>1. \A i \in 1 .. Len(bytes) : bytes[i] \in Bytes
    BY <1>3, ElementOfSeq
  <2>2. first \in Seq(Bytes)
    BY <1>3, <2>1, SubSeqProperties
  <2>3. /\ last \in Seq(Bytes)
        /\ Len(last) = IF n + 1 <= Len(bytes) THEN Len(bytes) - (n + 1) + 1 ELSE 0
        /\ \A i \in 1 .. Len(bytes) - (n + 1) + 1 : last[i] = bytes[(n + 1) + i - 1]
    BY <1>3, <2>1, SubSeqProperties
  <2>. QED
    BY <1>3, <2>2, <2>3
<1>5. first \o last = bytes
  <2>1. SubSeq(bytes, 1, n) \o SubSeq(bytes, n + 1, Len(bytes)) = SubSeq(bytes, 1, Len(bytes))
    <3>1. /\ 1 \in 1 .. Len(bytes) + 1 /\ n \in 1 - 1 .. Len(bytes)
          /\ Len(bytes) \in n .. Len(bytes)
      BY <1>3
    <3>. QED
      BY <1>3, <3>1, ConcatAdjacentSubSeq
  <2>. QED
    BY <1>3, <2>1, SubSeqFull
<1>6. ~ Contains(last, Newline)
  BY <1>1, <1>3, <1>4 DEF Contains
<1>. HIDE DEF first, last
<1>7. /\ logged' = [logged EXCEPT ![s] = logged[s] \o first]
      /\ buffer' = [buffer EXCEPT ![s] = last]
  BY <1>1 DEF first, last
<1>8. logged[s] \o first \in Seq(Bytes)
  BY <1>2, <1>4, ConcatProperties
<1>9. (logged[s] \o first) \o last = (logged[s] \o buffer[s]) \o data
  <2>1. (logged[s] \o first) \o last = logged[s] \o (first \o last)
    BY <1>2, <1>4, Regroup
  <2>2. logged[s] \o (buffer[s] \o data) = (logged[s] \o buffer[s]) \o data
    BY <1>2, Regroup
  <2>. QED
    BY <1>5, <2>1, <2>2 DEF bytes
<1>. QED
  BY <1>4, <1>6, <1>7, <1>8, <1>9
-----------------------------------------------------------------------------
(* Types.                                                                  *)

\* A call starts well typed.
LEMMA SubprocessTypeInit ==
  ASSUME SubprocessInit
  PROVE  SubprocessTypeOK
<1>1. <<>> \in Seq(Bytes) /\ Len(<<>>) = 0
  OBVIOUS
<1>2. IsPrefix(<<>>, <<>>)
  BY DEF IsPrefix
<1>3. /\ taken \in [Streams -> Seq(Bytes)]
      /\ buffer \in [Streams -> Seq(Bytes)] /\ logged \in [Streams -> Seq(Bytes)]
      /\ written \in [Streams -> Seq(Bytes)]
      /\ \A s \in Streams : taken[s] = <<>> /\ written[s] = <<>>
  BY <1>1 DEF SubprocessInit
<1>4. \A s \in Streams : IsPrefix(taken[s], written[s]) /\ Len(written[s]) <= MaxBytes
  BY <1>1, <1>2, <1>3, SubprocessAssumption
<1>5. /\ log_output_live \in BOOLEAN /\ pipe_output \in BOOLEAN /\ child = "running" /\ returncode = FALSE
      /\ step \in {"while", "flush"} /\ raised \in 0 .. MaxRaised
  BY SubprocessAssumption DEF SubprocessInit, arguments
<1>. QED
  BY <1>3, <1>4, <1>5 DEF SubprocessTypeOK

\* No more is read from a pipe than has been written to it.
LEMMA ReadIsWritten ==
  ASSUME SubprocessTypeOK, NEW s \in Streams
  PROVE  /\ written[s] \in Seq(Bytes) /\ taken[s] \in Seq(Bytes)
         /\ Len(written[s]) \in Nat /\ IsPrefix(taken[s], written[s])
         /\ Len(written[s]) - Len(taken[s]) \in 0 .. Len(written[s]) - Len(taken[s])
<1>1. /\ written[s] \in Seq(Bytes) /\ taken[s] \in Seq(Bytes)
      /\ IsPrefix(taken[s], written[s])
  BY DEF SubprocessTypeOK
<1>2. Len(written[s]) \in Nat /\ Len(taken[s]) \in Nat
  BY <1>1, LenProperties
<1>3. Len(taken[s]) <= Len(written[s])
  BY <1>1 DEF IsPrefix
<1>. QED
  BY <1>1, <1>2, <1>3

\* What a read from a pipe takes.
LEMMA TakeContinues ==
  ASSUME SubprocessTypeOK, NEW s \in Streams,
         NEW n \in 0 .. Len(written[s]) - Len(taken[s]), Take(s, n),
         UNCHANGED written
  PROVE  /\ taken' \in [Streams -> Seq(Bytes)]
         /\ buffer' \in [Streams -> Seq(Bytes)] /\ logged' \in [Streams -> Seq(Bytes)]
         /\ \A q \in Streams : IsPrefix(taken'[q], written'[q])
         /\ \A q \in Streams \ {s} :
              /\ taken'[q] = taken[q]
              /\ logged'[q] = logged[q] /\ buffer'[q] = buffer[q]
         /\ n = Len(written[s]) - Len(taken[s]) => taken'[s] = written[s]
         /\ log_output_live =>
              /\ ~ Contains(buffer'[s], Newline)
              /\ logged[s] \o buffer[s] = taken[s] =>
                   logged'[s] \o buffer'[s] = taken'[s]
<1> DEFINE data == SubSeq(written[s], Len(taken[s]) + 1, Len(taken[s]) + n)
<1>1. /\ written[s] \in Seq(Bytes) /\ taken[s] \in Seq(Bytes)
      /\ IsPrefix(taken[s], written[s])
      /\ buffer \in [Streams -> Seq(Bytes)] /\ logged \in [Streams -> Seq(Bytes)]
      /\ taken \in [Streams -> Seq(Bytes)]
  BY DEF SubprocessTypeOK
<1>2. /\ taken' = [taken EXCEPT ![s] = taken[s] \o data]
      /\ IF log_output_live THEN log(s, data) ELSE UNCHANGED loggers
  BY DEF Take
<1>. HIDE DEF data
<1>3. /\ data \in Seq(Bytes) /\ taken[s] \o data \in Seq(Bytes)
      /\ IsPrefix(taken[s] \o data, written[s])
      /\ n = Len(written[s]) - Len(taken[s]) => taken[s] \o data = written[s]
  BY <1>1, ReadingContinues DEF data
<1>4. /\ taken' \in [Streams -> Seq(Bytes)] /\ taken'[s] = taken[s] \o data
      /\ \A q \in Streams \ {s} : taken'[q] = taken[q]
  BY <1>1, <1>2, <1>3
<1>5. \A q \in Streams : IsPrefix(taken'[q], written'[q])
  BY <1>3, <1>4 DEF SubprocessTypeOK
<1>6. CASE log_output_live
  <2>1. log(s, data)
    BY <1>2, <1>6
  <2>2. /\ buffer' \in [Streams -> Seq(Bytes)] /\ logged' \in [Streams -> Seq(Bytes)]
        /\ \A q \in Streams \ {s} : logged'[q] = logged[q] /\ buffer'[q] = buffer[q]
        /\ logged'[s] \o buffer'[s] = (logged[s] \o buffer[s]) \o data
        /\ ~ Contains(buffer'[s], Newline)
    BY <1>1, <1>3, <2>1, LoggingKeeps
  <2>. QED
    BY <1>3, <1>4, <1>5, <2>2
<1>7. CASE ~ log_output_live
  BY <1>1, <1>2, <1>3, <1>4, <1>5, <1>7 DEF loggers
<1>. QED
  BY <1>6, <1>7

\* No step of the process or of its caller breaks a type.
LEMMA SubprocessTypeStep ==
  ASSUME SubprocessTypeOK, [SubprocessNext]_subprocess
  PROVE  SubprocessTypeOK'
<1>0. ASSUME NEW s \in Streams, NEW b \in Bytes, Write(s, b)
      PROVE  /\ Append(written[s], b) \in Seq(Bytes)
             /\ Len(Append(written[s], b)) <= MaxBytes
             /\ IsPrefix(taken[s], Append(written[s], b))
  <2>1. /\ written[s] \in Seq(Bytes) /\ taken[s] \in Seq(Bytes)
        /\ Len(written[s]) \in Nat /\ IsPrefix(taken[s], written[s])
    BY ReadIsWritten
  <2>2. /\ Append(written[s], b) \in Seq(Bytes)
        /\ Len(Append(written[s], b)) = Len(written[s]) + 1
        /\ IsPrefix(taken[s], Append(written[s], b))
    BY <2>1, AppendProperties, WritingContinues
  <2>3. Len(written[s]) < MaxBytes
    BY <1>0 DEF Write
  <2>. QED
    BY <2>1, <2>2, <2>3, SubprocessAssumption
<1>raises. ASSUME Raises PROVE raised' \in 0 .. MaxRaised
  <2>1. raised \in 0 .. MaxRaised
    BY DEF SubprocessTypeOK
  <2>2. raised < MaxRaised /\ raised' = raised + 1
    BY <1>raises DEF Raises
  <2>. QED
    BY <2>1, <2>2, SubprocessAssumption
<1> USE SubprocessAssumption DEF SubprocessTypeOK, arguments, Proceed
<1>1. ASSUME NEW s \in Streams, NEW b \in Bytes, Write(s, b)
      PROVE  SubprocessTypeOK'
  BY <1>0, <1>1 DEF Write, loggers
<1>2. CASE Exit
  BY <1>2 DEF Exit, loggers
<1>3. CASE While
  BY <1>3 DEF While, loggers
<1>4. ASSUME NEW s \in Streams, ReadSome(s) PROVE SubprocessTypeOK'
  <2>1. /\ taken' \in [Streams -> Seq(Bytes)]
         /\ buffer' \in [Streams -> Seq(Bytes)] /\ logged' \in [Streams -> Seq(Bytes)]
        /\ \A q \in Streams : IsPrefix(taken'[q], written'[q])
    BY <1>4, TakeContinues DEF ReadSome
  <2>2. step' \in {"stderr", "poll"}
    BY <1>4 DEF ReadSome, AfterReading, Streams
  <2>. QED
    BY <1>4, <2>1, <2>2 DEF ReadSome
<1>5. ASSUME NEW s \in Streams, ReadAll(s) PROVE SubprocessTypeOK'
  <2>1. Len(written[s]) - Len(taken[s]) \in 0 .. Len(written[s]) - Len(taken[s])
    BY ReadIsWritten
  <2>2. /\ taken' \in [Streams -> Seq(Bytes)]
         /\ buffer' \in [Streams -> Seq(Bytes)] /\ logged' \in [Streams -> Seq(Bytes)]
        /\ \A q \in Streams : IsPrefix(taken'[q], written'[q])
    BY <1>5, <2>1, TakeContinues DEF ReadAll
  <2>3. step' \in {"last stderr", "flush"}
    BY <1>5 DEF ReadAll, AfterReading, Streams
  <2>. QED
    BY <1>5, <2>2, <2>3 DEF ReadAll
<1>6. CASE PollAll
  BY <1>6 DEF PollAll, loggers
<1>7. CASE Flush
  <2>1. ASSUME NEW s \in Streams
        PROVE  Append(logged[s] \o buffer[s], Newline) \in Seq(Bytes)
    BY ConcatProperties, AppendProperties DEF Bytes
  <2>2. buffer' \in [Streams -> Seq(Bytes)] /\ logged' \in [Streams -> Seq(Bytes)]
    BY <1>7, <2>1 DEF Flush, flush
  <2>. QED
    BY <1>7, <2>2 DEF Flush
<1>8. CASE Wait
  BY <1>8 DEF Wait, loggers
<1>9. CASE Raises
  BY <1>raises, <1>9 DEF Raises, loggers
<1>10. CASE Terminate
  BY <1>10 DEF Terminate, loggers
<1>11. CASE UNCHANGED subprocess
  BY <1>11 DEF subprocess, loggers
<1>. QED
  BY <1>1, <1>2, <1>3, <1>4, <1>5, <1>6, <1>7, <1>8, <1>9, <1>10, <1>11
  DEF SubprocessNext, Caller, Over

\* Every reachable state of a call, whatever the process writes, is well typed;
\* what has been read is a beginning of what has been written.
THEOREM SubprocessTypeCorrect == SubprocessSpec => []SubprocessTypeOK
  BY SubprocessTypeInit, SubprocessTypeStep, PTL DEF SubprocessSpec

-----------------------------------------------------------------------------
(* What is read and logged.                                                *)

\* The pipes are read to their ends after the process has ended.
ReadInv ==
  /\ returncode => child = "ended"
  /\ step \in {"last stdout", "last stderr"} => child = "ended"
  /\ step = "last stderr" => taken["stdout"] = written["stdout"]
  /\ pipe_output /\ step \in {"flush", "wait", "done"} =>
       child = "ended" /\ \A s \in Streams : taken[s] = written[s]

\* What has been read is logged, or waits for the end of its line.
LogInv ==
  log_output_live =>
    \A s \in Streams :
      /\ step \notin {"wait", "done", "raised"} =>
           /\ logged[s] \o buffer[s] = taken[s]
           /\ ~ Contains(buffer[s], Newline)
      /\ step \in {"wait", "done"} =>
           /\ buffer[s] = <<>>
           /\ logged[s] \in {taken[s], Append(taken[s], Newline)}

\* Reading to the end comes after the end of the process.
LEMMA ReadStep ==
  ASSUME SubprocessTypeOK, ReadInv, [SubprocessNext]_subprocess
  PROVE  ReadInv'
<1> USE DEF ReadInv, arguments, Proceed
<1>1. ASSUME NEW s \in Streams, NEW b \in Bytes, Write(s, b) PROVE ReadInv'
  BY <1>1 DEF Write
<1>2. CASE Exit
  BY <1>2 DEF Exit
<1>3. CASE While
  BY <1>3 DEF While
<1>4. ASSUME NEW s \in Streams, ReadSome(s) PROVE ReadInv'
  BY <1>4 DEF ReadSome, AfterReading, Streams
<1>5. ASSUME NEW s \in Streams, ReadAll(s) PROVE ReadInv'
  <2>1. Len(written[s]) - Len(taken[s]) \in 0 .. Len(written[s]) - Len(taken[s])
    BY ReadIsWritten
  <2>2. /\ taken' \in [Streams -> Seq(Bytes)] /\ taken'[s] = written[s]
        /\ \A q \in Streams \ {s} : taken'[q] = taken[q]
    BY <1>5, <2>1, TakeContinues DEF ReadAll
  <2>3. CASE s = "stdout"
    BY <1>5, <2>2, <2>3 DEF ReadAll, AfterReading
  <2>4. CASE s = "stderr"
    <3>1. taken'["stdout"] = written["stdout"] /\ taken'["stderr"] = written["stderr"]
      BY <1>5, <2>2, <2>4 DEF ReadAll, Streams
    <3>2. \A q \in Streams : taken'[q] = written[q]
      BY <3>1 DEF Streams
    <3>. QED
      BY <1>5, <2>4, <3>2 DEF ReadAll, AfterReading
  <2>. QED
    BY <2>3, <2>4 DEF Streams
<1>6. CASE PollAll
  BY <1>6 DEF PollAll
<1>7. CASE Flush
  BY <1>7 DEF Flush
<1>8. CASE Wait
  BY <1>8 DEF Wait
<1>9. CASE Raises
  BY <1>9 DEF Raises
<1>10. CASE Terminate
  BY <1>10 DEF Terminate
<1>11. CASE UNCHANGED subprocess
  BY <1>11 DEF subprocess
<1>. QED
  BY <1>1, <1>2, <1>3, <1>4, <1>5, <1>6, <1>7, <1>8, <1>9, <1>10, <1>11
  DEF SubprocessNext, Caller, Over

\* No step tears, loses or repeats what has been read.
LEMMA LogStep ==
  ASSUME SubprocessTypeOK, LogInv, [SubprocessNext]_subprocess
  PROVE  LogInv'
<1> USE DEF LogInv, arguments, Proceed, loggers
<1>1. ASSUME NEW s \in Streams, NEW b \in Bytes, Write(s, b) PROVE LogInv'
  BY <1>1 DEF Write
<1>2. CASE Exit
  BY <1>2 DEF Exit
<1>3. CASE While
  BY <1>3 DEF While
<1>4. ASSUME NEW s \in Streams, ReadSome(s) PROVE LogInv'
  <2>1. /\ \A q \in Streams \ {s} :
              /\ taken'[q] = taken[q]
              /\ logged'[q] = logged[q] /\ buffer'[q] = buffer[q]
        /\ log_output_live =>
              /\ ~ Contains(buffer'[s], Newline)
              /\ logged[s] \o buffer[s] = taken[s] =>
                   logged'[s] \o buffer'[s] = taken'[s]
    BY <1>4, TakeContinues DEF ReadSome
  <2>2. /\ step \in Streams /\ step' \in {"stderr", "poll"}
        /\ log_output_live' = log_output_live
    BY <1>4 DEF ReadSome, AfterReading, Streams
  <2>. QED
    BY <2>1, <2>2 DEF Streams
<1>5. ASSUME NEW s \in Streams, ReadAll(s) PROVE LogInv'
  <2>0. Len(written[s]) - Len(taken[s]) \in 0 .. Len(written[s]) - Len(taken[s])
    BY ReadIsWritten
  <2>1. /\ \A q \in Streams \ {s} :
              /\ taken'[q] = taken[q]
              /\ logged'[q] = logged[q] /\ buffer'[q] = buffer[q]
        /\ log_output_live =>
              /\ ~ Contains(buffer'[s], Newline)
              /\ logged[s] \o buffer[s] = taken[s] =>
                   logged'[s] \o buffer'[s] = taken'[s]
    BY <1>5, <2>0, TakeContinues DEF ReadAll
  <2>2. /\ step \in {"last stdout", "last stderr"} /\ step' \in {"last stderr", "flush"}
        /\ log_output_live' = log_output_live
    BY <1>5 DEF ReadAll, AfterReading, Streams
  <2>. QED
    BY <2>1, <2>2
<1>6. CASE PollAll
  BY <1>6 DEF PollAll
<1>7. CASE Flush
  <2>1. SUFFICES ASSUME log_output_live, NEW s \in Streams
                 PROVE  /\ buffer'[s] = <<>>
                        /\ logged'[s] \in {taken[s], Append(taken[s], Newline)}
    BY <1>7 DEF Flush
  <2>2. logged[s] \o buffer[s] = taken[s] /\ logged[s] \in Seq(Bytes)
    BY <1>7, <2>1 DEF Flush, SubprocessTypeOK
  <2>3. buffer[s] = <<>> => logged[s] = taken[s]
    BY <2>2, ConcatEmptySeq
  <2>4. /\ buffer'[s] = <<>>
        /\ logged'[s] = IF buffer[s] = <<>> THEN logged[s]
                                            ELSE Append(logged[s] \o buffer[s], Newline)
    BY <1>7 DEF Flush, flush
  <2>. QED
    BY <2>2, <2>3, <2>4
<1>8. CASE Wait
  BY <1>8 DEF Wait
<1>9. CASE Raises
  BY <1>9 DEF Raises
<1>10. CASE Terminate
  BY <1>10 DEF Terminate
<1>11. CASE UNCHANGED subprocess
  BY <1>11 DEF subprocess
<1>. QED
  BY <1>1, <1>2, <1>3, <1>4, <1>5, <1>6, <1>7, <1>8, <1>9, <1>10, <1>11
  DEF SubprocessNext, Caller, Over

\* However much the process writes, and however the reads cut it, nothing is
\* lost, torn, mixed or repeated on its way to the caller and to the log.
THEOREM OutputIsNotLost == SubprocessSpec => []NothingLost
<1> DEFINE Inv == SubprocessTypeOK /\ ReadInv /\ LogInv
<1>1. SubprocessInit => ReadInv /\ LogInv
  <2>1. <<>> \o <<>> = <<>> /\ ~ Contains(<<>>, Newline)
    BY DEF Contains
  <2>. QED
    BY <2>1 DEF SubprocessInit, ReadInv, LogInv
<1>2. Inv /\ [SubprocessNext]_subprocess => Inv'
  BY SubprocessTypeStep, ReadStep, LogStep
<1>3. Inv => NothingLost
  <2> SUFFICES ASSUME Inv PROVE NothingLost
    OBVIOUS
  <2>1. ASSUME step = "done", pipe_output PROVE taken = written
    <3>1. \A s \in Streams : taken[s] = written[s]
      BY <2>1 DEF ReadInv
    <3>2. taken \in [Streams -> Seq(Bytes)] /\ written \in [Streams -> Seq(Bytes)]
      BY DEF SubprocessTypeOK
    <3>. QED
      BY <3>1, <3>2, SameFunction
  <2>. QED
    BY <2>1 DEF LogInv, NothingLost, OutputIsWhole, LogFollowsOutput, LogIsWhole
<1>. QED
  BY <1>1, <1>2, <1>3, SubprocessTypeInit, PTL DEF SubprocessSpec

-----------------------------------------------------------------------------
(***************************************************************************)
(* Doctor: on a host with any problems, and with any calls failing, the    *)
(* doctor names what it looks for and leaves nothing running.              *)
(***************************************************************************)

-----------------------------------------------------------------------------
(* The checks of a doctor.                                                 *)

\* The lengths of the three lists.
LEMMA HowManyChecks ==
  ASSUME NEW c \in Commands
  PROVE  Len(check_functions(c)) = (CASE c = "docker"  -> 14
                                      [] c = "vagrant" -> 7
                                      [] c = "aws"     -> 1)
<1>1. /\ Len(docker_checks) = 14 /\ Len(vagrant_checks) = 7 /\ Len(aws_checks) = 1
  BY DEF docker_checks, vagrant_checks, aws_checks
<1>. QED
  BY <1>1 DEF check_functions, Commands

\* The checks that rely on an earlier one come after it.
LEMMA ChecksAreOrdered ==
  ASSUME NEW c \in Commands, NEW k \in 1 .. Len(check_functions(c))
  PROVE  LET cf == check_functions(c)
         IN  /\ cf[k] \in {"plugins_installed", "plugin_versions"} =>
                  \E j \in 1 .. k - 1 : cf[j] = "vagrant"
             /\ cf[k] = "plugin_versions" => \E j \in 1 .. k - 1 : cf[j] = "plugins_installed"
             /\ cf[k] = "can_mount" => \E j \in 1 .. k - 1 : cf[j] = "can_build"
<1>1. CASE c = "docker"
  <2>1. docker_checks[13] = "can_build"
    BY DEF docker_checks
  <2>2. \A j \in 1 .. 14 :
          /\ docker_checks[j] \notin {"plugins_installed", "plugin_versions"}
          /\ docker_checks[j] = "can_mount" => j = 14
    BY DEF docker_checks
  <2>3. Len(check_functions(c)) = 14 /\ check_functions(c) = docker_checks
    BY <1>1, HowManyChecks DEF check_functions
  <2>4. 13 \in 1 .. 14 - 1
    OBVIOUS
  <2>. QED
    BY <2>1, <2>2, <2>3, <2>4
<1>2. CASE c = "vagrant"
  <2>1. vagrant_checks[4] = "vagrant" /\ vagrant_checks[5] = "plugins_installed"
    BY DEF vagrant_checks
  <2>2. \A j \in 1 .. 7 :
          /\ vagrant_checks[j] = "plugins_installed" => j = 5
          /\ vagrant_checks[j] = "plugin_versions" => j = 6
          /\ vagrant_checks[j] # "can_mount"
    BY DEF vagrant_checks
  <2>3. Len(check_functions(c)) = 7 /\ check_functions(c) = vagrant_checks
    BY <1>2, HowManyChecks DEF check_functions
  <2>. QED
    BY <2>1, <2>2, <2>3
<1>3. CASE c = "aws"
  <2>1. aws_checks[1] = "ssh"
    BY DEF aws_checks
  <2>. QED
    BY <1>3, <2>1, HowManyChecks DEF check_functions
<1>. QED
  BY <1>1, <1>2, <1>3 DEF Commands

\* A check, and a problem that it tells of whenever the host has it.
Tells ==
  {<<"root_free_space", "docker">>, <<"root_free_space", "rootspace">>,
   <<"supports_mounts", "mounts">>, <<"mount_var", "var">>, <<"mount_tmp", "tmp">>,
   <<"networking", "network">>, <<"storage_driver", "driver">>,
   <<"tmp_free_space", "tmpspace">>, <<"systemd", "systemd">>,
   <<"can_build", "build">>, <<"can_mount", "nested">>,
   <<"docker", "docker">>, <<"sed", "sed">>, <<"ssh", "ssh">>,
   <<"vagrant", "vagrant">>, <<"plugins_installed", "vbguest">>,
   <<"plugin_versions", "vbguestold">>, <<"virtualbox", "virtualbox">>}

\* Those on which later checks rely.
Fatal ==
  {<<"vagrant", "vagrant">>, <<"plugins_installed", "vbguest">>, <<"can_build", "build">>}

\* Every problem that a doctor looks for has a check in its list.
LEMMA EveryProblemHasItsCheck ==
  ASSUME NEW c \in Commands, NEW p \in LookedFor(c) \ {"selinux"}
  PROVE  \E k \in 1 .. Len(check_functions(c)) : <<check_functions(c)[k], p>> \in Tells
<1>1. CASE c = "docker"
  <2>1. /\ docker_checks[1] = "root_free_space" /\ docker_checks[2] = "supports_mounts"
        /\ docker_checks[3] = "mount_var" /\ docker_checks[5] = "mount_tmp"
        /\ docker_checks[6] = "networking" /\ docker_checks[8] = "ssh"
        /\ docker_checks[9] = "storage_driver" /\ docker_checks[10] = "tmp_free_space"
        /\ docker_checks[11] = "sed" /\ docker_checks[12] = "systemd"
        /\ docker_checks[13] = "can_build" /\ docker_checks[14] = "can_mount"
    BY DEF docker_checks
  <2>2. /\ 1 \in 1 .. 14 /\ 2 \in 1 .. 14 /\ 3 \in 1 .. 14 /\ 5 \in 1 .. 14
        /\ 6 \in 1 .. 14 /\ 8 \in 1 .. 14 /\ 9 \in 1 .. 14 /\ 10 \in 1 .. 14
        /\ 11 \in 1 .. 14 /\ 12 \in 1 .. 14 /\ 13 \in 1 .. 14 /\ 14 \in 1 .. 14
    OBVIOUS
  <2>3. \E k \in 1 .. 14 : <<docker_checks[k], p>> \in Tells
    BY <1>1, <2>1, <2>2 DEF LookedFor, Tells
  <2>. QED
    BY <1>1, <2>3, HowManyChecks DEF check_functions
<1>2. CASE c = "vagrant"
  <2>1. /\ vagrant_checks[1] = "docker" /\ vagrant_checks[2] = "sed"
        /\ vagrant_checks[3] = "ssh" /\ vagrant_checks[4] = "vagrant"
        /\ vagrant_checks[5] = "plugins_installed"
        /\ vagrant_checks[6] = "plugin_versions" /\ vagrant_checks[7] = "virtualbox"
    BY DEF vagrant_checks
  <2>2. \E k \in 1 .. 7 : <<vagrant_checks[k], p>> \in Tells
    BY <1>2, <2>1 DEF LookedFor, Tells
  <2>. QED
    BY <1>2, <2>2, HowManyChecks DEF check_functions
<1>3. CASE c = "aws"
  <2>1. aws_checks[1] = "ssh"
    BY DEF aws_checks
  <2>. QED
    BY <1>3, <2>1, HowManyChecks DEF check_functions, LookedFor, Tells
<1>. QED
  BY <1>1, <1>2, <1>3 DEF Commands

-----------------------------------------------------------------------------
(* Findings.                                                               *)

\* What a check that looks for one problem returns.
LEMMA FindingIs ==
  ASSUME NEW level \in CheckLevels, NEW problem \in Problems
  PROVE  LET finding == Finding(level, problem)
         IN  /\ finding \in Findings /\ finding # Unknown
             /\ problem \in wrong => finding[1] = level /\ finding[2] = problem
             /\ finding # Nothing => finding[1] = level
             /\ Nothing \in Findings /\ Nothing # Unknown /\ Nothing[1] = "none"
             /\ <<level, problem>> \in Findings /\ <<level, problem>> # Unknown
  BY DEF Finding, Findings, Nothing, Unknown, CheckLevels, Problems

\* The two findings that name no problem.
LEMMA NothingIs ==
  /\ Nothing \in Findings /\ Unknown \in Findings
  /\ Nothing # Unknown /\ Nothing[1] = "none" /\ Unknown[1] = "error"
  BY DEF Findings, Nothing, Unknown, CheckLevels

-----------------------------------------------------------------------------
(* Types, and what is left on the host.                                    *)

\* The container of a check is what the check's next call makes of it.
ContainerInv ==
  /\ phase \in {"look", "stop"} => container = "running"
  /\ phase = "remove" => container = "stopped"

\* Without an unknown error only a container that was never started stays.
LeftInv == Unknown \in said \/ left \subseteq {"created"}

\* All that Return and Raise change keeps its type.
LEMMA ReturnType ==
  ASSUME DoctorTypeOK, NEW finding \in Findings, Return(finding)
  PROVE  /\ at' \in 1 .. Len(check_functions(command))
         /\ phase' = "call" /\ found' \in Findings
         /\ said \subseteq said' /\ said' \in SUBSET Findings /\ exit' \in {"none", "0", "1"}
<1>1. Len(check_functions(command)) \in Nat
  BY HowManyChecks DEF DoctorTypeOK, Commands
<1>. QED
  BY <1>1, NothingIs DEF DoctorTypeOK, Return

LEMMA RaiseType ==
  ASSUME DoctorTypeOK, NEW told \in SUBSET Findings,
         NEW remains \in SUBSET {"created", "running", "stopped", "nodes"},
         Raise(told, remains)
  PROVE  /\ at' \in 1 .. Len(check_functions(command))
         /\ phase' = "call" /\ found' \in Findings /\ container' = "none"
         /\ left' \in SUBSET {"created", "running", "stopped", "nodes"}
         /\ said' \in SUBSET Findings /\ Unknown \in said' /\ exit' = "1"
  BY NothingIs DEF DoctorTypeOK, Raise

\* The part of the invariant that any check can break.
Tidy == DoctorTypeOK /\ ContainerInv /\ LeftInv

\* A check that returns, and one that raises, leave the host tidy.
LEMMA TidyReturn ==
  ASSUME Tidy, NEW finding \in Findings, Return(finding), UNCHANGED host,
         faults' \in 0 .. MaxFaults, container' \in {"none", container},
         left' \in {left, left \cup {"created"}}
  PROVE  Tidy'
<1>1. /\ at' \in 1 .. Len(check_functions(command))
      /\ phase' = "call" /\ found' \in Findings
      /\ said \subseteq said' /\ said' \in SUBSET Findings /\ exit' \in {"none", "0", "1"}
  BY ReturnType DEF Tidy
<1>. QED
  BY <1>1 DEF Tidy, DoctorTypeOK, ContainerInv, LeftInv, host

LEMMA TidyRaise ==
  ASSUME Tidy, NEW told \in SUBSET Findings,
         NEW remains \in SUBSET {"created", "running", "stopped", "nodes"},
         Raise(told, remains), UNCHANGED host, faults' \in 0 .. MaxFaults
  PROVE  Tidy'
<1>1. /\ at' \in 1 .. Len(check_functions(command))
      /\ phase' = "call" /\ found' \in Findings /\ container' = "none"
      /\ left' \in SUBSET {"created", "running", "stopped", "nodes"}
      /\ said' \in SUBSET Findings /\ Unknown \in said' /\ exit' = "1"
  BY RaiseType DEF Tidy
<1>. QED
  BY <1>1 DEF Tidy, DoctorTypeOK, ContainerInv, LeftInv, host

\* One lemma for each group of actions.
LEMMA TidyInit ==
  ASSUME DoctorInit
  PROVE  Tidy
<1>1. Len(check_functions(command)) \in Nat \ {0}
  <2>1. command \in Commands
    BY DEF DoctorInit
  <2>2. Len(check_functions(command)) \in {14, 7, 1}
    BY <2>1, HowManyChecks DEF Commands
  <2>. QED
    BY <2>2
<1>. QED
  BY <1>1, DoctorAssumption, NothingIs
  DEF DoctorInit, Tidy, DoctorTypeOK, ContainerInv, LeftInv

LEMMA TidyLooking ==
  ASSUME Tidy, LookingChecks
  PROVE  Tidy'
<1>1. ASSUME NEW c, NEW finding \in Findings, Direct(c, finding) PROVE Tidy'
  BY <1>1, TidyReturn DEF Direct, Tidy, DoctorTypeOK
<1>2. ASSUME NEW c, NEW needed, NEW finding \in Findings, CheckPlugin(c, needed, finding)
      PROVE  Tidy'
  <2>1. UNCHANGED host /\ faults' \in 0 .. MaxFaults
    BY <1>2 DEF CheckPlugin, Tidy, DoctorTypeOK
  <2>2. CASE Raise({}, {})
    BY <2>1, <2>2, TidyRaise
  <2>3. CASE Return(finding) /\ UNCHANGED <<container, left>>
    BY <2>1, <2>3, TidyReturn
  <2>. QED
    BY <1>2, <2>2, <2>3 DEF CheckPlugin
<1>3. /\ \A level \in CheckLevels, problem \in Problems : Finding(level, problem) \in Findings
      /\ Nothing \in Findings /\ <<"error", "selinux">> \in Findings
  <2>1. "selinux" \in Problems /\ "error" \in CheckLevels
    BY DEF Problems, CheckLevels
  <2>. QED
    BY <2>1, FindingIs, NothingIs
<1>4. {"ssh", "sed", "tmpspace", "docker", "vagrant", "virtualbox", "vbguest", "vbguestold"}
        \subseteq Problems /\ {"error", "warning"} \subseteq CheckLevels
  BY DEF Problems, CheckLevels
<1>5. CASE check_ssh \/ check_1_9_sed \/ check_tmp_free_space
  BY <1>1, <1>3, <1>4, <1>5 DEF check_ssh, check_1_9_sed, check_tmp_free_space
<1>6. CASE check_memory \/ check_selinux
  BY <1>1, <1>3, <1>6 DEF check_memory, check_selinux
<1>7. CASE check_docker \/ check_vagrant \/ check_virtualbox
  BY <1>1, <1>3, <1>4, <1>7 DEF check_docker, check_vagrant, check_virtualbox
<1>8. CASE check_vagrant_plugins_installed \/ check_vagrant_plugin_versions
  BY <1>2, <1>3, <1>4, <1>8
  DEF check_vagrant_plugins_installed, check_vagrant_plugin_versions
<1>. QED
  BY <1>5, <1>6, <1>7, <1>8 DEF LookingChecks

LEMMA TidyDocker ==
  ASSUME Tidy, DockerChecks
  PROVE  Tidy'
<1>0. /\ Nothing \in Findings /\ Unknown \in Findings
      /\ \A level \in CheckLevels, problem \in Problems :
           Finding(level, problem) \in Findings /\ <<level, problem>> \in Findings
  BY FindingIs, NothingIs
<1>1. {"mounts", "var", "tmp", "systemd", "docker", "rootspace", "driver", "network"}
        \subseteq Problems /\ {"error", "warning"} \subseteq CheckLevels
  BY DEF Problems, CheckLevels
<1>2. CASE docker_client
  <2>1. <<"error", "docker">> \in Findings
    BY <1>0, <1>1
  <2>. QED
    BY <1>2, <2>1 DEF docker_client, Tidy, DoctorTypeOK, ContainerInv, LeftInv, host
<1>3. CASE RunContainer
  BY <1>3 DEF RunContainer, Continue, Tidy, DoctorTypeOK, ContainerInv, LeftInv, host, outcome
<1>4. CASE check_docker_supports_mounts
  <2>1. <<"error", "mounts">> \in Findings
    BY <1>0, <1>1
  <2>. QED
    BY <1>4, <2>1, TidyReturn DEF check_docker_supports_mounts, Tidy, DoctorTypeOK
<1>5. CASE check_mount_var
  <2>1. <<"error", "var">> \in Findings
    BY <1>0, <1>1
  <2>. QED
    BY <1>5, <2>1, TidyReturn
    DEF check_mount_var, StartOrCreateRefused, Tidy, DoctorTypeOK
<1>6. CASE check_systemd
  <2>1. <<"warning", "systemd">> \in Findings
    BY <1>0, <1>1
  <2>. QED
    BY <1>6, <2>1, TidyReturn
    DEF check_systemd, StartOrCreateRefused, Tidy, DoctorTypeOK
<1>7. CASE check_mount_tmp
  <2>1. {{}, {<<"error", "tmp">>}} \subseteq SUBSET Findings
    BY <1>0, <1>1
  <2>2. PICK told \in {{}, {<<"error", "tmp">>}}, remains \in {{}, {"created"}} :
          Raise(told, remains)
    BY <1>7 DEF check_mount_tmp
  <2>3. UNCHANGED host /\ faults' \in 0 .. MaxFaults
    BY <1>7 DEF check_mount_tmp, Tidy, DoctorTypeOK
  <2>. QED
    BY <2>1, <2>2, <2>3, TidyRaise
<1>8. ASSUME NEW finding \in Findings, Look(finding), said' \in SUBSET Findings,
             said \subseteq said', phase = "look"
      PROVE  Tidy'
  BY <1>8 DEF Look, Tidy, DoctorTypeOK, ContainerInv, LeftInv, host
<1>9. CASE check_docker_root_free_space \/ check_storage_driver
  <2>1. said \in SUBSET Findings
    BY DEF Tidy, DoctorTypeOK
  <2>. QED
    BY <1>0, <1>1, <1>8, <1>9, <2>1
    DEF check_docker_root_free_space, check_storage_driver, Looks
<1>10. CASE check_networking
  <2>1. said \in SUBSET Findings /\ Finding("warning", "network") \in Findings
    BY <1>0, <1>1 DEF Tidy, DoctorTypeOK
  <2>. QED
    BY <1>8, <1>10, <2>1 DEF check_networking, Looks
<1>11. CASE NoPing
  <2>1. {container} \in SUBSET {"created", "running", "stopped", "nodes"}
    BY <1>11 DEF NoPing, Looks, Tidy, ContainerInv
  <2>. QED
    BY <1>11, <2>1, TidyRaise DEF NoPing, Tidy, DoctorTypeOK
<1>12. CASE StopContainer
  BY <1>12 DEF StopContainer, Continue, Tidy, DoctorTypeOK, ContainerInv, LeftInv, host, outcome
<1>13. CASE RemoveContainer
  BY <1>13, TidyReturn DEF RemoveContainer, Tidy, DoctorTypeOK
<1>. QED
  BY <1>2, <1>3, <1>4, <1>5, <1>6, <1>7, <1>9, <1>10, <1>11, <1>12, <1>13
  DEF DockerChecks

LEMMA TidyCluster ==
  ASSUME Tidy, ClusterSteps
  PROVE  Tidy'
<1>0. /\ \A level \in CheckLevels, problem \in Problems :
           Finding(level, problem) \in Findings /\ <<level, problem>> \in Findings
      /\ {"build", "nested"} \subseteq Problems /\ {"error", "warning"} \subseteq CheckLevels
  BY FindingIs DEF Problems, CheckLevels
<1>1. CASE CreateCluster
  BY <1>1 DEF CreateCluster, Continue, Tidy, DoctorTypeOK, ContainerInv, LeftInv, host, outcome
<1>2. CASE check_can_build
  <2>1. <<"error", "build">> \in Findings
    BY <1>0
  <2>2. UNCHANGED host /\ faults' \in 0 .. MaxFaults
    BY <1>2 DEF check_can_build, Tidy, DoctorTypeOK
  <2>3. CASE Return(<<"error", "build">>) /\ UNCHANGED <<container, left>>
    BY <2>1, <2>2, <2>3, TidyReturn
  <2>4. CASE Raise({}, {})
    BY <2>2, <2>4, TidyRaise
  <2>. QED
    BY <1>2, <2>3, <2>4 DEF check_can_build
<1>3. CASE AgentRefused
  <2>1. UNCHANGED host /\ faults' \in 0 .. MaxFaults /\ Raise({}, {"nodes"})
    BY <1>3 DEF AgentRefused, Tidy, DoctorTypeOK
  <2>. QED
    BY <2>1, TidyRaise
<1>4. CASE check_can_mount_in_docker
  <2>1. Finding("warning", "nested") \in Findings
    BY <1>0
  <2>. QED
    BY <1>4, <2>1
    DEF check_can_mount_in_docker, Tidy, DoctorTypeOK, ContainerInv, LeftInv, host
<1>5. CASE LeaveCluster
  <2>1. UNCHANGED host /\ faults' \in 0 .. MaxFaults /\ container' = "none" /\ found \in Findings
    BY <1>5 DEF LeaveCluster, Tidy, DoctorTypeOK
  <2>2. CASE Raise({}, {})
    BY <2>1, <2>2, TidyRaise
  <2>3. CASE Return(found) /\ UNCHANGED left
    BY <2>1, <2>3, TidyReturn
  <2>. QED
    BY <1>5, <2>2, <2>3 DEF LeaveCluster
<1>. QED
  BY <1>1, <1>2, <1>3, <1>4, <1>5 DEF ClusterSteps

LEMMA TidyFailures ==
  ASSUME Tidy, Failures
  PROVE  Tidy'
<1>0. UNCHANGED host /\ faults' \in 0 .. MaxFaults
  BY DoctorAssumption
  DEF Failures, RunFails, CommandFails, CallFails, RunRaises, Fault, Tidy, DoctorTypeOK
<1>1. ASSUME NEW remains \in SUBSET {"created", "running", "stopped", "nodes"},
             Raise({}, remains)
      PROVE  Tidy'
  BY <1>0, <1>1, TidyRaise
<1>2. CASE RunFails
  BY <1>1, <1>2 DEF RunFails
<1>3. CASE CommandFails
  BY <1>1, <1>3 DEF CommandFails
<1>4. CASE CallFails
  <2>1. phase \in {"look", "stop", "remove"} => container \in {"running", "stopped"}
    BY DEF Tidy, ContainerInv
  <2>. QED
    BY <1>1, <1>4, <2>1 DEF CallFails
<1>5. CASE RunRaises
  BY <1>0, <1>5, NothingIs
  DEF RunRaises, Tidy, DoctorTypeOK, ContainerInv, LeftInv, host, outcome
<1>. QED
  BY <1>2, <1>3, <1>4, <1>5 DEF Failures

LEMMA TidyStep ==
  ASSUME Tidy, [DoctorNext]_doctor
  PROVE  Tidy'
<1>1. CASE UNCHANGED doctor
  BY <1>1 DEF doctor, host, outcome, Tidy, DoctorTypeOK, ContainerInv, LeftInv
<1>. QED
  BY <1>1, TidyLooking, TidyDocker, TidyCluster, TidyFailures DEF DoctorNext, Exited

\* Every reachable state of a doctor, on any host, is well typed.
THEOREM DoctorTypeCorrect == DoctorSpec => []DoctorTypeOK
<1>1. Tidy => DoctorTypeOK
  BY DEF Tidy
<1>. QED
  BY <1>1, TidyInit, TidyStep, PTL DEF DoctorSpec

\* Whatever the host's problems, and whichever check ends the doctor, it leaves
\* no container running and no node unless it told of an unknown error.
THEOREM NothingIsLeftRunning == DoctorSpec => []LeavesNothingRunning
<1>1. Tidy => LeavesNothingRunning
  BY DEF Tidy, LeftInv, LeavesNothingRunning
<1>. QED
  BY <1>1, TidyInit, TidyStep, PTL DEF DoctorSpec

-----------------------------------------------------------------------------
(* What the user is told.                                                  *)

\* A check of this doctor has ended without an error.
Passed(c) ==
  \E k \in 1 .. Len(check_functions(command)) :
    check_functions(command)[k] = c /\ (k < at \/ exit = "0")

\* What a check has in hand between its calls.
CheckInv ==
  /\ phase = "look" => ThisCheck \in ContainerChecks \ MountChecks
  /\ phase \in {"stop", "remove"} => ThisCheck \in ContainerChecks
  /\ phase = "run" => ThisCheck = "can_mount"
  /\ phase = "leave" => ThisCheck \in ClusterChecks
  /\ phase # "call" => "docker" \notin wrong
  /\ phase = "leave" => "build" \notin wrong
  /\ (phase \in {"stop", "remove"} \/ (phase = "leave" /\ found # Unknown)) =>
       \A p \in wrong : <<ThisCheck, p>> \in Tells => found[2] = p
  /\ found = Unknown => phase = "leave" /\ faults > 0

\* The user knows of each problem that a check which has ended looks for, and a
\* check on which later ones rely has ended only if they can.
ToldInv ==
  exit # "1" =>
    \A p \in wrong, c \in {t[1] : t \in Tells} : Passed(c) =>
      /\ <<c, p>> \in Tells => \E m \in said : m[2] = p
      /\ <<c, p>> \notin Fatal

\* The user is told of an error when the doctor fails and not before.
ErrorInv == (exit = "1") <=> \E m \in said : m[1] = "error"

TellInv == CheckInv /\ ToldInv /\ ErrorInv /\ UnknownHasCause

\* A check that returns has told of what it looks for.
LEMMA ReturnTells ==
  ASSUME DoctorTypeOK, TellInv, exit = "none", UNCHANGED <<host, faults>>,
         NEW finding \in Findings \ {Unknown}, Return(finding),
         \A p \in wrong : <<ThisCheck, p>> \in Tells => finding[2] = p,
         \A p \in wrong : <<ThisCheck, p>> \in Fatal => finding[1] = "error"
  PROVE  TellInv'
<1>0. at \in 1 .. Len(check_functions(command)) /\ Len(check_functions(command)) \in Nat
  BY HowManyChecks DEF DoctorTypeOK, Commands
<1>1. command' = command /\ wrong' = wrong /\ faults' = faults
  BY DEF host
<1>2. /\ said' = said \cup ({finding} \ {Nothing})
      /\ phase' = "call" /\ found' = Nothing
      /\ finding[1] = "error" => exit' = "1"
      /\ finding[1] # "error" => exit' # "1"
  BY DEF Return
<1>3. CheckInv'
  BY <1>2, NothingIs DEF CheckInv
<1>4. ErrorInv'
  BY <1>2, NothingIs DEF TellInv, ErrorInv
<1>5. UnknownHasCause'
  BY <1>1, <1>2 DEF TellInv, UnknownHasCause
<1>6. ASSUME exit' # "1", NEW c, Passed(c)'
      PROVE  Passed(c) \/ c = ThisCheck
  <2>1. PICK k \in 1 .. Len(check_functions(command)) :
          check_functions(command)[k] = c /\ (k < at' \/ exit' = "0")
    BY <1>1, <1>6 DEF Passed
  <2>2. k < at \/ k = at
    <3>1. finding[1] # "error"
      BY <1>2, <1>6
    <3>. QED
      BY <1>0, <2>1, <3>1 DEF Return
  <2>. QED
    BY <2>1, <2>2 DEF Passed, ThisCheck
<1>7. ToldInv'
  <2>1. SUFFICES ASSUME exit' # "1", NEW p \in wrong, NEW c \in {t[1] : t \in Tells}, Passed(c)'
                 PROVE  /\ <<c, p>> \in Tells => \E m \in said' : m[2] = p
                        /\ <<c, p>> \notin Fatal
    BY <1>1 DEF ToldInv
  <2>2. CASE Passed(c)
    BY <1>2, <2>1, <2>2 DEF TellInv, ToldInv
  <2>3. CASE c = ThisCheck
    <3>1. <<c, p>> \notin Fatal
      BY <1>2, <2>1, <2>3
    <3>2. ASSUME <<c, p>> \in Tells PROVE finding \in said' /\ finding[2] = p
      <4>1. finding[2] = p
        BY <2>3, <3>2
      <4>2. p \in Problems
        BY DEF DoctorTypeOK
      <4>3. finding # Nothing
        BY <4>1, <4>2 DEF Nothing, Problems
      <4>. QED
        BY <1>2, <4>1, <4>3
    <3>. QED
      BY <3>1, <3>2
  <2>. QED
    BY <1>6, <2>1, <2>2, <2>3
<1>. QED
  BY <1>3, <1>4, <1>5, <1>7 DEF TellInv

\* A check that raises tells of an unknown error, and has a cause.
LEMMA RaiseTells ==
  ASSUME TellInv, NEW told, NEW remains, Raise(told, remains), UNCHANGED host,
         faults' > 0 \/ {"noping", "tmp", "cgroup"} \cap wrong # {}
  PROVE  TellInv'
<1>1. Unknown \in said' /\ exit' = "1" /\ found' = Nothing /\ phase' = "call" /\ wrong' = wrong
  BY DEF Raise, host
<1>. QED
  BY <1>1, NothingIs DEF TellInv, CheckInv, ToldInv, ErrorInv, UnknownHasCause

\* A call inside of a check.
LEMMA OnwardTells ==
  ASSUME DoctorTypeOK, TellInv, exit = "none", UNCHANGED <<host, at, exit>>,
         faults' \in {faults, faults + 1},
         NEW note, note[1] # "error", said' \in {said, said \cup {note}}, CheckInv'
  PROVE  TellInv'
<1>1. /\ command' = command /\ wrong' = wrong
      /\ \A c : Passed(c)' <=> Passed(c)
  BY DEF host, Passed
<1>2. ToldInv'
  BY <1>1 DEF TellInv, ToldInv
<1>3. ErrorInv'
  BY DEF TellInv, ErrorInv
<1>4. UnknownHasCause'
  <2>1. Unknown \in said' => Unknown \in said
    BY NothingIs
  <2>2. faults \in Nat /\ (faults > 0 => faults' > 0)
    BY DoctorAssumption DEF DoctorTypeOK
  <2>. QED
    BY <1>1, <2>1, <2>2 DEF TellInv, UnknownHasCause
<1>. QED
  BY <1>2, <1>3, <1>4 DEF TellInv

\* Before the first check nothing is told.
LEMMA TellInit ==
  ASSUME DoctorInit
  PROVE  TellInv
<1>1. \A c : ~ Passed(c)
  <2>1. at = 1 /\ exit = "none" /\ command \in Commands
    BY DEF DoctorInit
  <2>2. Len(check_functions(command)) \in {14, 7, 1}
    BY <2>1, HowManyChecks DEF Commands
  <2>. QED
    BY <2>1, <2>2 DEF Passed
<1>. QED
  BY <1>1, NothingIs DEF DoctorInit, TellInv, CheckInv, ToldInv, ErrorInv, UnknownHasCause

\* An earlier check on which this one relies has found nothing wrong.
LEMMA EarlierPassed ==
  ASSUME DoctorTypeOK, TellInv, exit = "none"
  PROVE  /\ ThisCheck \in {"plugins_installed", "plugin_versions"} => "vagrant" \notin wrong
         /\ ThisCheck = "plugin_versions" => "vbguest" \notin wrong
         /\ ThisCheck = "can_mount" => "build" \notin wrong
<1>0. /\ at \in 1 .. Len(check_functions(command)) /\ command \in Commands
      /\ Len(check_functions(command)) \in Nat
  BY HowManyChecks DEF DoctorTypeOK, Commands
<1>1. ASSUME NEW j \in 1 .. at - 1, NEW c, check_functions(command)[j] = c
      PROVE  Passed(c)
  BY <1>0, <1>1 DEF Passed
<1>2. /\ ThisCheck \in {"plugins_installed", "plugin_versions"} => Passed("vagrant")
      /\ ThisCheck = "plugin_versions" => Passed("plugins_installed")
      /\ ThisCheck = "can_mount" => Passed("can_build")
  BY <1>0, <1>1, ChecksAreOrdered DEF ThisCheck
<1>3. ASSUME NEW p \in wrong, NEW c, <<c, p>> \in Fatal PROVE ~ Passed(c)
  <2>1. c \in {t[1] : t \in Tells}
    <3>1. <<c, p>> \in Tells
      BY <1>3 DEF Fatal, Tells
    <3>. QED
      BY <3>1
  <2>. QED
    BY <1>3, <2>1 DEF TellInv, ToldInv
<1>. QED
  BY <1>2, <1>3 DEF Fatal

\* One lemma for each group of actions.
LEMMA TellLooking ==
  ASSUME DoctorTypeOK, TellInv, LookingChecks
  PROVE  TellInv'
<1>1. ASSUME NEW c, NEW finding \in Findings \ {Unknown},
             Calling(c), Return(finding), UNCHANGED <<host, faults>>,
             \A p \in wrong : <<c, p>> \in Tells => finding[2] = p,
             \A p \in wrong : <<c, p>> \in Fatal => finding[1] = "error"
      PROVE  TellInv'
  BY <1>1, ReturnTells DEF Calling
<1>2. /\ Nothing \in Findings \ {Unknown}
      /\ \A level \in CheckLevels, problem \in Problems :
           /\ Finding(level, problem) \in Findings \ {Unknown}
           /\ problem \in wrong =>
                Finding(level, problem)[1] = level /\ Finding(level, problem)[2] = problem
  BY FindingIs, NothingIs
<1>3. {"ssh", "sed", "tmpspace", "docker", "vagrant", "virtualbox", "vbguest", "vbguestold"}
        \subseteq Problems /\ {"error", "warning"} \subseteq CheckLevels
  BY DEF Problems, CheckLevels
<1>4. CASE check_ssh \/ check_1_9_sed \/ check_tmp_free_space
  BY <1>1, <1>2, <1>3, <1>4
  DEF check_ssh, check_1_9_sed, check_tmp_free_space, Direct, Tells, Fatal
<1>5. CASE check_memory
  BY <1>1, <1>2, <1>5 DEF check_memory, Direct, Tells, Fatal
<1>6. CASE check_selinux
  <2>1. Return(Nothing)
    BY <1>6 DEF check_selinux, Direct, Enforcing
  <2>. QED
    BY <1>1, <1>2, <1>6, <2>1 DEF check_selinux, Direct, Tells, Fatal
<1>7. CASE check_docker \/ check_vagrant \/ check_virtualbox
  BY <1>1, <1>2, <1>3, <1>7
  DEF check_docker, check_vagrant, check_virtualbox, Direct, Tells, Fatal
<1>8. CASE check_vagrant_plugins_installed
  <2>1. {"vagrant"} \cap wrong = {}
    BY <1>8, EarlierPassed DEF check_vagrant_plugins_installed, CheckPlugin, Calling
  <2>. QED
    BY <1>1, <1>2, <1>3, <1>8, <2>1
    DEF check_vagrant_plugins_installed, CheckPlugin, Tells, Fatal
<1>9. CASE check_vagrant_plugin_versions
  <2>1. {"vagrant", "vbguest"} \cap wrong = {}
    BY <1>9, EarlierPassed DEF check_vagrant_plugin_versions, CheckPlugin, Calling
  <2>. QED
    BY <1>1, <1>2, <1>3, <1>9, <2>1
    DEF check_vagrant_plugin_versions, CheckPlugin, Tells, Fatal
<1>. QED
  BY <1>4, <1>5, <1>6, <1>7, <1>8, <1>9 DEF LookingChecks

LEMMA TellDocker ==
  ASSUME DoctorTypeOK, TellInv, DockerChecks
  PROVE  TellInv'
<1>0. {"mounts", "var", "tmp", "systemd", "docker", "rootspace", "driver", "network"}
        \subseteq Problems /\ {"error", "warning"} \subseteq CheckLevels
  BY DEF Problems, CheckLevels
<1>1. /\ Nothing \in Findings \ {Unknown} /\ Nothing[1] = "none"
      /\ \A level \in CheckLevels, problem \in Problems :
           LET finding == Finding(level, problem)
           IN  /\ finding # Unknown
               /\ problem \in wrong => finding[2] = problem
               /\ finding # Nothing => finding[1] = level
               /\ <<level, problem>> \in Findings \ {Unknown}
  BY FindingIs, NothingIs
<1>2. CASE docker_client
  <2>1. /\ said' = said \cup {<<"error", "docker">>} /\ exit' = "1" /\ UNCHANGED <<host, faults>>
        /\ found' = found /\ phase' = "call" /\ phase = "call"
    BY <1>2 DEF docker_client, Calling
  <2>2. <<"error", "docker">> # Unknown /\ <<"error", "docker">>[1] = "error"
    BY <1>0, <1>1
  <2>. QED
    BY <2>1, <2>2 DEF TellInv, CheckInv, ToldInv, ErrorInv, UnknownHasCause, host
<1>3. ASSUME NEW c, Calling(c), NEW finding \in Findings \ {Unknown}, Return(finding),
             UNCHANGED <<host, faults>>,
             \A p \in wrong : <<c, p>> \in Tells => finding[2] = p,
             \A p : <<c, p>> \notin Fatal
      PROVE  TellInv'
  BY <1>3, ReturnTells DEF Calling
<1>4. CASE check_docker_supports_mounts
  BY <1>0, <1>1, <1>3, <1>4 DEF check_docker_supports_mounts, Tells, Fatal
<1>5. CASE check_mount_var
  BY <1>0, <1>1, <1>3, <1>5 DEF check_mount_var, Tells, Fatal
<1>6. CASE check_systemd
  BY <1>0, <1>1, <1>3, <1>6 DEF check_systemd, Tells, Fatal
<1>7. CASE check_mount_tmp
  BY <1>7, RaiseTells DEF check_mount_tmp
<1>8. CASE NoPing
  BY <1>8, RaiseTells DEF NoPing
<1>9. ASSUME exit = "none", UNCHANGED <<host, at, exit, faults>>,
             NEW note, note[1] # "error", said' \in {said, said \cup {note}}, CheckInv'
      PROVE  TellInv'
  BY <1>9, OnwardTells
<1>10. CASE RunContainer
  <2>1. PICK c \in ContainerChecks :
          /\ Calling(c) /\ "docker" \notin wrong /\ Refusing(c) \notin wrong
          /\ Continue(IF c \in MountChecks THEN "stop" ELSE "look")
          /\ UNCHANGED <<host, left, faults>>
    BY <1>10 DEF RunContainer
  <2>2. ThisCheck = c /\ ThisCheck' = c /\ found' = found /\ found # Unknown /\ wrong' = wrong
    BY <2>1 DEF Calling, Continue, ThisCheck, host, outcome, TellInv, CheckInv
  <2>3. c \in MountChecks => \A p \in wrong : <<c, p>> \notin Tells
    BY <2>1 DEF Refusing, MountChecks, Tells
  <2>4. CheckInv'
    BY <2>1, <2>2, <2>3 DEF CheckInv, Continue
  <2>. QED
    BY <1>1, <1>9, <2>1, <2>4 DEF Calling, Continue, outcome
<1>11. ASSUME NEW c \in ContainerChecks, Looks(c),
              NEW level \in CheckLevels, NEW problem \in Problems,
              Look(Finding(level, problem)),
              \A p : <<c, p>> \in Tells => p \in {"docker", problem}
       PROVE  CheckInv' /\ UNCHANGED <<host, at, exit, faults>> /\ exit = "none"
  <2>1. ThisCheck = c /\ ThisCheck' = c /\ "docker" \notin wrong /\ wrong' = wrong
    BY <1>11 DEF Looks, Look, ThisCheck, host, TellInv, CheckInv
  <2>2. /\ found' # Unknown /\ phase' = "stop"
        /\ \A p \in wrong : <<c, p>> \in Tells => found'[2] = p
    <3>1. found' = Finding(level, problem) /\ phase' = "stop"
      BY <1>11 DEF Look
    <3>2. found' # Unknown /\ (problem \in wrong => found'[2] = problem)
      BY <1>1, <3>1
    <3>. QED
      BY <1>11, <2>1, <3>1, <3>2
  <2>. QED
    BY <1>11, <2>1, <2>2 DEF CheckInv, Looks, Look
<1>tells. /\ \A p : <<"root_free_space", p>> \in Tells => p \in {"docker", "rootspace"}
          /\ \A p : <<"storage_driver", p>> \in Tells => p = "driver"
          /\ \A p : <<"networking", p>> \in Tells => p = "network"
          /\ {"root_free_space", "storage_driver", "networking"} \subseteq ContainerChecks
  BY DEF Tells, ContainerChecks
<1>12. CASE check_docker_root_free_space
  <2>1. CheckInv' /\ UNCHANGED <<host, at, exit, faults>> /\ exit = "none"
    BY <1>0, <1>11, <1>tells, <1>12 DEF check_docker_root_free_space
  <2>. QED
    BY <1>1, <1>9, <1>12, <2>1 DEF check_docker_root_free_space
<1>13. CASE check_storage_driver
  <2>1. CheckInv' /\ UNCHANGED <<host, at, exit, faults>> /\ exit = "none"
    <3>1. PICK level \in {"error", "warning"} : Look(Finding(level, "driver"))
      BY <1>13 DEF check_storage_driver
    <3>. QED
      BY <1>0, <1>11, <1>tells, <1>13, <3>1 DEF check_storage_driver
  <2>. QED
    BY <1>1, <1>9, <1>13, <2>1 DEF check_storage_driver
<1>14. CASE check_networking
  <2>1. CheckInv' /\ UNCHANGED <<host, at, exit, faults>> /\ exit = "none"
    BY <1>0, <1>11, <1>tells, <1>14 DEF check_networking
  <2>2. CASE Finding("warning", "network") = Nothing
    BY <1>1, <1>9, <1>14, <2>1, <2>2 DEF check_networking
  <2>3. CASE Finding("warning", "network") # Nothing
    <3>1. Finding("warning", "network")[1] # "error"
      BY <1>0, <1>1, <2>3
    <3>. QED
      BY <1>9, <1>14, <2>1, <2>3, <3>1 DEF check_networking
  <2>. QED
    BY <2>2, <2>3
<1>15. CASE StopContainer
  <2>1. /\ ThisCheck' = ThisCheck /\ wrong' = wrong /\ found' = found /\ phase' = "remove"
        /\ phase = "stop"
    BY <1>15 DEF StopContainer, Continue, ThisCheck, host, outcome
  <2>2. CheckInv'
    BY <2>1 DEF TellInv, CheckInv
  <2>. QED
    BY <1>1, <1>9, <1>15, <2>2 DEF StopContainer, Continue, outcome
<1>16. CASE RemoveContainer
  <2>1. /\ found \in Findings \ {Unknown} /\ ThisCheck \in ContainerChecks
        /\ \A p \in wrong : <<ThisCheck, p>> \in Tells => found[2] = p
    BY <1>16 DEF RemoveContainer, DoctorTypeOK, TellInv, CheckInv
  <2>2. \A p : <<ThisCheck, p>> \notin Fatal
    BY <2>1 DEF ContainerChecks, Fatal
  <2>. QED
    BY <1>16, <2>1, <2>2, ReturnTells DEF RemoveContainer
<1>. QED
  BY <1>2, <1>4, <1>5, <1>6, <1>7, <1>8, <1>10, <1>12, <1>13, <1>14, <1>15, <1>16
  DEF DockerChecks

LEMMA TellCluster ==
  ASSUME DoctorTypeOK, TellInv, ClusterSteps
  PROVE  TellInv'
<1>0. /\ Nothing[1] = "none" /\ <<"error", "build">> \in Findings \ {Unknown}
      /\ LET finding == Finding("warning", "nested")
         IN  /\ finding # Unknown
             /\ "nested" \in wrong => finding[2] = "nested"
             /\ finding # Nothing => finding[1] = "warning"
  BY FindingIs, NothingIs DEF CheckLevels, Problems
<1>1. CASE CreateCluster
  <2>1. PICK c \in ClusterChecks :
          /\ Calling(c) /\ {"docker", "build", "cgroup"} \cap wrong = {}
          /\ Continue(IF c = "can_build" THEN "leave" ELSE "run")
          /\ UNCHANGED <<host, left, faults>>
    BY <1>1 DEF CreateCluster
  <2>2. ThisCheck' = c /\ found' = found /\ found # Unknown /\ wrong' = wrong
    BY <2>1 DEF Calling, Continue, ThisCheck, host, outcome, TellInv, CheckInv
  <2>3. \A p \in wrong : <<"can_build", p>> \notin Tells
    BY <2>1 DEF Tells
  <2>4. CheckInv'
    BY <2>1, <2>2, <2>3 DEF CheckInv, Continue, ClusterChecks
  <2>5. said' \in {said, said \cup {Nothing}} /\ UNCHANGED <<host, at, exit>> /\ exit = "none"
    BY <2>1 DEF Continue, outcome, Calling
  <2>6. faults' \in {faults, faults + 1}
    BY <2>1
  <2>. QED
    BY <1>0, <2>4, <2>5, <2>6, OnwardTells
<1>2. CASE check_can_build
  <2>1. PICK c \in ClusterChecks :
          /\ Calling(c) /\ {"docker", "build"} \cap wrong = {"build"}
          /\ IF c = "can_build"
               THEN Return(<<"error", "build">>) /\ UNCHANGED <<container, left>>
               ELSE Raise({}, {})
          /\ UNCHANGED <<host, faults>>
    BY <1>2 DEF check_can_build
  <2>2. c = "can_build"
    BY <2>1, EarlierPassed DEF Calling, ClusterChecks
  <2>3. \A p : <<"can_build", p>> \in Tells => p = "build"
    BY DEF Tells
  <2>. QED
    BY <1>0, <2>1, <2>2, <2>3, ReturnTells DEF Calling
<1>3. CASE AgentRefused
  BY <1>3, RaiseTells DEF AgentRefused
<1>4. CASE check_can_mount_in_docker
  <2>0. phase = "run" /\ ThisCheck = "can_mount" /\ exit = "none"
    BY <1>4 DEF check_can_mount_in_docker, TellInv, CheckInv
  <2>1. ThisCheck' = "can_mount" /\ UNCHANGED <<wrong, host, at, exit, faults>>
    BY <1>4, <2>0 DEF check_can_mount_in_docker, ThisCheck, host
  <2>2. "build" \notin wrong /\ "docker" \notin wrong
    BY <2>0, EarlierPassed DEF TellInv, CheckInv
  <2>3. \A p : <<"can_mount", p>> \in Tells => p = "nested"
    BY DEF Tells
  <2>4. CheckInv'
    BY <1>0, <1>4, <2>1, <2>2, <2>3 DEF check_can_mount_in_docker, CheckInv, ClusterChecks
  <2>5. CASE Finding("warning", "nested") = Nothing
    <3>1. said' \in {said, said \cup {Nothing}}
      BY <1>4, <2>5 DEF check_can_mount_in_docker
    <3>. QED
      BY <1>0, <2>0, <2>1, <2>4, <3>1, OnwardTells
  <2>6. CASE Finding("warning", "nested") # Nothing
    <3>1. said' = said \cup {Finding("warning", "nested")}
      BY <1>4, <2>6 DEF check_can_mount_in_docker
    <3>. QED
      BY <1>0, <2>0, <2>1, <2>4, <2>6, <3>1, OnwardTells
  <2>. QED
    BY <2>5, <2>6
<1>5. CASE LeaveCluster
  <2>1. /\ exit = "none" /\ UNCHANGED <<host, faults>> /\ phase = "leave"
        /\ "build" \notin wrong /\ ThisCheck \in ClusterChecks /\ found \in Findings
    BY <1>5 DEF LeaveCluster, TellInv, CheckInv, DoctorTypeOK
  <2>2. CASE found = Unknown
    <3>1. Raise({}, {}) /\ faults' > 0
      BY <1>5, <2>1, <2>2 DEF LeaveCluster, TellInv, CheckInv
    <3>. QED
      BY <2>1, <3>1, RaiseTells
  <2>3. CASE found # Unknown
    <3>1. \A p \in wrong : <<ThisCheck, p>> \in Tells => found[2] = p
      BY <2>1, <2>3 DEF TellInv, CheckInv
    <3>2. \A p \in wrong : <<ThisCheck, p>> \notin Fatal
      BY <2>1 DEF Fatal, ClusterChecks
    <3>. QED
      BY <1>5, <2>1, <2>3, <3>1, <3>2, ReturnTells DEF LeaveCluster
  <2>. QED
    BY <2>2, <2>3
<1>. QED
  BY <1>1, <1>2, <1>3, <1>4, <1>5 DEF ClusterSteps

LEMMA TellFailures ==
  ASSUME DoctorTypeOK, TellInv, Failures
  PROVE  TellInv'
<1>1. faults' = faults + 1 /\ faults' > 0 /\ UNCHANGED host
  BY DoctorAssumption
  DEF Failures, RunFails, CommandFails, CallFails, RunRaises, Fault, DoctorTypeOK
<1>2. ASSUME NEW remains, Raise({}, remains) PROVE TellInv'
  BY <1>1, <1>2, RaiseTells
<1>3. CASE RunFails
  BY <1>2, <1>3 DEF RunFails
<1>4. CASE CommandFails
  BY <1>2, <1>4 DEF CommandFails
<1>5. CASE CallFails
  BY <1>2, <1>5 DEF CallFails
<1>6. CASE RunRaises
  <2>0. phase = "run" /\ ThisCheck = "can_mount" /\ exit = "none"
    BY <1>6 DEF RunRaises, TellInv, CheckInv
  <2>1. ThisCheck' = "can_mount" /\ UNCHANGED <<wrong, host, at, exit, said>>
    BY <1>1, <1>6, <2>0 DEF RunRaises, ThisCheck, host, outcome
  <2>2. "build" \notin wrong /\ "docker" \notin wrong
    BY <2>0, EarlierPassed DEF TellInv, CheckInv
  <2>3. CheckInv'
    BY <1>1, <1>6, <2>1, <2>2 DEF RunRaises, CheckInv, ClusterChecks
  <2>. QED
    BY <1>1, <2>0, <2>1, <2>3, NothingIs, OnwardTells
<1>. QED
  BY <1>3, <1>4, <1>5, <1>6 DEF Failures

LEMMA TellStep ==
  ASSUME DoctorTypeOK, TellInv, [DoctorNext]_doctor
  PROVE  TellInv'
<1>1. CASE UNCHANGED doctor
  BY <1>1
  DEF doctor, host, outcome, TellInv, CheckInv, ToldInv, ErrorInv, UnknownHasCause,
      Passed, ThisCheck
<1>. QED
  BY <1>1, TellLooking, TellDocker, TellCluster, TellFailures DEF DoctorNext, Exited

\* On every host: a doctor that succeeds has named every problem it looks for,
\* it fails exactly when it has told of an error, and it tells of an unknown one
\* only after a call that failed or on a host without ping, /tmp or /sys/fs/cgroup.
THEOREM DoctorTells == DoctorSpec => []TellsWhatIsWrong
<1> DEFINE Inv == Tidy /\ TellInv
<1>1. Inv /\ [DoctorNext]_doctor => Inv'
  BY TidyStep, TellStep DEF Tidy
<1>2. Inv => TellsWhatIsWrong
  <2> SUFFICES ASSUME Inv PROVE TellsWhatIsWrong
    OBVIOUS
  <2>1. ASSUME exit = "0", NEW p \in wrong \cap (LookedFor(command) \ {"selinux"})
        PROVE  \E m \in said : m[2] = p
    <3>1. PICK k \in 1 .. Len(check_functions(command)) :
            <<check_functions(command)[k], p>> \in Tells
      BY <2>1, EveryProblemHasItsCheck DEF Tidy, DoctorTypeOK
    <3>2. /\ Passed(check_functions(command)[k])
          /\ check_functions(command)[k] \in {t[1] : t \in Tells}
      <4>1. <<check_functions(command)[k], p>>[1] = check_functions(command)[k]
        OBVIOUS
      <4>. QED
        BY <2>1, <3>1, <4>1, Zenon DEF Passed
    <3>. QED
      BY <2>1, <3>1, <3>2 DEF TellInv, ToldInv
  <2>2. NothingMissed
    BY <2>1 DEF NothingMissed
  <2>3. ExitCodeTells
    BY DEF TellInv, ErrorInv, ExitCodeTells
  <2>. QED
    BY <2>2, <2>3 DEF TellInv, TellsWhatIsWrong
<1>. QED
  BY <1>1, <1>2, TidyInit, TellInit, PTL DEF DoctorSpec
=============================================================================
