----------------------------- MODULE WaitForDcos -----------------------------
(***************************************************************************)
(* Calls of `minidcos ... wait` (or of Cluster.wait_for_dcos_oss and _ee)  *)
(* for one cluster.  A wait passes the poststart checks, logs in and asks  *)
(* the services one after the other, with dcos-test-utils.  On DC/OS OSS   *)
(* it creates a user to log in as.  Three layers retry: the library        *)
(* retrying in each stage, retry around all stages, and an alarm of one    *)
(* hour around both.                                                       *)
(***************************************************************************)
EXTENDS Naturals, Sequences, Functions

CONSTANTS
  Waits,        \* the calls
  Unsteady,     \* bound: the components that are not up at first, or go down
  MaxDowns      \* bound: how often a component goes down

Variants == {"oss", "ee"}
Albert == "albert"    \* the user that a wait creates
Other == "other"      \* the first person who logs in

\* What a wait looks at: the file that tells the variant, the poststart checks,
\* the user service on the masters, and what each stage asks.  "services" are
\* the agents, the agents' routes and Metronome, three stages of one kind.
Components == {"variant", "poststart", "auth", "adminrouter", "login",
               "marathon", "zk", "services", "health", "units", "ca", "acls"}

ASSUME WaitAssumption ==
  /\ Unsteady \subseteq Components
  /\ MaxDowns \in Nat

\* session.wait_for_dcos() of DcosApiSession, and of EnterpriseApiSession.
Stages(v) ==
  LET common == <<"adminrouter", "login", "marathon", "zk", "services",
                  "health", "units">>
  IN  IF v = "oss" THEN common ELSE <<"ca">> \o common \o <<"acls">>

\* How a stage ends when its component is not up.  retry_on_result with a limit:
\* RetryError.
RetryErrors == {"adminrouter", "marathon", "services"}
\* No retry_on_exception: every exception is retried, and when the limit is
\* reached the last one is raised, not RetryError.
CatchAll == {"login", "zk"}
\* Exceptions are not retried.  (For "units", the health of the units that
\* "health" has listed, there is no limit.)
Raising == {"marathon", "services", "health", "ca", "acls"}

Ended == {"done", "timedOut", "gaveUp", "failed", "cancelled"}
Labels == Ended \cup
  {"start", "variant", "poststart", "delete", "create", "ca", "session", "remove"}

VARIABLES
  variant,     \* of the cluster
  up,          \* the components that are up
  users,       \* of DC/OS OSS
  downs,
  pc,
  stage,       \* position in Stages
  token,       \* is the session logged in
  alarm,       \* set, swallowed (an exception handler has caught it), or off
  early,       \* (history) waits that began before everything was up
  shaken       \* (history) waits during which something went down, or another
               \* wait was active

cluster == <<variant, up, users, downs>>
session == <<stage, token, alarm>>
history == <<early, shaken>>
vars == <<cluster, pc, session, history>>

At(w, label) == pc[w] = label
Goto(w, label) == pc' = [pc EXCEPT ![w] = label]
\* The call ends, and with it its session and its alarm.
End(w, label) ==
  /\ Goto(w, label)
  /\ stage' = [stage EXCEPT ![w] = 1]
  /\ token' = [token EXCEPT ![w] = FALSE]
  /\ alarm' = [alarm EXCEPT ![w] = "off"]
Active(w) == pc[w] \notin Ended \cup {"start"}
Current(w) == Stages(variant)[stage[w]]

Init ==
  /\ variant \in Variants
  /\ \E D \in SUBSET Unsteady : up = Components \ D
  /\ users \in SUBSET {Albert, Other}
  /\ downs = 0
  /\ pc = [w \in Waits |-> "start"]
  /\ stage = [w \in Waits |-> 1]
  /\ token = [w \in Waits |-> FALSE]
  /\ alarm = [w \in Waits |-> "off"]
  /\ early = {}
  /\ shaken = {}

-----------------------------------------------------------------------------
(* Until the session.                                                      *)

Start(w) ==
  /\ At(w, "start")
  /\ early' = IF up = Components THEN early ELSE early \cup {w}
  /\ shaken' = IF \E q \in Waits : Active(q)
                 THEN shaken \cup {w} \cup {q \in Waits : Active(q)} ELSE shaken
  /\ Goto(w, "variant")
  /\ UNCHANGED <<cluster, session>>

\* _wait_for_variant, then the alarm is set.
VariantKnown(w) ==
  /\ At(w, "variant")
  /\ "variant" \in up
  /\ alarm' = [alarm EXCEPT ![w] = "set"]
  /\ Goto(w, "poststart")
  /\ UNCHANGED <<cluster, stage, token, history>>

\* After 3600 attempts DCOSTimeoutError is raised, outside the try statement.
VariantGivesUp(w) ==
  /\ At(w, "variant")
  /\ "variant" \notin up
  /\ End(w, "failed")
  /\ UNCHANGED <<cluster, history>>

\* The poststart checks are repeated without a limit; a wait that is called
\* without http_checks ends after them.
Poststart(w) ==
  /\ At(w, "poststart")
  /\ "poststart" \in up
  /\ \/ Goto(w, IF variant = "oss" THEN "delete" ELSE "ca") /\ UNCHANGED session
     \/ End(w, "done")
  /\ UNCHANGED <<cluster, history>>

\* Mutant of DeleteUser: the user is not deleted first.
DeleteUserNot(w) ==
  /\ At(w, "delete")
  /\ Goto(w, "create")
  /\ UNCHANGED <<cluster, session, history>>

\* curl -X DELETE: its exit code is 0 for every answer of the service.
DeleteUser(w) ==
  /\ At(w, "delete")
  /\ users' = IF "auth" \in up THEN users \ {Albert} ELSE users
  /\ Goto(w, "create")
  /\ UNCHANGED <<variant, up, downs, session, history>>

\* dcos_add_user.py
CreateUser(w) ==
  /\ At(w, "create")
  /\ "auth" \in up
  /\ Albert \notin users
  /\ users' = users \cup {Albert}
  /\ Goto(w, "session")
  /\ UNCHANGED <<variant, up, downs, session, history>>

\* CalledProcessError, which nothing retries: curl cannot connect, the user
\* exists, or cannot be created.
UserCommandFails(w) ==
  /\ \/ pc[w] \in {"delete", "create", "remove"} /\ "auth" \notin up
     \/ At(w, "create") /\ Albert \in users
  /\ End(w, "failed")
  /\ UNCHANGED <<cluster, history>>

\* Enterprise: the CA certificate, waiting for a connection for up to a year.
GetCaCert(w) ==
  /\ At(w, "ca")
  /\ {"adminrouter", "ca"} \subseteq up
  /\ Goto(w, "session")
  /\ UNCHANGED <<cluster, session, history>>

-----------------------------------------------------------------------------
(* session.wait_for_dcos()                                                 *)

\* The first user who logs in need not have been added; the users of
\* Enterprise are not modelled.
LoginWorks == variant = "ee" \/ users = {} \/ Albert \in users

\* Can the current stage get the answer it waits for?  A session that has
\* logged in does not ask again.
Answers(w) ==
  IF Current(w) = "login"
    THEN token[w] \/ ("login" \in up /\ LoginWorks)
    ELSE Current(w) \in up

Pass(w) ==
  /\ At(w, "session")
  /\ Answers(w)
  /\ users' = IF variant = "oss" /\ Current(w) = "login" /\ ~ token[w] /\ users = {}
                THEN {Albert} ELSE users
  /\ IF stage[w] < Len(Stages(variant))
       THEN /\ stage' = [stage EXCEPT ![w] = @ + 1]
            /\ token' = [token EXCEPT ![w] = @ \/ Current(w) = "login"]
            /\ UNCHANGED <<pc, alarm>>
       ELSE IF variant = "oss" THEN Goto(w, "remove") /\ UNCHANGED session
                               ELSE End(w, "done")
  /\ UNCHANGED <<variant, up, downs, history>>

\* RetryError: _test_utils_wait_for_dcos begins again, without a limit.
StageRetries(w) ==
  /\ At(w, "session")
  /\ ~ Answers(w)
  /\ Current(w) \in RetryErrors
  /\ stage' = [stage EXCEPT ![w] = 1]
  /\ UNCHANGED <<cluster, pc, token, alarm, history>>

\* The stage's own limit is reached, and its last exception is raised: the
\* wait ends.
StageGivesUp(w) ==
  /\ At(w, "session")
  /\ ~ Answers(w)
  /\ Current(w) \in CatchAll
  /\ End(w, "gaveUp")
  /\ UNCHANGED <<cluster, history>>

\* An exception that is not retried: the wait ends.
StageRaises(w) ==
  /\ \/ At(w, "session") /\ ~ Answers(w) /\ Current(w) \in Raising
     \/ At(w, "ca") /\ "adminrouter" \in up /\ "ca" \notin up
  /\ End(w, "failed")
  /\ UNCHANGED <<cluster, history>>

\* Mutant of RemoveUser: the user stays.
RemoveUserNot(w) ==
  /\ At(w, "remove")
  /\ End(w, "done")
  /\ UNCHANGED <<cluster, history>>

RemoveUser(w) ==
  /\ At(w, "remove")
  /\ users' = IF "auth" \in up THEN users \ {Albert} ELSE users
  /\ End(w, "done")
  /\ UNCHANGED <<variant, up, downs, history>>

-----------------------------------------------------------------------------
(* The alarm.                                                              *)

\* Mutant of Alarm: the retry of the poststart checks catches it.
AlarmRetried(w) ==
  /\ alarm[w] = "set"
  /\ IF At(w, "poststart")
       THEN alarm' = [alarm EXCEPT ![w] = "off"] /\ UNCHANGED <<pc, stage, token>>
       ELSE End(w, "timedOut")
  /\ UNCHANGED <<cluster, history>>

\* After an hour DCOSTimeoutError is raised wherever the wait is.  A stage that
\* retries every exception catches it like any other, if it is raised during an
\* attempt and not between two; the alarm does not go off a second time.
Alarm(w) ==
  /\ alarm[w] = "set"
  /\ \/ End(w, "timedOut")
     \/ /\ At(w, "session") /\ Current(w) \in CatchAll
        /\ alarm' = [alarm EXCEPT ![w] = "swallowed"]
        /\ UNCHANGED <<pc, stage, token>>
  /\ UNCHANGED <<cluster, history>>

-----------------------------------------------------------------------------
(* The surroundings.                                                       *)

Cancel(w) ==
  /\ Active(w)
  /\ End(w, "cancelled")
  /\ UNCHANGED <<cluster, history>>

ComesUp(c) ==
  /\ c \notin up
  /\ up' = up \cup {c}
  /\ UNCHANGED <<variant, users, downs, pc, session, history>>

GoesDown(c) ==
  /\ c \in up \cap Unsteady
  /\ downs < MaxDowns
  /\ downs' = downs + 1
  /\ up' = up \ {c}
  /\ shaken' = shaken \cup {w \in Waits : Active(w)}
  /\ UNCHANGED <<variant, users, pc, session, early>>

SomebodyLogsIn ==
  /\ variant = "oss"
  /\ {"auth", "login"} \subseteq up
  /\ users = {}
  /\ users' = {Other}
  /\ UNCHANGED <<variant, up, downs, pc, session, history>>

-----------------------------------------------------------------------------
Prepare(w) ==
  \/ VariantKnown(w) \/ VariantGivesUp(w) \/ Poststart(w)
  \/ DeleteUser(w) \/ CreateUser(w) \/ UserCommandFails(w) \/ GetCaCert(w)

InSession(w) ==
  \/ Pass(w) \/ StageRetries(w) \/ StageGivesUp(w) \/ StageRaises(w)
  \/ RemoveUser(w)

Surroundings ==
  \/ \E c \in Components : ComesUp(c) \/ GoesDown(c)
  \/ SomebodyLogsIn

AllEnded == (\A w \in Waits : pc[w] \in Ended) /\ UNCHANGED vars

Next ==
  \/ \E w \in Waits : Start(w) \/ Prepare(w) \/ InSession(w) \/ Alarm(w) \/ Cancel(w)
  \/ Surroundings
  \/ AllEnded

Spec == Init /\ [][Next]_vars

\* A wait that runs is scheduled, its requests and attempts end, and its alarm
\* goes off when an hour has passed.  Nothing is assumed of the cluster, of
\* when a wait starts, or of cancelling it.
Fairness ==
  \A w \in Waits : WF_vars(Prepare(w) \/ InSession(w)) /\ WF_vars(Alarm(w))

FairSpec == Spec /\ Fairness

-----------------------------------------------------------------------------
TypeOK ==
  /\ variant \in Variants
  /\ up \subseteq Components
  /\ users \subseteq {Albert, Other}
  /\ downs \in 0 .. MaxDowns
  /\ pc \in [Waits -> Labels]
  /\ stage \in [Waits -> 1 .. Len(Stages(variant))]
  /\ token \in [Waits -> BOOLEAN]
  /\ alarm \in [Waits -> {"off", "set", "swallowed"}]
  /\ early \subseteq Waits
  /\ shaken \subseteq Waits

-----------------------------------------------------------------------------
(* Correctness.                                                            *)

\* Wait w succeeds in this step, after HTTP checks; nothing has disturbed it.
Succeeds(w) ==
  w \notin shaken /\ pc[w] \in {"session", "remove"} /\ pc'[w] = "done"

\* "Only the first user can log in with SSO, before granting others access.
\* Therefore, we delete the user who was created" (_wait_for_dcos.py:191): when
\* a wait succeeds, everything that it asks for is up, and no user is left that
\* it, or a wait that was cancelled before it, has made.
SuccessIsWhole ==
  [][\A w \in Waits : Succeeds(w) =>
       /\ Range(Stages(variant)) \subseteq up
       /\ variant = "oss" => Albert \notin users']_vars

\* "To resolve that, run this command again" (common/wait.py:65): on a cluster
\* that is up a wait does not fail, whatever waits before it left behind.  (It
\* may be cancelled, or the hour may pass.)
RunAgainWorks ==
  \A w \in Waits \ (early \cup shaken) : pc[w] \notin {"failed", "gaveUp"}

\* A wait ends, unless its alarm was caught by a stage; and also then, if the
\* cluster comes up.
WaitEnds ==
  /\ \A w \in Waits : Active(w) ~> (pc[w] \in Ended \/ alarm[w] = "swallowed")
  /\ <>[](up = Components) => \A w \in Waits : Active(w) ~> pc[w] \in Ended
=============================================================================
