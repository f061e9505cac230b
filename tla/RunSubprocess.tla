----------------------------- MODULE RunSubprocess -----------------------------
(***************************************************************************)
(* One call of run_subprocess, and the process that it runs.  While the    *)
(* process runs its two pipes are read without waiting; when it has ended  *)
(* they are read to their end.  What is read is returned and, live, logged *)
(* line by line.                                                           *)
(***************************************************************************)
EXTENDS Naturals, SequencesExt

CONSTANTS
  MaxBytes,    \* bound: the bytes that the process writes to each pipe
  MaxRaised    \* bound: how often a call raises

ASSUME SubprocessAssumption == MaxBytes \in Nat /\ MaxRaised \in Nat

Streams == {"stdout", "stderr"}
Newline == "newline"
Bytes == {"letter", Newline}

VARIABLES
  log_output_live, pipe_output,    \* arguments
  child,       \* the process: running, ended (killed or not)
  written,     \* what it has written to each stream
  returncode,  \* has the process been seen to have ended
  step,
  taken,       \* stdout_list and stderr_list, joined
  buffer,      \* of the line logger of each stream
  logged,      \* by each line logger: its lines, each with a newline at its end
  raised

arguments == <<log_output_live, pipe_output>>
loggers == <<buffer, logged>>
subprocess == <<arguments, child, written, returncode, step, taken, loggers, raised>>

SubprocessInit ==
  /\ pipe_output \in BOOLEAN
  /\ log_output_live \in BOOLEAN
  /\ child = "running"
  /\ written = [s \in Streams |-> <<>>]
  /\ returncode = FALSE
  /\ step = IF pipe_output THEN "while" ELSE "flush"
  /\ taken = [s \in Streams |-> <<>>]
  /\ buffer = [s \in Streams |-> <<>>]
  /\ logged = [s \in Streams |-> <<>>]
  /\ raised = 0

-----------------------------------------------------------------------------
(* The process.                                                            *)

Write(s, b) ==
  /\ child = "running"
  /\ Len(written[s]) < MaxBytes
  /\ written' = [written EXCEPT ![s] = Append(@, b)]
  /\ UNCHANGED <<arguments, child, returncode, step, taken, loggers, raised>>

Exit ==
  /\ child = "running"
  /\ child' = "ended"
  /\ UNCHANGED <<arguments, written, returncode, step, taken, loggers, raised>>

-----------------------------------------------------------------------------
(* _LineLogger.                                                            *)

\* What is in front of the last newline is logged line by line, what follows it
\* waits.
log(s, data) ==
  LET bytes == buffer[s] \o data
  IN  \E n \in 0 .. Len(bytes) :
        /\ n > 0 => bytes[n] = Newline
        /\ \A i \in n + 1 .. Len(bytes) : bytes[i] # Newline
        /\ logged' = [logged EXCEPT ![s] = @ \o SubSeq(bytes, 1, n)]
        /\ buffer' = [buffer EXCEPT ![s] = SubSeq(bytes, n + 1, Len(bytes))]

flush ==
  /\ logged' = [s \in Streams |->
                  IF buffer[s] = <<>> THEN logged[s]
                                      ELSE Append(logged[s] \o buffer[s], Newline)]
  /\ buffer' = [s \in Streams |-> <<>>]

-----------------------------------------------------------------------------
(* run_subprocess.                                                         *)

Proceed(label) == step' = label

\* Mutant of While: nothing is read any more.
WhileThenFlush ==
  /\ step = "while"
  /\ Proceed(IF returncode THEN "flush" ELSE "stdout")
  /\ UNCHANGED <<arguments, child, written, returncode, taken, loggers, raised>>

While ==
  /\ step = "while"
  /\ Proceed(IF returncode THEN "last stdout" ELSE "stdout")
  /\ UNCHANGED <<arguments, child, written, returncode, taken, loggers, raised>>

\* What follows reading: both pipes are read one after the other.
AfterReading ==
  CASE step = "stdout"      -> Proceed("stderr")
    [] step = "stderr"      -> Proceed("poll")
    [] step = "last stdout" -> Proceed("last stderr")
    [] step = "last stderr" -> Proceed("flush")

\* Mutant of Take: what was read before is read again.
TakeAgain(s, n) ==
  LET data == SubSeq(written[s], 1, n)
  IN  /\ taken' = [taken EXCEPT ![s] = @ \o data]
      /\ IF log_output_live THEN log(s, data) ELSE UNCHANGED loggers

Take(s, n) ==
  LET data == SubSeq(written[s], Len(taken[s]) + 1, Len(taken[s]) + n)
  IN  /\ taken' = [taken EXCEPT ![s] = @ \o data]
      /\ IF log_output_live THEN log(s, data) ELSE UNCHANGED loggers

\* read(block=False): whatever sarge has received so far.
ReadSome(s) ==
  /\ step = s
  /\ \E n \in 0 .. Len(written[s]) - Len(taken[s]) : Take(s, n)
  /\ AfterReading
  /\ UNCHANGED <<arguments, child, written, returncode, raised>>

\* "block on final read to ensure all data read": to the end of the pipe.
ReadAll(s) ==
  /\ step = (IF s = "stdout" THEN "last stdout" ELSE "last stderr")
  /\ child = "ended"
  /\ Take(s, Len(written[s]) - Len(taken[s]))
  /\ AfterReading
  /\ UNCHANGED <<arguments, child, written, returncode, raised>>

\* Mutant of PollAll: the result is not looked at.
PollNothing ==
  /\ step = "poll"
  /\ Proceed("while")
  /\ UNCHANGED <<arguments, child, written, returncode, taken, loggers, raised>>

\* poll_all, and 50 ms later the next round.
PollAll ==
  /\ step = "poll"
  /\ returncode' = (child = "ended")
  /\ Proceed("while")
  /\ UNCHANGED <<arguments, child, written, taken, loggers, raised>>

Flush ==
  /\ step = "flush"
  /\ flush
  /\ Proceed("wait")
  /\ UNCHANGED <<arguments, child, written, returncode, taken, raised>>

Wait ==
  /\ step = "wait"
  /\ child = "ended"
  /\ returncode' = TRUE
  /\ Proceed("done")
  /\ UNCHANGED <<arguments, child, written, taken, loggers, raised>>

\* Reading, polling or flushing raises an exception.  What a logger that raises
\* has already written is not told apart: its call ends with the exception.
Raises ==
  /\ step \in {"stdout", "stderr", "last stdout", "last stderr", "poll", "flush"}
  /\ raised < MaxRaised
  /\ raised' = raised + 1
  /\ Proceed("terminate")
  /\ UNCHANGED <<arguments, child, written, returncode, taken, loggers>>

\* terminate(), and kill() when the process has not ended a second later.
Terminate ==
  /\ step = "terminate"
  /\ child' = "ended"
  /\ Proceed("raised")
  /\ UNCHANGED <<arguments, written, returncode, taken, loggers, raised>>

Caller ==
  \/ While
  \/ \E s \in Streams : ReadSome(s) \/ ReadAll(s)
  \/ PollAll \/ Flush \/ Wait \/ Terminate

Over == step \in {"done", "raised"} /\ child = "ended" /\ UNCHANGED subprocess

SubprocessNext ==
  \/ \E s \in Streams, b \in Bytes : Write(s, b)
  \/ Exit \/ Caller \/ Raises \/ Over

SubprocessSpec == SubprocessInit /\ [][SubprocessNext]_subprocess

\* The thread that calls run_subprocess is scheduled.
FairSubprocessSpec == SubprocessSpec /\ WF_subprocess(Caller)

-----------------------------------------------------------------------------
(* Properties.                                                             *)

\* Every variable has its type.
SubprocessTypeOK ==
  /\ log_output_live \in BOOLEAN /\ pipe_output \in BOOLEAN
  /\ child \in {"running", "ended"}
  /\ written \in [Streams -> Seq(Bytes)]
  /\ \A s \in Streams : Len(written[s]) <= MaxBytes
  /\ returncode \in BOOLEAN
  /\ step \in {"while", "stdout", "stderr", "last stdout", "last stderr", "poll",
               "flush", "wait", "done", "terminate", "raised"}
  /\ taken \in [Streams -> Seq(Bytes)]
  /\ buffer \in [Streams -> Seq(Bytes)]
  /\ logged \in [Streams -> Seq(Bytes)]
  /\ \A s \in Streams : IsPrefix(taken[s], written[s])
  /\ raised \in 0 .. MaxRaised

\* When run_subprocess returns, stdout and stderr hold all that the process has
\* written, in order and once, also what it wrote between the last round of the
\* loop and its end.
OutputIsWhole == step = "done" /\ pipe_output => taken = written

\* What is logged live is what has been read: no line is torn by the end of a
\* read, lost, or logged twice, and the two streams do not mix.
LogFollowsOutput ==
  log_output_live /\ step \notin {"wait", "done", "raised"} =>
    \A s \in Streams :
      /\ logged[s] \o buffer[s] = taken[s]
      /\ ~ Contains(buffer[s], Newline)

\* At the end everything is logged; a last line without a newline counts as one.
LogIsWhole ==
  log_output_live /\ pipe_output /\ step = "done" =>
    \A s \in Streams :
      /\ buffer[s] = <<>>
      /\ logged[s] \in {written[s], Append(written[s], Newline)}

\* Nothing is lost, torn, mixed or repeated on its way from the process to the
\* caller and to the log.
NothingLost == OutputIsWhole /\ LogFollowsOutput /\ LogIsWhole

\* The call ends when the process does.
CallEnds == child = "ended" ~> step \in {"done", "raised"}
=============================================================================
