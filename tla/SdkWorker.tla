----------------------------- MODULE SdkWorker -----------------------------
(***************************************************************************)
(* One Run of CodexSdkWorkerTransport (better_subagent/transport.py): the  *)
(* call of start_turn, the thread that reads the worker's output, a call of*)
(* interrupt_turn, and the worker process (scripts/codex-sdk-worker.mjs).  *)
(* Children of different Runs share nothing but the table _children, in    *)
(* which each has its own key, so one Run is enough.                       *)
(*                                                                         *)
(* A `with state_lock` or `with self._lock` block is one step, joined with *)
(* the thread's own computation up to the next one.                        *)
(***************************************************************************)
EXTENDS Naturals, Sequences, FiniteSets

CONSTANTS
  Run,           \* the Run this worker serves
  MaxEvents,     \* bound: how many events the SDK streams
  MaxInterrupts, \* bound: how often interrupt_turn is called
  Faults         \* a subset of AllFaults; each happens at most once

\* Waits the code gives up on, and a worker that dies with its turn.
AllFaults == {"reader_join_timeout", "exit_timeout", "spawn", "crash"}

ASSUME ConstantsAssumption ==
  /\ MaxEvents \in Nat /\ MaxInterrupts \in Nat
  /\ Faults \subseteq AllFaults

(* What the SDK streams: thread.started with the requested or with another
   id, turn.started, turn.completed, turn.failed or error, and a line that is
   no JSON.  The worker script adds dispatch.error, which read_events treats
   like failed, and dispatch.interrupted.                                  *)
SdkEvents == {"thread", "strange", "turn", "completed", "failed", "garbage"}
Events    == SdkEvents \cup {"interrupted"}
Outcomes  == {"completed", "failed", "interrupted", "unknown"}

VARIABLES
  (* The child record.                                                     *)
  identity,       \* threadStarted and observedThreadId: "none", "match" or "other"
  identityError, turnStarted, startupError, prematureTerminal, authoritative,
  started,        \* the threading.Event of authority
  outcomeUnknown, interruptAck, terminalNotified, cleaned,
  registered,     \* the child is in _children
  closed,         \* its pipes are closed
  (* The threads.                                                          *)
  starter,        \* where start_turn is
  reader,         \* where read_events is, and the outcome it is about to report
  interrupter,    \* where interrupt_turn is
  interrupts,     \* calls of interrupt_turn so far
  (* What the Gateway sees.                                                *)
  answer,         \* how start_turn ended
  told,           \* the calls of on_terminal
  (* The worker.                                                           *)
  process,        \* "none", "running", "exiting" or "dead"
  aborting,       \* it has read "interrupt"
  output,         \* lines written and not yet read
  emitted,        \* how many events the SDK has streamed
  seen,           \* lines read so far; no step looks at them
  faults

flags   == <<identity, identityError, turnStarted, startupError, prematureTerminal,
             authoritative, started, outcomeUnknown, interruptAck>>
upkeep  == <<terminalNotified, cleaned, registered, closed>>
threads == <<starter, reader, interrupter, interrupts>>
results == <<answer, told>>
worker  == <<process, aborting, output, emitted>>
vars    == <<flags, upkeep, threads, results, worker, seen, faults>>

TypeOK ==
  /\ identity \in {"none", "match", "other"}
  /\ \A flag \in {identityError, turnStarted, startupError, prematureTerminal,
                  authoritative, started, outcomeUnknown, interruptAck,
                  terminalNotified, cleaned, registered, closed, aborting} :
       flag \in BOOLEAN
  /\ starter \in {"none", "spawn", "wait", "decide", "reap", "join", "cleanup", "verdict", "done"}
  /\ reader \in [pc: {"none", "read", "notify", "last", "cleanup", "done"},
                 says: Outcomes \cup {"none"}, final: BOOLEAN]
  /\ interrupter \in {"none", "bury", "ack"}
  /\ interrupts \in 0..MaxInterrupts
  /\ answer \in {"none", "waiting", "returned", "rejected", "unknown"}
  /\ told \in Seq(Outcomes)
  /\ process \in {"none", "running", "exiting", "dead"}
  /\ output \in Seq(Events) /\ seen \in Seq(Events)
  /\ emitted \in 0..MaxEvents
  /\ faults \subseteq Faults

-----------------------------------------------------------------------------
Fault(kind) == kind \in Faults \ faults /\ faults' = faults \cup {kind}

Alive == process \in {"running", "exiting"}

At(pc) == reader' = [pc |-> pc, says |-> "none", final |-> FALSE]
Reports(says, final) == reader' = [pc |-> "notify", says |-> says, final |-> final]

(* _cleanup: the first to come takes the child out of the table, waits for the
   process, killing it if need be, waits a second for the reader, and closes
   the pipes, which cuts off a reader that is still at work.               *)
Clean ==
  /\ cleaned' = TRUE
  /\ IF cleaned THEN UNCHANGED <<registered, closed, process>>
     ELSE registered' = FALSE /\ closed' = TRUE /\ process' = "dead"

\* reader.join(timeout=1)
JoinsReader ==
  \/ reader.pc = "done" /\ UNCHANGED faults
  \/ reader.pc # "done" /\ Fault("reader_join_timeout")

-----------------------------------------------------------------------------
(* start_turn                                                              *)

Call ==
  /\ starter = "none"
  /\ starter' = "spawn" /\ answer' = "waiting"
  /\ UNCHANGED <<flags, upkeep, reader, interrupter, interrupts, told, worker, seen, faults>>

\* The child is registered before its output is read.
Spawn ==
  /\ starter = "spawn"
  /\ starter' = "wait"
  /\ process' = "running" /\ registered' = TRUE
  /\ At("read")
  /\ UNCHANGED <<flags, terminalNotified, cleaned, closed, interrupter, interrupts, results,
                 aborting, output, emitted, seen, faults>>

\* Popen, or handing it the request, raises: nothing is registered, and
\* start_run takes the exception for a rejection.
SpawnFails ==
  /\ starter = "spawn"
  /\ Fault("spawn")
  /\ starter' = "done" /\ answer' = "rejected"
  /\ UNCHANGED <<flags, upkeep, reader, interrupter, interrupts, told, worker, seen>>

\* The start-up loop ends: authority, an unknown outcome, a dead process, or
\* its deadline, which may pass at any moment.
StopWaiting ==
  /\ starter = "wait"
  /\ starter' = "decide"
  /\ UNCHANGED <<flags, upkeep, reader, interrupter, interrupts, results, worker, seen, faults>>

\* Mutant: a child that was authoritative once passes.
HasAuthorityOnce == started

HasAuthority ==
  /\ started /\ authoritative
  /\ ~startupError /\ ~identityError /\ ~prematureTerminal

Decide ==
  /\ starter = "decide"
  /\ IF HasAuthority THEN starter' = "done" /\ answer' = "returned"
     ELSE starter' = "reap" /\ UNCHANGED answer
  /\ UNCHANGED <<flags, upkeep, reader, interrupter, interrupts, told, worker, seen, faults>>

\* terminate, then kill; what the worker has written stays in the pipe.
Reap ==
  /\ starter = "reap"
  /\ process' = "dead"
  /\ starter' = "join"
  /\ UNCHANGED <<flags, upkeep, reader, interrupter, interrupts, results, aborting, output,
                 emitted, seen, faults>>

JoinAndClean ==
  /\ starter = "join"
  /\ JoinsReader
  /\ Clean
  /\ starter' = "verdict"
  /\ UNCHANGED <<flags, terminalNotified, reader, interrupter, interrupts, results, aborting,
                 output, emitted, seen>>

\* Mutant: an observed error counts before an observed turn.
VerdictErrorFirst ==
  IF startupError \/ identityError THEN "rejected" ELSE "unknown"

\* Mutant: the start answers with the outcome of the turn.
VerdictOutcome ==
  IF turnStarted \/ outcomeUnknown THEN "unknown" ELSE "failed"

\* An observed turn is never rejected.
Verdict ==
  IF turnStarted \/ outcomeUnknown THEN "unknown"
  ELSE IF startupError \/ identityError THEN "rejected" ELSE "unknown"

Raise ==
  /\ starter = "verdict"
  /\ answer' = Verdict
  /\ starter' = "done"
  /\ UNCHANGED <<flags, upkeep, reader, interrupter, interrupts, told, worker, seen, faults>>

-----------------------------------------------------------------------------
(* read_events                                                             *)

\* Mutant: a late pair of legitimate events restores authority.
EstablishesAnyway(id, turn) == id = "match" /\ turn

Establishes(id, turn) ==
  id = "match" /\ turn /\ ~startupError /\ ~identityError /\ ~prematureTerminal

\* establish_authority_locked, after the thread or the turn has been noted.
EstablishAuthority(id, turn) ==
  /\ authoritative' = (authoritative \/ Establishes(id, turn))
  /\ started' = (started \/ Establishes(id, turn))

OnThread ==
  /\ identity' = "match"
  /\ EstablishAuthority("match", turnStarted)
  /\ At("read")
  /\ UNCHANGED <<identityError, turnStarted, startupError, prematureTerminal, outcomeUnknown,
                 interruptAck>>

\* Another thread id: authority is lost, and told so if it had been there.
OnStrange ==
  /\ identity' = "other" /\ identityError' = TRUE
  /\ authoritative' = FALSE
  /\ outcomeUnknown' = (outcomeUnknown \/ turnStarted)
  /\ IF authoritative THEN Reports("unknown", FALSE) ELSE At("read")
  /\ UNCHANGED <<turnStarted, startupError, prematureTerminal, started, interruptAck>>

OnTurn ==
  /\ turnStarted' = TRUE
  /\ outcomeUnknown' =
       (outcomeUnknown \/ startupError \/ identityError \/ prematureTerminal)
  /\ EstablishAuthority(identity, TRUE)
  /\ At("read")
  /\ UNCHANGED <<identity, identityError, startupError, prematureTerminal, interruptAck>>

\* startup_error
OnError ==
  /\ startupError' = TRUE
  /\ authoritative' = FALSE
  /\ outcomeUnknown' = (outcomeUnknown \/ turnStarted)
  /\ IF authoritative THEN Reports("unknown", FALSE) ELSE At("read")
  /\ UNCHANGED <<identity, identityError, turnStarted, prematureTerminal, started,
                 interruptAck>>

\* terminal_event: without authority it is premature.
OnTerminal(status) ==
  /\ interruptAck' = (interruptAck \/ status = "interrupted")
  /\ IF authoritative /\ ~startupError
     THEN Reports(status, FALSE) /\ UNCHANGED <<prematureTerminal, outcomeUnknown>>
     ELSE /\ prematureTerminal' = TRUE
          /\ outcomeUnknown' = (outcomeUnknown \/ turnStarted)
          /\ At("read")
  /\ UNCHANGED <<identity, identityError, turnStarted, startupError, authoritative, started>>

ReadLine ==
  LET line == Head(output)
  IN  /\ reader.pc = "read" /\ output # <<>> /\ ~closed
      /\ \/ line = "thread" /\ OnThread
         \/ line = "strange" /\ OnStrange
         \/ line = "turn" /\ OnTurn
         \/ (line = "garbage" \/ (line = "failed" /\ ~turnStarted)) /\ OnError
         \/ line \in {"completed", "interrupted"} /\ OnTerminal(line)
         \/ line = "failed" /\ turnStarted /\ OnTerminal("failed")
      /\ output' = Tail(output) /\ seen' = Append(seen, line)
      /\ UNCHANGED <<upkeep, starter, interrupter, interrupts, results, process, aborting,
                     emitted, faults>>

\* Mutant: the callback is called each time.
TestAndSetAlways ==
  terminalNotified' = TRUE /\ told' = Append(told, reader.says)

\* notify: the first report goes to the callback, the others nowhere.
TestAndSet ==
  /\ terminalNotified' = TRUE
  /\ told' = IF terminalNotified THEN told ELSE Append(told, reader.says)

Notify ==
  /\ reader.pc = "notify"
  /\ TestAndSet
  /\ At(IF reader.final THEN "cleanup" ELSE "read")
  /\ UNCHANGED <<flags, cleaned, registered, closed, starter, interrupter, interrupts, answer,
                 worker, seen, faults>>

\* The worker's output ends, or its pipe is closed under the reader.
OutputEnds ==
  /\ reader.pc = "read"
  /\ (closed \/ (process = "dead" /\ output = <<>>))
  /\ At("last")
  /\ UNCHANGED <<flags, upkeep, starter, interrupter, interrupts, results, worker, seen, faults>>

\* Mutant: a child that leaves without a word is forgotten.
LastWordNone == At("cleanup")

\* The finally block: an authoritative child that has said nothing has failed.
LastWord ==
  IF authoritative /\ ~startupError /\ ~terminalNotified
  THEN Reports("failed", TRUE) ELSE At("cleanup")

ReaderEnds ==
  /\ reader.pc = "last"
  /\ LastWord
  /\ UNCHANGED <<flags, upkeep, starter, interrupter, interrupts, results, worker, seen, faults>>

ReaderCleans ==
  /\ reader.pc = "cleanup"
  /\ Clean
  /\ At("done")
  /\ UNCHANGED <<flags, terminalNotified, starter, interrupter, interrupts, results, aborting,
                 output, emitted, seen, faults>>

-----------------------------------------------------------------------------
(* interrupt_turn: the Gateway knows the child once start_turn has returned. *)

Interrupt ==
  /\ interrupter = "none" /\ answer = "returned" /\ interrupts < MaxInterrupts
  /\ interrupts' = interrupts + 1
  /\ IF ~registered THEN UNCHANGED <<interrupter, aborting>>
     ELSE IF ~Alive THEN interrupter' = "bury" /\ UNCHANGED aborting
     ELSE interrupter' = "ack" /\ aborting' = (aborting \/ process = "running")
  /\ UNCHANGED <<flags, upkeep, starter, reader, results, process, output, emitted, seen, faults>>

\* The worker had gone: the call cleans up after it and fails.
Bury ==
  /\ interrupter = "bury"
  /\ JoinsReader
  /\ Clean
  /\ interrupter' = "none"
  /\ UNCHANGED <<flags, terminalNotified, starter, reader, interrupts, results, aborting,
                 output, emitted, seen>>

\* Five seconds without dispatch.interrupted fail the call.
AckTimesOut ==
  /\ interrupter = "ack" /\ ~interruptAck
  /\ interrupter' = "none"
  /\ UNCHANGED <<flags, upkeep, starter, reader, interrupts, results, worker, seen, faults>>

\* So do two seconds without the worker's exit.
ExitTimesOut ==
  /\ interrupter = "ack" /\ interruptAck /\ Alive
  /\ Fault("exit_timeout")
  /\ interrupter' = "none"
  /\ UNCHANGED <<flags, upkeep, starter, reader, interrupts, results, worker, seen>>

Interrupted ==
  /\ interrupter = "ack" /\ interruptAck /\ ~Alive
  /\ JoinsReader
  /\ Clean
  /\ interrupter' = "none"
  /\ UNCHANGED <<flags, terminalNotified, starter, reader, interrupts, results, aborting,
                 output, emitted, seen>>

-----------------------------------------------------------------------------
(* The worker process                                                      *)

\* The loop over streamed.events forwards what the SDK streams, whatever it is.
Stream ==
  /\ process = "running" /\ emitted < MaxEvents
  /\ emitted' = emitted + 1
  /\ \E event \in SdkEvents : output' = Append(output, event)
  /\ UNCHANGED <<flags, upkeep, threads, results, process, aborting, seen, faults>>

\* It ends, or throws into the catch block: because of the interruption or not.
StreamEnds ==
  /\ process = "running"
  /\ process' = "exiting"
  /\ \/ UNCHANGED output
     \/ output' = Append(output, IF aborting THEN "interrupted" ELSE "failed")
  /\ UNCHANGED <<flags, upkeep, threads, results, aborting, emitted, seen, faults>>

Exit ==
  /\ process = "exiting"
  /\ process' = "dead"
  /\ UNCHANGED <<flags, upkeep, threads, results, aborting, output, emitted, seen, faults>>

Crash ==
  /\ process = "running"
  /\ Fault("crash")
  /\ process' = "dead"
  /\ UNCHANGED <<flags, upkeep, threads, results, aborting, output, emitted, seen>>

-----------------------------------------------------------------------------
Init ==
  /\ identity = "none"
  /\ identityError = FALSE /\ turnStarted = FALSE /\ startupError = FALSE
  /\ prematureTerminal = FALSE /\ authoritative = FALSE
  /\ started = FALSE /\ outcomeUnknown = FALSE /\ interruptAck = FALSE
  /\ terminalNotified = FALSE /\ cleaned = FALSE /\ registered = FALSE /\ closed = FALSE
  /\ starter = "none" /\ interrupter = "none" /\ interrupts = 0
  /\ reader = [pc |-> "none", says |-> "none", final |-> FALSE]
  /\ answer = "none" /\ told = <<>>
  /\ process = "none" /\ aborting = FALSE /\ output = <<>> /\ emitted = 0
  /\ seen = <<>> /\ faults = {}

Starter == Spawn \/ SpawnFails \/ StopWaiting \/ Decide \/ Reap \/ JoinAndClean \/ Raise
Reader  == ReadLine \/ Notify \/ OutputEnds \/ ReaderEnds \/ ReaderCleans
Interrupter == Bury \/ AckTimesOut \/ ExitTimesOut \/ Interrupted

Next ==
  \/ Call \/ Interrupt
  \/ Starter \/ Reader \/ Interrupter
  \/ Stream \/ StreamEnds \/ Exit \/ Crash

(* A thread goes on when it can: start_turn and interrupt_turn have deadlines,
   the reader blocks on the pipe alone.  Nothing makes the SDK stream an event
   or end; once its loop has ended the worker exits.                       *)
Fairness ==
  /\ WF_vars(Starter) /\ WF_vars(Reader) /\ WF_vars(Interrupter) /\ WF_vars(Exit)

Spec == Init /\ [][Next]_vars /\ Fairness

=============================================================================
