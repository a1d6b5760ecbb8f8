------------------------------ MODULE Gateway ------------------------------
(***************************************************************************)
(* GatewayService (better_subagent/gateway.py) against one App Server.     *)
(*                                                                         *)
(* Every `with store.locked()` block is one step: the store's lock and its *)
(* BEGIN IMMEDIATE transaction make it atomic, and the code keeps every    *)
(* App Server RPC outside of it.  What happens between two such blocks is  *)
(* kept where the code keeps it: in the locals of the HTTP handler thread  *)
(* (calls), of the transport's reader thread (reader), of the reconcile    *)
(* workers (reconcile), of the thread that noticed a lost connection       *)
(* (disconnect) and of the transport's terminal probes (probed).           *)
(*                                                                         *)
(* A handler path that returns or raises without writing anything is not   *)
(* an action of its own unless it ends a call that was in progress.        *)
(***************************************************************************)
EXTENDS Naturals, Sequences, FiniteSets

CONSTANTS
  Sessions,       \* sessionId values clients may register
  Threads,        \* App Server thread ids
  Runs,           \* the gatewayRunId values uuid4 will hand out
  Turns,          \* the turn ids the App Server will hand out
  Requests,       \* client requestId values
  Callers,        \* HTTP handler threads
  None,           \* Python's None
  Operations,     \* client operations in use: a subset of AllOperations
  TurnOutcomes,   \* how turns end: a subset of TerminalStatuses \cup {"other"}
  Announcements,  \* whether thread/status/changed may precede turn/started
  Faults,         \* environment faults in use: a subset of AllFaults
  MaxFaults,      \* bound: how many faults happen
  MaxGeneration,  \* bound: clients stop switching ownership at this generation
  RecentLimit     \* maxlen of _recent_terminal_turns

AllOperations ==
  {"start", "interrupt", "handoff", "reclaim", "put", "putMinimal", "get"}
AllFaults == {"crash", "disconnect", "timeout", "refuse", "probe"}

OccupyingStatuses == {"starting", "active", "interrupting", "unknown"}
TerminalStatuses  == {"completed", "failed", "interrupted"}
RunStatuses       == OccupyingStatuses \cup TerminalStatuses
RuntimeStatuses   ==
  {"notLoaded", "idle", "active", "waitingOnApproval", "unknown"}
BusyRuntime       == {"active", "waitingOnApproval"}
HandoffStatuses   == {"none", "pending", "completed", "failed", "unknown"}

ASSUME ConstantsAssumption ==
  /\ None \notin Threads \cup Runs \cup Turns \cup Requests \cup Sessions
  /\ Operations \subseteq AllOperations
  /\ TurnOutcomes \subseteq TerminalStatuses \cup {"other"}
  /\ Announcements \subseteq BOOLEAN
  /\ Faults \subseteq AllFaults
  /\ MaxFaults \in Nat
  /\ MaxGeneration \in Nat
  /\ RecentLimit \in Nat

VARIABLES
  (* The board: what SqliteGatewayStore persists.                          *)
  sessions,   \* sessions[s]: the Session record
  runs,       \* runs[r]: the Run record, status "absent" until it is created
  (* Process-local state of GatewayService.                                *)
  live,       \* _live_run_ids
  reconcile,  \* reconcile[r]: the reconcile worker of r (_run_reconcile_inflight)
  recent,     \* _recent_terminal_turns
  calls,      \* calls[c]: the locals of HTTP handler thread c
  reader,     \* the locals of the reader thread while it handles a message
  (* Process-local state of the transport.                                 *)
  connected,  \* the connection is up
  watched,    \* watched[t]: the run whose terminal callback waits for t (_turns)
  terminals,  \* terminals[t]: _orphan_terminals and _terminal_tombstones
  disconnect, \* what _mark_disconnected still has to report
  probed,     \* probed[r]: the callback status a terminal probe is about to report
  (* The App Server.                                                       *)
  turns,      \* turns[t]: thread, status, and the run it was started for
  events,     \* notifications sent and not yet read by the reader thread
  (* The bound on faults.                                                  *)
  faults

board     == <<sessions, runs>>
gateway   == <<live, reconcile, recent, calls, reader>>
transport == <<connected, watched, terminals, disconnect, probed>>
appServer == <<turns, events>>
vars      == <<board, gateway, transport, appServer, faults>>

-----------------------------------------------------------------------------
(* Types                                                                   *)

SessionRecord ==
  [registered: BOOLEAN, thread: Threads \cup {None}, enabled: BOOLEAN,
   controlMode: {"managed", "external"}, runtimeStatus: RuntimeStatuses,
   activeTurnId: Turns \cup {None}, handoffStatus: HandoffStatuses,
   handoffRequestId: Requests \cup {None},
   lastHandoffRequestId: Requests \cup {None},
   lastReclaimRequestId: Requests \cup {None}, controlGeneration: Nat]

RunRecord ==
  [status: RunStatuses \cup {"absent"}, requestId: Requests \cup {None},
   sessionId: Sessions \cup {None}, transportTurnId: Turns \cup {None},
   handoffRequestId: Requests \cup {None}, controlGeneration: Nat]

CallPhases ==
  {"idle", "start.read", "start.create", "start.remember", "start.rpc",
   "start.reply", "start.take", "start.orphan", "start.finish", "start.refused",
   "start.unknown", "interrupt.rpc", "interrupt.get", "interrupt.failed",
   "handoff.rpc", "handoff.failed", "handoff.unknown", "put.commit"}

CallRecord ==
  [pc: CallPhases, session: Sessions \cup {None}, request: Requests \cup {None},
   thread: Threads \cup {None}, run: Runs \cup {None}, turn: Turns \cup {None},
   runtime: RuntimeStatuses]

Message ==
  [method: {"turn/started", "turn/completed"}, thread: Threads, turn: Turns]
    \cup [method: {"thread/status/changed"}, thread: Threads, turn: {None}]
NoMessage == [method |-> "none", thread |-> None, turn |-> None]

ReaderRecord ==
  [pc: {"ready", "callback", "orphan", "match", "release", "project"},
   message: Message \cup {NoMessage}, run: Runs \cup {None}, live: SUBSET Runs]

WorkerRecord ==
  [pc: {"none", "read", "list", "project", "close"}, thread: Threads \cup {None},
   active: Turns \cup {None}, fact: TerminalStatuses \cup {"none"}]

NoTurn == [status |-> "absent", thread |-> None, run |-> None]
TurnRecord ==
  [status: {"running", "other"} \cup TerminalStatuses, thread: Threads,
   run: Runs \cup {None}] \cup {NoTurn}

TypeOK ==
  /\ sessions \in [Sessions -> SessionRecord]
  /\ runs \in [Runs -> RunRecord]
  /\ live \subseteq Runs
  /\ reconcile \in [Runs -> WorkerRecord]
  /\ recent \in Seq(Turns)
  /\ calls \in [Callers -> CallRecord]
  /\ reader \in ReaderRecord
  /\ connected \in BOOLEAN
  /\ watched \in [Turns -> Runs \cup {None}]
  /\ terminals \in [Turns -> {"none", "orphan", "tombstone"}]
  /\ disconnect \in [runs: SUBSET Runs, status: BOOLEAN]
  /\ probed \in [Runs -> TerminalStatuses \cup {"none", "unknown"}]
  /\ turns \in [Turns -> TurnRecord]
  /\ events \in Seq(Message)
  /\ faults \in Nat

-----------------------------------------------------------------------------
(* State formulas                                                          *)

Occupies(r) == runs[r].status \in OccupyingStatuses
Terminated(r) == runs[r].status \in TerminalStatuses

\* The Runs that make a Session busy.
OccupyingRuns(s) == {r \in Runs : Occupies(r) /\ runs[r].sessionId = s}

SessionsOn(th) == {s \in Sessions : sessions[s].registered /\ sessions[s].thread = th}

RunningOn(th) == {t \in Turns : turns[t].status = "running" /\ turns[t].thread = th}

\* Mutant: whatever does not run has completed.
AssumedCompleted(t) == IF turns[t].status = "running" THEN "none" ELSE "completed"

\* _turn_terminal_fact: App Server statuses other than these prove nothing.
TerminalFact(t) ==
  IF turns[t].status \in TerminalStatuses THEN turns[t].status ELSE "none"

\* Mutant: the App Server's own word, whatever it is.
RawStatus(t) == turns[t].status

\* The status with which the transport calls a run's terminal callback.
CallbackStatus(t) ==
  IF turns[t].status \in TerminalStatuses THEN turns[t].status ELSE "unknown"

IdleCall ==
  [pc |-> "idle", session |-> None, request |-> None, thread |-> None,
   run |-> None, turn |-> None, runtime |-> "notLoaded"]
ReadyReader ==
  [pc |-> "ready", message |-> NoMessage, run |-> None, live |-> {}]
NoWorker == [pc |-> "none", thread |-> None, active |-> None, fact |-> "none"]

Goto(c, pc) == calls' = [calls EXCEPT ![c].pc = pc]
Return(c) == calls' = [calls EXCEPT ![c] = IdleCall]

\* Clients stop switching ownership once a generation has reached its bound.
WithinGenerations == \A s \in Sessions : sessions[s].controlGeneration < MaxGeneration

Fault(kind) == kind \in Faults /\ faults < MaxFaults /\ faults' = faults + 1

-----------------------------------------------------------------------------
(* Writes to the board shared by several handlers                          *)

\* Mutant: ownership switches without a new generation.
TakenOverSilently(session) == [session EXCEPT !.controlMode = "external"]

\* A Session passes to an external owner; only a real switch counts.
TakenOver(session) ==
  [session EXCEPT
    !.controlMode = "external",
    !.controlGeneration = IF session.controlMode = "external" THEN @ ELSE @ + 1]

\* What turn/started and the reconcile worker write for an unowned turn t.
Projected(session, t) ==
  [TakenOver(session) EXCEPT !.runtimeStatus = "active", !.activeTurnId = t]

\* _set_terminal's write to the Session of a Run that ends with status.
AfterTerminal(session, run, status) ==
  LET idled == [session EXCEPT !.runtimeStatus = "idle", !.activeTurnId = None]
      resolved(outcome) ==
        [idled EXCEPT !.handoffStatus = outcome,
                      !.lastHandoffRequestId = run.handoffRequestId]
  IN  IF session.activeTurnId # run.transportTurnId THEN session
      ELSE IF run.handoffRequestId = None THEN idled
      ELSE IF status = "interrupted" THEN TakenOver(resolved("completed"))
      ELSE [resolved("failed") EXCEPT !.controlMode = "managed"]

SetTerminal(r, status) ==
  /\ live' = live \ {r}
  /\ runs' = [runs EXCEPT ![r].status = IF Terminated(r) THEN @ ELSE status]
  /\ sessions' = IF Terminated(r) THEN sessions
                 ELSE [sessions EXCEPT
                        ![runs[r].sessionId] = AfterTerminal(@, runs[r], status)]

\* Mutant: the Run keeps its place among the live Runs.
SetUnknownStaysLive(r) ==
  /\ runs' = [runs EXCEPT ![r].status = IF Terminated(r) THEN @ ELSE "unknown"]
  /\ UNCHANGED <<sessions, live>>

\* Mutant: a late loss of the connection overrides a known outcome.
SetUnknownAlways(r) ==
  /\ live' = live \ {r}
  /\ runs' = [runs EXCEPT ![r].status = "unknown"]
  /\ UNCHANGED sessions

SetUnknown(r) ==
  /\ live' = live \ {r}
  /\ runs' = [runs EXCEPT ![r].status = IF Terminated(r) THEN @ ELSE "unknown"]
  /\ UNCHANGED sessions

\* worker_result, the terminal callback start_run hands to the transport.
WorkerResult(r, status) ==
  IF status = "unknown" THEN SetUnknown(r) ELSE SetTerminal(r, status)

-----------------------------------------------------------------------------
(* The App Server: one running turn per thread, notifications in order.    *)

\* A notification reaches the reader thread only over a live connection.
Notify(messages) == events' = IF connected THEN events \o messages ELSE events

BeginTurn(t, th, r) ==
  /\ turns[t].status = "absent"
  /\ RunningOn(th) = {}
  /\ turns' = [turns EXCEPT ![t] = [status |-> "running", thread |-> th, run |-> r]]
  /\ \E announced \in Announcements :
       Notify((IF announced
               THEN <<[method |-> "thread/status/changed", thread |-> th, turn |-> None]>>
               ELSE <<>>)
              \o <<[method |-> "turn/started", thread |-> th, turn |-> t]>>)

\* A turn nobody asked this Gateway for: the CLI, the GUI or another client.
ExternalTurnStarts(t, th) ==
  /\ BeginTurn(t, th, None)
  /\ UNCHANGED <<board, gateway, transport, faults>>

TurnEnds(t, outcome) ==
  /\ turns[t].status = "running"
  /\ turns' = [turns EXCEPT ![t].status = outcome]
  /\ Notify(<<[method |-> "turn/completed", thread |-> turns[t].thread, turn |-> t]>>)
  /\ UNCHANGED <<board, gateway, transport, faults>>

-----------------------------------------------------------------------------
(* The reconcile worker of a Run nobody is waiting for                     *)

\* _claim_run_reconcile: never for a live Run, never two workers for one Run.
\* The retry delay is real time: the step it postpones need not be taken.
ScheduleReconcile(r) ==
  /\ Occupies(r)
  /\ r \notin live
  /\ reconcile[r].pc = "none"
  /\ reconcile' = [reconcile EXCEPT ![r].pc = "read"]

\* get_run, the poll with which clients learn how a Run ended.
GetRun(r) ==
  /\ "get" \in Operations
  /\ ScheduleReconcile(r)
  /\ UNCHANGED <<board, live, recent, calls, reader, transport, appServer, faults>>

\* The worker reads the board; without a recorded turn there is no evidence.
ReconcileRead(r) ==
  /\ reconcile[r].pc = "read"
  /\ reconcile' = [reconcile EXCEPT ![r] =
       IF Occupies(r) /\ runs[r].transportTurnId # None
       THEN [NoWorker EXCEPT !.pc = "list", !.thread = sessions[runs[r].sessionId].thread]
       ELSE NoWorker]
  /\ UNCHANGED <<board, live, recent, calls, reader, transport, appServer, faults>>

\* _find_runtime_turn: one thread/turns/list names the exact turn and the
\* turn that is running; a failed read ends the worker.
ReconcileList(r) ==
  LET th == reconcile[r].thread IN
  /\ reconcile[r].pc = "list"
  /\ connected
  /\ \/ /\ \E active \in IF RunningOn(th) = {} THEN {None} ELSE RunningOn(th) :
             reconcile' = [reconcile EXCEPT ![r] =
               [@ EXCEPT !.pc = IF active \in {None, runs[r].transportTurnId}
                                THEN "close" ELSE "project",
                         !.active = active,
                         !.fact = TerminalFact(runs[r].transportTurnId)]]
        /\ UNCHANGED faults
     \/ Fault("refuse") /\ reconcile' = [reconcile EXCEPT ![r] = NoWorker]
  /\ UNCHANGED <<board, live, recent, calls, reader, transport, appServer>>

\* The Sessions on thread th that no occupying Run holds with turn t.
Unowned(th, t) ==
  {s \in SessionsOn(th) : \A r \in OccupyingRuns(s) : runs[r].transportTurnId # t}

\* Mutant: the reader thread's terminal turns are not consulted.
NeverEnded(t) == FALSE /\ t = t

EndedRecently(t) == \E i \in DOMAIN recent : recent[i] = t

\* _project_external_turn: skipped once the turn is known to have ended.
ReconcileProject(r) ==
  LET t == reconcile[r].active IN
  /\ reconcile[r].pc = "project"
  /\ sessions' = IF EndedRecently(t) THEN sessions
                 ELSE [s \in Sessions |-> IF s \in Unowned(reconcile[r].thread, t)
                                         THEN Projected(sessions[s], t)
                                         ELSE sessions[s]]
  /\ reconcile' = [reconcile EXCEPT ![r].pc = "close"]
  /\ UNCHANGED <<runs, live, recent, calls, reader, transport, appServer, faults>>

ReconcileClose(r) ==
  /\ reconcile[r].pc = "close"
  /\ IF reconcile[r].fact = "none" THEN UNCHANGED <<board, live>>
     ELSE SetTerminal(r, reconcile[r].fact)
  /\ reconcile' = [reconcile EXCEPT ![r] = NoWorker]
  /\ UNCHANGED <<recent, calls, reader, transport, appServer, faults>>

-----------------------------------------------------------------------------
(* start_run                                                               *)

\* Mutant: no look at the Runs that occupy the Session.
AdmissibleWhileBusy(s, q) ==
  /\ \A r \in Runs : runs[r].requestId # q
  /\ sessions[s].registered /\ sessions[s].enabled
  /\ sessions[s].controlMode = "managed"

\* Mutant: a request is recognised only while its Run is still open.
AdmissibleOnceEnded(s, q) ==
  /\ \A r \in Runs : Occupies(r) => runs[r].requestId # q
  /\ sessions[s].registered /\ sessions[s].enabled
  /\ sessions[s].controlMode = "managed"
  /\ OccupyingRuns(s) = {}

\* The refusals start_run repeats under both locks.
Admissible(s, q) ==
  /\ \A r \in Runs : runs[r].requestId # q
  /\ sessions[s].registered
  /\ sessions[s].enabled
  /\ sessions[s].controlMode = "managed"
  /\ OccupyingRuns(s) = {}

\* First lock: check the request and remember the Session's thread.
StartCheck(c, s, q) ==
  /\ "start" \in Operations
  /\ calls[c].pc = "idle"
  /\ Admissible(s, q)
  /\ calls' = [calls EXCEPT ![c] =
       [IdleCall EXCEPT !.pc = "start.read", !.session = s, !.request = q,
                        !.thread = sessions[s].thread]]
  /\ UNCHANGED <<board, live, reconcile, recent, reader, transport, appServer, faults>>

\* _assert_runtime_idle: one thread/read outside the lock, which may also fail.
StartRead(c) ==
  /\ calls[c].pc = "start.read"
  /\ \/ connected /\ RunningOn(calls[c].thread) = {} /\ Goto(c, "start.create")
     \/ Return(c)
  /\ UNCHANGED <<board, live, reconcile, recent, reader, transport, appServer, faults>>

StillIdle(c) ==
  LET session == sessions[calls[c].session]
  IN  /\ session.runtimeStatus \notin {"active", "waitingOnApproval", "unknown"}
      /\ session.thread = calls[c].thread

\* Second lock: check everything again and create the Run.
StartCreate(c, r) ==
  /\ calls[c].pc = "start.create"
  /\ Admissible(calls[c].session, calls[c].request)
  /\ StillIdle(c)
  /\ runs[r].status = "absent"
  /\ runs' = [runs EXCEPT ![r] =
       [status |-> "starting", requestId |-> calls[c].request,
        sessionId |-> calls[c].session, transportTurnId |-> None,
        handoffRequestId |-> None,
        controlGeneration |-> sessions[calls[c].session].controlGeneration]]
  /\ calls' = [calls EXCEPT ![c].pc = "start.remember", ![c].run = r]
  /\ UNCHANGED <<sessions, live, reconcile, recent, reader, transport, appServer, faults>>

\* The recheck fails, or another call already created the Run of this request.
StartDenied(c) ==
  /\ calls[c].pc = "start.create"
  /\ ~(Admissible(calls[c].session, calls[c].request) /\ StillIdle(c))
  /\ Return(c)
  /\ UNCHANGED <<board, live, reconcile, recent, reader, transport, appServer, faults>>

StartRemember(c) ==
  /\ calls[c].pc = "start.remember"
  /\ live' = live \cup {calls[c].run}
  /\ Goto(c, "start.rpc")
  /\ UNCHANGED <<board, reconcile, recent, reader, transport, appServer, faults>>

\* transport.start_turn reaches the App Server, which starts turn t.
StartAccepted(c, t) ==
  /\ calls[c].pc = "start.rpc"
  /\ connected
  /\ BeginTurn(t, calls[c].thread, calls[c].run)
  /\ calls' = [calls EXCEPT ![c].pc = "start.reply", ![c].turn = t]
  /\ UNCHANGED <<board, live, reconcile, recent, reader, transport, faults>>

\* The App Server refuses: the thread is busy, or for a reason of its own.  Or
\* _ensure_connected cannot connect again.
StartRejected(c) ==
  /\ calls[c].pc = "start.rpc"
  /\ \/ ~connected /\ UNCHANGED faults
     \/ connected /\ RunningOn(calls[c].thread) # {} /\ UNCHANGED faults
     \/ connected /\ Fault("refuse")
  /\ Goto(c, "start.refused")
  /\ UNCHANGED <<board, live, reconcile, recent, reader, transport, appServer>>

\* No answer in time, whether or not the turn was started; while the connection
\* is down, it is the new connection's initialize that stays unanswered.
StartUnanswered(c) ==
  /\ \/ calls[c].pc \in {"start.rpc", "start.reply"} /\ Fault("timeout")
     \/ calls[c].pc = "start.rpc" /\ ~connected /\ UNCHANGED faults
  /\ Goto(c, "start.unknown")
  /\ UNCHANGED <<board, live, reconcile, recent, reader, transport, appServer>>

\* start_turn registers the callback and takes the turn's end if it came first.
StartRegister(c) ==
  LET t == calls[c].turn IN
  /\ calls[c].pc = "start.reply"
  /\ watched' = [watched EXCEPT ![t] = calls[c].run]
  /\ terminals' = [terminals EXCEPT ![t] = IF @ = "orphan" THEN "none" ELSE @]
  /\ Goto(c, IF terminals[t] = "orphan" THEN "start.take" ELSE "start.finish")
  /\ UNCHANGED <<board, live, reconcile, recent, reader, connected, disconnect,
                 probed, appServer, faults>>

\* _finish_turn: the callback is start_turn's to call unless somebody took it.
StartTakeOrphan(c) ==
  LET t == calls[c].turn IN
  /\ calls[c].pc = "start.take"
  /\ watched' = [watched EXCEPT ![t] = None]
  /\ terminals' = IF watched[t] = None THEN terminals
                  ELSE [terminals EXCEPT ![t] = "tombstone"]
  /\ Goto(c, IF watched[t] = None THEN "start.finish" ELSE "start.orphan")
  /\ UNCHANGED <<board, live, reconcile, recent, reader, connected, disconnect,
                 probed, appServer, faults>>

StartOrphan(c) ==
  /\ calls[c].pc = "start.orphan"
  /\ WorkerResult(calls[c].run, CallbackStatus(calls[c].turn))
  /\ Goto(c, "start.finish")
  /\ UNCHANGED <<reconcile, recent, reader, transport, appServer, faults>>

\* Mutant: only a terminal Run is left alone.
ConfirmedEvenUnknown(status) == IF status \in TerminalStatuses THEN status ELSE "active"

Confirmed(status) == IF status = "starting" THEN "active" ELSE status

\* Third lock: record the turn; a Run that has ended meanwhile stays ended.
StartFinish(c) ==
  LET r == calls[c].run
      t == calls[c].turn
      open == runs[r].status \in OccupyingStatuses \ {"unknown"}
  IN
  /\ calls[c].pc = "start.finish"
  /\ runs' = [runs EXCEPT
       ![r].transportTurnId = t, ![r].status = Confirmed(@)]
  /\ sessions' = IF open
                 THEN [sessions EXCEPT ![runs[r].sessionId].runtimeStatus = "active",
                                       ![runs[r].sessionId].activeTurnId = t]
                 ELSE sessions
  /\ Return(c)
  /\ UNCHANGED <<live, reconcile, recent, reader, transport, appServer, faults>>

\* TransportRejected (or any other exception) ends the Run without a start.
StartRefused(c) ==
  /\ calls[c].pc = "start.refused"
  /\ SetTerminal(calls[c].run, "failed")
  /\ Return(c)
  /\ UNCHANGED <<reconcile, recent, reader, transport, appServer, faults>>

\* Mutant: an unknown outcome is reported like a refusal.
StartUnknownAsFailed(c) ==
  /\ calls[c].pc = "start.unknown"
  /\ SetTerminal(calls[c].run, "failed")
  /\ Return(c)
  /\ UNCHANGED <<reconcile, recent, reader, transport, appServer, faults>>

\* TransportOutcomeUnknown leaves the Run occupying its Session.
StartUnknown(c) ==
  /\ calls[c].pc = "start.unknown"
  /\ SetUnknown(calls[c].run)
  /\ Return(c)
  /\ UNCHANGED <<reconcile, recent, reader, transport, appServer, faults>>

-----------------------------------------------------------------------------
(* interrupt_run and handoff                                               *)

\* A repeated requestId can only change which refusal the client sees.
InterruptCheck(c, r) ==
  /\ "interrupt" \in Operations
  /\ calls[c].pc = "idle"
  /\ runs[r].status = "active"
  /\ runs[r].transportTurnId # None
  /\ runs' = [runs EXCEPT ![r].status = "interrupting"]
  /\ calls' = [calls EXCEPT ![c] =
       [IdleCall EXCEPT !.pc = "interrupt.rpc", !.session = runs[r].sessionId,
                        !.run = r, !.turn = runs[r].transportTurnId]]
  /\ UNCHANGED <<sessions, live, reconcile, recent, reader, transport, appServer, faults>>

\* The refusals of handoff; a repeated requestId returns what it did before.
MayHandoff(s, q) ==
  /\ "handoff" \in Operations
  /\ WithinGenerations
  /\ sessions[s].registered
  /\ sessions[s].lastHandoffRequestId # q
  /\ ~(sessions[s].handoffRequestId = q /\ sessions[s].handoffStatus # "none")
  /\ sessions[s].handoffStatus \notin {"pending", "unknown"}
  /\ sessions[s].controlMode = "managed"

HasActiveTurn(s) ==
  sessions[s].runtimeStatus \in BusyRuntime /\ sessions[s].activeTurnId # None

HandoffIdle(s, q) ==
  /\ MayHandoff(s, q)
  /\ ~HasActiveTurn(s)
  /\ sessions[s].runtimeStatus = "idle"
  /\ sessions' = [sessions EXCEPT ![s] =
       [TakenOver(@) EXCEPT !.handoffStatus = "completed", !.handoffRequestId = q,
                            !.lastHandoffRequestId = q]]
  /\ UNCHANGED <<runs, gateway, transport, appServer, faults>>

HandoffActive(c, s, q, r) ==
  /\ calls[c].pc = "idle"
  /\ MayHandoff(s, q)
  /\ HasActiveTurn(s)
  /\ r \in OccupyingRuns(s)
  /\ runs[r].transportTurnId # None
  /\ runs' = [runs EXCEPT ![r].status = "interrupting", ![r].handoffRequestId = q]
  /\ sessions' = [sessions EXCEPT ![s].handoffStatus = "pending",
                                  ![s].handoffRequestId = q]
  /\ calls' = [calls EXCEPT ![c] =
       [IdleCall EXCEPT !.pc = "handoff.rpc", !.session = s, !.run = r, !.request = q,
                        !.turn = runs[r].transportTurnId]]
  /\ UNCHANGED <<live, reconcile, recent, reader, transport, appServer, faults>>

\* turn/interrupt succeeds: the turn's end, whatever it is, comes as an event.
InterruptAccepted(c) ==
  /\ calls[c].pc \in {"interrupt.rpc", "handoff.rpc"}
  /\ connected
  /\ turns[calls[c].turn].status = "running"
  /\ IF calls[c].pc = "handoff.rpc" THEN Return(c) ELSE Goto(c, "interrupt.get")
  /\ UNCHANGED <<board, live, reconcile, recent, reader, transport, appServer, faults>>

\* Mutant: an accepted interrupt counts as the interruption.
InterruptGetEager(c) ==
  /\ calls[c].pc = "interrupt.get"
  /\ SetTerminal(calls[c].run, "interrupted")
  /\ Return(c)
  /\ UNCHANGED <<reconcile, recent, reader, transport, appServer, faults>>

\* interrupt_run answers with get_run, which may schedule a reconcile.
InterruptGet(c) ==
  /\ calls[c].pc = "interrupt.get"
  /\ ScheduleReconcile(calls[c].run) \/ UNCHANGED reconcile
  /\ Return(c)
  /\ UNCHANGED <<board, live, recent, reader, transport, appServer, faults>>

\* The turn no longer runs, or the App Server refuses.
InterruptRejected(c) ==
  /\ calls[c].pc \in {"interrupt.rpc", "handoff.rpc"}
  /\ connected
  /\ \/ turns[calls[c].turn].status # "running" /\ UNCHANGED faults
     \/ Fault("refuse")
  /\ Goto(c, IF calls[c].pc = "handoff.rpc" THEN "handoff.failed" ELSE "interrupt.failed")
  /\ UNCHANGED <<board, live, reconcile, recent, reader, transport, appServer>>

\* interrupt_turn does not connect again, it ends as one that times out.
\* interrupt_run treats an unknown outcome as a failed one; handoff does not.
InterruptUnanswered(c) ==
  /\ calls[c].pc \in {"interrupt.rpc", "handoff.rpc"}
  /\ Fault("timeout") \/ (~connected /\ UNCHANGED faults)
  /\ Goto(c, IF calls[c].pc = "handoff.rpc" THEN "handoff.unknown" ELSE "interrupt.failed")
  /\ UNCHANGED <<board, live, reconcile, recent, reader, transport, appServer>>

InterruptFailed(c) ==
  /\ calls[c].pc = "interrupt.failed"
  /\ runs' = [runs EXCEPT ![calls[c].run].status = IF @ = "interrupting" THEN "active" ELSE @]
  /\ Return(c)
  /\ UNCHANGED <<sessions, live, reconcile, recent, reader, transport, appServer, faults>>

HandoffUnknown(c) ==
  LET r == calls[c].run IN
  /\ calls[c].pc = "handoff.unknown"
  /\ runs' = [runs EXCEPT ![r].status = IF Terminated(r) THEN @ ELSE "unknown"]
  /\ sessions' = IF Terminated(r) THEN sessions
                 ELSE [sessions EXCEPT ![calls[c].session].runtimeStatus = "unknown",
                                       ![calls[c].session].handoffStatus = "unknown"]
  /\ Return(c)
  /\ UNCHANGED <<live, reconcile, recent, reader, transport, appServer, faults>>

HandoffFailed(c) ==
  LET r == calls[c].run IN
  /\ calls[c].pc = "handoff.failed"
  /\ IF Terminated(r)
     THEN UNCHANGED board
     ELSE /\ runs' = [runs EXCEPT ![r].status = IF @ = "interrupting" THEN "active" ELSE @]
          /\ sessions' = [sessions EXCEPT ![calls[c].session] =
               [@ EXCEPT !.controlMode = "managed", !.handoffStatus = "failed",
                         !.handoffRequestId = calls[c].request,
                         !.lastHandoffRequestId = calls[c].request]]
  /\ Return(c)
  /\ UNCHANGED <<live, reconcile, recent, reader, transport, appServer, faults>>

Reclaim(s, q) ==
  /\ "reclaim" \in Operations
  /\ WithinGenerations
  /\ sessions[s].registered
  /\ sessions[s].lastReclaimRequestId # q
  /\ sessions[s].controlMode = "external"
  /\ sessions[s].runtimeStatus = "idle"
  /\ sessions' = [sessions EXCEPT ![s] =
       [@ EXCEPT !.controlGeneration = sessions[s].controlGeneration + 1,
                 !.controlMode = "managed",
                 !.handoffStatus = "none", !.handoffRequestId = None,
                 !.lastReclaimRequestId = q]]
  /\ UNCHANGED <<runs, gateway, transport, appServer, faults>>

-----------------------------------------------------------------------------
(* put_session                                                             *)

Fresh(th, enabled, mode, runtime) ==
  [registered |-> TRUE, thread |-> th, enabled |-> enabled, controlMode |-> mode,
   runtimeStatus |-> runtime, activeTurnId |-> None, handoffStatus |-> "none",
   handoffRequestId |-> None, lastHandoffRequestId |-> None,
   lastReclaimRequestId |-> None, controlGeneration |-> 1]

\* A running thread belongs to whoever runs it.
OwnedByRuntime(session) ==
  IF session.runtimeStatus \in BusyRuntime
  THEN [session EXCEPT !.controlMode = "external"] ELSE session

\* The record put_session stores over the previous one.
Merged(previous, record, minimal) ==
  LET kept == OwnedByRuntime(
        [previous EXCEPT
          !.thread = record.thread, !.enabled = record.enabled,
          !.runtimeStatus = IF minimal THEN record.runtimeStatus ELSE @,
          !.activeTurnId = IF minimal THEN None ELSE @])
      switched == kept.thread # previous.thread \/ kept.controlMode # previous.controlMode
  IN  IF previous.registered
      THEN [kept EXCEPT !.controlGeneration = IF switched THEN @ + 1 ELSE @]
      ELSE OwnedByRuntime(record)

\* Nothing is stored over an occupied Session, nor when the record says what
\* the board already says; the fields the model leaves out may differ (edited).
PutSession(s, record, minimal, edited) ==
  LET stored == Merged(sessions[s], record, minimal)
      same == [stored EXCEPT !.activeTurnId = sessions[s].activeTurnId] = sessions[s]
  IN  sessions' = IF OccupyingRuns(s) # {} \/ (same /\ ~edited)
                  THEN sessions ELSE [sessions EXCEPT ![s] = stored]

\* A configuration with every runtime field: one locked block.
PutFull(s, th, enabled, mode, edited) ==
  /\ "put" \in Operations
  /\ WithinGenerations
  /\ PutSession(s, Fresh(th, enabled, mode, "notLoaded"), FALSE, edited)
  /\ UNCHANGED <<runs, gateway, transport, appServer, faults>>

\* _resolve_minimal_runtime: thread/read outside the lock.
PutRead(c, s, th) ==
  /\ "putMinimal" \in Operations
  /\ WithinGenerations
  /\ calls[c].pc = "idle"
  /\ connected
  /\ \E runtime \in IF RunningOn(th) = {} THEN {"idle", "notLoaded"} ELSE {"active"} :
       calls' = [calls EXCEPT ![c] =
         [IdleCall EXCEPT !.pc = "put.commit", !.session = s, !.thread = th,
                          !.runtime = runtime]]
  /\ UNCHANGED <<board, live, reconcile, recent, reader, transport, appServer, faults>>

PutCommit(c) ==
  LET s == calls[c].session IN
  /\ calls[c].pc = "put.commit"
  /\ \E enabled, edited \in BOOLEAN, mode \in {"managed", "external"} :
       PutSession(s, Fresh(calls[c].thread, enabled, mode, calls[c].runtime), TRUE, edited)
  /\ Return(c)
  /\ UNCHANGED <<runs, live, reconcile, recent, reader, transport, appServer, faults>>

-----------------------------------------------------------------------------
(* The reader thread: one notification at a time                           *)

\* turn/completed: the transport first takes the terminal callback, if any.
ReadCompleted ==
  LET m == Head(events)
      t == m.turn
      r == watched[t]
  IN
  /\ reader.pc = "ready" /\ events # <<>> /\ m.method = "turn/completed"
  /\ events' = Tail(events)
  /\ reader' = [ReadyReader EXCEPT !.pc = IF r = None THEN "orphan" ELSE "callback",
                                   !.message = m, !.run = r]
  /\ watched' = [watched EXCEPT ![t] = None]
  /\ terminals' = [terminals EXCEPT ![t] = IF r = None THEN @ ELSE "tombstone"]
  /\ UNCHANGED <<board, live, reconcile, recent, calls, connected, disconnect,
                 probed, turns, faults>>

\* No callback yet: the end is kept for start_turn, under a lock of its own.
ReadOrphan ==
  /\ reader.pc = "orphan"
  /\ terminals' = [terminals EXCEPT
       ![reader.message.turn] = IF @ = "tombstone" THEN @ ELSE "orphan"]
  /\ reader' = [reader EXCEPT !.pc = "match"]
  /\ UNCHANGED <<board, live, reconcile, recent, calls, connected, watched,
                 disconnect, probed, appServer, faults>>

ReadCallback ==
  /\ reader.pc = "callback"
  /\ WorkerResult(reader.run, CallbackStatus(reader.message.turn))
  /\ reader' = [reader EXCEPT !.pc = "match", !.run = None]
  /\ UNCHANGED <<reconcile, recent, calls, transport, appServer, faults>>

Remembered(seq, t) ==
  LET grown == Append(seq, t)
  IN  IF Len(grown) > RecentLimit THEN Tail(grown) ELSE grown

\* _on_transport_notification remembers the turn and closes the Run that
\* recorded it; at most one Run recorded it.
ReadMatch ==
  LET t == reader.message.turn
      matching == {r \in Runs : /\ Occupies(r)
                                /\ runs[r].transportTurnId = t
                                /\ runs[r].sessionId \in SessionsOn(reader.message.thread)}
  IN
  /\ reader.pc = "match"
  /\ recent' = Remembered(recent, t)
  /\ IF matching = {} THEN UNCHANGED <<board, live>>
     ELSE \E r \in matching : WorkerResult(r, CallbackStatus(t))
  /\ reader' = [reader EXCEPT !.pc = "release"]
  /\ UNCHANGED <<reconcile, calls, transport, appServer, faults>>

\* The external Sessions that followed the turn are idle again.
ReadRelease ==
  LET t == reader.message.turn
      following == {s \in SessionsOn(reader.message.thread) :
                      /\ sessions[s].controlMode = "external"
                      /\ sessions[s].activeTurnId \in {None, t}}
  IN
  /\ reader.pc = "release"
  /\ sessions' = [s \in Sessions |->
       IF s \in following
       THEN [sessions[s] EXCEPT !.runtimeStatus = "idle", !.activeTurnId = None]
       ELSE sessions[s]]
  /\ reader' = ReadyReader
  /\ UNCHANGED <<runs, live, reconcile, recent, calls, transport, appServer, faults>>

\* turn/started or an active thread status: note which Runs are live now.
ReadStarted ==
  /\ reader.pc = "ready" /\ events # <<>>
  /\ Head(events).method # "turn/completed"
  /\ events' = Tail(events)
  /\ reader' = [ReadyReader EXCEPT !.pc = "project", !.message = Head(events),
                                   !.live = live]
  /\ UNCHANGED <<board, live, reconcile, recent, calls, transport, turns, faults>>

\* An occupying Run explains the turn: it recorded it, or it is waiting for it.
Explains(r, t, liveThen) ==
  \/ t = None
  \/ runs[r].transportTurnId = t
  \/ runs[r].status = "starting" /\ runs[r].transportTurnId = None /\ r \in liveThen

ReadProject ==
  LET t == reader.message.turn
      unexplained == {s \in SessionsOn(reader.message.thread) :
                        \A r \in OccupyingRuns(s) : ~Explains(r, t, reader.live)}
  IN
  /\ reader.pc = "project"
  /\ sessions' = [s \in Sessions |->
       IF s \in unexplained THEN Projected(sessions[s], t) ELSE sessions[s]]
  /\ reader' = ReadyReader
  /\ UNCHANGED <<runs, live, reconcile, recent, calls, transport, appServer, faults>>

-----------------------------------------------------------------------------
(* Lost connections, terminal probes and restarts                          *)

\* Where a call goes on when the RPC it waits for fails with the connection.
Failure ==
  [pc \in {"start.rpc", "start.reply", "interrupt.rpc", "handoff.rpc"} |->
     CASE pc = "interrupt.rpc" -> "interrupt.failed"
       [] pc = "handoff.rpc"   -> "handoff.failed"
       [] OTHER                -> "start.refused"]

\* _mark_disconnected fails every pending RPC with an error, which request()
\* raises as TransportRejected; an RPC not yet sent or already answered is not.
Disconnect ==
  /\ connected
  /\ Fault("disconnect")
  /\ connected' = FALSE
  /\ \E pending \in SUBSET {c \in Callers : calls[c].pc \in DOMAIN Failure} :
       calls' = [c \in Callers |->
         IF c \in pending THEN [calls[c] EXCEPT !.pc = Failure[@]] ELSE calls[c]]
  /\ disconnect' = [runs |-> disconnect.runs
                             \cup {r \in Runs : \E t \in Turns : watched[t] = r},
                    status |-> TRUE]
  /\ watched' = [t \in Turns |-> None]
  /\ terminals' = [t \in Turns |-> "none"]
  /\ events' = <<>>
  /\ UNCHANGED <<board, live, reconcile, recent, reader, probed, turns>>

\* ... then it reports every managed turn unknown, one callback at a time ...
DisconnectCallback(r) ==
  /\ r \in disconnect.runs
  /\ SetUnknown(r)
  /\ disconnect' = [disconnect EXCEPT !.runs = @ \ {r}]
  /\ UNCHANGED <<reconcile, recent, calls, reader, connected, watched, terminals,
                 probed, appServer, faults>>

\* ... and last of all transport/status, which touches every managed Session.
DisconnectStatus ==
  /\ disconnect.status /\ disconnect.runs = {}
  /\ disconnect' = [disconnect EXCEPT !.status = FALSE]
  /\ sessions' = [s \in Sessions |->
       IF sessions[s].registered /\ sessions[s].controlMode = "managed"
       THEN [sessions[s] EXCEPT !.runtimeStatus = "unknown"] ELSE sessions[s]]
  /\ UNCHANGED <<runs, gateway, connected, watched, terminals, probed, appServer, faults>>

\* _ensure_connected: the next RPC connects again, in a new generation; an end
\* the reader thread of the last one still has to keep is kept for nobody.
Reconnect ==
  /\ ~connected
  /\ connected' = TRUE
  /\ terminals' = [t \in Turns |-> "none"]
  /\ reader' = [reader EXCEPT !.pc = IF @ = "orphan" THEN "match" ELSE @]
  /\ UNCHANGED <<board, live, reconcile, recent, calls, watched, disconnect, probed,
                 appServer, faults>>

\* _schedule_reconcile of the transport: a thread went idle while the turn's
\* callback is still waiting, so a worker looks the turn up and reports what it
\* finds, or "unknown" when the lookup fails or omits the turn.
Probe(t) ==
  LET r == watched[t] IN
  /\ connected
  /\ r # None
  /\ \/ /\ turns[t].status # "running"
        /\ probed' = [probed EXCEPT ![r] = CallbackStatus(t)]
        /\ UNCHANGED faults
     \/ /\ Fault("probe")
        /\ probed' = [probed EXCEPT ![r] = "unknown"]
  /\ watched' = [watched EXCEPT ![t] = None]
  /\ terminals' = [terminals EXCEPT ![t] = "tombstone"]
  /\ UNCHANGED <<board, gateway, connected, disconnect, appServer>>

ProbeCallback(r) ==
  /\ probed[r] # "none"
  /\ WorkerResult(r, probed[r])
  /\ probed' = [probed EXCEPT ![r] = "none"]
  /\ UNCHANGED <<reconcile, recent, calls, reader, connected, watched, terminals,
                 disconnect, appServer, faults>>

\* The process dies and starts again: only the board survives, and every
\* occupying Run gets a reconcile worker (_reconcile_orphaned_runs).
Restart ==
  /\ Fault("crash")
  /\ live' = {}
  /\ reconcile' = [r \in Runs |-> IF Occupies(r) THEN [NoWorker EXCEPT !.pc = "read"]
                                 ELSE NoWorker]
  /\ recent' = <<>>
  /\ calls' = [c \in Callers |-> IdleCall]
  /\ reader' = ReadyReader
  /\ connected' = FALSE
  /\ watched' = [t \in Turns |-> None]
  /\ terminals' = [t \in Turns |-> "none"]
  /\ disconnect' = [runs |-> {}, status |-> FALSE]
  /\ probed' = [r \in Runs |-> "none"]
  /\ events' = <<>>
  /\ UNCHANGED <<board, turns>>

-----------------------------------------------------------------------------
(* The specification                                                       *)

Unregistered ==
  [registered |-> FALSE, thread |-> None, enabled |-> FALSE, controlMode |-> "managed",
   runtimeStatus |-> "notLoaded", activeTurnId |-> None, handoffStatus |-> "none",
   handoffRequestId |-> None, lastHandoffRequestId |-> None,
   lastReclaimRequestId |-> None, controlGeneration |-> 1]

Absent ==
  [status |-> "absent", requestId |-> None, sessionId |-> None,
   transportTurnId |-> None, handoffRequestId |-> None, controlGeneration |-> 1]

InitProcess ==
  /\ live = {}
  /\ reconcile = [r \in Runs |-> NoWorker]
  /\ recent = <<>>
  /\ calls = [c \in Callers |-> IdleCall]
  /\ reader = ReadyReader
  /\ connected = TRUE
  /\ watched = [t \in Turns |-> None]
  /\ terminals = [t \in Turns |-> "none"]
  /\ disconnect = [runs |-> {}, status |-> FALSE]
  /\ probed = [r \in Runs |-> "none"]
  /\ turns = [t \in Turns |-> NoTurn]
  /\ events = <<>>
  /\ faults = 0

\* An empty board, or one whose Sessions clients have just registered with a
\* minimal put_session while their threads were idle.
Init ==
  /\ runs = [r \in Runs |-> Absent]
  /\ \/ sessions = [s \in Sessions |-> Unregistered]
     \/ \E th \in [Sessions -> Threads] :
          sessions = [s \in Sessions |-> Fresh(th[s], TRUE, "managed", "idle")]
  /\ InitProcess

StartStep(c) ==
  \/ \E s \in Sessions, q \in Requests : StartCheck(c, s, q)
  \/ StartRead(c)
  \/ \E r \in Runs : StartCreate(c, r)
  \/ StartDenied(c)
  \/ StartRemember(c)
  \/ \E t \in Turns : StartAccepted(c, t)
  \/ StartRejected(c)
  \/ StartUnanswered(c)
  \/ StartRegister(c)
  \/ StartTakeOrphan(c)
  \/ StartOrphan(c)
  \/ StartFinish(c)
  \/ StartRefused(c)
  \/ StartUnknown(c)

ControlStep(c) ==
  \/ \E r \in Runs : InterruptCheck(c, r)
  \/ \E s \in Sessions, q \in Requests, r \in Runs : HandoffActive(c, s, q, r)
  \/ InterruptAccepted(c)
  \/ InterruptGet(c)
  \/ InterruptRejected(c)
  \/ InterruptUnanswered(c)
  \/ InterruptFailed(c)
  \/ HandoffUnknown(c)
  \/ HandoffFailed(c)
  \/ \E s \in Sessions, th \in Threads : PutRead(c, s, th)
  \/ PutCommit(c)

SessionStep(s) ==
  \/ \E q \in Requests : HandoffIdle(s, q) \/ Reclaim(s, q)
  \/ \E th \in Threads, enabled, edited \in BOOLEAN, mode \in {"managed", "external"} :
       PutFull(s, th, enabled, mode, edited)

ReconcileStep(r) ==
  \/ GetRun(r)
  \/ ReconcileRead(r)
  \/ ReconcileList(r)
  \/ ReconcileProject(r)
  \/ ReconcileClose(r)

ReaderStep ==
  \/ ReadCompleted \/ ReadCallback \/ ReadOrphan \/ ReadMatch \/ ReadRelease
  \/ ReadStarted \/ ReadProject

TransportStep ==
  \/ Disconnect
  \/ \E r \in Runs : DisconnectCallback(r) \/ ProbeCallback(r)
  \/ DisconnectStatus
  \/ Reconnect
  \/ \E t \in Turns : Probe(t)

AppServerStep ==
  \/ \E t \in Turns, th \in Threads : ExternalTurnStarts(t, th)
  \/ \E t \in Turns, outcome \in TurnOutcomes : TurnEnds(t, outcome)

Next ==
  \/ \E c \in Callers : StartStep(c) \/ ControlStep(c)
  \/ \E s \in Sessions : SessionStep(s)
  \/ \E r \in Runs : ReconcileStep(r)
  \/ ReaderStep
  \/ TransportStep
  \/ AppServerStep
  \/ Restart

Spec == Init /\ [][Next]_vars

=============================================================================
