---------------------------- MODULE GatewaySteps ----------------------------
(***************************************************************************)
(* What the steps of GatewayService do, for every number of Sessions, Runs,*)
(* turns, requests, handler threads and faults.                            *)
(*                                                                         *)
(* First types: one lemma per helper, then one per group of actions.  Then *)
(* the board: every step of every thread but the creation of a Run writes  *)
(* to at most one Run and keeps its ids and its outcome (RunWrite), and    *)
(* every write to a Session respects its controlGeneration (SessionWrite). *)
(* Last, what may become of one Run, turn, call, callback, probe or worker *)
(* (RunMoves, TurnMoves, CallMoves ...): the induction over outcomes in    *)
(* GatewayTheorems looks at these alternatives and at no action.           *)
(***************************************************************************)
EXTENDS GatewayProperties, SequenceTheorems, TLAPS

-----------------------------------------------------------------------------
(* Helpers                                                                 *)

\* A takeover keeps a Session record one.
LEMMA TakenOverType ==
  ASSUME NEW session \in SessionRecord
  PROVE  TakenOver(session) \in SessionRecord
<1> DEFINE generation == IF session.controlMode = "external"
                         THEN session.controlGeneration ELSE session.controlGeneration + 1
<1>1. generation \in Nat
  BY DEF SessionRecord
<1>2. TakenOver(session) =
        [session EXCEPT !.controlMode = "external", !.controlGeneration = generation]
  BY DEF TakenOver, SessionRecord
<1> HIDE DEF generation
<1> QED BY <1>1, <1>2 DEF SessionRecord

\* So does the projection of a turn as external.
LEMMA ProjectedType ==
  ASSUME NEW session \in SessionRecord, NEW t \in Turns \cup {None}
  PROVE  Projected(session, t) \in SessionRecord
<1>1. TakenOver(session) \in SessionRecord
  BY TakenOverType
<1> QED BY <1>1 DEF Projected, SessionRecord, RuntimeStatuses

\* So does the end of a Run, whatever becomes of its handoff.
LEMMA AfterTerminalType ==
  ASSUME NEW session \in SessionRecord, NEW run \in RunRecord,
         NEW status \in TerminalStatuses
  PROVE  AfterTerminal(session, run, status) \in SessionRecord
<1> DEFINE idled == [session EXCEPT !.runtimeStatus = "idle", !.activeTurnId = None]
           resolved(outcome) ==
             [idled EXCEPT !.handoffStatus = outcome,
                           !.lastHandoffRequestId = run.handoffRequestId]
<1>1. idled \in SessionRecord
  BY DEF SessionRecord, RuntimeStatuses
<1>2. run.handoffRequestId \in Requests \cup {None}
  BY DEF RunRecord
<1>3. ASSUME NEW outcome \in HandoffStatuses
      PROVE  resolved(outcome) \in SessionRecord
  <2> HIDE DEF idled
  <2> QED BY <1>1, <1>2 DEF SessionRecord
<1>4. TakenOver(resolved("completed")) \in SessionRecord
  <2> HIDE DEF resolved
  <2> QED BY <1>3, TakenOverType DEF HandoffStatuses
<1>5. resolved("failed") \in SessionRecord
  BY <1>3 DEF HandoffStatuses
<1>6. [resolved("failed") EXCEPT !.controlMode = "managed"] \in SessionRecord
  <2> HIDE DEF resolved
  <2> QED BY <1>5 DEF SessionRecord
<1> HIDE DEF idled, resolved
<1>7. AfterTerminal(session, run, status) \in
        {session, idled, TakenOver(resolved("completed")),
         [resolved("failed") EXCEPT !.controlMode = "managed"]}
  BY DEF AfterTerminal, idled, resolved
<1> QED BY <1>1, <1>4, <1>6, <1>7

\* So does a stored configuration.
LEMMA MergedType ==
  ASSUME NEW previous \in SessionRecord, NEW record \in SessionRecord,
         NEW minimal \in BOOLEAN
  PROVE  Merged(previous, record, minimal) \in SessionRecord
<1> DEFINE runtime == IF minimal THEN record.runtimeStatus ELSE previous.runtimeStatus
           turn == IF minimal THEN None ELSE previous.activeTurnId
           kept == OwnedByRuntime(
             [previous EXCEPT !.thread = record.thread, !.enabled = record.enabled,
                              !.runtimeStatus = runtime, !.activeTurnId = turn])
<1>1. \A x \in SessionRecord : OwnedByRuntime(x) \in SessionRecord
  BY DEF OwnedByRuntime, SessionRecord
<1>2. /\ runtime \in RuntimeStatuses
      /\ turn \in Turns \cup {None}
      /\ record.thread \in Threads \cup {None}
      /\ record.enabled \in BOOLEAN
  BY DEF SessionRecord
<1>3. kept \in SessionRecord
  <2> HIDE DEF runtime, turn
  <2>1. [previous EXCEPT !.thread = record.thread, !.enabled = record.enabled,
                         !.runtimeStatus = runtime, !.activeTurnId = turn]
          \in SessionRecord
    BY <1>2 DEF SessionRecord
  <2> QED BY <1>1, <2>1
<1>4. [kept EXCEPT !.controlGeneration = @ + 1] \in SessionRecord
  <2> HIDE DEF kept
  <2> QED BY <1>3 DEF SessionRecord
<1>5. Merged(previous, record, minimal) \in
        {kept, [kept EXCEPT !.controlGeneration = @ + 1], OwnedByRuntime(record)}
  <2>1. [kept EXCEPT !.controlGeneration = @] = kept
    <3> HIDE DEF kept
    <3> QED BY <1>3 DEF SessionRecord
  <2> QED BY <2>1 DEF Merged
<1> HIDE DEF kept
<1> QED BY <1>1, <1>3, <1>4, <1>5

\* Giving one Run a status keeps the type of the board's Runs.
LEMMA StatusType ==
  ASSUME runs \in [Runs -> RunRecord], NEW r \in Runs,
         NEW status \in RunStatuses \cup {"absent"}
  PROVE  [runs EXCEPT ![r].status = status] \in [Runs -> RunRecord]
<1>1. [runs[r] EXCEPT !.status = status] \in RunRecord
  BY DEF RunRecord
<1> QED BY <1>1

\* _set_terminal keeps the types of all it writes.
LEMMA SetTerminalType ==
  ASSUME TypeOK, NEW r \in Runs, NEW status \in TerminalStatuses,
         SetTerminal(r, status)
  PROVE  /\ sessions' \in [Sessions -> SessionRecord]
         /\ runs' \in [Runs -> RunRecord]
         /\ live' \subseteq Runs
<1> DEFINE kept == IF Terminated(r) THEN runs[r].status ELSE status
<1>1. runs' = [runs EXCEPT ![r].status = kept]
  BY DEF SetTerminal
<1>2. kept \in RunStatuses \cup {"absent"}
  BY DEF RunStatuses, TypeOK, RunRecord
<1>3. runs' \in [Runs -> RunRecord]
  <2> HIDE DEF kept
  <2> QED BY <1>1, <1>2, StatusType DEF TypeOK
<1>4. sessions' \in [Sessions -> SessionRecord]
  BY AfterTerminalType DEF SetTerminal, TypeOK
<1> QED BY <1>3, <1>4 DEF SetTerminal, TypeOK

\* _set_unknown keeps the types of all it writes.
LEMMA SetUnknownType ==
  ASSUME TypeOK, NEW r \in Runs, SetUnknown(r)
  PROVE  /\ sessions' \in [Sessions -> SessionRecord]
         /\ runs' \in [Runs -> RunRecord]
         /\ live' \subseteq Runs
<1> DEFINE kept == IF Terminated(r) THEN runs[r].status ELSE "unknown"
<1>1. runs' = [runs EXCEPT ![r].status = kept]
  BY DEF SetUnknown
<1>2. kept \in RunStatuses \cup {"absent"}
  BY DEF RunStatuses, OccupyingStatuses, TypeOK, RunRecord
<1>3. runs' \in [Runs -> RunRecord]
  <2> HIDE DEF kept
  <2> QED BY <1>1, <1>2, StatusType DEF TypeOK
<1> QED BY <1>3 DEF SetUnknown, TypeOK

\* So does the terminal callback, which is one of the two.
LEMMA WorkerResultType ==
  ASSUME TypeOK, NEW r \in Runs, NEW status \in TerminalStatuses \cup {"unknown"},
         WorkerResult(r, status)
  PROVE  /\ sessions' \in [Sessions -> SessionRecord]
         /\ runs' \in [Runs -> RunRecord]
         /\ live' \subseteq Runs
BY SetTerminalType, SetUnknownType DEF WorkerResult

\* The transport calls it with an outcome or with unknown.
LEMMA CallbackStatusType ==
  ASSUME NEW t \in Turns
  PROVE  CallbackStatus(t) \in TerminalStatuses \cup {"unknown"}
BY DEF CallbackStatus

\* A handler thread moving on keeps the type of the handlers' locals.
LEMMA GotoType ==
  ASSUME calls \in [Callers -> CallRecord], NEW c \in Callers, NEW pc \in CallPhases
  PROVE  [calls EXCEPT ![c].pc = pc] \in [Callers -> CallRecord]
<1>1. [calls[c] EXCEPT !.pc = pc] \in CallRecord
  BY DEF CallRecord
<1> QED BY <1>1

\* The locals of a handler thread that has nothing to do.
LEMMA IdleCallType == IdleCall \in CallRecord
BY DEF IdleCall, CallRecord, CallPhases, RuntimeStatuses

\* A handler thread that returns keeps the type of the handlers' locals.
LEMMA ReturnType ==
  ASSUME calls \in [Callers -> CallRecord], NEW c \in Callers
  PROVE  [calls EXCEPT ![c] = IdleCall] \in [Callers -> CallRecord]
BY IdleCallType

\* A notification appends messages, or is lost with the connection.
LEMMA NotifyType ==
  ASSUME events \in Seq(Message), NEW messages \in Seq(Message), Notify(messages)
  PROVE  events' \in Seq(Message)
BY DEF Notify

\* A turn that begins is a turn record, announced by messages.
LEMMA BeginTurnType ==
  ASSUME TypeOK, NEW t \in Turns, NEW th \in Threads, NEW r \in Runs \cup {None},
         BeginTurn(t, th, r)
  PROVE  /\ turns' \in [Turns -> TurnRecord]
         /\ events' \in Seq(Message)
<1>1. turns' \in [Turns -> TurnRecord]
  BY DEF BeginTurn, TypeOK, TurnRecord
<1>2. PICK announced \in Announcements :
        Notify((IF announced
                THEN <<[method |-> "thread/status/changed", thread |-> th, turn |-> None]>>
                ELSE <<>>)
               \o <<[method |-> "turn/started", thread |-> th, turn |-> t]>>)
  BY DEF BeginTurn
<1>3. /\ [method |-> "thread/status/changed", thread |-> th, turn |-> None] \in Message
      /\ [method |-> "turn/started", thread |-> th, turn |-> t] \in Message
  BY DEF Message
<1>4. (IF announced
       THEN <<[method |-> "thread/status/changed", thread |-> th, turn |-> None]>>
       ELSE <<>>)
      \o <<[method |-> "turn/started", thread |-> th, turn |-> t]>> \in Seq(Message)
  BY <1>3
<1>5. events' \in Seq(Message)
  BY <1>2, <1>4, NotifyType DEF TypeOK
<1> QED BY <1>1, <1>5

\* So does one that moves on and remembers a Run or a turn.
LEMMA AdvanceType ==
  ASSUME calls \in [Callers -> CallRecord], NEW c \in Callers, NEW pc \in CallPhases,
         NEW run \in Runs \cup {None}, NEW turn \in Turns \cup {None}
  PROVE  /\ [calls EXCEPT ![c].pc = pc, ![c].run = run] \in [Callers -> CallRecord]
         /\ [calls EXCEPT ![c].pc = pc, ![c].turn = turn] \in [Callers -> CallRecord]
<1>1. [calls[c] EXCEPT !.pc = pc, !.run = run] \in CallRecord
  BY DEF CallRecord
<1>2. [calls[c] EXCEPT !.pc = pc, !.turn = turn] \in CallRecord
  BY DEF CallRecord
<1>3. [calls EXCEPT ![c] = [calls[c] EXCEPT !.pc = pc, !.run = run]]
        = [calls EXCEPT ![c].pc = pc, ![c].run = run]
  OBVIOUS
<1>4. [calls EXCEPT ![c] = [calls[c] EXCEPT !.pc = pc, !.turn = turn]]
        = [calls EXCEPT ![c].pc = pc, ![c].turn = turn]
  OBVIOUS
<1> QED BY <1>1, <1>2, <1>3, <1>4

\* The records TypeOK speaks of, one at a time.
LEMMA RecordTypes ==
  ASSUME TypeOK
  PROVE  /\ \A s \in Sessions : sessions[s] \in SessionRecord
         /\ \A r \in Runs : runs[r] \in RunRecord
         /\ \A r \in Runs : reconcile[r] \in WorkerRecord
         /\ \A c \in Callers : calls[c] \in CallRecord
BY DEF TypeOK

\* A reconcile worker is scheduled for a Run.
LEMMA ScheduleReconcileType ==
  ASSUME TypeOK, NEW r, ScheduleReconcile(r)
  PROVE  reconcile' \in [Runs -> WorkerRecord]
<1>1. CASE r \in Runs
  <2>1. [reconcile[r] EXCEPT !.pc = "read"] \in WorkerRecord
    BY <1>1, RecordTypes DEF WorkerRecord
  <2> QED BY <1>1, <2>1 DEF ScheduleReconcile, TypeOK
<1> QED BY <1>1 DEF ScheduleReconcile, TypeOK

\* A refused interrupt gives an interrupting Run back.
LEMMA RunRevivedType ==
  ASSUME runs \in [Runs -> RunRecord], NEW r \in Runs
  PROVE  [runs EXCEPT ![r].status = IF @ = "interrupting" THEN "active" ELSE @]
           \in [Runs -> RunRecord]
<1> DEFINE status == IF runs[r].status = "interrupting" THEN "active" ELSE runs[r].status
<1>1. status \in RunStatuses \cup {"absent"}
  BY DEF RunRecord, RunStatuses, OccupyingStatuses
<1>2. [runs EXCEPT ![r].status = IF @ = "interrupting" THEN "active" ELSE @]
        = [runs EXCEPT ![r].status = status]
  OBVIOUS
<1> HIDE DEF status
<1> QED BY <1>1, <1>2, StatusType

\* put_session stores a Session record.
LEMMA PutSessionType ==
  ASSUME TypeOK, NEW s \in Sessions, NEW th \in Threads, NEW enabled \in BOOLEAN,
         NEW mode \in {"managed", "external"}, NEW runtime \in RuntimeStatuses,
         NEW minimal \in BOOLEAN, NEW edited \in BOOLEAN,
         PutSession(s, Fresh(th, enabled, mode, runtime), minimal, edited)
  PROVE  sessions' \in [Sessions -> SessionRecord]
<1>1. Fresh(th, enabled, mode, runtime) \in SessionRecord
  BY DEF Fresh, SessionRecord, HandoffStatuses
<1>2. Merged(sessions[s], Fresh(th, enabled, mode, runtime), minimal) \in SessionRecord
  BY <1>1, MergedType DEF TypeOK
<1> QED BY <1>2 DEF PutSession, TypeOK

-----------------------------------------------------------------------------
(* Actions                                                                 *)

\* start_run keeps every type.
LEMMA StartType ==
  ASSUME TypeOK, CallsConsistent, NEW c \in Callers, StartStep(c)
  PROVE  TypeOK'
<1> USE DEF board, appServer, transport
<1>1. ASSUME NEW s \in Sessions, NEW q \in Requests, StartCheck(c, s, q)
      PROVE  TypeOK'
  <2>1. sessions[s].thread \in Threads \cup {None}
    BY DEF TypeOK, SessionRecord
  <2>2. [IdleCall EXCEPT !.pc = "start.read", !.session = s, !.request = q,
                         !.thread = sessions[s].thread] \in CallRecord
    BY IdleCallType, <2>1 DEF CallRecord, CallPhases
  <2> QED BY <1>1, <2>2 DEF StartCheck, TypeOK
<1>2. CASE StartRead(c)
  <2>1. calls' \in [Callers -> CallRecord]
    <3>1. CASE Goto(c, "start.create")
      <4>1. "start.create" \in CallPhases
        BY DEF CallPhases
      <4> QED BY <3>1, <4>1, GotoType DEF Goto, TypeOK
    <3>2. CASE Return(c)
      BY <3>2, ReturnType DEF Return, TypeOK
    <3> QED BY <1>2, <3>1, <3>2 DEF StartRead
  <2> QED BY <1>2, <2>1 DEF StartRead, TypeOK
<1>3. ASSUME NEW r \in Runs, StartCreate(c, r)
      PROVE  TypeOK'
  <2> DEFINE run == [status |-> "starting", requestId |-> calls[c].request,
                     sessionId |-> calls[c].session, transportTurnId |-> None,
                     handoffRequestId |-> None,
                     controlGeneration |-> sessions[calls[c].session].controlGeneration]
  <2>1. calls[c].session \in Sessions
    BY <1>3 DEF StartCreate, CallsConsistent, LocalsSet
  <2>2. run \in RunRecord
    BY <2>1 DEF TypeOK, RunRecord, CallRecord, SessionRecord, RunStatuses, OccupyingStatuses
  <2>3. calls' \in [Callers -> CallRecord]
    <3>1. "start.remember" \in CallPhases
      BY DEF CallPhases
    <3> QED BY <1>3, <3>1, AdvanceType DEF StartCreate, TypeOK
  <2>4. runs' \in [Runs -> RunRecord]
    BY <1>3, <2>2 DEF StartCreate, TypeOK
  <2> QED BY <1>3, <2>3, <2>4 DEF StartCreate, TypeOK
<1>4. CASE StartDenied(c)
  BY <1>4, ReturnType DEF StartDenied, Return, TypeOK
<1>5. CASE StartRemember(c)
  <2>1. calls' \in [Callers -> CallRecord]
    BY <1>5, GotoType DEF StartRemember, Goto, TypeOK, CallPhases
  <2>2. calls[c].run \in Runs
    BY <1>5 DEF StartRemember, CallsConsistent, Created, StartedPhases
  <2> QED BY <1>5, <2>1, <2>2 DEF StartRemember, TypeOK
<1>6. ASSUME NEW t \in Turns, StartAccepted(c, t)
      PROVE  TypeOK'
  <2>1. /\ calls[c].thread \in Threads
        /\ calls[c].run \in Runs
    BY <1>6 DEF StartAccepted, CallsConsistent, LocalsSet, Created, StartedPhases
  <2>2. calls' \in [Callers -> CallRecord]
    <3>1. "start.reply" \in CallPhases
      BY DEF CallPhases
    <3> QED BY <1>6, <3>1, AdvanceType DEF StartAccepted, TypeOK
  <2>3. turns' \in [Turns -> TurnRecord] /\ events' \in Seq(Message)
    BY <1>6, <2>1, BeginTurnType DEF StartAccepted
  <2> QED BY <1>6, <2>2, <2>3 DEF StartAccepted, TypeOK
<1>7. CASE StartRejected(c)
  <2>1. calls' \in [Callers -> CallRecord]
    <3>1. "start.refused" \in CallPhases
      BY DEF CallPhases
    <3> QED BY <1>7, <3>1, GotoType DEF StartRejected, Goto, TypeOK
  <2>2. faults' \in Nat
    BY <1>7 DEF StartRejected, Fault, TypeOK
  <2> QED BY <1>7, <2>1, <2>2 DEF StartRejected, TypeOK
<1>8. CASE StartUnanswered(c)
  <2>1. calls' \in [Callers -> CallRecord]
    <3>1. "start.unknown" \in CallPhases
      BY DEF CallPhases
    <3> QED BY <1>8, <3>1, GotoType DEF StartUnanswered, Goto, TypeOK
  <2>2. faults' \in Nat
    BY <1>8 DEF StartUnanswered, Fault, TypeOK
  <2> QED BY <1>8, <2>1, <2>2 DEF StartUnanswered, TypeOK
<1>9. CASE StartRegister(c)
  <2>1. calls[c].run \in Runs
    BY <1>9 DEF StartRegister, CallsConsistent, Created, StartedPhases
  <2>2. calls' \in [Callers -> CallRecord]
    <3>1. "start.take" \in CallPhases /\ "start.finish" \in CallPhases
      BY DEF CallPhases
    <3> QED BY <1>9, <3>1, GotoType DEF StartRegister, Goto, TypeOK
  <2>3. watched' \in [Turns -> Runs \cup {None}]
    BY <1>9, <2>1 DEF StartRegister, TypeOK
  <2>4. terminals' \in [Turns -> {"none", "orphan", "tombstone"}]
    BY <1>9 DEF StartRegister, TypeOK
  <2> QED BY <1>9, <2>2, <2>3, <2>4 DEF StartRegister, TypeOK
<1>10. CASE StartTakeOrphan(c)
  <2>1. calls' \in [Callers -> CallRecord]
    <3>1. "start.orphan" \in CallPhases /\ "start.finish" \in CallPhases
      BY DEF CallPhases
    <3> QED BY <1>10, <3>1, GotoType DEF StartTakeOrphan, Goto, TypeOK
  <2>2. watched' \in [Turns -> Runs \cup {None}]
    BY <1>10 DEF StartTakeOrphan, TypeOK
  <2>3. terminals' \in [Turns -> {"none", "orphan", "tombstone"}]
    BY <1>10 DEF StartTakeOrphan, TypeOK
  <2> QED BY <1>10, <2>1, <2>2, <2>3 DEF StartTakeOrphan, TypeOK
<1>11. CASE StartOrphan(c)
  <2>1. calls[c].run \in Runs /\ calls[c].turn \in Turns
    BY <1>11 DEF StartOrphan, CallsConsistent, LocalsSet, Created, StartedPhases, TurnPhases
  <2>2. /\ sessions' \in [Sessions -> SessionRecord]
        /\ runs' \in [Runs -> RunRecord]
        /\ live' \subseteq Runs
    BY <1>11, <2>1, WorkerResultType, CallbackStatusType DEF StartOrphan
  <2>3. calls' \in [Callers -> CallRecord]
    <3>1. "start.finish" \in CallPhases
      BY DEF CallPhases
    <3> QED BY <1>11, <3>1, GotoType DEF StartOrphan, Goto, TypeOK
  <2> QED BY <1>11, <2>2, <2>3 DEF StartOrphan, TypeOK
<1>12. CASE StartFinish(c)
  <2> DEFINE r == calls[c].run
             t == calls[c].turn
             s == runs[r].sessionId
  <2>1. r \in Runs /\ t \in Turns
    BY <1>12 DEF StartFinish, CallsConsistent, LocalsSet, Created, StartedPhases, TurnPhases
  <2>2. runs' \in [Runs -> RunRecord]
    <3>1. Confirmed(runs[r].status) \in RunStatuses \cup {"absent"}
      BY <2>1 DEF Confirmed, TypeOK, RunRecord, RunStatuses, OccupyingStatuses
    <3>2. runs[r] \in RunRecord
      BY <2>1 DEF TypeOK
    <3> DEFINE status == Confirmed(runs[r].status)
    <3>3. runs' = [runs EXCEPT ![r] = [runs[r] EXCEPT !.transportTurnId = t, !.status = status]]
      BY <1>12, <2>1 DEF StartFinish, TypeOK, RunRecord
    <3> HIDE DEF r, t, status
    <3>4. [runs[r] EXCEPT !.transportTurnId = t, !.status = status] \in RunRecord
      BY <2>1, <3>1, <3>2 DEF RunRecord, status
    <3> QED BY <3>3, <3>4 DEF TypeOK
  <2>3. sessions' \in [Sessions -> SessionRecord]
    <3>1. \A session \in SessionRecord :
            [session EXCEPT !.runtimeStatus = "active", !.activeTurnId = t] \in SessionRecord
      <4> HIDE DEF t
      <4> QED BY <2>1 DEF SessionRecord, RuntimeStatuses
    <3>2. sessions' \in {sessions,
             [sessions EXCEPT ![s] = [sessions[s] EXCEPT !.runtimeStatus = "active",
                                                         !.activeTurnId = t]]}
      BY <1>12 DEF StartFinish
    <3> HIDE DEF s, t
    <3>3. CASE s \in Sessions
      <4>1. sessions[s] \in SessionRecord
        BY <3>3 DEF TypeOK
      <4> DEFINE active == [sessions[s] EXCEPT !.runtimeStatus = "active", !.activeTurnId = t]
      <4>2. active \in SessionRecord
        BY <4>1, <3>1
      <4> HIDE DEF active
      <4>3. [sessions EXCEPT ![s] = active] \in [Sessions -> SessionRecord]
        BY <4>2 DEF TypeOK
      <4> QED BY <3>2, <4>3 DEF active, TypeOK
    <3>4. CASE s \notin Sessions
      BY <3>2, <3>4 DEF TypeOK
    <3> QED BY <3>3, <3>4
  <2>4. calls' \in [Callers -> CallRecord]
    BY <1>12, ReturnType DEF StartFinish, Return, TypeOK
  <2> QED BY <1>12, <2>2, <2>3, <2>4 DEF StartFinish, TypeOK
<1>13. CASE StartRefused(c)
  <2>1. calls[c].run \in Runs
    BY <1>13 DEF StartRefused, CallsConsistent, Created, StartedPhases
  <2>2. /\ sessions' \in [Sessions -> SessionRecord]
        /\ runs' \in [Runs -> RunRecord]
        /\ live' \subseteq Runs
    BY <1>13, <2>1, SetTerminalType DEF StartRefused, TerminalStatuses
  <2>3. calls' \in [Callers -> CallRecord]
    BY <1>13, ReturnType DEF StartRefused, Return, TypeOK
  <2> QED BY <1>13, <2>2, <2>3 DEF StartRefused, TypeOK
<1>14. CASE StartUnknown(c)
  <2>1. calls[c].run \in Runs
    BY <1>14 DEF StartUnknown, CallsConsistent, Created, StartedPhases
  <2>2. /\ sessions' \in [Sessions -> SessionRecord]
        /\ runs' \in [Runs -> RunRecord]
        /\ live' \subseteq Runs
    BY <1>14, <2>1, SetUnknownType DEF StartUnknown
  <2>3. calls' \in [Callers -> CallRecord]
    BY <1>14, ReturnType DEF StartUnknown, Return, TypeOK
  <2> QED BY <1>14, <2>2, <2>3 DEF StartUnknown, TypeOK
<1> QED BY <1>1, <1>2, <1>3, <1>4, <1>5, <1>6, <1>7, <1>8, <1>9, <1>10, <1>11, <1>12,
           <1>13, <1>14 DEF StartStep

\* interrupt_run, handoff and the minimal put_session keep every type.
LEMMA ControlType ==
  ASSUME TypeOK, CallsConsistent, NEW c \in Callers, ControlStep(c)
  PROVE  TypeOK'
<1> USE DEF board, appServer, transport
<1>1. ASSUME NEW r \in Runs, InterruptCheck(c, r)
      PROVE  TypeOK'
  <2>1. runs' \in [Runs -> RunRecord]
    <3>1. "interrupting" \in RunStatuses \cup {"absent"}
      BY DEF RunStatuses, OccupyingStatuses
    <3> QED BY <1>1, <3>1, StatusType DEF InterruptCheck, TypeOK
  <2>2. calls' \in [Callers -> CallRecord]
    <3>1. /\ runs[r].sessionId \in Sessions \cup {None}
          /\ runs[r].transportTurnId \in Turns \cup {None}
      BY DEF TypeOK, RunRecord
    <3>2. [IdleCall EXCEPT !.pc = "interrupt.rpc", !.session = runs[r].sessionId,
                           !.run = r, !.turn = runs[r].transportTurnId] \in CallRecord
      BY <3>1, IdleCallType DEF CallRecord, CallPhases
    <3> QED BY <1>1, <3>2 DEF InterruptCheck, TypeOK
  <2> QED BY <1>1, <2>1, <2>2 DEF InterruptCheck, TypeOK
<1>2. ASSUME NEW s \in Sessions, NEW q \in Requests, NEW r \in Runs, HandoffActive(c, s, q, r)
      PROVE  TypeOK'
  <2>1. runs' \in [Runs -> RunRecord]
    <3>1. [runs[r] EXCEPT !.status = "interrupting", !.handoffRequestId = q] \in RunRecord
      BY RecordTypes DEF RunRecord, RunStatuses, OccupyingStatuses
    <3>2. runs' = [runs EXCEPT ![r] =
                     [runs[r] EXCEPT !.status = "interrupting", !.handoffRequestId = q]]
      BY <1>2 DEF HandoffActive
    <3> QED BY <3>1, <3>2 DEF TypeOK
  <2>2. sessions' \in [Sessions -> SessionRecord]
    <3>1. [sessions[s] EXCEPT !.handoffStatus = "pending", !.handoffRequestId = q]
            \in SessionRecord
      BY RecordTypes DEF SessionRecord, HandoffStatuses
    <3>2. sessions' = [sessions EXCEPT ![s] =
                         [sessions[s] EXCEPT !.handoffStatus = "pending",
                                             !.handoffRequestId = q]]
      BY <1>2 DEF HandoffActive
    <3> QED BY <3>1, <3>2 DEF TypeOK
  <2>3. calls' \in [Callers -> CallRecord]
    <3>1. runs[r].transportTurnId \in Turns \cup {None}
      BY DEF TypeOK, RunRecord
    <3>2. [IdleCall EXCEPT !.pc = "handoff.rpc", !.session = s, !.run = r, !.request = q,
                           !.turn = runs[r].transportTurnId] \in CallRecord
      BY <3>1, IdleCallType DEF CallRecord, CallPhases
    <3> QED BY <1>2, <3>2 DEF HandoffActive, TypeOK
  <2> QED BY <1>2, <2>1, <2>2, <2>3 DEF HandoffActive, TypeOK
<1>3. CASE InterruptAccepted(c)
  <2>1. calls' \in [Callers -> CallRecord]
    <3>1. "interrupt.get" \in CallPhases
      BY DEF CallPhases
    <3> QED BY <1>3, <3>1, GotoType, ReturnType DEF InterruptAccepted, Goto, Return, TypeOK
  <2> QED BY <1>3, <2>1 DEF InterruptAccepted, TypeOK
<1>4. CASE InterruptGet(c)
  <2>1. reconcile' \in [Runs -> WorkerRecord]
    <3>1. CASE ScheduleReconcile(calls[c].run)
      BY <3>1, ScheduleReconcileType
    <3> QED BY <1>4, <3>1 DEF InterruptGet, TypeOK
  <2>2. calls' \in [Callers -> CallRecord]
    BY <1>4, ReturnType DEF InterruptGet, Return, TypeOK
  <2> QED BY <1>4, <2>1, <2>2 DEF InterruptGet, TypeOK
<1>5. CASE InterruptRejected(c)
  <2>1. calls' \in [Callers -> CallRecord]
    <3>1. "handoff.failed" \in CallPhases /\ "interrupt.failed" \in CallPhases
      BY DEF CallPhases
    <3> QED BY <1>5, <3>1, GotoType DEF InterruptRejected, Goto, TypeOK
  <2>2. faults' \in Nat
    BY <1>5 DEF InterruptRejected, Fault, TypeOK
  <2> QED BY <1>5, <2>1, <2>2 DEF InterruptRejected, TypeOK
<1>6. CASE InterruptUnanswered(c)
  <2>1. calls' \in [Callers -> CallRecord]
    <3>1. "handoff.unknown" \in CallPhases /\ "interrupt.failed" \in CallPhases
      BY DEF CallPhases
    <3> QED BY <1>6, <3>1, GotoType DEF InterruptUnanswered, Goto, TypeOK
  <2>2. faults' \in Nat
    BY <1>6 DEF InterruptUnanswered, Fault, TypeOK
  <2> QED BY <1>6, <2>1, <2>2 DEF InterruptUnanswered, TypeOK
<1>7. CASE InterruptFailed(c)
  <2>1. runs' \in [Runs -> RunRecord]
    BY <1>7, RunRevivedType DEF InterruptFailed, CallsConsistent, ControlPhases, Created, TypeOK
  <2>2. calls' \in [Callers -> CallRecord]
    BY <1>7, ReturnType DEF InterruptFailed, Return, TypeOK
  <2> QED BY <1>7, <2>1, <2>2 DEF InterruptFailed, TypeOK
<1>8. CASE HandoffUnknown(c)
  <2> DEFINE r == calls[c].run
             s == calls[c].session
  <2>1. r \in Runs /\ s \in Sessions
    BY <1>8 DEF HandoffUnknown, CallsConsistent, LocalsSet, ControlPhases, Created
  <2>2. runs' \in [Runs -> RunRecord]
    <3> DEFINE kept == IF Terminated(r) THEN runs[r].status ELSE "unknown"
    <3>1. runs' = [runs EXCEPT ![r].status = kept]
      BY <1>8 DEF HandoffUnknown
    <3>2. kept \in RunStatuses \cup {"absent"}
      BY <2>1 DEF RunStatuses, OccupyingStatuses, TypeOK, RunRecord
    <3> HIDE DEF kept, r
    <3> QED BY <2>1, <3>1, <3>2, StatusType DEF TypeOK
  <2>3. sessions' \in [Sessions -> SessionRecord]
    <3> DEFINE new == [sessions[s] EXCEPT !.runtimeStatus = "unknown",
                                          !.handoffStatus = "unknown"]
    <3>1. sessions' \in {sessions, [sessions EXCEPT ![s] = new]}
      BY <1>8 DEF HandoffUnknown
    <3>2. new \in SessionRecord
      <4> HIDE DEF s
      <4> QED BY <2>1, RecordTypes, ZenonT(40) DEF SessionRecord, RuntimeStatuses, HandoffStatuses
    <3> HIDE DEF new, s
    <3> QED BY <2>1, <3>1, <3>2 DEF TypeOK
  <2>4. calls' \in [Callers -> CallRecord]
    BY <1>8, ReturnType DEF HandoffUnknown, Return, TypeOK
  <2> QED BY <1>8, <2>2, <2>3, <2>4 DEF HandoffUnknown, TypeOK
<1>9. CASE HandoffFailed(c)
  <2> DEFINE r == calls[c].run
             s == calls[c].session
             q == calls[c].request
  <2>1. r \in Runs /\ s \in Sessions /\ q \in Requests
    BY <1>9 DEF HandoffFailed, CallsConsistent, LocalsSet, ControlPhases, Created
  <2>2. runs' \in [Runs -> RunRecord]
    BY <1>9, <2>1, RunRevivedType DEF HandoffFailed, TypeOK
  <2>3. sessions' \in [Sessions -> SessionRecord]
    <3> DEFINE new == [sessions[s] EXCEPT !.controlMode = "managed",
                         !.handoffStatus = "failed", !.handoffRequestId = q,
                         !.lastHandoffRequestId = q]
    <3>1. sessions' \in {sessions, [sessions EXCEPT ![s] = new]}
      BY <1>9 DEF HandoffFailed
    <3>2. new \in SessionRecord
      <4> HIDE DEF s, q
      <4> QED BY <2>1, RecordTypes DEF SessionRecord, HandoffStatuses
    <3> HIDE DEF new, s
    <3> QED BY <2>1, <3>1, <3>2 DEF TypeOK
  <2>4. calls' \in [Callers -> CallRecord]
    BY <1>9, ReturnType DEF HandoffFailed, Return, TypeOK
  <2> QED BY <1>9, <2>2, <2>3, <2>4 DEF HandoffFailed, TypeOK
<1>10. ASSUME NEW s \in Sessions, NEW th \in Threads, PutRead(c, s, th)
       PROVE  TypeOK'
  <2>1. \A runtime \in {"idle", "notLoaded", "active"} :
          [IdleCall EXCEPT !.pc = "put.commit", !.session = s, !.thread = th,
                           !.runtime = runtime] \in CallRecord
    BY IdleCallType DEF CallRecord, CallPhases, RuntimeStatuses
  <2>2. PICK runtime \in {"idle", "notLoaded", "active"} :
          calls' = [calls EXCEPT ![c] =
            [IdleCall EXCEPT !.pc = "put.commit", !.session = s, !.thread = th,
                             !.runtime = runtime]]
    BY <1>10 DEF PutRead
  <2>3. calls' \in [Callers -> CallRecord]
    BY <2>1, <2>2 DEF TypeOK
  <2> QED BY <1>10, <2>3 DEF PutRead, TypeOK
<1>11. CASE PutCommit(c)
  <2> DEFINE s == calls[c].session
             th == calls[c].thread
             runtime == calls[c].runtime
  <2>1. s \in Sessions /\ th \in Threads /\ runtime \in RuntimeStatuses
    BY <1>11 DEF PutCommit, CallsConsistent, LocalsSet, TypeOK, CallRecord
  <2>2. sessions' \in [Sessions -> SessionRecord]
    <3>1. PICK enabled, edited \in BOOLEAN, mode \in {"managed", "external"} :
            PutSession(s, Fresh(th, enabled, mode, runtime), TRUE, edited)
      BY <1>11 DEF PutCommit
    <3> HIDE DEF s, th, runtime
    <3> QED BY <2>1, <3>1, PutSessionType
  <2>3. calls' \in [Callers -> CallRecord]
    BY <1>11, ReturnType DEF PutCommit, Return, TypeOK
  <2> QED BY <1>11, <2>2, <2>3 DEF PutCommit, TypeOK
<1> QED BY <1>1, <1>2, <1>3, <1>4, <1>5, <1>6, <1>7, <1>8, <1>9, <1>10, <1>11
        DEF ControlStep

\* handoff of an idle Session, reclaim and put_session with a full configuration keep every type.
LEMMA SessionType ==
  ASSUME TypeOK, NEW s \in Sessions, SessionStep(s)
  PROVE  TypeOK'
<1> USE DEF gateway, transport, appServer
<1>1. ASSUME NEW q \in Requests, HandoffIdle(s, q)
      PROVE  TypeOK'
  <2>1. TakenOver(sessions[s]) \in SessionRecord
    BY TakenOverType DEF TypeOK
  <2>2. [TakenOver(sessions[s]) EXCEPT !.handoffStatus = "completed",
           !.handoffRequestId = q, !.lastHandoffRequestId = q] \in SessionRecord
    BY <2>1 DEF SessionRecord, HandoffStatuses
  <2> QED BY <1>1, <2>2 DEF HandoffIdle, TypeOK
<1>2. ASSUME NEW q \in Requests, Reclaim(s, q)
      PROVE  TypeOK'
  <2>1. sessions[s] \in SessionRecord
    BY DEF TypeOK
  <2>2. \A generation \in Nat :
          [sessions[s] EXCEPT
             !.controlGeneration = generation, !.controlMode = "managed",
             !.handoffStatus = "none", !.handoffRequestId = None,
             !.lastReclaimRequestId = q] \in SessionRecord
    BY <2>1 DEF SessionRecord, HandoffStatuses
  <2>3. sessions[s].controlGeneration + 1 \in Nat
    BY <2>1 DEF SessionRecord
  <2> DEFINE new ==
        [sessions[s] EXCEPT
             !.controlGeneration = sessions[s].controlGeneration + 1,
             !.controlMode = "managed",
             !.handoffStatus = "none", !.handoffRequestId = None,
             !.lastReclaimRequestId = q]
  <2>4. new \in SessionRecord
    BY <2>2, <2>3
  <2>5. sessions' = [sessions EXCEPT ![s] = new]
    BY <1>2 DEF Reclaim
  <2>6. sessions' \in [Sessions -> SessionRecord]
    <3> HIDE DEF new
    <3> QED BY <2>4, <2>5 DEF TypeOK
  <2> QED BY <1>2, <2>6 DEF Reclaim, TypeOK
<1>3. ASSUME NEW th \in Threads, NEW enabled \in BOOLEAN, NEW edited \in BOOLEAN,
             NEW mode \in {"managed", "external"}, PutFull(s, th, enabled, mode, edited)
      PROVE  TypeOK'
  <2>1. "notLoaded" \in RuntimeStatuses
    BY DEF RuntimeStatuses
  <2>2. sessions' \in [Sessions -> SessionRecord]
    BY <1>3, <2>1, PutSessionType DEF PutFull
  <2> QED BY <1>3, <2>2 DEF PutFull, TypeOK
<1> QED BY <1>1, <1>2, <1>3 DEF SessionStep

\* The reconcile worker of a Run keeps every type.
LEMMA ReconcileType ==
  ASSUME WellFormed, NEW r \in Runs, ReconcileStep(r)
  PROVE  TypeOK'
<1> USE DEF board, transport, appServer
<1>1. TypeOK
  BY DEF WellFormed
<1>2. CASE GetRun(r)
  <2>1. reconcile' \in [Runs -> WorkerRecord]
    BY <1>1, <1>2, ScheduleReconcileType DEF GetRun
  <2> QED BY <1>1, <1>2, <2>1 DEF GetRun, TypeOK
<1>3. CASE ReconcileRead(r)
  <2>1. NoWorker \in WorkerRecord
    BY DEF NoWorker, WorkerRecord
  <2>2. ASSUME Occupies(r)
        PROVE  [NoWorker EXCEPT !.pc = "list", !.thread = sessions[runs[r].sessionId].thread]
                 \in WorkerRecord
    <3>1. runs[r].sessionId \in Sessions
      BY <2>2 DEF WellFormed, BoardConsistent, Created, Occupies, OccupyingStatuses
    <3>2. sessions[runs[r].sessionId].thread \in Threads \cup {None}
      BY <1>1, <3>1, RecordTypes DEF SessionRecord
    <3> QED BY <2>1, <3>2 DEF WorkerRecord
  <2>3. reconcile' \in [Runs -> WorkerRecord]
    BY <1>1, <1>3, <2>1, <2>2 DEF ReconcileRead, TypeOK
  <2> QED BY <1>1, <1>3, <2>3 DEF ReconcileRead, TypeOK
<1>4. CASE ReconcileList(r)
  <2>1. NoWorker \in WorkerRecord
    BY DEF NoWorker, WorkerRecord
  <2>2. \A active \in Turns \cup {None}, pc \in {"close", "project"} :
          [reconcile[r] EXCEPT !.pc = pc, !.active = active,
                               !.fact = TerminalFact(runs[r].transportTurnId)] \in WorkerRecord
    <3>1. TerminalFact(runs[r].transportTurnId) \in TerminalStatuses \cup {"none"}
      BY DEF TerminalFact
    <3> QED BY <1>1, <3>1, RecordTypes DEF WorkerRecord
  <2> DEFINE running == RunningOn(reconcile[r].thread)
             listed(active) ==
               reconcile' = [reconcile EXCEPT ![r] =
                 [@ EXCEPT !.pc = IF active \in {None, runs[r].transportTurnId}
                                  THEN "close" ELSE "project",
                           !.active = active,
                           !.fact = TerminalFact(runs[r].transportTurnId)]]
  <2>3. \/ (\E active \in IF running = {} THEN {None} ELSE running : listed(active))
           /\ UNCHANGED faults
        \/ Fault("refuse") /\ reconcile' = [reconcile EXCEPT ![r] = NoWorker]
    BY <1>4, Zenon DEF ReconcileList
  <2>4. reconcile' \in [Runs -> WorkerRecord]
    <3>1. CASE reconcile' = [reconcile EXCEPT ![r] = NoWorker]
      BY <1>1, <2>1, <3>1 DEF TypeOK
    <3>2. ASSUME NEW active \in Turns \cup {None}, listed(active)
          PROVE  reconcile' \in [Runs -> WorkerRecord]
      <4> DEFINE pc == IF active \in {None, runs[r].transportTurnId}
                       THEN "close" ELSE "project"
                 worker == [reconcile[r] EXCEPT !.pc = pc, !.active = active,
                              !.fact = TerminalFact(runs[r].transportTurnId)]
      <4>1. worker \in WorkerRecord
        <5>1. pc \in {"close", "project"}
          OBVIOUS
        <5> HIDE DEF pc
        <5> QED BY <2>2, <5>1
      <4>2. reconcile' = [reconcile EXCEPT ![r] = worker]
        BY <3>2
      <4> HIDE DEF worker
      <4> QED BY <1>1, <4>1, <4>2 DEF TypeOK
    <3>3. running \subseteq Turns
      BY DEF RunningOn
    <3> HIDE DEF running, listed
    <3> QED BY <2>3, <3>1, <3>2, <3>3
  <2>5. faults' \in Nat
    <3> HIDE DEF running, listed
    <3> QED BY <1>1, <2>3 DEF Fault, TypeOK
  <2> QED BY <1>1, <1>4, <2>4, <2>5 DEF ReconcileList, TypeOK
<1>5. CASE ReconcileProject(r)
  <2>1. reconcile[r].active \in Turns \cup {None}
    BY <1>1, RecordTypes DEF WorkerRecord
  <2>2. sessions' \in [Sessions -> SessionRecord]
    BY <1>1, <1>5, <2>1, ProjectedType DEF ReconcileProject, TypeOK
  <2>3. [reconcile[r] EXCEPT !.pc = "close"] \in WorkerRecord
    BY <1>1, RecordTypes DEF WorkerRecord
  <2>4. reconcile' \in [Runs -> WorkerRecord]
    BY <1>1, <1>5, <2>3 DEF ReconcileProject, TypeOK
  <2> QED BY <1>1, <1>5, <2>2, <2>4 DEF ReconcileProject, TypeOK
<1>6. CASE ReconcileClose(r)
  <2>1. NoWorker \in WorkerRecord
    BY DEF NoWorker, WorkerRecord
  <2>2. reconcile[r].fact \in TerminalStatuses \cup {"none"}
    BY <1>1, RecordTypes DEF WorkerRecord
  <2>3. /\ sessions' \in [Sessions -> SessionRecord]
        /\ runs' \in [Runs -> RunRecord]
        /\ live' \subseteq Runs
    <3>1. CASE reconcile[r].fact = "none"
      BY <1>1, <1>6, <3>1 DEF ReconcileClose, TypeOK
    <3>2. CASE reconcile[r].fact # "none"
      BY <1>1, <1>6, <2>2, <3>2, SetTerminalType DEF ReconcileClose
    <3> QED BY <3>1, <3>2
  <2> QED BY <1>1, <1>6, <2>1, <2>3 DEF ReconcileClose, TypeOK
<1> QED BY <1>2, <1>3, <1>4, <1>5, <1>6 DEF ReconcileStep

\* The reader thread keeps every type.
LEMMA ReaderType ==
  ASSUME WellFormed, ReaderStep
  PROVE  TypeOK'
<1> USE DEF board, transport, appServer
<1>1. TypeOK
  BY DEF WellFormed
<1>2. /\ reader \in ReaderRecord
       /\ ReadyReader \in ReaderRecord
  BY <1>1 DEF TypeOK, ReaderRecord, ReadyReader
<1>3. CASE ReadCompleted
  <2> DEFINE m == Head(events)
             t == m.turn
  <2>1. m \in Message /\ t \in Turns /\ events' \in Seq(Message)
    BY <1>1, <1>3 DEF ReadCompleted, TypeOK, Message
  <2>2. watched[t] \in Runs \cup {None}
    BY <1>1, <2>1 DEF TypeOK
  <2>3. \A pc \in {"orphan", "callback"} :
          [ReadyReader EXCEPT !.pc = pc, !.message = m, !.run = watched[t]] \in ReaderRecord
    <3> HIDE DEF m, t
    <3> QED BY <1>2, <2>1, <2>2 DEF ReaderRecord
  <2>4. reader' \in ReaderRecord
    BY <1>3, <2>3 DEF ReadCompleted
  <2>5. watched' \in [Turns -> Runs \cup {None}]
    BY <1>1, <1>3 DEF ReadCompleted, TypeOK
  <2>6. terminals' \in [Turns -> {"none", "orphan", "tombstone"}]
    BY <1>1, <1>3, <2>1 DEF ReadCompleted, TypeOK
  <2> QED BY <1>1, <1>3, <2>1, <2>4, <2>5, <2>6 DEF ReadCompleted, TypeOK
<1>4. CASE ReadCallback
  <2>1. reader.run \in Runs /\ reader.message.turn \in Turns
    BY <1>4 DEF ReadCallback, WellFormed, ReferencesConsistent, Created
  <2>2. /\ sessions' \in [Sessions -> SessionRecord]
        /\ runs' \in [Runs -> RunRecord]
        /\ live' \subseteq Runs
    BY <1>1, <1>4, <2>1, WorkerResultType, CallbackStatusType DEF ReadCallback
  <2>3. reader' \in ReaderRecord
    BY <1>2, <1>4 DEF ReadCallback, ReaderRecord
  <2> QED BY <1>1, <1>4, <2>2, <2>3 DEF ReadCallback, TypeOK
<1>5. CASE ReadOrphan
  <2>1. reader' \in ReaderRecord
    BY <1>2, <1>5 DEF ReadOrphan, ReaderRecord
  <2>2. terminals' \in [Turns -> {"none", "orphan", "tombstone"}]
    BY <1>1, <1>5 DEF ReadOrphan, TypeOK
  <2> QED BY <1>1, <1>5, <2>1, <2>2 DEF ReadOrphan, TypeOK
<1>6. CASE ReadMatch
  <2> DEFINE t == reader.message.turn
  <2>1. t \in Turns
    BY <1>6 DEF ReadMatch, WellFormed, ReferencesConsistent
  <2>2. recent' \in Seq(Turns)
    <3>1. recent \in Seq(Turns)
      BY <1>1 DEF TypeOK
    <3> HIDE DEF t
    <3>2. /\ Append(recent, t) \in Seq(Turns)
          /\ Append(recent, t) # <<>>
          /\ Tail(Append(recent, t)) \in Seq(Turns)
      <4>1. Append(recent, t) \in Seq(Turns)
        BY <2>1, <3>1
      <4>2. Append(recent, t) # <<>>
        BY <2>1, <3>1, AppendProperties
      <4> QED BY <4>1, <4>2
    <3> QED BY <1>6, <3>2 DEF ReadMatch, Remembered, t
  <2>3. /\ sessions' \in [Sessions -> SessionRecord]
        /\ runs' \in [Runs -> RunRecord]
        /\ live' \subseteq Runs
    <3>1. CASE UNCHANGED <<board, live>>
      BY <1>1, <3>1 DEF TypeOK
    <3>2. CASE \E r \in Runs : WorkerResult(r, CallbackStatus(t))
      BY <1>1, <2>1, <3>2, WorkerResultType, CallbackStatusType
    <3> QED BY <1>6, <3>1, <3>2 DEF ReadMatch
  <2>4. reader' \in ReaderRecord
    BY <1>2, <1>6 DEF ReadMatch, ReaderRecord
  <2> QED BY <1>1, <1>6, <2>2, <2>3, <2>4 DEF ReadMatch, TypeOK
<1>7. CASE ReadRelease
  <2>1. \A s \in Sessions : [sessions[s] EXCEPT !.runtimeStatus = "idle", !.activeTurnId = None]
                             \in SessionRecord
    BY <1>1, RecordTypes, ZenonT(40) DEF SessionRecord, RuntimeStatuses
  <2>2. sessions' \in [Sessions -> SessionRecord]
    BY <1>1, <1>7, <2>1 DEF ReadRelease, TypeOK
  <2> QED BY <1>1, <1>2, <1>7, <2>2 DEF ReadRelease, TypeOK
<1>8. CASE ReadStarted
  <2>1. Head(events) \in Message /\ events' \in Seq(Message)
    BY <1>1, <1>8 DEF ReadStarted, TypeOK
  <2>2. live \subseteq Runs
    BY <1>1 DEF TypeOK
  <2>3. reader' \in ReaderRecord
    BY <1>2, <1>8, <2>1, <2>2 DEF ReadStarted, ReaderRecord
  <2> QED BY <1>1, <1>8, <2>1, <2>3 DEF ReadStarted, TypeOK
<1>9. CASE ReadProject
  <2>1. reader.message.turn \in Turns \cup {None}
    BY <1>2 DEF ReaderRecord, Message, NoMessage
  <2>2. sessions' \in [Sessions -> SessionRecord]
    BY <1>1, <1>9, <2>1, ProjectedType DEF ReadProject, TypeOK
  <2> QED BY <1>1, <1>2, <1>9, <2>2 DEF ReadProject, TypeOK
<1> QED BY <1>3, <1>4, <1>5, <1>6, <1>7, <1>8, <1>9 DEF ReaderStep

\* Lost connections, reconnections and probes keep every type.
LEMMA TransportType ==
  ASSUME WellFormed, TransportStep
  PROVE  TypeOK'
<1> USE DEF board, appServer, gateway
<1>1. TypeOK
  BY DEF WellFormed
<1>2. CASE Disconnect
  <2>1. PICK pending \in SUBSET {c \in Callers : calls[c].pc \in DOMAIN Failure} :
          calls' = [c \in Callers |->
            IF c \in pending THEN [calls[c] EXCEPT !.pc = Failure[@]] ELSE calls[c]]
    BY <1>2 DEF Disconnect
  <2>2. ASSUME NEW c \in pending
        PROVE  [calls[c] EXCEPT !.pc = Failure[calls[c].pc]] \in CallRecord
    <3>1. Failure[calls[c].pc] \in CallPhases
      BY DEF Failure, CallPhases
    <3> QED BY <1>1, <3>1, RecordTypes DEF CallRecord
  <2>3. calls' \in [Callers -> CallRecord]
    BY <1>1, <2>1, <2>2, RecordTypes
  <2>4. disconnect' \in [runs: SUBSET Runs, status: BOOLEAN]
    BY <1>1, <1>2 DEF Disconnect, TypeOK
  <2>5. /\ watched' \in [Turns -> Runs \cup {None}]
        /\ terminals' \in [Turns -> {"none", "orphan", "tombstone"}]
        /\ connected' \in BOOLEAN
    BY <1>2 DEF Disconnect
  <2>6. events' \in Seq(Message)
    <3>1. events' = <<>>
      BY <1>2 DEF Disconnect
    <3> QED BY <3>1
  <2>7. faults' \in Nat
    BY <1>1, <1>2 DEF Disconnect, Fault, TypeOK
  <2> QED BY <1>1, <1>2, <2>3, <2>4, <2>5, <2>7, <2>6 DEF Disconnect, TypeOK
<1>3. ASSUME NEW r \in Runs, DisconnectCallback(r)
      PROVE  TypeOK'
  <2>1. /\ sessions' \in [Sessions -> SessionRecord]
        /\ runs' \in [Runs -> RunRecord]
        /\ live' \subseteq Runs
    BY <1>1, <1>3, SetUnknownType DEF DisconnectCallback
  <2>2. disconnect' \in [runs: SUBSET Runs, status: BOOLEAN]
    BY <1>1, <1>3 DEF DisconnectCallback, TypeOK
  <2> QED BY <1>1, <1>3, <2>1, <2>2 DEF DisconnectCallback, TypeOK
<1>4. ASSUME NEW r \in Runs, ProbeCallback(r)
      PROVE  TypeOK'
  <2>1. probed[r] \in TerminalStatuses \cup {"unknown"}
    BY <1>1, <1>4 DEF ProbeCallback, TypeOK
  <2>2. /\ sessions' \in [Sessions -> SessionRecord]
        /\ runs' \in [Runs -> RunRecord]
        /\ live' \subseteq Runs
    BY <1>1, <1>4, <2>1, WorkerResultType DEF ProbeCallback
  <2>3. probed' \in [Runs -> TerminalStatuses \cup {"none", "unknown"}]
    BY <1>1, <1>4 DEF ProbeCallback, TypeOK
  <2> QED BY <1>1, <1>4, <2>2, <2>3 DEF ProbeCallback, TypeOK
<1>5. CASE DisconnectStatus
  <2>1. \A s \in Sessions : [sessions[s] EXCEPT !.runtimeStatus = "unknown"] \in SessionRecord
    BY <1>1, RecordTypes DEF SessionRecord, RuntimeStatuses
  <2>2. sessions' \in [Sessions -> SessionRecord]
    BY <1>1, <1>5, <2>1 DEF DisconnectStatus, TypeOK
  <2>3. disconnect' \in [runs: SUBSET Runs, status: BOOLEAN]
    BY <1>1, <1>5 DEF DisconnectStatus, TypeOK
  <2> QED BY <1>1, <1>5, <2>2, <2>3 DEF DisconnectStatus, TypeOK
<1>6. CASE Reconnect
  <2>1. reader' \in ReaderRecord
    <3>1. reader \in ReaderRecord
      BY <1>1 DEF TypeOK
    <3>2. reader.pc \in {"ready", "callback", "orphan", "match", "release", "project"}
      BY <3>1 DEF ReaderRecord
    <3> QED BY <1>6, <3>1, <3>2 DEF Reconnect, ReaderRecord
  <2> QED BY <1>1, <1>6, <2>1 DEF Reconnect, TypeOK
<1>7. ASSUME NEW t \in Turns, Probe(t)
      PROVE  TypeOK'
  <2>1. watched[t] \in Runs
    BY <1>1, <1>7 DEF Probe, TypeOK
  <2>2. probed' \in [Runs -> TerminalStatuses \cup {"none", "unknown"}]
    BY <1>1, <1>7, <2>1, CallbackStatusType DEF Probe, TypeOK
  <2>3. faults' \in Nat
    BY <1>1, <1>7 DEF Probe, Fault, TypeOK
  <2>4. watched' \in [Turns -> Runs \cup {None}]
    BY <1>1, <1>7 DEF Probe, TypeOK
  <2>5. terminals' \in [Turns -> {"none", "orphan", "tombstone"}]
    BY <1>1, <1>7 DEF Probe, TypeOK
  <2> QED BY <1>1, <1>7, <2>2, <2>3, <2>4, <2>5 DEF Probe, TypeOK
<1> QED BY <1>2, <1>3, <1>4, <1>5, <1>6, <1>7 DEF TransportStep

\* So do turns that start and end on the App Server, and a restart.
LEMMA AppServerType ==
  ASSUME TypeOK, AppServerStep
  PROVE  TypeOK'
<1> USE DEF board, gateway, transport
<1>1. ASSUME NEW t \in Turns, NEW th \in Threads, ExternalTurnStarts(t, th)
      PROVE  TypeOK'
  <2>1. turns' \in [Turns -> TurnRecord] /\ events' \in Seq(Message)
    BY <1>1, BeginTurnType DEF ExternalTurnStarts
  <2> QED BY <1>1, <2>1 DEF ExternalTurnStarts, TypeOK
<1>2. ASSUME NEW t \in Turns, NEW outcome \in TurnOutcomes, TurnEnds(t, outcome)
      PROVE  TypeOK'
  <2>1. turns[t] \in TurnRecord \ {NoTurn} /\ outcome \in TerminalStatuses \cup {"other"}
    BY <1>2, ConstantsAssumption DEF TypeOK, TurnEnds, NoTurn
  <2>2. [turns[t] EXCEPT !.status = outcome] \in TurnRecord
    BY <2>1 DEF TurnRecord
  <2>3. turns' \in [Turns -> TurnRecord]
    BY <1>2, <2>2 DEF TurnEnds, TypeOK
  <2>4. turns[t].thread \in Threads
    BY <2>1 DEF TurnRecord
  <2>5. <<[method |-> "turn/completed", thread |-> turns[t].thread, turn |-> t]>>
          \in Seq(Message)
    BY <2>4 DEF Message
  <2>6. events' \in Seq(Message)
    BY <1>2, <2>5, NotifyType DEF TurnEnds, TypeOK
  <2> QED BY <1>2, <2>3, <2>6 DEF TurnEnds, TypeOK
<1> QED BY <1>1, <1>2 DEF AppServerStep

\* A restart sets every process-local variable anew.
LEMMA RestartType ==
  ASSUME TypeOK, Restart
  PROVE  TypeOK'
<1> USE DEF board
<1>1. NoWorker \in WorkerRecord /\ [NoWorker EXCEPT !.pc = "read"] \in WorkerRecord
  BY DEF NoWorker, WorkerRecord
<1>2. reconcile' \in [Runs -> WorkerRecord]
  BY <1>1 DEF Restart
<1>3. calls' \in [Callers -> CallRecord]
  BY IdleCallType DEF Restart
<1>4. reader' \in ReaderRecord
  BY DEF Restart, ReadyReader, ReaderRecord
<1>5. faults' \in Nat
  BY DEF Restart, Fault, TypeOK
<1>6. disconnect' \in [runs: SUBSET Runs, status: BOOLEAN]
  BY DEF Restart
<1>7. /\ probed' \in [Runs -> TerminalStatuses \cup {"none", "unknown"}]
      /\ watched' \in [Turns -> Runs \cup {None}]
      /\ terminals' \in [Turns -> {"none", "orphan", "tombstone"}]
      /\ connected' \in BOOLEAN
      /\ live' \subseteq Runs
  BY DEF Restart
<1>8. events' \in Seq(Message) /\ recent' \in Seq(Turns)
  <2>1. events' = <<>> /\ recent' = <<>>
    BY DEF Restart
  <2> QED BY <2>1
<1> QED BY <1>8, <1>2, <1>3, <1>4, <1>5, <1>6, <1>7 DEF Restart, TypeOK

\* The empty board, and the board with freshly registered Sessions.
LEMMA InitType == Init => TypeOK
<1> SUFFICES ASSUME Init PROVE TypeOK
  OBVIOUS
<1>1. sessions \in [Sessions -> SessionRecord]
  <2>1. Unregistered \in SessionRecord
    BY DEF Unregistered, SessionRecord, RuntimeStatuses, HandoffStatuses
  <2>2. \A th \in Threads : Fresh(th, TRUE, "managed", "idle") \in SessionRecord
    BY DEF Fresh, SessionRecord, RuntimeStatuses, HandoffStatuses
  <2> QED BY <2>1, <2>2 DEF Init
<1>2. runs \in [Runs -> RunRecord]
  BY DEF Init, Absent, RunRecord
<1>3. /\ NoWorker \in WorkerRecord
      /\ ReadyReader \in ReaderRecord
      /\ IdleCall \in CallRecord
      /\ NoTurn \in TurnRecord
  BY IdleCallType DEF NoWorker, WorkerRecord, ReadyReader, ReaderRecord, TurnRecord
<1>4. InitProcess
  BY DEF Init
<1>5. disconnect \in [runs: SUBSET Runs, status: BOOLEAN]
  BY <1>4 DEF InitProcess
<1> QED BY <1>1, <1>2, <1>3, <1>4, <1>5 DEF InitProcess, TypeOK

-----------------------------------------------------------------------------
(* The two shapes of a write to the board                                  *)

\* A write to a Session: it stays registered with a thread, and its generation
\* counts one for a switch of thread or mode that no failed handoff undoes.
Fenced(before, after) ==
  /\ before.registered => after.registered
  /\ after.registered => after.thread \in Threads
  /\ before.registered =>
       LET moved == Switched(before, after) /\ ~HandedBack(before, after)
       IN  after.controlGeneration =
             before.controlGeneration + (IF moved THEN 1 ELSE 0)

SessionWrite == \A s \in Sessions : Fenced(sessions[s], sessions'[s])

\* A write to one Run of the board: its ids stay, and its outcome if it has one.
Rewritten(r) ==
  /\ \A other \in Runs \ {r} : runs'[other] = runs[other]
  /\ runs'[r].requestId = runs[r].requestId
  /\ runs'[r].sessionId = runs[r].sessionId
  /\ runs'[r].controlGeneration = runs[r].controlGeneration
  /\ runs'[r].status \in RunStatuses
  /\ Terminated(r) => runs'[r].status = runs[r].status

RunWrite == runs' = runs \/ \E r \in Created : Rewritten(r)

\* Nothing to write is a write that respects the generation.
LEMMA FencedStays ==
  ASSUME WellFormed, UNCHANGED sessions
  PROVE  SessionWrite
BY RecordTypes DEF WellFormed, BoardConsistent, SessionWrite, Fenced, Switched,
   HandedBack, SessionRecord

\* So is one that touches neither registration, thread nor ownership.
LEMMA OwnershipKept ==
  ASSUME WellFormed,
         \A s \in Sessions :
           /\ sessions'[s].registered = sessions[s].registered
           /\ sessions'[s].thread = sessions[s].thread
           /\ sessions'[s].controlMode = sessions[s].controlMode
           /\ sessions'[s].controlGeneration = sessions[s].controlGeneration
  PROVE  SessionWrite
BY RecordTypes DEF WellFormed, BoardConsistent, SessionWrite, Fenced, Switched,
   HandedBack, SessionRecord

\* A takeover keeps registration and thread; from managed it counts one generation.
LEMMA TakenOverFenced ==
  ASSUME NEW session \in SessionRecord
  PROVE  /\ TakenOver(session).registered = session.registered
         /\ TakenOver(session).thread = session.thread
         /\ TakenOver(session).controlMode = "external"
         /\ TakenOver(session).controlGeneration =
              IF session.controlMode = "external" THEN session.controlGeneration
              ELSE session.controlGeneration + 1
BY DEF TakenOver, SessionRecord

\* Projecting an unowned turn respects the generation.
LEMMA ProjectedFenced ==
  ASSUME NEW session \in SessionRecord, session.registered => session.thread \in Threads,
         NEW t \in Turns \cup {None}
  PROVE  Fenced(session, Projected(session, t))
<1>1. TakenOver(session) \in SessionRecord
  BY TakenOverType
<1>2. /\ Projected(session, t).registered = TakenOver(session).registered
      /\ Projected(session, t).thread = TakenOver(session).thread
      /\ Projected(session, t).controlMode = TakenOver(session).controlMode
      /\ Projected(session, t).controlGeneration = TakenOver(session).controlGeneration
  BY <1>1 DEF Projected, SessionRecord
<1> QED BY <1>1, <1>2, TakenOverFenced DEF Fenced, Switched, HandedBack, SessionRecord

\* So does the write that closes a Run, with or without a pending handoff.
LEMMA AfterTerminalFenced ==
  ASSUME NEW session \in SessionRecord, session.registered => session.thread \in Threads,
         NEW run \in RunRecord, NEW status \in TerminalStatuses
  PROVE  Fenced(session, AfterTerminal(session, run, status))
<1> DEFINE idled == [session EXCEPT !.runtimeStatus = "idle", !.activeTurnId = None]
           resolved(outcome) ==
             [idled EXCEPT !.handoffStatus = outcome,
                           !.lastHandoffRequestId = run.handoffRequestId]
<1>1. run.handoffRequestId \in Requests \cup {None}
  BY DEF RunRecord
<1>2. Fenced(session, idled)
  <2>1. /\ idled.registered = session.registered
        /\ idled.thread = session.thread
        /\ idled.controlMode = session.controlMode
        /\ idled.controlGeneration = session.controlGeneration
    BY DEF SessionRecord
  <2> HIDE DEF idled
  <2> QED BY <2>1 DEF Fenced, Switched, HandedBack, SessionRecord
<1>3. \A outcome \in HandoffStatuses :
        /\ resolved(outcome) \in SessionRecord
        /\ resolved(outcome).registered = session.registered
        /\ resolved(outcome).thread = session.thread
        /\ resolved(outcome).controlMode = session.controlMode
        /\ resolved(outcome).controlGeneration = session.controlGeneration
        /\ resolved(outcome).handoffStatus = outcome
  BY <1>1 DEF SessionRecord, RuntimeStatuses
<1>4. resolved("completed") \in SessionRecord /\ resolved("failed") \in SessionRecord
  BY <1>3 DEF HandoffStatuses
<1>5. Fenced(session, TakenOver(resolved("completed")))
  <2> HIDE DEF resolved
  <2> QED BY <1>3, <1>4, TakenOverFenced DEF Fenced, Switched, HandedBack,
       SessionRecord, HandoffStatuses
<1>6. Fenced(session, [resolved("failed") EXCEPT !.controlMode = "managed"])
  <2> DEFINE after == [resolved("failed") EXCEPT !.controlMode = "managed"]
  <2> HIDE DEF resolved
  <2>1. /\ after.registered = session.registered
        /\ after.thread = session.thread
        /\ after.controlMode = "managed"
        /\ after.controlGeneration = session.controlGeneration
        /\ after.handoffStatus = "failed"
    BY <1>3, <1>4 DEF SessionRecord, HandoffStatuses
  <2>2. Fenced(session, after)
    <3> HIDE DEF after
    <3> QED BY <2>1 DEF Fenced, Switched, HandedBack, SessionRecord
  <2> QED BY <2>2
<1>7. Fenced(session, session)
  BY DEF Fenced, Switched, HandedBack, SessionRecord
<1> QED BY <1>2, <1>5, <1>6, <1>7 DEF AfterTerminal

\* A step that writes one status respects the outcome of every Run.
LEMMA StatusRewritten ==
  ASSUME TypeOK, NEW r \in Created, NEW status \in RunStatuses,
         runs' = [runs EXCEPT ![r].status = IF Terminated(r) THEN @ ELSE status]
  PROVE  RunWrite
<1>1. r \in Runs /\ runs[r] \in RunRecord
  BY RecordTypes DEF Created
<1>2. runs[r].status \in RunStatuses
  BY <1>1 DEF Created, RunRecord
<1> QED BY <1>1, <1>2 DEF RunWrite, Rewritten, TypeOK, RunRecord

\* _set_terminal respects outcomes and generations.
LEMMA SetTerminalWrites ==
  ASSUME WellFormed, NEW r \in Created, NEW status \in TerminalStatuses,
         SetTerminal(r, status)
  PROVE  SessionWrite /\ RunWrite /\ live' \subseteq live
<1>1. TypeOK /\ r \in Runs
  BY DEF WellFormed, Created
<1>2. RunWrite
  BY <1>1, StatusRewritten DEF SetTerminal, RunStatuses
<1>3. SessionWrite
  <2>1. CASE Terminated(r)
    BY <2>1, FencedStays DEF SetTerminal
  <2>2. CASE ~Terminated(r)
    <3> SUFFICES ASSUME NEW s \in Sessions
                 PROVE  Fenced(sessions[s], sessions'[s])
      BY DEF SessionWrite
    <3>1. /\ sessions[s] \in SessionRecord
          /\ sessions[s].registered => sessions[s].thread \in Threads
      BY <1>1, RecordTypes DEF WellFormed, BoardConsistent
    <3>2. sessions'[s] \in {sessions[s], AfterTerminal(sessions[s], runs[r], status)}
      BY <1>1, <2>2 DEF SetTerminal, TypeOK
    <3>3. Fenced(sessions[s], sessions[s])
      BY <3>1 DEF Fenced, Switched, HandedBack, SessionRecord
    <3> QED BY <1>1, <3>1, <3>2, <3>3, AfterTerminalFenced, RecordTypes
  <2> QED BY <2>1, <2>2
<1> QED BY <1>2, <1>3 DEF SetTerminal

\* _set_unknown writes one status.
LEMMA SetUnknownWrites ==
  ASSUME WellFormed, NEW r \in Created, SetUnknown(r)
  PROVE  SessionWrite /\ RunWrite /\ live' \subseteq live
<1>1. TypeOK
  BY DEF WellFormed
<1>2. RunWrite
  BY <1>1, StatusRewritten DEF SetUnknown, RunStatuses, OccupyingStatuses
<1> QED BY <1>2, FencedStays DEF SetUnknown

\* The terminal callback is one of the two.
LEMMA WorkerResultWrites ==
  ASSUME WellFormed, NEW r \in Created, NEW status \in TerminalStatuses \cup {"unknown"},
         WorkerResult(r, status)
  PROVE  SessionWrite /\ RunWrite /\ live' \subseteq live
BY SetTerminalWrites, SetUnknownWrites DEF WorkerResult

\* A step that leaves the board alone.
LEMMA BoardUntouched ==
  ASSUME WellFormed, UNCHANGED board
  PROVE  SessionWrite /\ RunWrite
BY FencedStays DEF board, RunWrite

\* What start_run writes: the Run it creates, its turn, its outcome.
LEMMA StartWrites ==
  ASSUME WellFormed, NEW c \in Callers, StartStep(c)
  PROVE  SessionWrite /\ (RunWrite \/ \E r \in Runs : StartCreate(c, r))
<1>1. calls[c].pc \in StartedPhases => calls[c].run \in Created
  BY DEF WellFormed, CallsConsistent
<1>2. CASE \/ \E s \in Sessions, q \in Requests : StartCheck(c, s, q)
           \/ StartRead(c) \/ StartDenied(c) \/ StartRemember(c)
           \/ \E t \in Turns : StartAccepted(c, t)
           \/ StartRejected(c) \/ StartUnanswered(c) \/ StartRegister(c)
           \/ StartTakeOrphan(c)
  <2>1. UNCHANGED board
    BY <1>2 DEF StartCheck, StartRead, StartDenied, StartRemember, StartAccepted,
         StartRejected, StartUnanswered, StartRegister, StartTakeOrphan
  <2> QED BY <2>1, BoardUntouched
<1>3. ASSUME NEW r \in Runs, StartCreate(c, r)
      PROVE  SessionWrite
  BY <1>3, FencedStays DEF StartCreate
<1>4. CASE StartOrphan(c)
  <2>1. calls[c].run \in Created /\ calls[c].turn \in Turns
    BY <1>1, <1>4 DEF StartOrphan, StartedPhases, TurnPhases, WellFormed, CallsConsistent,
         LocalsSet
  <2> QED BY <1>4, <2>1, CallbackStatusType, WorkerResultWrites DEF StartOrphan
<1>5. CASE StartFinish(c)
  <2> DEFINE r == calls[c].run
  <2>1. r \in Created /\ r \in Runs /\ runs[r] \in RunRecord /\ runs \in [Runs -> RunRecord]
    BY <1>1, <1>5, RecordTypes DEF StartFinish, StartedPhases, Created, WellFormed, TypeOK
  <2>2. Rewritten(r)
    BY <1>5, <2>1 DEF StartFinish, Rewritten, Confirmed, Created, RunRecord, RunStatuses,
         OccupyingStatuses, TerminalStatuses, Terminated
  <2>3. SessionWrite
    <3> SUFFICES ASSUME NEW s \in Sessions
                 PROVE  /\ sessions'[s].registered = sessions[s].registered
                        /\ sessions'[s].thread = sessions[s].thread
                        /\ sessions'[s].controlMode = sessions[s].controlMode
                        /\ sessions'[s].controlGeneration = sessions[s].controlGeneration
      BY OwnershipKept
    <3>1. sessions[s] \in SessionRecord /\ sessions \in [Sessions -> SessionRecord]
      BY RecordTypes DEF WellFormed, TypeOK
    <3> QED BY <1>5, <3>1 DEF StartFinish, SessionRecord
  <2> QED BY <2>1, <2>2, <2>3 DEF RunWrite
<1>6. CASE StartRefused(c)
  <2>1. calls[c].run \in Created
    BY <1>1, <1>6 DEF StartRefused, StartedPhases
  <2> QED BY <1>6, <2>1, SetTerminalWrites DEF StartRefused, TerminalStatuses
<1>7. CASE StartUnknown(c)
  <2>1. calls[c].run \in Created
    BY <1>1, <1>7 DEF StartUnknown, StartedPhases
  <2> QED BY <1>7, <2>1, SetUnknownWrites DEF StartUnknown
<1> QED BY <1>2, <1>3, <1>4, <1>5, <1>6, <1>7 DEF StartStep

\* A full write over one Session is fenced if the new record is.
LEMMA OneSessionWritten ==
  ASSUME WellFormed, NEW s \in Sessions, NEW record,
         sessions' = [sessions EXCEPT ![s] = record], Fenced(sessions[s], record)
  PROVE  SessionWrite
BY RecordTypes DEF WellFormed, BoardConsistent, SessionWrite, Fenced, Switched,
   HandedBack, SessionRecord,
   TypeOK

\* put_session's record over a registered Session respects the generation.
LEMMA MergedFenced ==
  ASSUME NEW previous \in SessionRecord, NEW record \in SessionRecord,
         NEW minimal \in BOOLEAN, record.registered, record.thread \in Threads
  PROVE  Fenced(previous, Merged(previous, record, minimal))
<1> DEFINE runtime == IF minimal THEN record.runtimeStatus ELSE previous.runtimeStatus
           turn == IF minimal THEN None ELSE previous.activeTurnId
           updated == [previous EXCEPT !.thread = record.thread, !.enabled = record.enabled,
                                       !.runtimeStatus = runtime, !.activeTurnId = turn]
           kept == OwnedByRuntime(updated)
           switched == \/ kept.thread # previous.thread
                       \/ kept.controlMode # previous.controlMode
           generation == IF switched THEN kept.controlGeneration + 1
                                     ELSE kept.controlGeneration
<1>1. /\ runtime \in RuntimeStatuses
      /\ turn \in Turns \cup {None}
      /\ record.enabled \in BOOLEAN
  BY DEF SessionRecord
<1>2. /\ updated \in SessionRecord
      /\ updated.registered = previous.registered
      /\ updated.thread = record.thread
      /\ updated.controlMode = previous.controlMode
      /\ updated.controlGeneration = previous.controlGeneration
  <2> HIDE DEF runtime, turn
  <2> QED BY <1>1 DEF SessionRecord
<1>3. \A x \in SessionRecord :
        /\ OwnedByRuntime(x) \in SessionRecord
        /\ OwnedByRuntime(x).registered = x.registered
        /\ OwnedByRuntime(x).thread = x.thread
        /\ OwnedByRuntime(x).controlGeneration = x.controlGeneration
        /\ OwnedByRuntime(x).controlMode \in {x.controlMode, "external"}
  BY DEF OwnedByRuntime, SessionRecord
<1>4. /\ kept \in SessionRecord
      /\ kept.controlMode \in {previous.controlMode, "external"}
      /\ kept.registered = previous.registered
      /\ kept.thread = record.thread
      /\ kept.controlGeneration = previous.controlGeneration
  <2> HIDE DEF updated
  <2> QED BY <1>2, <1>3
<1>5. CASE previous.registered
  <2>1. Merged(previous, record, minimal) = [kept EXCEPT !.controlGeneration = generation]
    BY <1>5 DEF Merged
  <2>2. /\ generation \in Nat
        /\ generation = previous.controlGeneration + (IF switched THEN 1 ELSE 0)
    <3> HIDE DEF kept
    <3> QED BY <1>4 DEF SessionRecord
  <2> HIDE DEF kept, generation
  <2>3. /\ Merged(previous, record, minimal).registered
        /\ Merged(previous, record, minimal).thread = kept.thread
        /\ Merged(previous, record, minimal).controlMode = kept.controlMode
        /\ Merged(previous, record, minimal).controlGeneration = generation
    BY <1>4, <1>5, <2>1, <2>2 DEF SessionRecord
  <2>4. ~HandedBack(previous, Merged(previous, record, minimal))
    BY <1>4, <2>3 DEF HandedBack
  <2> QED BY <1>4, <1>5, <2>2, <2>3, <2>4 DEF Fenced, Switched, SessionRecord
<1>6. CASE ~previous.registered
  BY <1>3, <1>6 DEF Merged, Fenced, Switched, HandedBack
<1> QED BY <1>5, <1>6

\* put_session stores that record, or nothing.
LEMMA PutSessionWrites ==
  ASSUME WellFormed, NEW s \in Sessions, NEW th \in Threads, NEW enabled \in BOOLEAN,
         NEW mode \in {"managed", "external"}, NEW runtime \in RuntimeStatuses,
         NEW minimal \in BOOLEAN, NEW edited \in BOOLEAN,
         PutSession(s, Fresh(th, enabled, mode, runtime), minimal, edited)
  PROVE  SessionWrite
<1> DEFINE record == Fresh(th, enabled, mode, runtime)
<1>1. /\ record \in SessionRecord
      /\ record.registered
      /\ record.thread \in Threads
  BY DEF Fresh, SessionRecord, RuntimeStatuses, HandoffStatuses
<1>2. sessions[s] \in SessionRecord
  BY RecordTypes DEF WellFormed
<1> HIDE DEF record
<1>3. Fenced(sessions[s], Merged(sessions[s], record, minimal))
  BY <1>1, <1>2, MergedFenced
<1>4. CASE UNCHANGED sessions
  BY <1>4, FencedStays
<1>5. CASE sessions' = [sessions EXCEPT ![s] = Merged(sessions[s], record, minimal)]
  BY <1>3, <1>5, OneSessionWritten
<1> QED BY <1>4, <1>5 DEF PutSession, record

\* What interrupt_run, handoff and the minimal put_session write.
LEMMA ControlWrites ==
  ASSUME WellFormed, NEW c \in Callers, ControlStep(c)
  PROVE  SessionWrite /\ RunWrite
<1>1. calls[c].pc \in ControlPhases =>
        /\ calls[c].run \in Created
        /\ calls[c].run \in Runs
        /\ runs[calls[c].run] \in RunRecord
        /\ calls[c].session \in Sessions
  BY RecordTypes DEF WellFormed, CallsConsistent, ControlPhases, LocalsSet, Created
<1>2. /\ runs \in [Runs -> RunRecord]
      /\ sessions \in [Sessions -> SessionRecord]
      /\ \A r \in Runs : runs[r] \in RunRecord
      /\ \A s \in Sessions : sessions[s] \in SessionRecord
  BY RecordTypes DEF WellFormed, TypeOK
<1>3. CASE \/ InterruptAccepted(c) \/ InterruptGet(c) \/ InterruptRejected(c)
           \/ InterruptUnanswered(c)
           \/ \E s \in Sessions, th \in Threads : PutRead(c, s, th)
  <2>1. UNCHANGED board
    BY <1>3 DEF InterruptAccepted, InterruptGet, InterruptRejected, InterruptUnanswered, PutRead
  <2> QED BY <2>1, BoardUntouched
<1>4. ASSUME NEW r \in Runs, InterruptCheck(c, r)
      PROVE  SessionWrite /\ RunWrite
  <2>1. r \in Created /\ ~Terminated(r)
    BY <1>4 DEF InterruptCheck, Created, Terminated, TerminalStatuses
  <2>2. Rewritten(r)
    BY <1>4, <1>2, <2>1 DEF InterruptCheck, Rewritten, RunRecord, RunStatuses,
         OccupyingStatuses
  <2> QED BY <1>4, <2>1, <2>2, FencedStays DEF InterruptCheck, RunWrite
<1>5. ASSUME NEW s \in Sessions, NEW q \in Requests, NEW r \in Runs,
             HandoffActive(c, s, q, r)
      PROVE  SessionWrite /\ RunWrite
  <2>1. r \in Created /\ ~Terminated(r)
    BY <1>5 DEF HandoffActive, OccupyingRuns, Occupies, OccupyingStatuses, Created,
         Terminated, TerminalStatuses
  <2>2. Rewritten(r)
    BY <1>5, <1>2, <2>1 DEF HandoffActive, Rewritten, RunRecord, RunStatuses,
         OccupyingStatuses
  <2>3. SessionWrite
    <3> SUFFICES ASSUME NEW x \in Sessions
                 PROVE  /\ sessions'[x].registered = sessions[x].registered
                        /\ sessions'[x].thread = sessions[x].thread
                        /\ sessions'[x].controlMode = sessions[x].controlMode
                        /\ sessions'[x].controlGeneration = sessions[x].controlGeneration
      BY OwnershipKept
    <3> QED BY <1>5, <1>2 DEF HandoffActive, SessionRecord
  <2> QED BY <2>1, <2>2, <2>3 DEF RunWrite
<1>6. CASE InterruptFailed(c)
  <2>1. calls[c].pc \in ControlPhases
    BY <1>6 DEF InterruptFailed, ControlPhases
  <2>2. Rewritten(calls[c].run)
    BY <1>1, <1>6, <1>2, <2>1 DEF InterruptFailed, Rewritten, Created, RunRecord,
         RunStatuses, OccupyingStatuses, TerminalStatuses, Terminated
  <2> QED BY <1>1, <1>6, <2>1, <2>2, FencedStays DEF InterruptFailed, RunWrite
<1>7. CASE HandoffUnknown(c)
  <2>1. calls[c].pc \in ControlPhases
    BY <1>7 DEF HandoffUnknown, ControlPhases
  <2>2. RunWrite
    BY <1>1, <1>7, <2>1, StatusRewritten DEF HandoffUnknown, WellFormed, RunStatuses,
         OccupyingStatuses
  <2>3. SessionWrite
    <3> SUFFICES ASSUME NEW x \in Sessions
                 PROVE  /\ sessions'[x].registered = sessions[x].registered
                        /\ sessions'[x].thread = sessions[x].thread
                        /\ sessions'[x].controlMode = sessions[x].controlMode
                        /\ sessions'[x].controlGeneration = sessions[x].controlGeneration
      BY OwnershipKept
    <3> QED BY <1>7, <1>2 DEF HandoffUnknown, SessionRecord
  <2> QED BY <2>2, <2>3
<1>8. CASE HandoffFailed(c)
  <2>1. calls[c].pc \in ControlPhases
    BY <1>8 DEF HandoffFailed, ControlPhases
  <2>2. CASE Terminated(calls[c].run)
    BY <1>8, <2>2, BoardUntouched DEF HandoffFailed
  <2>3. CASE ~Terminated(calls[c].run)
    <3>1. Rewritten(calls[c].run)
      BY <1>1, <1>8, <1>2, <2>1, <2>3 DEF HandoffFailed, Rewritten, Created, RunRecord,
           RunStatuses, OccupyingStatuses, TerminalStatuses, Terminated
    <3>2. Fenced(sessions[calls[c].session],
                 [sessions[calls[c].session] EXCEPT
                    !.controlMode = "managed", !.handoffStatus = "failed",
                    !.handoffRequestId = calls[c].request,
                    !.lastHandoffRequestId = calls[c].request])
      BY <1>1, <1>2, <2>1 DEF Fenced, Switched, HandedBack, SessionRecord, WellFormed,
           BoardConsistent
    <3>3. SessionWrite
      BY <1>1, <1>8, <2>1, <2>3, <3>2, OneSessionWritten DEF HandoffFailed
    <3> QED BY <1>1, <2>1, <3>1, <3>3 DEF RunWrite
  <2> QED BY <2>2, <2>3
<1>9. CASE PutCommit(c)
  <2>1. /\ calls[c].session \in Sessions
        /\ calls[c].thread \in Threads
        /\ calls[c].runtime \in RuntimeStatuses
    BY <1>9, RecordTypes DEF PutCommit, WellFormed, CallsConsistent, LocalsSet, CallRecord
  <2>2. PICK enabled \in BOOLEAN, edited \in BOOLEAN, mode \in {"managed", "external"} :
          PutSession(calls[c].session,
                     Fresh(calls[c].thread, enabled, mode, calls[c].runtime), TRUE, edited)
    BY <1>9 DEF PutCommit
  <2>3. SessionWrite
    BY <2>1, <2>2, PutSessionWrites
  <2> QED BY <1>9, <2>3 DEF PutCommit, RunWrite
<1> QED BY <1>3, <1>4, <1>5, <1>6, <1>7, <1>8, <1>9 DEF ControlStep

\* What handoff of an idle Session, reclaim and put_session write.
LEMMA SessionWrites ==
  ASSUME WellFormed, NEW s \in Sessions, SessionStep(s)
  PROVE  SessionWrite /\ RunWrite
<1>1. /\ sessions[s] \in SessionRecord
      /\ sessions[s].registered => sessions[s].thread \in Threads
  BY RecordTypes DEF WellFormed, BoardConsistent
<1>2. ASSUME NEW q \in Requests, HandoffIdle(s, q)
      PROVE  SessionWrite /\ RunWrite
  <2> DEFINE taken == TakenOver(sessions[s])
             record == [taken EXCEPT !.handoffStatus = "completed", !.handoffRequestId = q,
                                     !.lastHandoffRequestId = q]
  <2>1. /\ taken \in SessionRecord
        /\ taken.registered = sessions[s].registered
        /\ taken.thread = sessions[s].thread
        /\ taken.controlMode = "external"
        /\ taken.controlGeneration =
             IF sessions[s].controlMode = "external" THEN sessions[s].controlGeneration
             ELSE sessions[s].controlGeneration + 1
    BY <1>1, TakenOverType, TakenOverFenced
  <2>2. Fenced(sessions[s], record)
    <3>1. /\ record.registered = taken.registered
          /\ record.thread = taken.thread
          /\ record.controlMode = taken.controlMode
          /\ record.controlGeneration = taken.controlGeneration
      <4> HIDE DEF taken
      <4> QED BY <2>1 DEF SessionRecord
    <3> HIDE DEF taken, record
    <3> QED BY <1>1, <2>1, <3>1 DEF Fenced, Switched, HandedBack, SessionRecord
  <2>3. sessions' = [sessions EXCEPT ![s] = record]
    BY <1>2 DEF HandoffIdle
  <2> HIDE DEF record
  <2> QED BY <1>2, <2>2, <2>3, OneSessionWritten DEF HandoffIdle, RunWrite
<1>3. ASSUME NEW q \in Requests, Reclaim(s, q)
      PROVE  SessionWrite /\ RunWrite
  <2> DEFINE record ==
        [sessions[s] EXCEPT
           !.controlGeneration = sessions[s].controlGeneration + 1,
           !.controlMode = "managed", !.handoffStatus = "none",
           !.handoffRequestId = None, !.lastReclaimRequestId = q]
  <2>1. sessions[s].controlGeneration + 1 \in Nat
    BY <1>1 DEF SessionRecord
  <2>2. Fenced(sessions[s], record)
    <3>1. sessions[s].controlMode = "external"
      BY <1>3 DEF Reclaim
    <3> QED BY <1>1, <2>1, <3>1 DEF Fenced, Switched, HandedBack, SessionRecord
  <2>3. sessions' = [sessions EXCEPT ![s] = record]
    BY <1>3 DEF Reclaim
  <2> HIDE DEF record
  <2> QED BY <1>3, <2>2, <2>3, OneSessionWritten DEF Reclaim, RunWrite
<1>4. ASSUME NEW th \in Threads, NEW enabled \in BOOLEAN, NEW edited \in BOOLEAN,
             NEW mode \in {"managed", "external"}, PutFull(s, th, enabled, mode, edited)
      PROVE  SessionWrite /\ RunWrite
  <2>1. "notLoaded" \in RuntimeStatuses
    BY DEF RuntimeStatuses
  <2> QED BY <1>4, <2>1, PutSessionWrites DEF PutFull, RunWrite
<1> QED BY <1>2, <1>3, <1>4 DEF SessionStep

\* What the reconcile worker of a Run writes.
LEMMA ReconcileWrites ==
  ASSUME WellFormed, NEW r \in Runs, ReconcileStep(r)
  PROVE  SessionWrite /\ RunWrite
<1>1. CASE GetRun(r) \/ ReconcileRead(r) \/ ReconcileList(r)
  <2>1. UNCHANGED board
    BY <1>1 DEF GetRun, ReconcileRead, ReconcileList
  <2> QED BY <2>1, BoardUntouched
<1>2. CASE ReconcileProject(r)
  <2>1. reconcile[r].active \in Turns \cup {None}
    BY RecordTypes DEF WellFormed, WorkerRecord
  <2>2. SessionWrite
    <3> SUFFICES ASSUME NEW s \in Sessions
                 PROVE  Fenced(sessions[s], sessions'[s])
      BY DEF SessionWrite
    <3>1. /\ sessions[s] \in SessionRecord
          /\ sessions[s].registered => sessions[s].thread \in Threads
      BY RecordTypes DEF WellFormed, BoardConsistent
    <3>2. sessions'[s] \in {sessions[s], Projected(sessions[s], reconcile[r].active)}
      BY <1>2 DEF ReconcileProject
    <3>3. Fenced(sessions[s], sessions[s])
      BY <3>1 DEF Fenced, Switched, HandedBack, SessionRecord
    <3> QED BY <2>1, <3>1, <3>2, <3>3, ProjectedFenced
  <2> QED BY <1>2, <2>2 DEF ReconcileProject, RunWrite
<1>3. CASE ReconcileClose(r)
  <2>1. r \in Created /\ reconcile[r].fact \in TerminalStatuses \cup {"none"}
    BY <1>3, RecordTypes DEF ReconcileClose, WellFormed, ReferencesConsistent, WorkerRecord
  <2>2. CASE UNCHANGED board
    BY <2>2, BoardUntouched
  <2>3. CASE reconcile[r].fact # "none"
    BY <1>3, <2>1, <2>3, SetTerminalWrites DEF ReconcileClose
  <2> QED BY <1>3, <2>2, <2>3 DEF ReconcileClose
<1> QED BY <1>1, <1>2, <1>3 DEF ReconcileStep

\* What the reader thread writes.
LEMMA ReaderWrites ==
  ASSUME WellFormed, ReaderStep
  PROVE  SessionWrite /\ RunWrite
<1>1. \A s \in Sessions : /\ sessions[s] \in SessionRecord
                          /\ sessions[s].registered => sessions[s].thread \in Threads
                          /\ Fenced(sessions[s], sessions[s])
  BY RecordTypes DEF WellFormed, BoardConsistent, Fenced, Switched, HandedBack, SessionRecord
<1>2. CASE ReadCompleted \/ ReadOrphan \/ ReadStarted
  <2>1. UNCHANGED board
    BY <1>2 DEF ReadCompleted, ReadOrphan, ReadStarted
  <2> QED BY <2>1, BoardUntouched
<1>3. CASE ReadCallback
  <2>1. reader.run \in Created /\ reader.message.turn \in Turns
    BY <1>3 DEF ReadCallback, WellFormed, ReferencesConsistent
  <2> QED BY <1>3, <2>1, CallbackStatusType, WorkerResultWrites DEF ReadCallback
<1>4. CASE ReadMatch
  <2> DEFINE t == reader.message.turn
  <2>1. t \in Turns
    BY <1>4 DEF ReadMatch, WellFormed, ReferencesConsistent
  <2>2. CASE UNCHANGED board
    BY <2>2, BoardUntouched
  <2>3. ASSUME NEW r \in Runs, Occupies(r), WorkerResult(r, CallbackStatus(t))
        PROVE  SessionWrite /\ RunWrite
    <3>1. r \in Created
      BY <2>3 DEF Created, Occupies, OccupyingStatuses
    <3> QED BY <2>1, <2>3, <3>1, CallbackStatusType, WorkerResultWrites
  <2> QED BY <1>4, <2>2, <2>3 DEF ReadMatch
<1>5. CASE ReadRelease
  <2>1. \A s \in Sessions :
          Fenced(sessions[s],
                 [sessions[s] EXCEPT !.runtimeStatus = "idle", !.activeTurnId = None])
    BY <1>1 DEF Fenced, Switched, HandedBack, SessionRecord
  <2>2. SessionWrite
    BY <1>1, <1>5, <2>1 DEF ReadRelease, SessionWrite
  <2> QED BY <1>5, <2>2 DEF ReadRelease, RunWrite
<1>6. CASE ReadProject
  <2>1. reader.message.turn \in Turns \cup {None}
    BY DEF WellFormed, TypeOK, ReaderRecord, Message, NoMessage
  <2>2. \A s \in Sessions : Fenced(sessions[s], Projected(sessions[s], reader.message.turn))
    BY <1>1, <2>1, ProjectedFenced
  <2>3. SessionWrite
    BY <1>1, <1>6, <2>2 DEF ReadProject, SessionWrite
  <2> QED BY <1>6, <2>3 DEF ReadProject, RunWrite
<1> QED BY <1>2, <1>3, <1>4, <1>5, <1>6 DEF ReaderStep

\* What lost connections and probes write.
LEMMA TransportWrites ==
  ASSUME WellFormed, TransportStep
  PROVE  SessionWrite /\ RunWrite
<1>1. CASE Disconnect \/ Reconnect \/ \E t \in Turns : Probe(t)
  <2>1. UNCHANGED board
    BY <1>1 DEF Disconnect, Reconnect, Probe
  <2> QED BY <2>1, BoardUntouched
<1>2. ASSUME NEW r \in Runs, DisconnectCallback(r)
      PROVE  SessionWrite /\ RunWrite
  BY <1>2, SetUnknownWrites DEF DisconnectCallback, WellFormed, ReferencesConsistent
<1>3. ASSUME NEW r \in Runs, ProbeCallback(r)
      PROVE  SessionWrite /\ RunWrite
  <2>1. r \in Created /\ probed[r] \in TerminalStatuses \cup {"unknown"}
    BY <1>3 DEF ProbeCallback, WellFormed, ReferencesConsistent, TypeOK
  <2> QED BY <1>3, <2>1, WorkerResultWrites DEF ProbeCallback
<1>4. CASE DisconnectStatus
  <2> SUFFICES ASSUME NEW s \in Sessions
               PROVE  /\ sessions'[s].registered = sessions[s].registered
                      /\ sessions'[s].thread = sessions[s].thread
                      /\ sessions'[s].controlMode = sessions[s].controlMode
                      /\ sessions'[s].controlGeneration = sessions[s].controlGeneration
    BY <1>4, OwnershipKept DEF DisconnectStatus, RunWrite, gateway
  <2>1. sessions[s] \in SessionRecord
    BY RecordTypes DEF WellFormed
  <2> QED BY <1>4, <2>1 DEF DisconnectStatus, SessionRecord
<1> QED BY <1>1, <1>2, <1>3, <1>4 DEF TransportStep

\* Every step writes to the board in one of the two shapes, or creates a Run.
LEMMA StepWrites ==
  ASSUME WellFormed, [Next]_vars
  PROVE  /\ SessionWrite
         /\ RunWrite \/ \E c \in Callers, r \in Runs : StartCreate(c, r)
<1>1. CASE AppServerStep \/ Restart \/ UNCHANGED vars
  <2>1. UNCHANGED board
    BY <1>1 DEF AppServerStep, ExternalTurnStarts, TurnEnds, Restart, vars
  <2> QED BY <2>1, BoardUntouched
<1> QED BY <1>1, StartWrites, ControlWrites, SessionWrites, ReconcileWrites,
           ReaderWrites, TransportWrites DEF Next

-----------------------------------------------------------------------------
(* The well-formed Gateway                                                 *)

\* A Run once on the board stays there, and the board stays consistent.
LEMMA BoardKept ==
  ASSUME WellFormed, [Next]_vars
  PROVE  BoardConsistent' /\ Created \subseteq Created'
<1>1. /\ SessionWrite
      /\ RunWrite \/ \E c \in Callers, r \in Runs : StartCreate(c, r)
  BY StepWrites
<1>2. \A s \in Sessions : /\ sessions[s].registered => sessions'[s].registered
                          /\ sessions'[s].registered => sessions'[s].thread \in Threads
  BY <1>1 DEF SessionWrite, Fenced
<1>3. CASE RunWrite
  BY <1>2, <1>3 DEF WellFormed, BoardConsistent, RunWrite, Rewritten, Created, RunStatuses,
     OccupyingStatuses, TerminalStatuses
<1>4. ASSUME NEW c \in Callers, NEW r \in Runs, StartCreate(c, r)
      PROVE  BoardConsistent' /\ Created \subseteq Created'
  <2>1. /\ calls[c].session \in Sessions
        /\ calls[c].request \in Requests
        /\ sessions[calls[c].session].registered
        /\ runs \in [Runs -> RunRecord]
    BY <1>4 DEF StartCreate, Admissible, WellFormed, TypeOK, CallsConsistent, LocalsSet,
         StartedPhases
  <2>2. /\ \A other \in Runs \ {r} : runs'[other] = runs[other]
        /\ runs'[r].status = "starting"
        /\ runs'[r].requestId = calls[c].request
        /\ runs'[r].sessionId = calls[c].session
    BY <1>4, <2>1 DEF StartCreate
  <2> QED BY <1>2, <2>1, <2>2 DEF WellFormed, BoardConsistent, Created
<1> QED BY <1>1, <1>3, <1>4

\* start_run sets its locals before it uses them and reports on its own Run.
LEMMA StartKeeps ==
  ASSUME WellFormed, NEW c \in Callers, StartStep(c), Created \subseteq Created'
  PROVE  CallsConsistent' /\ ReferencesConsistent'
<1> USE DEF board, appServer, transport
<1>1. /\ calls \in [Callers -> CallRecord]
      /\ watched \in [Turns -> Runs \cup {None}]
      /\ \A d \in Callers : LocalsSet(calls[d])
      /\ \A d \in Callers :
           calls[d].pc \in StartedPhases \cup ControlPhases => calls[d].run \in Created'
      /\ live \subseteq Created'
      /\ \A t \in Turns : watched[t] \in Created' \cup {None}
  BY DEF WellFormed, TypeOK, CallsConsistent, ReferencesConsistent
<1>2. ASSUME NEW d \in Callers
      PROVE  /\ LocalsSet(calls'[d])
             /\ calls'[d].pc \in StartedPhases \cup ControlPhases
                  => calls'[d].run \in Created'
  <2>1. CASE calls'[d] = calls[d]
    BY <1>1, <2>1
  <2>2. CASE calls'[d] # calls[d]
    <3>1. ASSUME NEW s \in Sessions, NEW q \in Requests, StartCheck(c, s, q)
          PROVE  /\ LocalsSet(calls'[d])
                 /\ calls'[d].pc \notin StartedPhases \cup ControlPhases
      <4>1. sessions[s].thread \in Threads
        BY <3>1 DEF StartCheck, Admissible, WellFormed, BoardConsistent
      <4> QED BY <1>1, <2>2, <3>1, <4>1 DEF StartCheck, LocalsSet, StartedPhases,
               ControlPhases, TurnPhases, IdleCall
    <3>2. CASE StartRead(c) \/ StartDenied(c) \/ StartFinish(c) \/ StartRefused(c)
               \/ StartUnknown(c)
      <4>1. CASE StartRead(c) /\ Goto(c, "start.create")
        BY <1>1, <2>2, <4>1 DEF StartRead, Goto, LocalsSet, StartedPhases, ControlPhases,
           TurnPhases, CallRecord
      <4>2. CASE Return(c)
        <5>1. calls'[d] = IdleCall
          BY <1>1, <2>2, <4>2 DEF Return
        <5> QED BY <5>1 DEF IdleCall, LocalsSet, StartedPhases, ControlPhases, TurnPhases
      <4> QED BY <3>2, <4>1, <4>2 DEF StartRead, StartDenied, StartFinish, StartRefused,
               StartUnknown
    <3>3. ASSUME NEW r \in Runs, StartCreate(c, r)
          PROVE  LocalsSet(calls'[d]) /\ calls'[d].run \in Created'
      <4>1. r \in Created'
        BY <3>3 DEF StartCreate, Created, WellFormed, TypeOK
      <4> QED BY <1>1, <2>2, <3>3, <4>1 DEF StartCreate, LocalsSet, StartedPhases,
               TurnPhases, CallRecord
    <3>4. CASE \/ StartRemember(c) \/ StartRejected(c) \/ StartUnanswered(c)
               \/ StartRegister(c) \/ StartTakeOrphan(c) \/ StartOrphan(c)
      BY <1>1, <2>2, <3>4 DEF StartRemember, StartRejected, StartUnanswered, StartRegister,
         StartTakeOrphan, StartOrphan, Goto, LocalsSet, StartedPhases, TurnPhases, CallRecord
    <3>5. ASSUME NEW t \in Turns, StartAccepted(c, t)
          PROVE  LocalsSet(calls'[d]) /\ calls'[d].run \in Created'
      BY <1>1, <2>2, <3>5 DEF StartAccepted, LocalsSet, StartedPhases, TurnPhases, CallRecord
    <3> QED BY <3>1, <3>2, <3>3, <3>4, <3>5 DEF StartStep
  <2> QED BY <2>1, <2>2
<1>3. live' \subseteq Created'
  <2>1. CASE StartRemember(c)
    BY <1>1, <2>1 DEF StartRemember, StartedPhases
  <2>2. CASE ~StartRemember(c)
    <3>1. live' \subseteq live
      BY <2>2 DEF StartStep, StartCheck, StartRead, StartCreate, StartDenied, StartAccepted,
           StartRejected, StartUnanswered, StartRegister, StartTakeOrphan, StartOrphan,
           StartFinish, StartRefused, StartUnknown, WorkerResult, SetTerminal, SetUnknown
    <3> QED BY <1>1, <3>1
  <2> QED BY <2>1, <2>2
<1>4. \A t \in Turns : watched'[t] \in Created' \cup {None}
  <2>1. CASE StartRegister(c)
    BY <1>1, <2>1 DEF StartRegister, StartedPhases
  <2>2. CASE StartTakeOrphan(c)
    BY <1>1, <2>2 DEF StartTakeOrphan
  <2>3. CASE ~StartRegister(c) /\ ~StartTakeOrphan(c)
    <3>1. watched' = watched
      BY <2>3 DEF StartStep, StartCheck, StartRead, StartCreate, StartDenied, StartRemember,
           StartAccepted, StartRejected, StartUnanswered, StartOrphan, StartFinish,
           StartRefused, StartUnknown
    <3> QED BY <1>1, <3>1
  <2> QED BY <2>1, <2>2, <2>3
<1>5. UNCHANGED <<reconcile, reader, probed, disconnect>>
  BY DEF StartStep, StartCheck, StartRead, StartCreate, StartDenied, StartRemember,
     StartAccepted, StartRejected, StartUnanswered, StartRegister, StartTakeOrphan,
     StartOrphan, StartFinish, StartRefused, StartUnknown
<1> QED BY <1>2, <1>3, <1>4, <1>5 DEF CallsConsistent, ReferencesConsistent, WellFormed

\* So do interrupt_run, handoff and the minimal put_session.
LEMMA ControlKeeps ==
  ASSUME WellFormed, NEW c \in Callers, ControlStep(c), Created \subseteq Created'
  PROVE  CallsConsistent' /\ ReferencesConsistent'
<1> USE DEF board, appServer, transport
<1>1. /\ calls \in [Callers -> CallRecord]
      /\ \A d \in Callers : LocalsSet(calls[d])
      /\ \A d \in Callers :
           calls[d].pc \in StartedPhases \cup ControlPhases => calls[d].run \in Created'
  BY DEF WellFormed, TypeOK, CallsConsistent
<1>2. ASSUME NEW d \in Callers
      PROVE  /\ LocalsSet(calls'[d])
             /\ calls'[d].pc \in StartedPhases \cup ControlPhases
                  => calls'[d].run \in Created'
  <2>1. CASE calls'[d] = calls[d]
    BY <1>1, <2>1
  <2>2. CASE calls'[d] # calls[d]
    <3>1. ASSUME NEW r \in Runs, InterruptCheck(c, r)
          PROVE  LocalsSet(calls'[d]) /\ calls'[d].run \in Created'
      <4>1. r \in Created
        BY <3>1 DEF InterruptCheck, Created
      <4>2. runs[r].sessionId \in Sessions /\ runs[r].transportTurnId \in Turns
        BY <3>1, <4>1, RecordTypes DEF InterruptCheck, WellFormed, BoardConsistent, RunRecord
      <4> QED BY <1>1, <2>2, <3>1, <4>1, <4>2 DEF InterruptCheck, IdleCall, LocalsSet,
               StartedPhases, TurnPhases
    <3>2. ASSUME NEW s \in Sessions, NEW q \in Requests, NEW r \in Runs,
                 HandoffActive(c, s, q, r)
          PROVE  LocalsSet(calls'[d]) /\ calls'[d].run \in Created'
      <4>1. r \in Created /\ runs[r].transportTurnId \in Turns
        BY <3>2, RecordTypes DEF HandoffActive, OccupyingRuns, Occupies, OccupyingStatuses,
           Created, WellFormed, RunRecord
      <4> QED BY <1>1, <2>2, <3>2, <4>1 DEF HandoffActive, IdleCall, LocalsSet,
               StartedPhases, TurnPhases
    <3>3. CASE InterruptGet(c) \/ InterruptFailed(c) \/ HandoffUnknown(c)
               \/ HandoffFailed(c) \/ PutCommit(c)
      <4>1. calls'[d] = IdleCall
        BY <1>1, <2>2, <3>3 DEF InterruptGet, InterruptFailed, HandoffUnknown,
           HandoffFailed, PutCommit, Return
      <4> QED BY <4>1 DEF IdleCall, LocalsSet, StartedPhases, ControlPhases, TurnPhases
    <3>4. CASE InterruptAccepted(c) \/ InterruptRejected(c) \/ InterruptUnanswered(c)
      BY <1>1, <2>2, <3>4 DEF InterruptAccepted, InterruptRejected, InterruptUnanswered,
         Goto, Return, IdleCall, LocalsSet, StartedPhases, ControlPhases, TurnPhases,
         CallRecord
    <3>5. ASSUME NEW s \in Sessions, NEW th \in Threads, PutRead(c, s, th)
          PROVE  /\ LocalsSet(calls'[d])
                 /\ calls'[d].pc \notin StartedPhases \cup ControlPhases
      BY <1>1, <2>2, <3>5 DEF PutRead, IdleCall, LocalsSet, StartedPhases, ControlPhases,
         TurnPhases
    <3> QED BY <3>1, <3>2, <3>3, <3>4, <3>5 DEF ControlStep
  <2> QED BY <2>1, <2>2
<1>3. \A r \in Runs : reconcile'[r].pc # "none" => r \in Created'
  <2>1. CASE \E r : ScheduleReconcile(r)
    BY <2>1 DEF ScheduleReconcile, WellFormed, ReferencesConsistent, TypeOK, Created,
       Occupies, OccupyingStatuses
  <2>2. CASE UNCHANGED reconcile
    BY <2>2 DEF WellFormed, ReferencesConsistent
  <2> QED BY <2>1, <2>2 DEF ControlStep, InterruptCheck, HandoffActive, InterruptAccepted,
           InterruptGet, InterruptRejected, InterruptUnanswered, InterruptFailed,
           HandoffUnknown, HandoffFailed, PutRead, PutCommit
<1>4. UNCHANGED <<live, reader, probed, disconnect, watched>>
  BY DEF ControlStep, InterruptCheck, HandoffActive, InterruptAccepted, InterruptGet,
     InterruptRejected, InterruptUnanswered, InterruptFailed, HandoffUnknown, HandoffFailed,
     PutRead, PutCommit
<1> QED BY <1>2, <1>3, <1>4 DEF CallsConsistent, ReferencesConsistent, WellFormed

\* What the reconcile worker does to the board does not disturb the rest.
LEMMA ReconcileKeeps ==
  ASSUME WellFormed, NEW r \in Runs, ReconcileStep(r), Created \subseteq Created'
  PROVE  CallsConsistent' /\ ReferencesConsistent'
<1> USE DEF board, appServer, transport
<1>1. reconcile \in [Runs -> WorkerRecord] /\ live \subseteq Created
  BY DEF WellFormed, TypeOK, ReferencesConsistent
<1>2. UNCHANGED <<calls, reader, probed, disconnect, watched>>
  BY DEF ReconcileStep, GetRun, ReconcileRead, ReconcileList, ReconcileProject, ReconcileClose
<1>3. live' \subseteq Created'
  BY <1>1 DEF ReconcileStep, GetRun, ReconcileRead, ReconcileList, ReconcileProject,
     ReconcileClose, SetTerminal
<1>4. \A x \in Runs : reconcile'[x].pc # "none" => x \in Created'
  <2>1. r \in Created
    BY DEF ReconcileStep, GetRun, ScheduleReconcile, ReconcileRead, ReconcileList,
       ReconcileProject, ReconcileClose, Created, Occupies, OccupyingStatuses, WellFormed,
       ReferencesConsistent
  <2>2. \A x \in Runs \ {r} : reconcile'[x] = reconcile[x]
    BY <1>1 DEF ReconcileStep, GetRun, ScheduleReconcile, ReconcileRead, ReconcileList,
       ReconcileProject, ReconcileClose
  <2> QED BY <2>1, <2>2 DEF WellFormed, ReferencesConsistent
<1> QED BY <1>2, <1>3, <1>4 DEF WellFormed, CallsConsistent, ReferencesConsistent

\* The reader thread reports on Runs that are on the board.
LEMMA ReaderKeeps ==
  ASSUME WellFormed, ReaderStep, Created \subseteq Created'
  PROVE  CallsConsistent' /\ ReferencesConsistent'
<1> USE DEF board, appServer, transport
<1>1. /\ events \in Seq(Message)
      /\ reader \in ReaderRecord
      /\ watched \in [Turns -> Runs \cup {None}]
      /\ live \subseteq Created
      /\ \A t \in Turns : watched[t] \in Created' \cup {None}
  BY DEF WellFormed, TypeOK, ReferencesConsistent
<1>2. UNCHANGED <<calls, reconcile, probed, disconnect>>
  BY DEF ReaderStep, ReadCompleted, ReadCallback, ReadOrphan, ReadMatch, ReadRelease,
     ReadStarted, ReadProject
<1>3. live' \subseteq Created'
  BY <1>1 DEF ReaderStep, ReadCompleted, ReadCallback, ReadOrphan, ReadMatch, ReadRelease,
     ReadStarted, ReadProject, WorkerResult, SetTerminal, SetUnknown
<1>4. /\ \A t \in Turns : watched'[t] \in Created' \cup {None}
      /\ reader'.pc = "callback" => reader'.run \in Created'
      /\ reader'.pc \in {"callback", "orphan", "match", "release"} =>
           reader'.message.turn \in Turns
  <2>1. CASE ReadCompleted
    <3> DEFINE m == Head(events)
    <3>1. m \in Message /\ m.turn \in Turns
      BY <1>1, <2>1 DEF ReadCompleted, Message
    <3>2. watched[m.turn] \in Created' \cup {None}
      BY <1>1, <3>1
    <3>3. reader' = [ReadyReader EXCEPT
                       !.pc = IF watched[m.turn] = None THEN "orphan" ELSE "callback",
                       !.message = m, !.run = watched[m.turn]]
      BY <2>1 DEF ReadCompleted
    <3>4. watched' = [watched EXCEPT ![m.turn] = None]
      BY <2>1 DEF ReadCompleted
    <3> HIDE DEF m
    <3> QED BY <1>1, <3>1, <3>2, <3>3, <3>4 DEF ReadyReader
  <2>2. CASE ReadCallback \/ ReadOrphan \/ ReadMatch
    BY <1>1, <2>2 DEF ReadCallback, ReadOrphan, ReadMatch, ReaderRecord, WellFormed,
       ReferencesConsistent
  <2>3. CASE ReadRelease \/ ReadProject
    <3>1. reader' = ReadyReader /\ watched' = watched
      BY <2>3 DEF ReadRelease, ReadProject
    <3> QED BY <1>1, <3>1 DEF ReadyReader
  <2>4. CASE ReadStarted
    BY <1>1, <2>4 DEF ReadStarted, ReadyReader
  <2> QED BY <2>1, <2>2, <2>3, <2>4 DEF ReaderStep
<1> QED BY <1>2, <1>3, <1>4 DEF WellFormed, CallsConsistent, ReferencesConsistent

\* A lost connection leaves handler threads where their locals still fit.
LEMMA TransportKeeps ==
  ASSUME WellFormed, TransportStep, Created \subseteq Created'
  PROVE  CallsConsistent' /\ ReferencesConsistent'
<1> USE DEF board, appServer, gateway
<1>1. /\ calls \in [Callers -> CallRecord]
      /\ reader \in ReaderRecord
      /\ watched \in [Turns -> Runs \cup {None}]
      /\ probed \in [Runs -> TerminalStatuses \cup {"none", "unknown"}]
      /\ disconnect \in [runs: SUBSET Runs, status: BOOLEAN]
      /\ CallsConsistent /\ ReferencesConsistent
  BY DEF WellFormed, TypeOK
<1>2. CASE Disconnect
  <2>1. CallsConsistent'
    <3> SUFFICES ASSUME NEW c \in Callers
                 PROVE  /\ LocalsSet(calls'[c])
                        /\ calls'[c].pc \in StartedPhases \cup ControlPhases
                             => calls'[c].run \in Created'
      BY DEF CallsConsistent
    <3>1. \/ calls'[c] = calls[c]
          \/ /\ calls[c].pc \in {"start.rpc", "start.reply", "interrupt.rpc", "handoff.rpc"}
             /\ calls'[c] = [calls[c] EXCEPT !.pc = Failure[calls[c].pc]]
      BY <1>2 DEF Disconnect, Failure
    <3>2. CASE calls'[c] = calls[c]
      BY <1>1, <3>2 DEF CallsConsistent
    <3>3. CASE /\ calls[c].pc \in {"start.rpc", "start.reply", "interrupt.rpc",
                                   "handoff.rpc"}
               /\ calls'[c] = [calls[c] EXCEPT !.pc = Failure[calls[c].pc]]
      <4>1. /\ calls[c].pc \in {"start.rpc", "start.reply"} =>
                 Failure[calls[c].pc] = "start.refused"
            /\ calls[c].pc = "interrupt.rpc" => Failure[calls[c].pc] = "interrupt.failed"
            /\ calls[c].pc = "handoff.rpc" => Failure[calls[c].pc] = "handoff.failed"
        BY DEF Failure
      <4> QED BY <1>1, <3>3, <4>1 DEF CallsConsistent, LocalsSet, StartedPhases,
               ControlPhases, TurnPhases, CallRecord
    <3> QED BY <3>1, <3>2, <3>3
  <2>2. ReferencesConsistent'
    <3>1. disconnect'.runs = disconnect.runs \cup {r \in Runs : \E t \in Turns : watched[t] = r}
      BY <1>2 DEF Disconnect
    <3>2. disconnect'.runs \subseteq Created'
      BY <1>1, <3>1, ConstantsAssumption DEF ReferencesConsistent
    <3>3. \A t \in Turns : watched'[t] = None
      BY <1>2 DEF Disconnect
    <3>4. UNCHANGED <<live, reconcile, probed, reader>>
      BY <1>2 DEF Disconnect
    <3> QED BY <1>1, <3>2, <3>3, <3>4 DEF ReferencesConsistent
  <2> QED BY <2>1, <2>2
<1>3. ASSUME NEW r \in Runs, DisconnectCallback(r)
      PROVE  CallsConsistent' /\ ReferencesConsistent'
  BY <1>1, <1>3 DEF DisconnectCallback, SetUnknown, CallsConsistent, ReferencesConsistent
<1>4. ASSUME NEW r \in Runs, ProbeCallback(r)
      PROVE  CallsConsistent' /\ ReferencesConsistent'
  BY <1>1, <1>4 DEF ProbeCallback, WorkerResult, SetTerminal, SetUnknown, CallsConsistent,
     ReferencesConsistent
<1>5. CASE DisconnectStatus
  BY <1>1, <1>5 DEF DisconnectStatus, CallsConsistent, ReferencesConsistent
<1>6. CASE Reconnect
  BY <1>1, <1>6 DEF Reconnect, CallsConsistent, ReferencesConsistent, ReaderRecord
<1>7. ASSUME NEW t \in Turns, Probe(t)
      PROVE  CallsConsistent' /\ ReferencesConsistent'
  BY <1>1, <1>7 DEF Probe, CallsConsistent, ReferencesConsistent
<1> QED BY <1>2, <1>3, <1>4, <1>5, <1>6, <1>7 DEF TransportStep

\* A restart forgets every local and finds every Run it reconciles on the board.
LEMMA RestartKeeps ==
  ASSUME WellFormed, Restart, Created \subseteq Created'
  PROVE  CallsConsistent' /\ ReferencesConsistent'
BY DEF Restart, CallsConsistent, LocalsSet, IdleCall, StartedPhases, ControlPhases, TurnPhases,
   ReferencesConsistent, NoWorker, ReadyReader, Created, Occupies, OccupyingStatuses

\* The Gateway starts well formed.
LEMMA InitWellFormed == Init => WellFormed
<1> SUFFICES ASSUME Init PROVE WellFormed
  OBVIOUS
<1>1. Created = {}
  BY DEF Init, Absent, Created
<1>2. BoardConsistent
  BY <1>1 DEF Init, Unregistered, Fresh, BoardConsistent
<1>3. CallsConsistent
  BY DEF Init, InitProcess, IdleCall, CallsConsistent, LocalsSet, StartedPhases, ControlPhases,
     TurnPhases
<1>4. ReferencesConsistent
  BY DEF Init, InitProcess, NoWorker, ReadyReader, ReferencesConsistent
<1> QED BY <1>2, <1>3, <1>4, InitType DEF WellFormed

\* Every step keeps the Gateway well formed.
LEMMA NextWellFormed ==
  ASSUME WellFormed, [Next]_vars
  PROVE  WellFormed'
<1>1. BoardConsistent' /\ Created \subseteq Created'
  BY BoardKept
<1> SUFFICES TypeOK' /\ CallsConsistent' /\ ReferencesConsistent'
  BY <1>1 DEF WellFormed
<1>2. TypeOK /\ CallsConsistent /\ ReferencesConsistent
  BY DEF WellFormed
<1>3. ASSUME NEW c \in Callers, StartStep(c) \/ ControlStep(c)
      PROVE  TypeOK' /\ CallsConsistent' /\ ReferencesConsistent'
  BY <1>1, <1>2, <1>3, StartType, StartKeeps, ControlType, ControlKeeps
<1>4. ASSUME NEW s \in Sessions, SessionStep(s)
      PROVE  TypeOK' /\ CallsConsistent' /\ ReferencesConsistent'
  <2>1. UNCHANGED <<gateway, transport>>
    BY <1>4 DEF SessionStep, HandoffIdle, Reclaim, PutFull
  <2> QED BY <1>1, <1>2, <1>4, <2>1, SessionType DEF gateway, transport, CallsConsistent,
           ReferencesConsistent
<1>5. ASSUME NEW r \in Runs, ReconcileStep(r)
      PROVE  TypeOK' /\ CallsConsistent' /\ ReferencesConsistent'
  BY <1>1, <1>5, ReconcileType, ReconcileKeeps
<1>6. CASE ReaderStep
  BY <1>1, <1>6, ReaderType, ReaderKeeps
<1>7. CASE TransportStep
  BY <1>1, <1>7, TransportType, TransportKeeps
<1>8. CASE AppServerStep
  <2>1. UNCHANGED <<gateway, transport>>
    BY <1>8 DEF AppServerStep, ExternalTurnStarts, TurnEnds
  <2> QED BY <1>1, <1>2, <1>8, <2>1, AppServerType DEF gateway, transport, CallsConsistent,
           ReferencesConsistent
<1>9. CASE Restart
  BY <1>1, <1>2, <1>9, RestartType, RestartKeeps
<1>10. CASE UNCHANGED vars
  BY <1>1, <1>2, <1>10 DEF vars, board, gateway, transport, appServer, TypeOK, CallsConsistent,
     ReferencesConsistent
<1> QED BY <1>1, <1>3, <1>4, <1>5, <1>6, <1>7, <1>8, <1>9, <1>10 DEF Next

-----------------------------------------------------------------------------
(* How one Run, one turn and one call move.                                *)

\* The status of x becomes v unless x has ended; no other Run is written.
StatusBecomes(x, v) ==
  \A r \in Runs :
    /\ runs'[r].transportTurnId = runs[r].transportTurnId
    /\ runs'[r].status = IF r = x /\ ~Terminated(r) THEN v ELSE runs[r].status

\* _set_terminal writes one status.
LEMMA TerminalBecomes ==
  ASSUME runs \in [Runs -> RunRecord], NEW x \in Runs, NEW v, SetTerminal(x, v)
  PROVE  StatusBecomes(x, v) /\ live' = live \ {x}
BY DEF SetTerminal, StatusBecomes, Terminated, RunRecord

\* _set_unknown does.
LEMMA UnknownBecomes ==
  ASSUME runs \in [Runs -> RunRecord], NEW x \in Runs, SetUnknown(x)
  PROVE  StatusBecomes(x, "unknown") /\ live' = live \ {x}
BY DEF SetUnknown, StatusBecomes, Terminated, RunRecord

\* A callback does, and makes its Run reconcilable.
LEMMA ResultBecomes ==
  ASSUME runs \in [Runs -> RunRecord], NEW x \in Runs, NEW v, WorkerResult(x, v)
  PROVE  StatusBecomes(x, v) /\ live' = live \ {x}
BY TerminalBecomes, UnknownBecomes DEF WorkerResult

\* A call that goes on keeps its Run and its turn.
LEMMA GotoMoves ==
  ASSUME calls \in [Callers -> CallRecord], NEW c \in Callers, NEW pc, Goto(c, pc)
  PROVE  /\ calls'[c].pc = pc /\ calls'[c].run = calls[c].run
         /\ calls'[c].turn = calls[c].turn
         /\ \A d \in Callers \ {c} : calls'[d] = calls[d]
BY DEF Goto, CallRecord

\* A call that returns leaves its handler thread idle.
LEMMA ReturnMoves ==
  ASSUME calls \in [Callers -> CallRecord], NEW c \in Callers, Return(c)
  PROVE  calls'[c].pc = "idle" /\ \A d \in Callers \ {c} : calls'[d] = calls[d]
BY DEF Return, IdleCall

\* The status of a turn as a callback reports it.
LEMMA StatusReported ==
  ASSUME NEW t
  PROVE  \/ CallbackStatus(t) = "unknown"
         \/ CallbackStatus(t) \in TerminalStatuses /\ CallbackStatus(t) = turns[t].status
BY DEF CallbackStatus

\* What moves a Run: a callback, its start_run's end, or what knows its turn.
Cause(r) ==
  \/ Reported(r)
  \/ runs[r].transportTurnId # None
  \/ \E c \in Callers :
       /\ calls[c].run = r
       /\ calls[c].pc \in {"start.orphan", "start.refused", "start.unknown"}
       /\ calls'[c].pc \notin Unreported

\* Where an outcome comes from: the turn that is reported, or a refused start.
Source(r, v) ==
  \/ reader.pc = "callback" /\ reader.run = r /\ turns[reader.message.turn].status = v
  \/ probed[r] = v
  \/ runs[r].transportTurnId # None /\ turns[runs[r].transportTurnId].status = v
  \/ \E c \in Callers :
       /\ calls[c].run = r
       /\ \/ calls[c].pc = "start.orphan" /\ turns[calls[c].turn].status = v
          \/ calls[c].pc = "start.refused" /\ calls'[c].pc = "idle"

RunKept(r) ==
  /\ runs'[r].status = runs[r].status
  /\ runs'[r].transportTurnId = runs[r].transportTurnId

\* A Run stays, is created, records its turn, or changes its status.
RunMoves(r) ==
  \/ RunKept(r)
  \/ runs[r] = Absent /\ runs'[r].status = "starting" /\ runs'[r].transportTurnId = None
  \/ \E c \in Callers :
       /\ calls[c].pc = "start.finish" /\ calls[c].run = r /\ calls'[c].pc = "idle"
       /\ runs'[r].transportTurnId = calls[c].turn
       /\ runs'[r].status = Confirmed(runs[r].status)
       /\ turns' = turns
  \/ /\ ~Terminated(r) /\ Cause(r) /\ turns' = turns
     /\ runs'[r].transportTurnId = runs[r].transportTurnId
     /\ \/ runs'[r].status = "unknown"
        \/ runs'[r].status = "active" /\ runs[r].status = "interrupting"
        \/ /\ runs'[r].status = "interrupting"
           /\ runs[r].status = "active" \/ "handoff" \in Operations
        \/ runs'[r].status \in TerminalStatuses /\ Source(r, runs'[r].status)

\* A status written for a cause, and an outcome from a source, is such a move.
LEMMA StatusMoves ==
  ASSUME NEW x \in Runs, NEW v, StatusBecomes(x, v), turns' = turns,
         ~Terminated(x) => Cause(x),
         v = "unknown" \/ (v \in TerminalStatuses /\ Source(x, v)),
         NEW r \in Runs
  PROVE  RunMoves(r)
<1>1. CASE r = x /\ ~Terminated(r)
  BY <1>1 DEF StatusBecomes, RunMoves, OccupyingStatuses
<1>2. CASE ~(r = x /\ ~Terminated(r))
  BY <1>2 DEF StatusBecomes, RunMoves, RunKept
<1> QED BY <1>1, <1>2

\* Every step moves a Run in one of these ways.
LEMMA RunsMove ==
  ASSUME WellFormed, Provenance, NEW r \in Runs, [Next]_vars
  PROVE  RunMoves(r)
<1>a. /\ TypeOK /\ runs \in [Runs -> RunRecord] /\ calls \in [Callers -> CallRecord]
      /\ \A c \in Callers : LocalsSet(calls[c])
      /\ \A c \in Callers :
           calls[c].pc \in StartedPhases \cup ControlPhases => calls[c].run \in Runs
      /\ \A c \in Callers : ControlsRecorded(c)
      /\ \A x \in Runs : ReportIsFact(x)
  BY DEF WellFormed, TypeOK, CallsConsistent, Created, Provenance
<1>1. ASSUME NEW c \in Callers, NEW x \in Runs, StartCreate(c, x)
      PROVE  RunMoves(r)
  <2>1. runs[x] = Absent
    BY <1>1 DEF StartCreate, WellFormed, BoardConsistent, Created
  <2> QED BY <1>1, <2>1, <1>a DEF StartCreate, RunMoves, RunKept
<1>2. ASSUME NEW c \in Callers, StartOrphan(c)
      PROVE  RunMoves(r)
  <2>1. /\ calls[c].pc = "start.orphan" /\ calls[c].run \in Runs
        /\ calls'[c].pc = "start.finish"
    BY <1>2, <1>a, GotoMoves DEF StartOrphan, StartedPhases
  <2>2. StatusBecomes(calls[c].run, CallbackStatus(calls[c].turn)) /\ turns' = turns
    BY <1>2, <1>a, <2>1, ResultBecomes DEF StartOrphan, appServer
  <2>3. Cause(calls[c].run)
    BY <2>1 DEF Cause, Unreported
  <2>4. \/ CallbackStatus(calls[c].turn) = "unknown"
        \/ /\ CallbackStatus(calls[c].turn) \in TerminalStatuses
           /\ Source(calls[c].run, CallbackStatus(calls[c].turn))
    BY <2>1, StatusReported DEF Source
  <2> QED BY <2>1, <2>2, <2>3, <2>4, StatusMoves
<1>3. ASSUME NEW c \in Callers, StartFinish(c)
      PROVE  RunMoves(r)
  <2>1. /\ calls[c].pc = "start.finish" /\ calls[c].run \in Runs /\ calls'[c].pc = "idle"
        /\ turns' = turns
    BY <1>3, <1>a, ReturnMoves DEF StartFinish, StartedPhases, appServer
  <2>2. /\ runs'[calls[c].run].transportTurnId = calls[c].turn
        /\ runs'[calls[c].run].status = Confirmed(runs[calls[c].run].status)
        /\ \A x \in Runs \ {calls[c].run} : runs'[x] = runs[x]
    BY <1>3, <1>a, <2>1, SMTT(30) DEF StartFinish, RunRecord
  <2> QED BY <2>1, <2>2 DEF RunMoves, RunKept
<1>4. ASSUME NEW c \in Callers, StartRefused(c)
      PROVE  RunMoves(r)
  <2>1. /\ calls[c].pc = "start.refused" /\ calls[c].run \in Runs /\ calls'[c].pc = "idle"
    BY <1>4, <1>a, ReturnMoves DEF StartRefused, StartedPhases
  <2>2. StatusBecomes(calls[c].run, "failed") /\ turns' = turns
    BY <1>4, <1>a, <2>1, TerminalBecomes DEF StartRefused, appServer
  <2>3. Cause(calls[c].run) /\ Source(calls[c].run, "failed")
    BY <2>1 DEF Cause, Source, Unreported
  <2> QED BY <2>1, <2>2, <2>3, StatusMoves DEF TerminalStatuses
<1>5. ASSUME NEW c \in Callers, StartUnknown(c)
      PROVE  RunMoves(r)
  <2>1. /\ calls[c].pc = "start.unknown" /\ calls[c].run \in Runs /\ calls'[c].pc = "idle"
    BY <1>5, <1>a, ReturnMoves DEF StartUnknown, StartedPhases
  <2>2. StatusBecomes(calls[c].run, "unknown") /\ turns' = turns
    BY <1>5, <1>a, <2>1, UnknownBecomes DEF StartUnknown, appServer
  <2>3. Cause(calls[c].run)
    BY <2>1 DEF Cause, Unreported
  <2> QED BY <2>1, <2>2, <2>3, StatusMoves
<1>6. ASSUME NEW c \in Callers, NEW x \in Runs, InterruptCheck(c, x)
      PROVE  RunMoves(r)
  <2>1. /\ runs[x].status = "active" /\ runs[x].transportTurnId # None /\ turns' = turns
        /\ runs'[x].status = "interrupting"
        /\ runs'[x].transportTurnId = runs[x].transportTurnId
        /\ \A y \in Runs \ {x} : runs'[y] = runs[y]
    BY <1>6, <1>a DEF InterruptCheck, RunRecord, appServer
  <2> QED BY <2>1 DEF RunMoves, RunKept, Cause, Terminated, TerminalStatuses, OccupyingStatuses
<1>7. ASSUME NEW c \in Callers, NEW s \in Sessions, NEW q \in Requests, NEW x \in Runs,
             HandoffActive(c, s, q, x)
      PROVE  RunMoves(r)
  <2>1. /\ Occupies(x) /\ runs[x].transportTurnId # None /\ turns' = turns
        /\ "handoff" \in Operations
        /\ runs'[x].status = "interrupting"
        /\ runs'[x].transportTurnId = runs[x].transportTurnId
        /\ \A y \in Runs \ {x} : runs'[y] = runs[y]
    BY <1>7, <1>a DEF HandoffActive, MayHandoff, OccupyingRuns, RunRecord, appServer
  <2> QED BY <2>1 DEF RunMoves, RunKept, Cause, Occupies, Terminated, TerminalStatuses,
     OccupyingStatuses
<1>8. ASSUME NEW c \in Callers, InterruptFailed(c)
      PROVE  RunMoves(r)
  <2>1. calls[c].run \in Runs /\ runs[calls[c].run].transportTurnId # None /\ turns' = turns
    BY <1>8, <1>a DEF InterruptFailed, ControlPhases, ControlsRecorded, appServer
  <2>2. /\ runs'[calls[c].run].transportTurnId = runs[calls[c].run].transportTurnId
        /\ runs'[calls[c].run].status =
             IF runs[calls[c].run].status = "interrupting" THEN "active"
             ELSE runs[calls[c].run].status
        /\ \A y \in Runs \ {calls[c].run} : runs'[y] = runs[y]
    BY <1>8, <1>a, <2>1 DEF InterruptFailed, RunRecord
  <2> QED BY <2>1, <2>2 DEF RunMoves, RunKept, Cause, Terminated, TerminalStatuses,
     OccupyingStatuses
<1>9. ASSUME NEW c \in Callers, HandoffUnknown(c)
      PROVE  RunMoves(r)
  <2>1. calls[c].run \in Runs /\ runs[calls[c].run].transportTurnId # None /\ turns' = turns
    BY <1>9, <1>a DEF HandoffUnknown, ControlPhases, ControlsRecorded, appServer
  <2>2. StatusBecomes(calls[c].run, "unknown")
    BY <1>9, <1>a, <2>1 DEF HandoffUnknown, StatusBecomes, Terminated, RunRecord
  <2> QED BY <2>1, <2>2, StatusMoves DEF Cause
<1>10. ASSUME NEW c \in Callers, HandoffFailed(c)
      PROVE  RunMoves(r)
  <2>1. calls[c].run \in Runs /\ runs[calls[c].run].transportTurnId # None /\ turns' = turns
    BY <1>10, <1>a DEF HandoffFailed, ControlPhases, ControlsRecorded, appServer
  <2>2. \/ runs' = runs
        \/ /\ runs'[calls[c].run].transportTurnId = runs[calls[c].run].transportTurnId
           /\ runs'[calls[c].run].status =
                IF runs[calls[c].run].status = "interrupting" THEN "active"
                ELSE runs[calls[c].run].status
           /\ \A y \in Runs \ {calls[c].run} : runs'[y] = runs[y]
    BY <1>10, <1>a, <2>1 DEF HandoffFailed, RunRecord, board
  <2> QED BY <2>1, <2>2 DEF RunMoves, RunKept, Cause, Terminated, TerminalStatuses,
     OccupyingStatuses
<1>11. ASSUME NEW x \in Runs, ReconcileClose(x)
      PROVE  RunMoves(r)
  <2>1. CASE reconcile[x].fact = "none"
    BY <1>11, <2>1 DEF ReconcileClose, board, RunMoves, RunKept
  <2>2. CASE reconcile[x].fact # "none"
    <3>1. /\ runs[x].transportTurnId # None
          /\ turns[runs[x].transportTurnId].status = reconcile[x].fact
      BY <1>a, <2>2 DEF ReportIsFact
    <3>2. StatusBecomes(x, reconcile[x].fact) /\ turns' = turns
      BY <1>11, <1>a, <2>2, TerminalBecomes DEF ReconcileClose, appServer
    <3>3. reconcile[x].fact \in TerminalStatuses
      BY <1>a, <2>2 DEF TypeOK, WorkerRecord
    <3> QED BY <3>1, <3>2, <3>3, StatusMoves DEF Cause, Source
  <2> QED BY <2>1, <2>2
<1>12. CASE ReadCallback
  <2>1. reader.pc = "callback" /\ reader.run \in Runs
    BY <1>12 DEF ReadCallback, WellFormed, ReferencesConsistent, Created
  <2>2. StatusBecomes(reader.run, CallbackStatus(reader.message.turn)) /\ turns' = turns
    BY <1>12, <1>a, <2>1, ResultBecomes DEF ReadCallback, appServer
  <2>3. Cause(reader.run)
    BY <2>1 DEF Cause, Reported
  <2>4. \/ CallbackStatus(reader.message.turn) = "unknown"
        \/ /\ CallbackStatus(reader.message.turn) \in TerminalStatuses
           /\ Source(reader.run, CallbackStatus(reader.message.turn))
    BY <2>1, StatusReported DEF Source
  <2> QED BY <2>1, <2>2, <2>3, <2>4, StatusMoves
<1>13. CASE ReadMatch
  <2>1. CASE runs' = runs
    BY <2>1 DEF RunMoves, RunKept
  <2>2. ASSUME NEW x \in Runs, runs[x].transportTurnId = reader.message.turn,
               WorkerResult(x, CallbackStatus(reader.message.turn))
        PROVE  RunMoves(r)
    <3>1. StatusBecomes(x, CallbackStatus(reader.message.turn)) /\ turns' = turns
      BY <1>13, <1>a, <2>2, ResultBecomes DEF ReadMatch, appServer
    <3>2. reader.message.turn # None
      BY <1>13, ConstantsAssumption DEF ReadMatch, WellFormed, ReferencesConsistent
    <3>3. Cause(x)
      BY <2>2, <3>2 DEF Cause
    <3>4. \/ CallbackStatus(reader.message.turn) = "unknown"
          \/ /\ CallbackStatus(reader.message.turn) \in TerminalStatuses
             /\ Source(x, CallbackStatus(reader.message.turn))
      BY <2>2, <3>2, StatusReported DEF Source
    <3> QED BY <3>1, <3>3, <3>4, StatusMoves
  <2> QED BY <1>13, <2>1, <2>2 DEF ReadMatch, board
<1>14. ASSUME NEW x \in Runs, DisconnectCallback(x)
      PROVE  RunMoves(r)
  <2>1. StatusBecomes(x, "unknown") /\ turns' = turns
    BY <1>14, <1>a, UnknownBecomes DEF DisconnectCallback, appServer
  <2>2. Cause(x)
    BY <1>14 DEF DisconnectCallback, Cause, Reported
  <2> QED BY <2>1, <2>2, StatusMoves
<1>15. ASSUME NEW x \in Runs, ProbeCallback(x)
      PROVE  RunMoves(r)
  <2>1. StatusBecomes(x, probed[x]) /\ turns' = turns
    BY <1>15, <1>a, ResultBecomes DEF ProbeCallback, appServer
  <2>2. Cause(x)
    BY <1>15 DEF ProbeCallback, Cause, Reported
  <2>3. \/ probed[x] = "unknown"
        \/ probed[x] \in TerminalStatuses /\ Source(x, probed[x])
    BY <1>15, <1>a DEF ProbeCallback, Source, TypeOK
  <2> QED BY <2>1, <2>2, <2>3, StatusMoves
<1>16. ASSUME NEW c \in Callers, NEW s \in Sessions, NEW q \in Requests,
             StartCheck(c, s, q)
      PROVE  RunMoves(r)
  <2>1. UNCHANGED <<runs>>
    BY <1>16
    DEF StartCheck, board
  <2> QED BY <2>1 DEF RunMoves, RunKept
<1>17. ASSUME NEW c \in Callers,
             StartRead(c) \/ StartDenied(c) \/ StartRemember(c) \/ StartRejected(c) \/
             StartUnanswered(c) \/ StartRegister(c) \/ StartTakeOrphan(c) \/
             InterruptAccepted(c) \/ InterruptGet(c) \/ InterruptRejected(c) \/
             InterruptUnanswered(c) \/ PutCommit(c)
      PROVE  RunMoves(r)
  <2>1. UNCHANGED <<runs>>
    BY <1>17
    DEF StartRead, StartDenied, StartRemember, StartRejected, StartUnanswered, StartRegister,
        StartTakeOrphan, InterruptAccepted, InterruptGet, InterruptRejected,
        InterruptUnanswered, PutCommit, board
  <2> QED BY <2>1 DEF RunMoves, RunKept
<1>18. ASSUME NEW c \in Callers, NEW u \in Turns,
             StartAccepted(c, u)
      PROVE  RunMoves(r)
  <2>1. UNCHANGED <<runs>>
    BY <1>18
    DEF StartAccepted, board
  <2> QED BY <2>1 DEF RunMoves, RunKept
<1>19. ASSUME NEW c \in Callers, NEW s \in Sessions, NEW th \in Threads,
             PutRead(c, s, th)
      PROVE  RunMoves(r)
  <2>1. UNCHANGED <<runs>>
    BY <1>19
    DEF PutRead, board
  <2> QED BY <2>1 DEF RunMoves, RunKept
<1>20. ASSUME NEW s \in Sessions, NEW q \in Requests,
             HandoffIdle(s, q) \/ Reclaim(s, q)
      PROVE  RunMoves(r)
  <2>1. UNCHANGED <<runs>>
    BY <1>20
    DEF HandoffIdle, Reclaim, board
  <2> QED BY <2>1 DEF RunMoves, RunKept
<1>21. ASSUME NEW s \in Sessions, NEW th \in Threads, NEW enabled \in BOOLEAN,
              NEW mode \in {"managed", "external"}, NEW edited \in BOOLEAN,
             PutFull(s, th, enabled, mode, edited)
      PROVE  RunMoves(r)
  <2>1. UNCHANGED <<runs>>
    BY <1>21
    DEF PutFull, board
  <2> QED BY <2>1 DEF RunMoves, RunKept
<1>22. ASSUME NEW x \in Runs,
             GetRun(x) \/ ReconcileRead(x) \/ ReconcileList(x) \/ ReconcileProject(x)
      PROVE  RunMoves(r)
  <2>1. UNCHANGED <<runs>>
    BY <1>22
    DEF GetRun, ReconcileRead, ReconcileList, ReconcileProject, board
  <2> QED BY <2>1 DEF RunMoves, RunKept
<1>23. CASE 
             ReadCompleted \/ ReadOrphan \/ ReadRelease \/ ReadStarted \/ ReadProject \/
             Disconnect \/ DisconnectStatus \/ Reconnect \/ Restart
  <2>1. UNCHANGED <<runs>>
    BY <1>23
    DEF ReadCompleted, ReadOrphan, ReadRelease, ReadStarted, ReadProject, Disconnect,
        DisconnectStatus, Reconnect, Restart, board
  <2> QED BY <2>1 DEF RunMoves, RunKept
<1>24. ASSUME NEW u \in Turns,
             Probe(u)
      PROVE  RunMoves(r)
  <2>1. UNCHANGED <<runs>>
    BY <1>24
    DEF Probe, board
  <2> QED BY <2>1 DEF RunMoves, RunKept
<1>25. ASSUME NEW u \in Turns, NEW th \in Threads,
             ExternalTurnStarts(u, th)
      PROVE  RunMoves(r)
  <2>1. UNCHANGED <<runs>>
    BY <1>25
    DEF ExternalTurnStarts, board
  <2> QED BY <2>1 DEF RunMoves, RunKept
<1>26. ASSUME NEW u \in Turns, NEW outcome \in TurnOutcomes,
             TurnEnds(u, outcome)
      PROVE  RunMoves(r)
  <2>1. UNCHANGED <<runs>>
    BY <1>26
    DEF TurnEnds, board
  <2> QED BY <2>1 DEF RunMoves, RunKept
<1>27. CASE UNCHANGED vars
  <2>1. UNCHANGED <<runs>>
    BY <1>27 DEF vars, board, gateway, transport, appServer
  <2> QED BY <2>1 DEF RunMoves, RunKept
<1> QED
  BY <1>1, <1>2, <1>3, <1>4, <1>5, <1>6, <1>7, <1>8, <1>9, <1>10, <1>11, <1>12, <1>13, <1>14,
     <1>15, <1>16, <1>17, <1>18, <1>19, <1>20, <1>21, <1>22, <1>23, <1>24, <1>25, <1>26, <1>27
  DEF Next, StartStep, ControlStep, SessionStep, ReconcileStep, ReaderStep, TransportStep,
      AppServerStep

\* A turn stays, is begun by somebody else or by a start_run, or ends.
TurnMoves(t) ==
  \/ turns'[t] = turns[t]
  \/ turns[t].status = "absent" /\ turns'[t].run = None
  \/ /\ turns[t].status = "absent"
     /\ \E c \in Callers :
          /\ calls[c].pc = "start.rpc" /\ calls'[c].pc = "start.reply"
          /\ turns'[t].run = calls[c].run
     /\ \A u \in Turns \ {t} : turns'[u] = turns[u]
  \/ turns[t].status = "running" /\ turns'[t].run = turns[t].run

\* Every step moves a turn in one of these ways.
LEMMA TurnsMove ==
  ASSUME WellFormed, NEW t \in Turns, [Next]_vars
  PROVE  TurnMoves(t)
<1>a. turns \in [Turns -> TurnRecord] /\ calls \in [Callers -> CallRecord]
  BY DEF WellFormed, TypeOK
<1>1. ASSUME NEW c \in Callers, NEW u \in Turns, StartAccepted(c, u)
      PROVE  TurnMoves(t)
  <2>1. /\ calls[c].pc = "start.rpc" /\ calls'[c].pc = "start.reply"
        /\ turns[u].status = "absent" /\ turns'[u].run = calls[c].run
        /\ \A y \in Turns \ {u} : turns'[y] = turns[y]
    BY <1>1, <1>a DEF StartAccepted, BeginTurn, CallRecord
  <2> QED BY <2>1 DEF TurnMoves
<1>2. ASSUME NEW u \in Turns, NEW th \in Threads, ExternalTurnStarts(u, th)
      PROVE  TurnMoves(t)
  BY <1>2, <1>a DEF ExternalTurnStarts, BeginTurn, TurnMoves
<1>3. ASSUME NEW u \in Turns, NEW outcome \in TurnOutcomes, TurnEnds(u, outcome)
      PROVE  TurnMoves(t)
  <2>1. /\ turns[u].status = "running" /\ turns'[u].run = turns[u].run
        /\ \A y \in Turns \ {u} : turns'[y] = turns[y]
    <3>1. turns[u] \in TurnRecord /\ turns[u].status = "running"
      BY <1>3, <1>a DEF TurnEnds
    <3>2. turns[u] \in [status: {"running", "other"} \cup TerminalStatuses, thread: Threads,
                       run: Runs \cup {None}]
      BY <3>1 DEF TurnRecord, NoTurn
    <3> QED BY <1>3, <1>a, <3>1, <3>2 DEF TurnEnds
  <2> QED BY <2>1 DEF TurnMoves
<1>4. ASSUME NEW c \in Callers, NEW s \in Sessions, NEW q \in Requests,
             StartCheck(c, s, q)
      PROVE  TurnMoves(t)
  <2>1. UNCHANGED <<turns>>
    BY <1>4
    DEF StartCheck, appServer
  <2> QED BY <2>1 DEF TurnMoves
<1>5. ASSUME NEW c \in Callers,
             StartRead(c) \/ StartDenied(c) \/ StartRemember(c) \/ StartRejected(c) \/
             StartUnanswered(c) \/ StartRegister(c) \/ StartTakeOrphan(c) \/
             StartOrphan(c) \/ StartFinish(c) \/ StartRefused(c) \/ StartUnknown(c) \/
             InterruptAccepted(c) \/ InterruptGet(c) \/ InterruptRejected(c) \/
             InterruptUnanswered(c) \/ InterruptFailed(c) \/ HandoffUnknown(c) \/
             HandoffFailed(c) \/ PutCommit(c)
      PROVE  TurnMoves(t)
  <2>1. UNCHANGED <<turns>>
    BY <1>5
    DEF StartRead, StartDenied, StartRemember, StartRejected, StartUnanswered, StartRegister,
        StartTakeOrphan, StartOrphan, StartFinish, StartRefused, StartUnknown,
        InterruptAccepted, InterruptGet, InterruptRejected, InterruptUnanswered,
        InterruptFailed, HandoffUnknown, HandoffFailed, PutCommit, appServer
  <2> QED BY <2>1 DEF TurnMoves
<1>6. ASSUME NEW c \in Callers, NEW x \in Runs,
             StartCreate(c, x) \/ InterruptCheck(c, x)
      PROVE  TurnMoves(t)
  <2>1. UNCHANGED <<turns>>
    BY <1>6
    DEF StartCreate, InterruptCheck, appServer
  <2> QED BY <2>1 DEF TurnMoves
<1>7. ASSUME NEW c \in Callers, NEW s \in Sessions, NEW q \in Requests, NEW x \in Runs,
             HandoffActive(c, s, q, x)
      PROVE  TurnMoves(t)
  <2>1. UNCHANGED <<turns>>
    BY <1>7
    DEF HandoffActive, appServer
  <2> QED BY <2>1 DEF TurnMoves
<1>8. ASSUME NEW c \in Callers, NEW s \in Sessions, NEW th \in Threads,
             PutRead(c, s, th)
      PROVE  TurnMoves(t)
  <2>1. UNCHANGED <<turns>>
    BY <1>8
    DEF PutRead, appServer
  <2> QED BY <2>1 DEF TurnMoves
<1>9. ASSUME NEW s \in Sessions, NEW q \in Requests,
             HandoffIdle(s, q) \/ Reclaim(s, q)
      PROVE  TurnMoves(t)
  <2>1. UNCHANGED <<turns>>
    BY <1>9
    DEF HandoffIdle, Reclaim, appServer
  <2> QED BY <2>1 DEF TurnMoves
<1>10. ASSUME NEW s \in Sessions, NEW th \in Threads, NEW enabled \in BOOLEAN,
              NEW mode \in {"managed", "external"}, NEW edited \in BOOLEAN,
             PutFull(s, th, enabled, mode, edited)
      PROVE  TurnMoves(t)
  <2>1. UNCHANGED <<turns>>
    BY <1>10
    DEF PutFull, appServer
  <2> QED BY <2>1 DEF TurnMoves
<1>11. ASSUME NEW x \in Runs,
             GetRun(x) \/ ReconcileRead(x) \/ ReconcileList(x) \/ ReconcileProject(x) \/
             ReconcileClose(x) \/ DisconnectCallback(x) \/ ProbeCallback(x)
      PROVE  TurnMoves(t)
  <2>1. UNCHANGED <<turns>>
    BY <1>11
    DEF GetRun, ReconcileRead, ReconcileList, ReconcileProject, ReconcileClose,
        DisconnectCallback, ProbeCallback, appServer
  <2> QED BY <2>1 DEF TurnMoves
<1>12. CASE 
             ReadCompleted \/ ReadCallback \/ ReadOrphan \/ ReadMatch \/ ReadRelease \/
             ReadStarted \/ ReadProject \/ Disconnect \/ DisconnectStatus \/ Reconnect \/
             Restart
  <2>1. UNCHANGED <<turns>>
    BY <1>12
    DEF ReadCompleted, ReadCallback, ReadOrphan, ReadMatch, ReadRelease, ReadStarted,
        ReadProject, Disconnect, DisconnectStatus, Reconnect, Restart, appServer
  <2> QED BY <2>1 DEF TurnMoves
<1>13. ASSUME NEW u \in Turns,
             Probe(u)
      PROVE  TurnMoves(t)
  <2>1. UNCHANGED <<turns>>
    BY <1>13
    DEF Probe, appServer
  <2> QED BY <2>1 DEF TurnMoves
<1>14. CASE UNCHANGED vars
  <2>1. UNCHANGED <<turns>>
    BY <1>14 DEF vars, board, gateway, transport, appServer
  <2> QED BY <2>1 DEF TurnMoves
<1> QED
  BY <1>1, <1>2, <1>3, <1>4, <1>5, <1>6, <1>7, <1>8, <1>9, <1>10, <1>11, <1>12, <1>13, <1>14
  DEF Next, StartStep, ControlStep, SessionStep, ReconcileStep, ReaderStep, TransportStep,
      AppServerStep

-----------------------------------------------------------------------------
(* What becomes of one call                                                *)

\* The next phases of a start_run once its Run is on the board.
Onward(before, after) ==
  \/ before = "start.remember" /\ after = "start.rpc"
  \/ before \in {"start.rpc", "start.reply"} /\ after = "start.unknown"
  \/ before = "start.rpc" /\ after = "start.refused"
  \/ before = "start.reply" /\ after = "start.refused" /\ "disconnect" \in Faults
  \/ before = "start.reply" /\ after \in {"start.take", "start.finish"}
  \/ before = "start.take" /\ after \in {"start.orphan", "start.finish"}
  \/ before = "start.orphan" /\ after = "start.finish"

\* It is over, or has no Run yet; a start_run that gives up leaves no live Run.
Leaves(c) ==
  /\ calls'[c].pc \notin StartedPhases \cup ControlPhases
  /\ calls[c].pc \in StartedPhases \ {"start.finish"} => calls[c].run \notin live'

\* It creates a Run.
Creates(c) ==
  \E r \in Runs :
    /\ runs[r] = Absent
    /\ runs'[r].status = "starting" /\ runs'[r].transportTurnId = None
    /\ calls[c].pc = "start.create"
    /\ calls'[c].pc = "start.remember" /\ calls'[c].run = r
    /\ \A d \in Callers \ {c} : calls'[d] = calls[d]

\* Its turn starts.
Accepted(c) ==
  /\ calls[c].pc = "start.rpc" /\ calls'[c].pc = "start.reply"
  /\ calls'[c].run = calls[c].run
  /\ turns'[calls'[c].turn].run = calls[c].run

\* It goes on with its Run and its turn; the callback is registered for them.
GoesOn(c) ==
  /\ Onward(calls[c].pc, calls'[c].pc)
  /\ calls'[c].run = calls[c].run /\ calls'[c].turn = calls[c].turn
  /\ calls[c].pc = "start.reply" /\ calls'[c].pc \in {"start.take", "start.finish"} =>
       watched'[calls[c].turn] = calls[c].run
  /\ calls[c].pc = "start.orphan" => calls[c].run \notin live'

\* It interrupts a Run, for a client or for a handoff.
Controls(c) ==
  /\ calls'[c].pc \in ControlPhases
  /\ \/ calls[c].pc \in ControlPhases /\ calls'[c].run = calls[c].run
     \/ /\ calls[c].pc \notin StartedPhases /\ calls'[c].run \in Runs
        /\ runs[calls'[c].run].transportTurnId # None

CallMoves(c) ==
  \/ calls'[c] = calls[c] \/ Leaves(c) \/ Creates(c) \/ Accepted(c) \/ GoesOn(c)
  \/ Controls(c)

\* Every step moves a call in one of these ways.
LEMMA CallsMove ==
  ASSUME WellFormed, NEW e \in Callers, [Next]_vars
  PROVE  CallMoves(e)
<1>a. /\ TypeOK /\ calls \in [Callers -> CallRecord] /\ runs \in [Runs -> RunRecord]
      /\ turns \in [Turns -> TurnRecord] /\ watched \in [Turns -> Runs \cup {None}]
      /\ \A c \in Callers : LocalsSet(calls[c])
      /\ \A c \in Callers :
           calls[c].pc \in StartedPhases \cup ControlPhases => calls[c].run \in Runs
  BY DEF WellFormed, TypeOK, CallsConsistent, Created
<1>1. ASSUME NEW c \in Callers, NEW s \in Sessions, NEW q \in Requests, StartCheck(c, s, q)
      PROVE  CallMoves(e)
  BY <1>1, <1>a DEF StartCheck, IdleCall, CallMoves, Leaves, StartedPhases, ControlPhases
<1>2. ASSUME NEW c \in Callers, StartRead(c)
      PROVE  CallMoves(e)
  <2>1. \A d \in Callers \ {c} : calls'[d] = calls[d]
    BY <1>2, <1>a, GotoMoves, ReturnMoves DEF StartRead
  <2>2. calls[c].pc = "start.read" /\ calls'[c].pc \in {"start.create", "idle"}
    BY <1>2, <1>a, GotoMoves, ReturnMoves DEF StartRead
  <2> QED BY <2>1, <2>2 DEF CallMoves, Leaves, StartedPhases, ControlPhases
<1>3. ASSUME NEW c \in Callers, NEW x \in Runs, StartCreate(c, x)
      PROVE  CallMoves(e)
  <2>1. /\ \A d \in Callers \ {c} : calls'[d] = calls[d]
        /\ calls[c].pc = "start.create"
        /\ calls'[c].pc = "start.remember" /\ calls'[c].run = x
    BY <1>3, <1>a DEF StartCreate, CallRecord
  <2>3. runs'[x].status = "starting" /\ runs'[x].transportTurnId = None
    BY <1>3, <1>a DEF StartCreate
  <2>2. runs[x] = Absent
    BY <1>3 DEF StartCreate, WellFormed, BoardConsistent, Created
  <2> QED BY <2>1, <2>2, <2>3 DEF CallMoves, Creates
<1>4. ASSUME NEW c \in Callers, StartDenied(c)
      PROVE  CallMoves(e)
  <2>1. \A d \in Callers \ {c} : calls'[d] = calls[d]
    BY <1>4, <1>a, ReturnMoves DEF StartDenied
  <2>2. Leaves(c)
    BY <1>4, <1>a, ReturnMoves DEF StartDenied, Leaves, StartedPhases, ControlPhases
  <2> QED BY <2>1, <2>2 DEF CallMoves
<1>5. ASSUME NEW c \in Callers, StartRemember(c)
      PROVE  CallMoves(e)
  <2>1. \A d \in Callers \ {c} : calls'[d] = calls[d]
    BY <1>5, <1>a, GotoMoves DEF StartRemember
  <2>2. GoesOn(c)
    BY <1>5, <1>a, GotoMoves DEF StartRemember, GoesOn, Onward
  <2> QED BY <2>1, <2>2 DEF CallMoves
<1>6. ASSUME NEW c \in Callers, NEW u \in Turns, StartAccepted(c, u)
      PROVE  CallMoves(e)
  <2>1. /\ \A d \in Callers \ {c} : calls'[d] = calls[d]
        /\ calls[c].pc = "start.rpc" /\ calls'[c].pc = "start.reply"
        /\ calls'[c].run = calls[c].run /\ calls'[c].turn = u
    BY <1>6, <1>a DEF StartAccepted, CallRecord
  <2>2. turns'[u].run = calls[c].run
    BY <1>6, <1>a DEF StartAccepted, BeginTurn
  <2> QED BY <2>1, <2>2 DEF CallMoves, Accepted
<1>7. ASSUME NEW c \in Callers, StartRejected(c)
      PROVE  CallMoves(e)
  <2>1. \A d \in Callers \ {c} : calls'[d] = calls[d]
    BY <1>7, <1>a, GotoMoves DEF StartRejected
  <2>2. GoesOn(c)
    BY <1>7, <1>a, GotoMoves DEF StartRejected, GoesOn, Onward
  <2> QED BY <2>1, <2>2 DEF CallMoves
<1>8. ASSUME NEW c \in Callers, StartUnanswered(c)
      PROVE  CallMoves(e)
  <2>1. \A d \in Callers \ {c} : calls'[d] = calls[d]
    BY <1>8, <1>a, GotoMoves DEF StartUnanswered
  <2>2. GoesOn(c)
    BY <1>8, <1>a, GotoMoves DEF StartUnanswered, GoesOn, Onward
  <2> QED BY <2>1, <2>2 DEF CallMoves
<1>9. ASSUME NEW c \in Callers, StartRegister(c)
      PROVE  CallMoves(e)
  <2>1. /\ \A d \in Callers \ {c} : calls'[d] = calls[d]
        /\ calls[c].pc = "start.reply" /\ calls'[c].pc \in {"start.take", "start.finish"}
        /\ calls'[c].run = calls[c].run /\ calls'[c].turn = calls[c].turn
    BY <1>9, <1>a, GotoMoves DEF StartRegister
  <2>2. calls[c].turn \in Turns
    BY <2>1, <1>a DEF LocalsSet, TurnPhases
  <2>3. watched'[calls[c].turn] = calls[c].run
    BY <1>9, <1>a, <2>2 DEF StartRegister
  <2> QED BY <2>1, <2>3 DEF CallMoves, GoesOn, Onward
<1>10. ASSUME NEW c \in Callers, StartTakeOrphan(c)
      PROVE  CallMoves(e)
  <2>1. \A d \in Callers \ {c} : calls'[d] = calls[d]
    BY <1>10, <1>a, GotoMoves DEF StartTakeOrphan
  <2>2. GoesOn(c)
    BY <1>10, <1>a, GotoMoves DEF StartTakeOrphan, GoesOn, Onward
  <2> QED BY <2>1, <2>2 DEF CallMoves
<1>11. ASSUME NEW c \in Callers, StartOrphan(c)
      PROVE  CallMoves(e)
  <2>1. /\ \A d \in Callers \ {c} : calls'[d] = calls[d]
        /\ calls[c].pc = "start.orphan" /\ calls'[c].pc = "start.finish"
        /\ calls'[c].run = calls[c].run /\ calls'[c].turn = calls[c].turn
    BY <1>11, <1>a, GotoMoves DEF StartOrphan
  <2>2. calls[c].run \in Runs
    BY <2>1, <1>a DEF StartedPhases
  <2>3. calls[c].run \notin live'
    BY <1>11, <1>a, <2>2, ResultBecomes DEF StartOrphan
  <2> QED BY <2>1, <2>3 DEF CallMoves, GoesOn, Onward
<1>12. ASSUME NEW c \in Callers, StartFinish(c)
      PROVE  CallMoves(e)
  <2>1. \A d \in Callers \ {c} : calls'[d] = calls[d]
    BY <1>12, <1>a, ReturnMoves DEF StartFinish
  <2>2. Leaves(c)
    BY <1>12, <1>a, ReturnMoves DEF StartFinish, Leaves, StartedPhases, ControlPhases
  <2> QED BY <2>1, <2>2 DEF CallMoves
<1>13. ASSUME NEW c \in Callers, StartRefused(c)
      PROVE  CallMoves(e)
  <2>1. /\ \A d \in Callers \ {c} : calls'[d] = calls[d]
        /\ calls[c].pc = "start.refused" /\ calls'[c].pc = "idle"
    BY <1>13, <1>a, ReturnMoves DEF StartRefused
  <2>2. calls[c].run \in Runs
    BY <2>1, <1>a DEF StartedPhases
  <2>3. calls[c].run \notin live'
    BY <1>13, <1>a, <2>2, TerminalBecomes DEF StartRefused
  <2> QED BY <2>1, <2>3 DEF CallMoves, Leaves, StartedPhases, ControlPhases
<1>14. ASSUME NEW c \in Callers, StartUnknown(c)
      PROVE  CallMoves(e)
  <2>1. /\ \A d \in Callers \ {c} : calls'[d] = calls[d]
        /\ calls[c].pc = "start.unknown" /\ calls'[c].pc = "idle"
    BY <1>14, <1>a, ReturnMoves DEF StartUnknown
  <2>2. calls[c].run \in Runs
    BY <2>1, <1>a DEF StartedPhases
  <2>3. calls[c].run \notin live'
    BY <1>14, <1>a, <2>2, UnknownBecomes DEF StartUnknown
  <2> QED BY <2>1, <2>3 DEF CallMoves, Leaves, StartedPhases, ControlPhases
<1>15. ASSUME NEW c \in Callers, NEW x \in Runs, InterruptCheck(c, x)
      PROVE  CallMoves(e)
  <2>1. /\ \A d \in Callers \ {c} : calls'[d] = calls[d]
        /\ calls[c].pc = "idle" /\ runs[x].transportTurnId # None
        /\ calls'[c].pc = "interrupt.rpc" /\ calls'[c].run = x
    BY <1>15, <1>a DEF InterruptCheck, IdleCall
  <2> QED BY <2>1 DEF CallMoves, Controls, StartedPhases, ControlPhases
<1>16. ASSUME NEW c \in Callers, NEW s \in Sessions, NEW q \in Requests, NEW x \in Runs,
              HandoffActive(c, s, q, x)
      PROVE  CallMoves(e)
  <2>1. /\ \A d \in Callers \ {c} : calls'[d] = calls[d]
        /\ calls[c].pc = "idle" /\ runs[x].transportTurnId # None
        /\ calls'[c].pc = "handoff.rpc" /\ calls'[c].run = x
    BY <1>16, <1>a DEF HandoffActive, IdleCall
  <2> QED BY <2>1 DEF CallMoves, Controls, StartedPhases, ControlPhases
<1>17. ASSUME NEW c \in Callers, InterruptAccepted(c)
      PROVE  CallMoves(e)
  <2>1. /\ \A d \in Callers \ {c} : calls'[d] = calls[d]
        /\ calls[c].pc \in {"interrupt.rpc", "handoff.rpc"}
        /\ \/ calls'[c].pc = "idle"
           \/ calls'[c].pc = "interrupt.get" /\ calls'[c].run = calls[c].run
    BY <1>17, <1>a, GotoMoves, ReturnMoves DEF InterruptAccepted
  <2> QED BY <2>1 DEF CallMoves, Controls, Leaves, StartedPhases, ControlPhases
<1>18. ASSUME NEW c \in Callers, InterruptGet(c)
      PROVE  CallMoves(e)
  <2>1. \A d \in Callers \ {c} : calls'[d] = calls[d]
    BY <1>18, <1>a, ReturnMoves DEF InterruptGet
  <2>2. Leaves(c)
    BY <1>18, <1>a, ReturnMoves DEF InterruptGet, Leaves, StartedPhases, ControlPhases
  <2> QED BY <2>1, <2>2 DEF CallMoves
<1>19. ASSUME NEW c \in Callers, InterruptRejected(c)
      PROVE  CallMoves(e)
  <2>1. \A d \in Callers \ {c} : calls'[d] = calls[d]
    BY <1>19, <1>a, GotoMoves DEF InterruptRejected
  <2>2. Controls(c)
    BY <1>19, <1>a, GotoMoves DEF InterruptRejected, Controls, StartedPhases, ControlPhases
  <2> QED BY <2>1, <2>2 DEF CallMoves
<1>20. ASSUME NEW c \in Callers, InterruptUnanswered(c)
      PROVE  CallMoves(e)
  <2>1. \A d \in Callers \ {c} : calls'[d] = calls[d]
    BY <1>20, <1>a, GotoMoves DEF InterruptUnanswered
  <2>2. Controls(c)
    BY <1>20, <1>a, GotoMoves DEF InterruptUnanswered, Controls, StartedPhases, ControlPhases
  <2> QED BY <2>1, <2>2 DEF CallMoves
<1>21. ASSUME NEW c \in Callers, InterruptFailed(c)
      PROVE  CallMoves(e)
  <2>1. \A d \in Callers \ {c} : calls'[d] = calls[d]
    BY <1>21, <1>a, ReturnMoves DEF InterruptFailed
  <2>2. Leaves(c)
    BY <1>21, <1>a, ReturnMoves DEF InterruptFailed, Leaves, StartedPhases, ControlPhases
  <2> QED BY <2>1, <2>2 DEF CallMoves
<1>22. ASSUME NEW c \in Callers, HandoffUnknown(c)
      PROVE  CallMoves(e)
  <2>1. \A d \in Callers \ {c} : calls'[d] = calls[d]
    BY <1>22, <1>a, ReturnMoves DEF HandoffUnknown
  <2>2. Leaves(c)
    BY <1>22, <1>a, ReturnMoves DEF HandoffUnknown, Leaves, StartedPhases, ControlPhases
  <2> QED BY <2>1, <2>2 DEF CallMoves
<1>23. ASSUME NEW c \in Callers, HandoffFailed(c)
      PROVE  CallMoves(e)
  <2>1. \A d \in Callers \ {c} : calls'[d] = calls[d]
    BY <1>23, <1>a, ReturnMoves DEF HandoffFailed
  <2>2. Leaves(c)
    BY <1>23, <1>a, ReturnMoves DEF HandoffFailed, Leaves, StartedPhases, ControlPhases
  <2> QED BY <2>1, <2>2 DEF CallMoves
<1>24. ASSUME NEW c \in Callers, NEW s \in Sessions, NEW th \in Threads, PutRead(c, s, th)
      PROVE  CallMoves(e)
  BY <1>24, <1>a DEF PutRead, IdleCall, CallMoves, Leaves, StartedPhases, ControlPhases
<1>25. ASSUME NEW c \in Callers, PutCommit(c)
      PROVE  CallMoves(e)
  <2>1. \A d \in Callers \ {c} : calls'[d] = calls[d]
    BY <1>25, <1>a, ReturnMoves DEF PutCommit
  <2>2. Leaves(c)
    BY <1>25, <1>a, ReturnMoves DEF PutCommit, Leaves, StartedPhases, ControlPhases
  <2> QED BY <2>1, <2>2 DEF CallMoves
<1>26. CASE Disconnect
  <2>1. PICK pending \in SUBSET {c \in Callers : calls[c].pc \in DOMAIN Failure} :
          calls' = [c \in Callers |->
            IF c \in pending THEN [calls[c] EXCEPT !.pc = Failure[calls[c].pc]] ELSE calls[c]]
    BY <1>26, Zenon DEF Disconnect
  <2>2. CASE e \notin pending
    BY <2>1, <2>2 DEF CallMoves
  <2>3. CASE e \in pending
    <3>1. /\ calls'[e].pc = Failure[calls[e].pc]
          /\ calls'[e].run = calls[e].run /\ calls'[e].turn = calls[e].turn
      <4>1. calls'[e] = [calls[e] EXCEPT !.pc = Failure[calls[e].pc]]
        BY <2>1, <2>3
      <4>2. calls[e] \in CallRecord
        BY <1>a
      <4> QED BY <4>1, <4>2 DEF CallRecord
    <3>2. calls[e].pc \in {"start.rpc", "start.reply", "interrupt.rpc", "handoff.rpc"}
      BY <2>1, <2>3 DEF Failure
    <3>3. CASE calls[e].pc \in {"start.rpc", "start.reply"}
      <4>1. calls'[e].pc = "start.refused"
        BY <3>1, <3>3 DEF Failure
      <4>2. "disconnect" \in Faults
        BY <1>26 DEF Disconnect, Fault
      <4> QED BY <3>1, <3>3, <4>1, <4>2 DEF CallMoves, GoesOn, Onward
    <3>4. CASE calls[e].pc \in {"interrupt.rpc", "handoff.rpc"}
      <4>1. calls'[e].pc \in {"interrupt.failed", "handoff.failed"}
        BY <3>1, <3>4 DEF Failure
      <4> QED BY <3>1, <3>4, <4>1 DEF CallMoves, Controls, ControlPhases
    <3> QED BY <3>2, <3>3, <3>4
  <2> QED BY <2>2, <2>3
<1>27. CASE Restart
  BY <1>27 DEF Restart, IdleCall, CallMoves, Leaves, StartedPhases, ControlPhases
<1>28. ASSUME NEW s \in Sessions, NEW q \in Requests,
             HandoffIdle(s, q) \/ Reclaim(s, q)
      PROVE  CallMoves(e)
  <2>1. UNCHANGED <<calls>>
    BY <1>28
    DEF HandoffIdle, Reclaim, gateway
  <2> QED BY <2>1 DEF CallMoves
<1>29. ASSUME NEW s \in Sessions, NEW th \in Threads, NEW enabled \in BOOLEAN,
              NEW mode \in {"managed", "external"}, NEW edited \in BOOLEAN,
             PutFull(s, th, enabled, mode, edited)
      PROVE  CallMoves(e)
  <2>1. UNCHANGED <<calls>>
    BY <1>29
    DEF PutFull, gateway
  <2> QED BY <2>1 DEF CallMoves
<1>30. ASSUME NEW x \in Runs,
             GetRun(x) \/ ReconcileRead(x) \/ ReconcileList(x) \/ ReconcileProject(x) \/
             ReconcileClose(x) \/ DisconnectCallback(x) \/ ProbeCallback(x)
      PROVE  CallMoves(e)
  <2>1. UNCHANGED <<calls>>
    BY <1>30
    DEF GetRun, ReconcileRead, ReconcileList, ReconcileProject, ReconcileClose,
        DisconnectCallback, ProbeCallback, gateway
  <2> QED BY <2>1 DEF CallMoves
<1>31. CASE 
             ReadCompleted \/ ReadCallback \/ ReadOrphan \/ ReadMatch \/ ReadRelease \/
             ReadStarted \/ ReadProject \/ DisconnectStatus \/ Reconnect
  <2>1. UNCHANGED <<calls>>
    BY <1>31
    DEF ReadCompleted, ReadCallback, ReadOrphan, ReadMatch, ReadRelease, ReadStarted,
        ReadProject, DisconnectStatus, Reconnect, gateway
  <2> QED BY <2>1 DEF CallMoves
<1>32. ASSUME NEW u \in Turns,
             Probe(u)
      PROVE  CallMoves(e)
  <2>1. UNCHANGED <<calls>>
    BY <1>32
    DEF Probe, gateway
  <2> QED BY <2>1 DEF CallMoves
<1>33. ASSUME NEW u \in Turns, NEW th \in Threads,
             ExternalTurnStarts(u, th)
      PROVE  CallMoves(e)
  <2>1. UNCHANGED <<calls>>
    BY <1>33
    DEF ExternalTurnStarts, gateway
  <2> QED BY <2>1 DEF CallMoves
<1>34. ASSUME NEW u \in Turns, NEW outcome \in TurnOutcomes,
             TurnEnds(u, outcome)
      PROVE  CallMoves(e)
  <2>1. UNCHANGED <<calls>>
    BY <1>34
    DEF TurnEnds, gateway
  <2> QED BY <2>1 DEF CallMoves
<1>35. CASE UNCHANGED vars
  <2>1. UNCHANGED <<calls>>
    BY <1>35 DEF vars, board, gateway, transport, appServer
  <2> QED BY <2>1 DEF CallMoves
<1> QED
  BY <1>1, <1>2, <1>3, <1>4, <1>5, <1>6, <1>7, <1>8, <1>9, <1>10, <1>11, <1>12, <1>13, <1>14,
     <1>15, <1>16, <1>17, <1>18, <1>19, <1>20, <1>21, <1>22, <1>23, <1>24, <1>25, <1>26,
     <1>27, <1>28, <1>29, <1>30, <1>31, <1>32, <1>33, <1>34, <1>35
  DEF Next, StartStep, ControlStep, SessionStep, ReconcileStep, ReaderStep, TransportStep,
      AppServerStep

-----------------------------------------------------------------------------
(* How reports appear and are delivered                                    *)

\* A callback is registered by the start_run that knows the turn, or goes.
WatchMoves(t) ==
  \/ watched'[t] \in {None, watched[t]}
  \/ /\ \E c \in Callers :
          /\ calls[c].pc = "start.reply" /\ calls[c].turn = t
          /\ watched'[t] = calls[c].run
     /\ turns' = turns

\* Every step leaves a callback, takes it, or registers it so.
LEMMA WatchesMove ==
  ASSUME WellFormed, NEW t \in Turns, [Next]_vars
  PROVE  WatchMoves(t)
<1>a. /\ TypeOK /\ calls \in [Callers -> CallRecord]
      /\ watched \in [Turns -> Runs \cup {None}]
      /\ probed \in [Runs -> TerminalStatuses \cup {"none", "unknown"}]
      /\ reconcile \in [Runs -> WorkerRecord]
      /\ disconnect \in [runs: SUBSET Runs, status: BOOLEAN]
      /\ reader \in ReaderRecord
      /\ None \notin Runs
  BY ConstantsAssumption DEF WellFormed, TypeOK
<1>1. ASSUME NEW c \in Callers, StartRegister(c)
      PROVE  WatchMoves(t)
  BY <1>1, <1>a DEF StartRegister, WatchMoves, appServer
<1>2. ASSUME NEW c \in Callers, StartTakeOrphan(c)
      PROVE  WatchMoves(t)
  BY <1>2, <1>a DEF StartTakeOrphan, WatchMoves
<1>3. CASE ReadCompleted
  BY <1>3, <1>a DEF ReadCompleted, WatchMoves
<1>4. CASE Disconnect
  BY <1>4, <1>a DEF Disconnect, WatchMoves
<1>5. ASSUME NEW u \in Turns, Probe(u)
      PROVE  WatchMoves(t)
  BY <1>5, <1>a DEF Probe, WatchMoves
<1>6. CASE Restart
  BY <1>6, <1>a DEF Restart, WatchMoves
<1>7. ASSUME NEW c \in Callers, NEW s \in Sessions, NEW q \in Requests,
             StartCheck(c, s, q)
      PROVE  WatchMoves(t)
  <2>1. UNCHANGED <<watched>>
    BY <1>7
    DEF StartCheck, transport
  <2> QED BY <2>1 DEF WatchMoves
<1>8. ASSUME NEW c \in Callers,
             StartRead(c) \/ StartDenied(c) \/ StartRemember(c) \/ StartRejected(c) \/
             StartUnanswered(c) \/ StartOrphan(c) \/ StartFinish(c) \/ StartRefused(c) \/
             StartUnknown(c) \/ InterruptAccepted(c) \/ InterruptGet(c) \/
             InterruptRejected(c) \/ InterruptUnanswered(c) \/ InterruptFailed(c) \/
             HandoffUnknown(c) \/ HandoffFailed(c) \/ PutCommit(c)
      PROVE  WatchMoves(t)
  <2>1. UNCHANGED <<watched>>
    BY <1>8
    DEF StartRead, StartDenied, StartRemember, StartRejected, StartUnanswered, StartOrphan,
        StartFinish, StartRefused, StartUnknown, InterruptAccepted, InterruptGet,
        InterruptRejected, InterruptUnanswered, InterruptFailed, HandoffUnknown,
        HandoffFailed, PutCommit, transport
  <2> QED BY <2>1 DEF WatchMoves
<1>9. ASSUME NEW c \in Callers, NEW x \in Runs,
             StartCreate(c, x) \/ InterruptCheck(c, x)
      PROVE  WatchMoves(t)
  <2>1. UNCHANGED <<watched>>
    BY <1>9
    DEF StartCreate, InterruptCheck, transport
  <2> QED BY <2>1 DEF WatchMoves
<1>10. ASSUME NEW c \in Callers, NEW u \in Turns,
             StartAccepted(c, u)
      PROVE  WatchMoves(t)
  <2>1. UNCHANGED <<watched>>
    BY <1>10
    DEF StartAccepted, transport
  <2> QED BY <2>1 DEF WatchMoves
<1>11. ASSUME NEW c \in Callers, NEW s \in Sessions, NEW q \in Requests, NEW x \in Runs,
             HandoffActive(c, s, q, x)
      PROVE  WatchMoves(t)
  <2>1. UNCHANGED <<watched>>
    BY <1>11
    DEF HandoffActive, transport
  <2> QED BY <2>1 DEF WatchMoves
<1>12. ASSUME NEW c \in Callers, NEW s \in Sessions, NEW th \in Threads,
             PutRead(c, s, th)
      PROVE  WatchMoves(t)
  <2>1. UNCHANGED <<watched>>
    BY <1>12
    DEF PutRead, transport
  <2> QED BY <2>1 DEF WatchMoves
<1>13. ASSUME NEW s \in Sessions, NEW q \in Requests,
             HandoffIdle(s, q) \/ Reclaim(s, q)
      PROVE  WatchMoves(t)
  <2>1. UNCHANGED <<watched>>
    BY <1>13
    DEF HandoffIdle, Reclaim, transport
  <2> QED BY <2>1 DEF WatchMoves
<1>14. ASSUME NEW s \in Sessions, NEW th \in Threads, NEW enabled \in BOOLEAN,
              NEW mode \in {"managed", "external"}, NEW edited \in BOOLEAN,
             PutFull(s, th, enabled, mode, edited)
      PROVE  WatchMoves(t)
  <2>1. UNCHANGED <<watched>>
    BY <1>14
    DEF PutFull, transport
  <2> QED BY <2>1 DEF WatchMoves
<1>15. ASSUME NEW x \in Runs,
             GetRun(x) \/ ReconcileRead(x) \/ ReconcileList(x) \/ ReconcileProject(x) \/
             ReconcileClose(x) \/ DisconnectCallback(x) \/ ProbeCallback(x)
      PROVE  WatchMoves(t)
  <2>1. UNCHANGED <<watched>>
    BY <1>15
    DEF GetRun, ReconcileRead, ReconcileList, ReconcileProject, ReconcileClose,
        DisconnectCallback, ProbeCallback, transport
  <2> QED BY <2>1 DEF WatchMoves
<1>16. CASE 
             ReadCallback \/ ReadOrphan \/ ReadMatch \/ ReadRelease \/ ReadStarted \/
             ReadProject \/ DisconnectStatus \/ Reconnect
  <2>1. UNCHANGED <<watched>>
    BY <1>16
    DEF ReadCallback, ReadOrphan, ReadMatch, ReadRelease, ReadStarted, ReadProject,
        DisconnectStatus, Reconnect, transport
  <2> QED BY <2>1 DEF WatchMoves
<1>17. ASSUME NEW u \in Turns, NEW th \in Threads,
             ExternalTurnStarts(u, th)
      PROVE  WatchMoves(t)
  <2>1. UNCHANGED <<watched>>
    BY <1>17
    DEF ExternalTurnStarts, transport
  <2> QED BY <2>1 DEF WatchMoves
<1>18. ASSUME NEW u \in Turns, NEW outcome \in TurnOutcomes,
             TurnEnds(u, outcome)
      PROVE  WatchMoves(t)
  <2>1. UNCHANGED <<watched>>
    BY <1>18
    DEF TurnEnds, transport
  <2> QED BY <2>1 DEF WatchMoves
<1>19. CASE UNCHANGED vars
  <2>1. UNCHANGED <<watched>>
    BY <1>19 DEF vars, board, gateway, transport, appServer
  <2> QED BY <2>1 DEF WatchMoves
<1> QED
  BY <1>1, <1>2, <1>3, <1>4, <1>5, <1>6, <1>7, <1>8, <1>9, <1>10, <1>11, <1>12, <1>13, <1>14,
     <1>15, <1>16, <1>17, <1>18, <1>19
  DEF Next, StartStep, ControlStep, SessionStep, ReconcileStep, ReaderStep, TransportStep,
      AppServerStep

\* The next report on r appears with the answer to its start_run.
ReportMoves(r) ==
  Reported(r)' =>
    \/ Reported(r)
    \/ \E c \in Callers :
         /\ calls[c].pc = "start.reply" /\ calls[c].run = r
         /\ calls'[c].pc \in {"start.take", "start.finish"}

\* Nothing else makes a report appear.
LEMMA ReportsAppear ==
  ASSUME WellFormed, NEW r \in Runs, [Next]_vars
  PROVE  ReportMoves(r)
<1>a. /\ TypeOK /\ calls \in [Callers -> CallRecord]
      /\ watched \in [Turns -> Runs \cup {None}]
      /\ probed \in [Runs -> TerminalStatuses \cup {"none", "unknown"}]
      /\ reconcile \in [Runs -> WorkerRecord]
      /\ disconnect \in [runs: SUBSET Runs, status: BOOLEAN]
      /\ reader \in ReaderRecord
      /\ None \notin Runs
  BY ConstantsAssumption DEF WellFormed, TypeOK
<1>1. ASSUME NEW c \in Callers, StartRegister(c)
      PROVE  ReportMoves(r)
  <2>1. /\ calls[c].pc = "start.reply" /\ calls'[c].pc \in {"start.take", "start.finish"}
    BY <1>1, <1>a, GotoMoves DEF StartRegister
  <2>2. \A y \in Turns : watched'[y] \in {watched[y], calls[c].run}
    BY <1>1, <1>a DEF StartRegister
  <2>3. UNCHANGED <<disconnect, probed, reader>>
    BY <1>1 DEF StartRegister
  <2> QED BY <2>1, <2>2, <2>3 DEF ReportMoves, Reported
<1>2. ASSUME NEW c \in Callers, StartTakeOrphan(c)
      PROVE  ReportMoves(r)
  BY <1>2, <1>a DEF StartTakeOrphan, ReportMoves, Reported, transport, gateway
<1>3. CASE ReadCompleted
  <2>1. Head(events).turn \in Turns
    BY <1>3 DEF ReadCompleted, WellFormed, TypeOK, Message
  <2>2. /\ \A y \in Turns : watched'[y] \in {None, watched[y]}
        /\ reader'.run = watched[Head(events).turn]
        /\ UNCHANGED <<disconnect, probed>>
    BY <1>3, <1>a DEF ReadCompleted, ReadyReader
  <2> QED BY <2>1, <2>2, <1>a DEF ReportMoves, Reported
<1>4. CASE ReadCallback
  BY <1>4, <1>a DEF ReadCallback, ReportMoves, Reported, transport, gateway
<1>5. CASE ReadOrphan
  BY <1>5, <1>a DEF ReadOrphan, ReportMoves, Reported, transport, gateway, ReaderRecord
<1>6. CASE ReadMatch
  BY <1>6, <1>a DEF ReadMatch, ReportMoves, Reported, transport, gateway, ReaderRecord
<1>7. CASE ReadRelease
  BY <1>7, <1>a DEF ReadRelease, ReportMoves, Reported, transport, gateway, ReadyReader
<1>8. CASE ReadStarted
  BY <1>8, <1>a DEF ReadStarted, ReportMoves, Reported, transport, gateway, ReadyReader
<1>9. CASE ReadProject
  BY <1>9, <1>a DEF ReadProject, ReportMoves, Reported, transport, gateway, ReadyReader
<1>10. CASE Disconnect
  <2>1. /\ \A y \in Turns : watched'[y] = None
        /\ disconnect'.runs = disconnect.runs \cup {x \in Runs : \E y \in Turns : watched[y] = x}
        /\ UNCHANGED <<probed, reader>>
    BY <1>10, <1>a DEF Disconnect
  <2> QED BY <2>1, <1>a DEF ReportMoves, Reported
<1>11. ASSUME NEW x \in Runs, DisconnectCallback(x)
      PROVE  ReportMoves(r)
  BY <1>11, <1>a DEF DisconnectCallback, ReportMoves, Reported, transport, gateway
<1>12. ASSUME NEW x \in Runs, ProbeCallback(x)
      PROVE  ReportMoves(r)
  BY <1>12, <1>a DEF ProbeCallback, ReportMoves, Reported, transport, gateway
<1>13. CASE DisconnectStatus
  BY <1>13, <1>a DEF DisconnectStatus, ReportMoves, Reported, transport, gateway
<1>14. CASE Reconnect
  BY <1>14, <1>a DEF Reconnect, ReportMoves, Reported, transport, gateway, ReaderRecord
<1>15. ASSUME NEW u \in Turns, Probe(u)
      PROVE  ReportMoves(r)
  <2>1. /\ \A y \in Turns : watched'[y] \in {None, watched[y]}
        /\ \A x \in Runs : x = watched[u] \/ probed'[x] = probed[x]
        /\ UNCHANGED <<disconnect, reader>>
    BY <1>15, <1>a DEF Probe, gateway
  <2> QED BY <2>1, <1>a DEF ReportMoves, Reported
<1>16. CASE Restart
  BY <1>16, <1>a DEF Restart, ReportMoves, Reported, ReadyReader
<1>17. ASSUME NEW c \in Callers, NEW s \in Sessions, NEW q \in Requests,
             StartCheck(c, s, q)
      PROVE  ReportMoves(r)
  <2>1. UNCHANGED <<reader, watched, disconnect, probed>>
    BY <1>17
    DEF StartCheck, gateway, transport
  <2> QED BY <2>1 DEF ReportMoves, Reported
<1>18. ASSUME NEW c \in Callers,
             StartRead(c) \/ StartDenied(c) \/ StartRemember(c) \/ StartRejected(c) \/
             StartUnanswered(c) \/ StartOrphan(c) \/ StartFinish(c) \/ StartRefused(c) \/
             StartUnknown(c) \/ InterruptAccepted(c) \/ InterruptGet(c) \/
             InterruptRejected(c) \/ InterruptUnanswered(c) \/ InterruptFailed(c) \/
             HandoffUnknown(c) \/ HandoffFailed(c) \/ PutCommit(c)
      PROVE  ReportMoves(r)
  <2>1. UNCHANGED <<reader, watched, disconnect, probed>>
    BY <1>18
    DEF StartRead, StartDenied, StartRemember, StartRejected, StartUnanswered, StartOrphan,
        StartFinish, StartRefused, StartUnknown, InterruptAccepted, InterruptGet,
        InterruptRejected, InterruptUnanswered, InterruptFailed, HandoffUnknown,
        HandoffFailed, PutCommit, gateway, transport
  <2> QED BY <2>1 DEF ReportMoves, Reported
<1>19. ASSUME NEW c \in Callers, NEW x \in Runs,
             StartCreate(c, x) \/ InterruptCheck(c, x)
      PROVE  ReportMoves(r)
  <2>1. UNCHANGED <<reader, watched, disconnect, probed>>
    BY <1>19
    DEF StartCreate, InterruptCheck, gateway, transport
  <2> QED BY <2>1 DEF ReportMoves, Reported
<1>20. ASSUME NEW c \in Callers, NEW u \in Turns,
             StartAccepted(c, u)
      PROVE  ReportMoves(r)
  <2>1. UNCHANGED <<reader, watched, disconnect, probed>>
    BY <1>20
    DEF StartAccepted, gateway, transport
  <2> QED BY <2>1 DEF ReportMoves, Reported
<1>21. ASSUME NEW c \in Callers, NEW s \in Sessions, NEW q \in Requests, NEW x \in Runs,
             HandoffActive(c, s, q, x)
      PROVE  ReportMoves(r)
  <2>1. UNCHANGED <<reader, watched, disconnect, probed>>
    BY <1>21
    DEF HandoffActive, gateway, transport
  <2> QED BY <2>1 DEF ReportMoves, Reported
<1>22. ASSUME NEW c \in Callers, NEW s \in Sessions, NEW th \in Threads,
             PutRead(c, s, th)
      PROVE  ReportMoves(r)
  <2>1. UNCHANGED <<reader, watched, disconnect, probed>>
    BY <1>22
    DEF PutRead, gateway, transport
  <2> QED BY <2>1 DEF ReportMoves, Reported
<1>23. ASSUME NEW s \in Sessions, NEW q \in Requests,
             HandoffIdle(s, q) \/ Reclaim(s, q)
      PROVE  ReportMoves(r)
  <2>1. UNCHANGED <<reader, watched, disconnect, probed>>
    BY <1>23
    DEF HandoffIdle, Reclaim, gateway, transport
  <2> QED BY <2>1 DEF ReportMoves, Reported
<1>24. ASSUME NEW s \in Sessions, NEW th \in Threads, NEW enabled \in BOOLEAN,
              NEW mode \in {"managed", "external"}, NEW edited \in BOOLEAN,
             PutFull(s, th, enabled, mode, edited)
      PROVE  ReportMoves(r)
  <2>1. UNCHANGED <<reader, watched, disconnect, probed>>
    BY <1>24
    DEF PutFull, gateway, transport
  <2> QED BY <2>1 DEF ReportMoves, Reported
<1>25. ASSUME NEW x \in Runs,
             GetRun(x) \/ ReconcileRead(x) \/ ReconcileList(x) \/ ReconcileProject(x) \/
             ReconcileClose(x)
      PROVE  ReportMoves(r)
  <2>1. UNCHANGED <<reader, watched, disconnect, probed>>
    BY <1>25
    DEF GetRun, ReconcileRead, ReconcileList, ReconcileProject, ReconcileClose, gateway,
        transport
  <2> QED BY <2>1 DEF ReportMoves, Reported
<1>26. ASSUME NEW u \in Turns, NEW th \in Threads,
             ExternalTurnStarts(u, th)
      PROVE  ReportMoves(r)
  <2>1. UNCHANGED <<reader, watched, disconnect, probed>>
    BY <1>26
    DEF ExternalTurnStarts, gateway, transport
  <2> QED BY <2>1 DEF ReportMoves, Reported
<1>27. ASSUME NEW u \in Turns, NEW outcome \in TurnOutcomes,
             TurnEnds(u, outcome)
      PROVE  ReportMoves(r)
  <2>1. UNCHANGED <<reader, watched, disconnect, probed>>
    BY <1>27
    DEF TurnEnds, gateway, transport
  <2> QED BY <2>1 DEF ReportMoves, Reported
<1>28. CASE UNCHANGED vars
  <2>1. UNCHANGED <<reader, watched, disconnect, probed>>
    BY <1>28 DEF vars, board, gateway, transport, appServer
  <2> QED BY <2>1 DEF ReportMoves, Reported
<1> QED
  BY <1>1, <1>2, <1>3, <1>4, <1>5, <1>6, <1>7, <1>8, <1>9, <1>10, <1>11, <1>12, <1>13, <1>14,
     <1>15, <1>16, <1>17, <1>18, <1>19, <1>20, <1>21, <1>22, <1>23, <1>24, <1>25, <1>26,
     <1>27, <1>28
  DEF Next, StartStep, ControlStep, SessionStep, ReconcileStep, ReaderStep, TransportStep,
      AppServerStep

\* A Run becomes live before its turn is asked for.
LiveMoves(r) ==
  r \in live' =>
    \/ r \in live
    \/ \E c \in Callers :
         calls[c].pc = "start.remember" /\ calls'[c].pc = "start.rpc" /\ calls'[c].run = r

\* Nothing else makes a Run live.
LEMMA LivesMove ==
  ASSUME WellFormed, NEW r \in Runs, [Next]_vars
  PROVE  LiveMoves(r)
<1>a. /\ TypeOK /\ runs \in [Runs -> RunRecord] /\ calls \in [Callers -> CallRecord]
      /\ watched \in [Turns -> Runs \cup {None}]
      /\ probed \in [Runs -> TerminalStatuses \cup {"none", "unknown"}]
      /\ reconcile \in [Runs -> WorkerRecord]
      /\ disconnect \in [runs: SUBSET Runs, status: BOOLEAN]
      /\ reader \in ReaderRecord
      /\ None \notin Runs
  BY ConstantsAssumption DEF WellFormed, TypeOK
<1>b. /\ \A c \in Callers : calls[c].pc \in StartedPhases => calls[c].run \in Runs
      /\ reader.pc = "callback" => reader.run \in Runs
  BY DEF WellFormed, CallsConsistent, ReferencesConsistent, Created
<1>1. ASSUME NEW c \in Callers, StartRemember(c)
      PROVE  LiveMoves(r)
  BY <1>1, <1>a, GotoMoves DEF StartRemember, LiveMoves
<1>2. ASSUME NEW c \in Callers, StartOrphan(c)
      PROVE  LiveMoves(r)
  <2>1. live' \subseteq live
    BY <1>2, <1>a, <1>b, ResultBecomes DEF StartOrphan, StartedPhases
  <2> QED BY <2>1 DEF LiveMoves
<1>3. ASSUME NEW c \in Callers, StartRefused(c)
      PROVE  LiveMoves(r)
  <2>1. live' \subseteq live
    BY <1>3, <1>a, <1>b, TerminalBecomes DEF StartRefused, StartedPhases
  <2> QED BY <2>1 DEF LiveMoves
<1>4. ASSUME NEW c \in Callers, StartUnknown(c)
      PROVE  LiveMoves(r)
  <2>1. live' \subseteq live
    BY <1>4, <1>a, <1>b, UnknownBecomes DEF StartUnknown, StartedPhases
  <2> QED BY <2>1 DEF LiveMoves
<1>5. ASSUME NEW x \in Runs, ReconcileClose(x)
      PROVE  LiveMoves(r)
  <2>1. live' \subseteq live
    BY <1>5, <1>a, TerminalBecomes DEF ReconcileClose
  <2> QED BY <2>1 DEF LiveMoves
<1>6. CASE ReadCallback
  <2>1. live' \subseteq live
    BY <1>6, <1>a, <1>b, ResultBecomes DEF ReadCallback
  <2> QED BY <2>1 DEF LiveMoves
<1>7. CASE ReadMatch
  <2>1. live' \subseteq live
    BY <1>7, <1>a, ResultBecomes DEF ReadMatch
  <2> QED BY <2>1 DEF LiveMoves
<1>8. ASSUME NEW x \in Runs, DisconnectCallback(x)
      PROVE  LiveMoves(r)
  <2>1. live' \subseteq live
    BY <1>8, <1>a, UnknownBecomes DEF DisconnectCallback
  <2> QED BY <2>1 DEF LiveMoves
<1>9. ASSUME NEW x \in Runs, ProbeCallback(x)
      PROVE  LiveMoves(r)
  <2>1. live' \subseteq live
    BY <1>9, <1>a, ResultBecomes DEF ProbeCallback
  <2> QED BY <2>1 DEF LiveMoves
<1>10. CASE Restart
  BY <1>10 DEF Restart, LiveMoves
<1>11. ASSUME NEW c \in Callers, NEW s \in Sessions, NEW q \in Requests,
             StartCheck(c, s, q)
      PROVE  LiveMoves(r)
  <2>1. UNCHANGED <<live>>
    BY <1>11
    DEF StartCheck, gateway
  <2> QED BY <2>1 DEF LiveMoves
<1>12. ASSUME NEW c \in Callers,
             StartRead(c) \/ StartDenied(c) \/ StartRejected(c) \/ StartUnanswered(c) \/
             StartRegister(c) \/ StartTakeOrphan(c) \/ StartFinish(c) \/
             InterruptAccepted(c) \/ InterruptGet(c) \/ InterruptRejected(c) \/
             InterruptUnanswered(c) \/ InterruptFailed(c) \/ HandoffUnknown(c) \/
             HandoffFailed(c) \/ PutCommit(c)
      PROVE  LiveMoves(r)
  <2>1. UNCHANGED <<live>>
    BY <1>12
    DEF StartRead, StartDenied, StartRejected, StartUnanswered, StartRegister,
        StartTakeOrphan, StartFinish, InterruptAccepted, InterruptGet, InterruptRejected,
        InterruptUnanswered, InterruptFailed, HandoffUnknown, HandoffFailed, PutCommit,
        gateway
  <2> QED BY <2>1 DEF LiveMoves
<1>13. ASSUME NEW c \in Callers, NEW x \in Runs,
             StartCreate(c, x) \/ InterruptCheck(c, x)
      PROVE  LiveMoves(r)
  <2>1. UNCHANGED <<live>>
    BY <1>13
    DEF StartCreate, InterruptCheck, gateway
  <2> QED BY <2>1 DEF LiveMoves
<1>14. ASSUME NEW c \in Callers, NEW u \in Turns,
             StartAccepted(c, u)
      PROVE  LiveMoves(r)
  <2>1. UNCHANGED <<live>>
    BY <1>14
    DEF StartAccepted, gateway
  <2> QED BY <2>1 DEF LiveMoves
<1>15. ASSUME NEW c \in Callers, NEW s \in Sessions, NEW q \in Requests, NEW x \in Runs,
             HandoffActive(c, s, q, x)
      PROVE  LiveMoves(r)
  <2>1. UNCHANGED <<live>>
    BY <1>15
    DEF HandoffActive, gateway
  <2> QED BY <2>1 DEF LiveMoves
<1>16. ASSUME NEW c \in Callers, NEW s \in Sessions, NEW th \in Threads,
             PutRead(c, s, th)
      PROVE  LiveMoves(r)
  <2>1. UNCHANGED <<live>>
    BY <1>16
    DEF PutRead, gateway
  <2> QED BY <2>1 DEF LiveMoves
<1>17. ASSUME NEW s \in Sessions, NEW q \in Requests,
             HandoffIdle(s, q) \/ Reclaim(s, q)
      PROVE  LiveMoves(r)
  <2>1. UNCHANGED <<live>>
    BY <1>17
    DEF HandoffIdle, Reclaim, gateway
  <2> QED BY <2>1 DEF LiveMoves
<1>18. ASSUME NEW s \in Sessions, NEW th \in Threads, NEW enabled \in BOOLEAN,
              NEW mode \in {"managed", "external"}, NEW edited \in BOOLEAN,
             PutFull(s, th, enabled, mode, edited)
      PROVE  LiveMoves(r)
  <2>1. UNCHANGED <<live>>
    BY <1>18
    DEF PutFull, gateway
  <2> QED BY <2>1 DEF LiveMoves
<1>19. ASSUME NEW x \in Runs,
             GetRun(x) \/ ReconcileRead(x) \/ ReconcileList(x) \/ ReconcileProject(x)
      PROVE  LiveMoves(r)
  <2>1. UNCHANGED <<live>>
    BY <1>19
    DEF GetRun, ReconcileRead, ReconcileList, ReconcileProject, gateway
  <2> QED BY <2>1 DEF LiveMoves
<1>20. CASE 
             ReadCompleted \/ ReadOrphan \/ ReadRelease \/ ReadStarted \/ ReadProject \/
             Disconnect \/ DisconnectStatus \/ Reconnect
  <2>1. UNCHANGED <<live>>
    BY <1>20
    DEF ReadCompleted, ReadOrphan, ReadRelease, ReadStarted, ReadProject, Disconnect,
        DisconnectStatus, Reconnect, gateway
  <2> QED BY <2>1 DEF LiveMoves
<1>21. ASSUME NEW u \in Turns,
             Probe(u)
      PROVE  LiveMoves(r)
  <2>1. UNCHANGED <<live>>
    BY <1>21
    DEF Probe, gateway
  <2> QED BY <2>1 DEF LiveMoves
<1>22. ASSUME NEW u \in Turns, NEW th \in Threads,
             ExternalTurnStarts(u, th)
      PROVE  LiveMoves(r)
  <2>1. UNCHANGED <<live>>
    BY <1>22
    DEF ExternalTurnStarts, gateway
  <2> QED BY <2>1 DEF LiveMoves
<1>23. ASSUME NEW u \in Turns, NEW outcome \in TurnOutcomes,
             TurnEnds(u, outcome)
      PROVE  LiveMoves(r)
  <2>1. UNCHANGED <<live>>
    BY <1>23
    DEF TurnEnds, gateway
  <2> QED BY <2>1 DEF LiveMoves
<1>24. CASE UNCHANGED vars
  <2>1. UNCHANGED <<live>>
    BY <1>24 DEF vars, board, gateway, transport, appServer
  <2> QED BY <2>1 DEF LiveMoves
<1> QED
  BY <1>1, <1>2, <1>3, <1>4, <1>5, <1>6, <1>7, <1>8, <1>9, <1>10, <1>11, <1>12, <1>13, <1>14,
     <1>15, <1>16, <1>17, <1>18, <1>19, <1>20, <1>21, <1>22, <1>23, <1>24
  DEF Next, StartStep, ControlStep, SessionStep, ReconcileStep, ReaderStep, TransportStep,
      AppServerStep

\* A report that goes has been delivered, or a start_run holds it.
ReportGoes(r) ==
  Reported(r) /\ r \in live' =>
    \/ Reported(r)'
    \/ \E c \in Callers :
         calls[c].pc = "start.take" /\ calls'[c].pc = "start.orphan" /\ calls[c].run = r

\* Every report that goes is accounted for.
LEMMA ReportsGo ==
  ASSUME WellFormed, Provenance, NEW r \in Runs, [Next]_vars
  PROVE  ReportGoes(r)
<1>a. /\ TypeOK /\ runs \in [Runs -> RunRecord] /\ calls \in [Callers -> CallRecord]
      /\ watched \in [Turns -> Runs \cup {None}]
      /\ probed \in [Runs -> TerminalStatuses \cup {"none", "unknown"}]
      /\ reconcile \in [Runs -> WorkerRecord]
      /\ disconnect \in [runs: SUBSET Runs, status: BOOLEAN]
      /\ reader \in ReaderRecord
      /\ None \notin Runs
  BY ConstantsAssumption DEF WellFormed, TypeOK
<1>b. /\ \A c \in Callers : calls[c].pc \in StartedPhases => calls[c].run \in Runs
      /\ reader.pc = "callback" => reader.run \in Runs
  BY DEF WellFormed, CallsConsistent, ReferencesConsistent, Created
<1>c. \A c \in Callers :
        calls[c].pc \in HasTurn =>
          /\ calls[c].turn \in Turns
          /\ watched[calls[c].turn] # None => watched[calls[c].turn] = calls[c].run
  BY DEF WellFormed, CallsConsistent, LocalsSet, TurnPhases, Provenance, StarterAlone,
     TurnOfOneRun, HasTurn, StartedPhases
<1>1. ASSUME NEW c \in Callers, StartRegister(c)
      PROVE  ReportGoes(r)
  <2>1. /\ calls[c].pc = "start.reply"
        /\ watched' = [watched EXCEPT ![calls[c].turn] = calls[c].run]
        /\ UNCHANGED <<disconnect, probed, reader>>
    BY <1>1 DEF StartRegister
  <2>2. \A y \in Turns : watched[y] # None => watched'[y] = watched[y]
    BY <2>1, <1>a, <1>c DEF HasTurn
  <2> QED BY <2>1, <2>2, <1>a DEF ReportGoes, Reported
<1>2. ASSUME NEW c \in Callers, StartTakeOrphan(c)
      PROVE  ReportGoes(r)
  <2>1. /\ calls[c].pc = "start.take" /\ calls[c].turn \in Turns
        /\ watched' = [watched EXCEPT ![calls[c].turn] = None]
        /\ UNCHANGED <<disconnect, probed, reader>>
        /\ watched[calls[c].turn] # None =>
             calls'[c].pc = "start.orphan" /\ watched[calls[c].turn] = calls[c].run
    BY <1>2, <1>a, <1>c, GotoMoves DEF StartTakeOrphan, HasTurn
  <2> QED BY <2>1, <1>a DEF ReportGoes, Reported
<1>3. CASE ReadCompleted
  <2>1. Head(events).turn \in Turns /\ reader.pc = "ready"
    BY <1>3 DEF ReadCompleted, WellFormed, TypeOK, Message
  <2>2. /\ watched' = [watched EXCEPT ![Head(events).turn] = None]
        /\ reader'.run = watched[Head(events).turn]
        /\ watched[Head(events).turn] # None => reader'.pc = "callback"
        /\ UNCHANGED <<disconnect, probed>>
    BY <1>3, <1>a DEF ReadCompleted, ReadyReader
  <2> QED BY <2>1, <2>2, <1>a DEF ReportGoes, Reported
<1>4. CASE ReadCallback
  <2>1. /\ reader.pc = "callback" /\ live' = live \ {reader.run}
        /\ UNCHANGED <<watched, disconnect, probed>>
    BY <1>4, <1>a, <1>b, ResultBecomes DEF ReadCallback, transport
  <2> QED BY <2>1 DEF ReportGoes, Reported
<1>5. CASE ReadOrphan
  BY <1>5, <1>a DEF ReadOrphan, ReportGoes, Reported, ReaderRecord, transport, gateway
<1>6. CASE ReadMatch
  BY <1>6, <1>a DEF ReadMatch, ReportGoes, Reported, ReaderRecord, transport, gateway
<1>7. CASE ReadRelease
  BY <1>7, <1>a DEF ReadRelease, ReportGoes, Reported, ReaderRecord, transport, gateway
<1>8. CASE ReadStarted
  BY <1>8, <1>a DEF ReadStarted, ReportGoes, Reported, ReaderRecord, transport, gateway
<1>9. CASE ReadProject
  BY <1>9, <1>a DEF ReadProject, ReportGoes, Reported, ReaderRecord, transport, gateway
<1>10. CASE Disconnect
  <2>1. /\ disconnect'.runs = disconnect.runs \cup {x \in Runs : \E y \in Turns : watched[y] = x}
        /\ UNCHANGED <<probed, reader>>
    BY <1>10, <1>a DEF Disconnect
  <2> QED BY <2>1, <1>a DEF ReportGoes, Reported
<1>11. ASSUME NEW x \in Runs, DisconnectCallback(x)
      PROVE  ReportGoes(r)
  <2>1. /\ live' = live \ {x} /\ disconnect'.runs = disconnect.runs \ {x}
        /\ UNCHANGED <<watched, probed, reader>>
    BY <1>11, <1>a, UnknownBecomes DEF DisconnectCallback
  <2> QED BY <2>1 DEF ReportGoes, Reported
<1>12. ASSUME NEW x \in Runs, ProbeCallback(x)
      PROVE  ReportGoes(r)
  <2>1. /\ live' = live \ {x} /\ \A y \in Runs \ {x} : probed'[y] = probed[y]
        /\ UNCHANGED <<watched, disconnect, reader>>
    BY <1>12, <1>a, ResultBecomes DEF ProbeCallback
  <2> QED BY <2>1 DEF ReportGoes, Reported
<1>13. CASE DisconnectStatus
  BY <1>13, <1>a DEF DisconnectStatus, ReportGoes, Reported, ReaderRecord, transport, gateway
<1>14. CASE Reconnect
  BY <1>14, <1>a DEF Reconnect, ReportGoes, Reported, ReaderRecord, transport, gateway
<1>15. ASSUME NEW u \in Turns, Probe(u)
      PROVE  ReportGoes(r)
  <2>1. /\ watched' = [watched EXCEPT ![u] = None]
        /\ watched[u] # None
        /\ probed'[watched[u]] # "none"
        /\ \A x \in Runs : x = watched[u] \/ probed'[x] = probed[x]
        /\ UNCHANGED <<disconnect, reader>>
    BY <1>15, <1>a DEF Probe, gateway, CallbackStatus, TerminalStatuses
  <2> QED BY <2>1, <1>a DEF ReportGoes, Reported
<1>16. CASE Restart
  BY <1>16 DEF Restart, ReportGoes
<1>17. ASSUME NEW c \in Callers, NEW s \in Sessions, NEW q \in Requests,
             StartCheck(c, s, q)
      PROVE  ReportGoes(r)
  <2>1. UNCHANGED <<reader, watched, disconnect, probed>>
    BY <1>17
    DEF StartCheck, gateway, transport
  <2> QED BY <2>1 DEF ReportGoes, Reported
<1>18. ASSUME NEW c \in Callers,
             StartRead(c) \/ StartDenied(c) \/ StartRemember(c) \/ StartRejected(c) \/
             StartUnanswered(c) \/ StartOrphan(c) \/ StartFinish(c) \/ StartRefused(c) \/
             StartUnknown(c) \/ InterruptAccepted(c) \/ InterruptGet(c) \/
             InterruptRejected(c) \/ InterruptUnanswered(c) \/ InterruptFailed(c) \/
             HandoffUnknown(c) \/ HandoffFailed(c) \/ PutCommit(c)
      PROVE  ReportGoes(r)
  <2>1. UNCHANGED <<reader, watched, disconnect, probed>>
    BY <1>18
    DEF StartRead, StartDenied, StartRemember, StartRejected, StartUnanswered, StartOrphan,
        StartFinish, StartRefused, StartUnknown, InterruptAccepted, InterruptGet,
        InterruptRejected, InterruptUnanswered, InterruptFailed, HandoffUnknown,
        HandoffFailed, PutCommit, gateway, transport
  <2> QED BY <2>1 DEF ReportGoes, Reported
<1>19. ASSUME NEW c \in Callers, NEW x \in Runs,
             StartCreate(c, x) \/ InterruptCheck(c, x)
      PROVE  ReportGoes(r)
  <2>1. UNCHANGED <<reader, watched, disconnect, probed>>
    BY <1>19
    DEF StartCreate, InterruptCheck, gateway, transport
  <2> QED BY <2>1 DEF ReportGoes, Reported
<1>20. ASSUME NEW c \in Callers, NEW u \in Turns,
             StartAccepted(c, u)
      PROVE  ReportGoes(r)
  <2>1. UNCHANGED <<reader, watched, disconnect, probed>>
    BY <1>20
    DEF StartAccepted, gateway, transport
  <2> QED BY <2>1 DEF ReportGoes, Reported
<1>21. ASSUME NEW c \in Callers, NEW s \in Sessions, NEW q \in Requests, NEW x \in Runs,
             HandoffActive(c, s, q, x)
      PROVE  ReportGoes(r)
  <2>1. UNCHANGED <<reader, watched, disconnect, probed>>
    BY <1>21
    DEF HandoffActive, gateway, transport
  <2> QED BY <2>1 DEF ReportGoes, Reported
<1>22. ASSUME NEW c \in Callers, NEW s \in Sessions, NEW th \in Threads,
             PutRead(c, s, th)
      PROVE  ReportGoes(r)
  <2>1. UNCHANGED <<reader, watched, disconnect, probed>>
    BY <1>22
    DEF PutRead, gateway, transport
  <2> QED BY <2>1 DEF ReportGoes, Reported
<1>23. ASSUME NEW s \in Sessions, NEW q \in Requests,
             HandoffIdle(s, q) \/ Reclaim(s, q)
      PROVE  ReportGoes(r)
  <2>1. UNCHANGED <<reader, watched, disconnect, probed>>
    BY <1>23
    DEF HandoffIdle, Reclaim, gateway, transport
  <2> QED BY <2>1 DEF ReportGoes, Reported
<1>24. ASSUME NEW s \in Sessions, NEW th \in Threads, NEW enabled \in BOOLEAN,
              NEW mode \in {"managed", "external"}, NEW edited \in BOOLEAN,
             PutFull(s, th, enabled, mode, edited)
      PROVE  ReportGoes(r)
  <2>1. UNCHANGED <<reader, watched, disconnect, probed>>
    BY <1>24
    DEF PutFull, gateway, transport
  <2> QED BY <2>1 DEF ReportGoes, Reported
<1>25. ASSUME NEW x \in Runs,
             GetRun(x) \/ ReconcileRead(x) \/ ReconcileList(x) \/ ReconcileProject(x) \/
             ReconcileClose(x)
      PROVE  ReportGoes(r)
  <2>1. UNCHANGED <<reader, watched, disconnect, probed>>
    BY <1>25
    DEF GetRun, ReconcileRead, ReconcileList, ReconcileProject, ReconcileClose, gateway,
        transport
  <2> QED BY <2>1 DEF ReportGoes, Reported
<1>26. ASSUME NEW u \in Turns, NEW th \in Threads,
             ExternalTurnStarts(u, th)
      PROVE  ReportGoes(r)
  <2>1. UNCHANGED <<reader, watched, disconnect, probed>>
    BY <1>26
    DEF ExternalTurnStarts, gateway, transport
  <2> QED BY <2>1 DEF ReportGoes, Reported
<1>27. ASSUME NEW u \in Turns, NEW outcome \in TurnOutcomes,
             TurnEnds(u, outcome)
      PROVE  ReportGoes(r)
  <2>1. UNCHANGED <<reader, watched, disconnect, probed>>
    BY <1>27
    DEF TurnEnds, gateway, transport
  <2> QED BY <2>1 DEF ReportGoes, Reported
<1>28. CASE UNCHANGED vars
  <2>1. UNCHANGED <<reader, watched, disconnect, probed>>
    BY <1>28 DEF vars, board, gateway, transport, appServer
  <2> QED BY <2>1 DEF ReportGoes, Reported
<1> QED
  BY <1>1, <1>2, <1>3, <1>4, <1>5, <1>6, <1>7, <1>8, <1>9, <1>10, <1>11, <1>12, <1>13, <1>14,
     <1>15, <1>16, <1>17, <1>18, <1>19, <1>20, <1>21, <1>22, <1>23, <1>24, <1>25, <1>26,
     <1>27, <1>28
  DEF Next, StartStep, ControlStep, SessionStep, ReconcileStep, ReaderStep, TransportStep,
      AppServerStep

-----------------------------------------------------------------------------
(* What is reported                                                        *)

\* The reader thread reports to the callback it took.
ReaderMoves ==
  reader'.pc = "callback" =>
    \/ reader.pc = "callback" /\ reader'.run = reader.run /\ reader'.message = reader.message
    \/ /\ reader'.message.turn \in Turns /\ turns' = turns
       /\ watched[reader'.message.turn] = reader'.run

\* Every step of the reader thread is one of these.
LEMMA ReaderMovesOn ==
  ASSUME WellFormed, [Next]_vars
  PROVE  ReaderMoves
<1>a. /\ TypeOK /\ calls \in [Callers -> CallRecord]
      /\ watched \in [Turns -> Runs \cup {None}]
      /\ probed \in [Runs -> TerminalStatuses \cup {"none", "unknown"}]
      /\ reconcile \in [Runs -> WorkerRecord]
      /\ disconnect \in [runs: SUBSET Runs, status: BOOLEAN]
      /\ reader \in ReaderRecord
      /\ None \notin Runs
  BY ConstantsAssumption DEF WellFormed, TypeOK
<1>1. CASE ReadCompleted
  <2>1. Head(events).turn \in Turns
    BY <1>1 DEF ReadCompleted, WellFormed, TypeOK, Message
  <2> QED BY <1>1, <2>1 DEF ReadCompleted, ReadyReader, ReaderMoves
<1>2. CASE ReadCallback
  <2>1. reader'.pc # "callback"
    BY <1>2, <1>a DEF ReadCallback, ReaderRecord
  <2> QED BY <2>1 DEF ReaderMoves
<1>3. CASE ReadOrphan
  <2>1. reader'.pc # "callback"
    BY <1>3, <1>a DEF ReadOrphan, ReaderRecord
  <2> QED BY <2>1 DEF ReaderMoves
<1>4. CASE ReadMatch
  <2>1. reader'.pc # "callback"
    BY <1>4, <1>a DEF ReadMatch, ReaderRecord
  <2> QED BY <2>1 DEF ReaderMoves
<1>5. CASE ReadRelease
  BY <1>5 DEF ReadRelease, ReaderMoves, ReadyReader
<1>6. CASE ReadStarted
  BY <1>6 DEF ReadStarted, ReaderMoves, ReadyReader
<1>7. CASE ReadProject
  BY <1>7 DEF ReadProject, ReaderMoves, ReadyReader
<1>8. CASE Reconnect
  BY <1>8, <1>a DEF Reconnect, ReaderMoves, ReaderRecord
<1>9. CASE Restart
  BY <1>9 DEF Restart, ReaderMoves, ReadyReader
<1>10. ASSUME NEW c \in Callers, NEW s \in Sessions, NEW q \in Requests,
             StartCheck(c, s, q)
      PROVE  ReaderMoves
  <2>1. UNCHANGED <<reader>>
    BY <1>10
    DEF StartCheck, gateway
  <2> QED BY <2>1 DEF ReaderMoves
<1>11. ASSUME NEW c \in Callers,
             StartRead(c) \/ StartDenied(c) \/ StartRemember(c) \/ StartRejected(c) \/
             StartUnanswered(c) \/ StartRegister(c) \/ StartTakeOrphan(c) \/
             StartOrphan(c) \/ StartFinish(c) \/ StartRefused(c) \/ StartUnknown(c) \/
             InterruptAccepted(c) \/ InterruptGet(c) \/ InterruptRejected(c) \/
             InterruptUnanswered(c) \/ InterruptFailed(c) \/ HandoffUnknown(c) \/
             HandoffFailed(c) \/ PutCommit(c)
      PROVE  ReaderMoves
  <2>1. UNCHANGED <<reader>>
    BY <1>11
    DEF StartRead, StartDenied, StartRemember, StartRejected, StartUnanswered, StartRegister,
        StartTakeOrphan, StartOrphan, StartFinish, StartRefused, StartUnknown,
        InterruptAccepted, InterruptGet, InterruptRejected, InterruptUnanswered,
        InterruptFailed, HandoffUnknown, HandoffFailed, PutCommit, gateway
  <2> QED BY <2>1 DEF ReaderMoves
<1>12. ASSUME NEW c \in Callers, NEW x \in Runs,
             StartCreate(c, x) \/ InterruptCheck(c, x)
      PROVE  ReaderMoves
  <2>1. UNCHANGED <<reader>>
    BY <1>12
    DEF StartCreate, InterruptCheck, gateway
  <2> QED BY <2>1 DEF ReaderMoves
<1>13. ASSUME NEW c \in Callers, NEW u \in Turns,
             StartAccepted(c, u)
      PROVE  ReaderMoves
  <2>1. UNCHANGED <<reader>>
    BY <1>13
    DEF StartAccepted, gateway
  <2> QED BY <2>1 DEF ReaderMoves
<1>14. ASSUME NEW c \in Callers, NEW s \in Sessions, NEW q \in Requests, NEW x \in Runs,
             HandoffActive(c, s, q, x)
      PROVE  ReaderMoves
  <2>1. UNCHANGED <<reader>>
    BY <1>14
    DEF HandoffActive, gateway
  <2> QED BY <2>1 DEF ReaderMoves
<1>15. ASSUME NEW c \in Callers, NEW s \in Sessions, NEW th \in Threads,
             PutRead(c, s, th)
      PROVE  ReaderMoves
  <2>1. UNCHANGED <<reader>>
    BY <1>15
    DEF PutRead, gateway
  <2> QED BY <2>1 DEF ReaderMoves
<1>16. ASSUME NEW s \in Sessions, NEW q \in Requests,
             HandoffIdle(s, q) \/ Reclaim(s, q)
      PROVE  ReaderMoves
  <2>1. UNCHANGED <<reader>>
    BY <1>16
    DEF HandoffIdle, Reclaim, gateway
  <2> QED BY <2>1 DEF ReaderMoves
<1>17. ASSUME NEW s \in Sessions, NEW th \in Threads, NEW enabled \in BOOLEAN,
              NEW mode \in {"managed", "external"}, NEW edited \in BOOLEAN,
             PutFull(s, th, enabled, mode, edited)
      PROVE  ReaderMoves
  <2>1. UNCHANGED <<reader>>
    BY <1>17
    DEF PutFull, gateway
  <2> QED BY <2>1 DEF ReaderMoves
<1>18. ASSUME NEW x \in Runs,
             GetRun(x) \/ ReconcileRead(x) \/ ReconcileList(x) \/ ReconcileProject(x) \/
             ReconcileClose(x) \/ DisconnectCallback(x) \/ ProbeCallback(x)
      PROVE  ReaderMoves
  <2>1. UNCHANGED <<reader>>
    BY <1>18
    DEF GetRun, ReconcileRead, ReconcileList, ReconcileProject, ReconcileClose,
        DisconnectCallback, ProbeCallback, gateway
  <2> QED BY <2>1 DEF ReaderMoves
<1>19. CASE Disconnect \/ DisconnectStatus
  <2>1. UNCHANGED <<reader>>
    BY <1>19
    DEF Disconnect, DisconnectStatus, gateway
  <2> QED BY <2>1 DEF ReaderMoves
<1>20. ASSUME NEW u \in Turns,
             Probe(u)
      PROVE  ReaderMoves
  <2>1. UNCHANGED <<reader>>
    BY <1>20
    DEF Probe, gateway
  <2> QED BY <2>1 DEF ReaderMoves
<1>21. ASSUME NEW u \in Turns, NEW th \in Threads,
             ExternalTurnStarts(u, th)
      PROVE  ReaderMoves
  <2>1. UNCHANGED <<reader>>
    BY <1>21
    DEF ExternalTurnStarts, gateway
  <2> QED BY <2>1 DEF ReaderMoves
<1>22. ASSUME NEW u \in Turns, NEW outcome \in TurnOutcomes,
             TurnEnds(u, outcome)
      PROVE  ReaderMoves
  <2>1. UNCHANGED <<reader>>
    BY <1>22
    DEF TurnEnds, gateway
  <2> QED BY <2>1 DEF ReaderMoves
<1>23. CASE UNCHANGED vars
  <2>1. UNCHANGED <<reader>>
    BY <1>23 DEF vars, board, gateway, transport, appServer
  <2> QED BY <2>1 DEF ReaderMoves
<1> QED
  BY <1>1, <1>2, <1>3, <1>4, <1>5, <1>6, <1>7, <1>8, <1>9, <1>10, <1>11, <1>12, <1>13, <1>14,
     <1>15, <1>16, <1>17, <1>18, <1>19, <1>20, <1>21, <1>22, <1>23
  DEF Next, StartStep, ControlStep, SessionStep, ReconcileStep, ReaderStep, TransportStep,
      AppServerStep

\* A probe reports unknown, or how the turn of the callback it took has ended.
ProbeMoves(r) ==
  \/ probed'[r] \in {"none", "unknown", probed[r]}
  \/ \E t \in Turns : watched[t] = r /\ turns' = turns /\ probed'[r] = turns[t].status

\* Every step of a probe is one of these.
LEMMA ProbesMove ==
  ASSUME WellFormed, NEW r \in Runs, [Next]_vars
  PROVE  ProbeMoves(r)
<1>a. /\ TypeOK /\ calls \in [Callers -> CallRecord]
      /\ watched \in [Turns -> Runs \cup {None}]
      /\ probed \in [Runs -> TerminalStatuses \cup {"none", "unknown"}]
      /\ reconcile \in [Runs -> WorkerRecord]
      /\ disconnect \in [runs: SUBSET Runs, status: BOOLEAN]
      /\ reader \in ReaderRecord
      /\ None \notin Runs
  BY ConstantsAssumption DEF WellFormed, TypeOK
<1>1. ASSUME NEW x \in Runs, ProbeCallback(x)
      PROVE  ProbeMoves(r)
  BY <1>1, <1>a DEF ProbeCallback, ProbeMoves
<1>2. ASSUME NEW u \in Turns, Probe(u)
      PROVE  ProbeMoves(r)
  <2>1. /\ probed' = [probed EXCEPT ![watched[u]] = "unknown"]
           \/ probed' = [probed EXCEPT ![watched[u]] = CallbackStatus(u)]
        /\ turns' = turns
    BY <1>2 DEF Probe, appServer
  <2> QED BY <2>1, <1>a, StatusReported DEF ProbeMoves
<1>3. CASE Restart
  BY <1>3 DEF Restart, ProbeMoves
<1>4. ASSUME NEW c \in Callers, NEW s \in Sessions, NEW q \in Requests,
             StartCheck(c, s, q)
      PROVE  ProbeMoves(r)
  <2>1. UNCHANGED <<probed>>
    BY <1>4
    DEF StartCheck, transport
  <2> QED BY <2>1 DEF ProbeMoves
<1>5. ASSUME NEW c \in Callers,
             StartRead(c) \/ StartDenied(c) \/ StartRemember(c) \/ StartRejected(c) \/
             StartUnanswered(c) \/ StartRegister(c) \/ StartTakeOrphan(c) \/
             StartOrphan(c) \/ StartFinish(c) \/ StartRefused(c) \/ StartUnknown(c) \/
             InterruptAccepted(c) \/ InterruptGet(c) \/ InterruptRejected(c) \/
             InterruptUnanswered(c) \/ InterruptFailed(c) \/ HandoffUnknown(c) \/
             HandoffFailed(c) \/ PutCommit(c)
      PROVE  ProbeMoves(r)
  <2>1. UNCHANGED <<probed>>
    BY <1>5
    DEF StartRead, StartDenied, StartRemember, StartRejected, StartUnanswered, StartRegister,
        StartTakeOrphan, StartOrphan, StartFinish, StartRefused, StartUnknown,
        InterruptAccepted, InterruptGet, InterruptRejected, InterruptUnanswered,
        InterruptFailed, HandoffUnknown, HandoffFailed, PutCommit, transport
  <2> QED BY <2>1 DEF ProbeMoves
<1>6. ASSUME NEW c \in Callers, NEW x \in Runs,
             StartCreate(c, x) \/ InterruptCheck(c, x)
      PROVE  ProbeMoves(r)
  <2>1. UNCHANGED <<probed>>
    BY <1>6
    DEF StartCreate, InterruptCheck, transport
  <2> QED BY <2>1 DEF ProbeMoves
<1>7. ASSUME NEW c \in Callers, NEW u \in Turns,
             StartAccepted(c, u)
      PROVE  ProbeMoves(r)
  <2>1. UNCHANGED <<probed>>
    BY <1>7
    DEF StartAccepted, transport
  <2> QED BY <2>1 DEF ProbeMoves
<1>8. ASSUME NEW c \in Callers, NEW s \in Sessions, NEW q \in Requests, NEW x \in Runs,
             HandoffActive(c, s, q, x)
      PROVE  ProbeMoves(r)
  <2>1. UNCHANGED <<probed>>
    BY <1>8
    DEF HandoffActive, transport
  <2> QED BY <2>1 DEF ProbeMoves
<1>9. ASSUME NEW c \in Callers, NEW s \in Sessions, NEW th \in Threads,
             PutRead(c, s, th)
      PROVE  ProbeMoves(r)
  <2>1. UNCHANGED <<probed>>
    BY <1>9
    DEF PutRead, transport
  <2> QED BY <2>1 DEF ProbeMoves
<1>10. ASSUME NEW s \in Sessions, NEW q \in Requests,
             HandoffIdle(s, q) \/ Reclaim(s, q)
      PROVE  ProbeMoves(r)
  <2>1. UNCHANGED <<probed>>
    BY <1>10
    DEF HandoffIdle, Reclaim, transport
  <2> QED BY <2>1 DEF ProbeMoves
<1>11. ASSUME NEW s \in Sessions, NEW th \in Threads, NEW enabled \in BOOLEAN,
              NEW mode \in {"managed", "external"}, NEW edited \in BOOLEAN,
             PutFull(s, th, enabled, mode, edited)
      PROVE  ProbeMoves(r)
  <2>1. UNCHANGED <<probed>>
    BY <1>11
    DEF PutFull, transport
  <2> QED BY <2>1 DEF ProbeMoves
<1>12. ASSUME NEW x \in Runs,
             GetRun(x) \/ ReconcileRead(x) \/ ReconcileList(x) \/ ReconcileProject(x) \/
             ReconcileClose(x) \/ DisconnectCallback(x)
      PROVE  ProbeMoves(r)
  <2>1. UNCHANGED <<probed>>
    BY <1>12
    DEF GetRun, ReconcileRead, ReconcileList, ReconcileProject, ReconcileClose,
        DisconnectCallback, transport
  <2> QED BY <2>1 DEF ProbeMoves
<1>13. CASE 
             ReadCompleted \/ ReadCallback \/ ReadOrphan \/ ReadMatch \/ ReadRelease \/
             ReadStarted \/ ReadProject \/ Disconnect \/ DisconnectStatus \/ Reconnect
  <2>1. UNCHANGED <<probed>>
    BY <1>13
    DEF ReadCompleted, ReadCallback, ReadOrphan, ReadMatch, ReadRelease, ReadStarted,
        ReadProject, Disconnect, DisconnectStatus, Reconnect, transport
  <2> QED BY <2>1 DEF ProbeMoves
<1>14. ASSUME NEW u \in Turns, NEW th \in Threads,
             ExternalTurnStarts(u, th)
      PROVE  ProbeMoves(r)
  <2>1. UNCHANGED <<probed>>
    BY <1>14
    DEF ExternalTurnStarts, transport
  <2> QED BY <2>1 DEF ProbeMoves
<1>15. ASSUME NEW u \in Turns, NEW outcome \in TurnOutcomes,
             TurnEnds(u, outcome)
      PROVE  ProbeMoves(r)
  <2>1. UNCHANGED <<probed>>
    BY <1>15
    DEF TurnEnds, transport
  <2> QED BY <2>1 DEF ProbeMoves
<1>16. CASE UNCHANGED vars
  <2>1. UNCHANGED <<probed>>
    BY <1>16 DEF vars, board, gateway, transport, appServer
  <2> QED BY <2>1 DEF ProbeMoves
<1> QED
  BY <1>1, <1>2, <1>3, <1>4, <1>5, <1>6, <1>7, <1>8, <1>9, <1>10, <1>11, <1>12, <1>13, <1>14,
     <1>15, <1>16
  DEF Next, StartStep, ControlStep, SessionStep, ReconcileStep, ReaderStep, TransportStep,
      AppServerStep

\* A reconcile worker looks for a recorded turn only, and keeps how it has ended.
WorkerMoves(r) ==
  /\ reconcile'[r].pc = "list" =>
       reconcile[r].pc = "list" \/ runs[r].transportTurnId # None
  /\ \/ reconcile'[r].fact \in {"none", reconcile[r].fact}
     \/ /\ reconcile[r].pc = "list" /\ turns' = turns
        /\ reconcile'[r].fact = turns[runs[r].transportTurnId].status

\* Every step of a reconcile worker is one of these.
LEMMA WorkersMove ==
  ASSUME WellFormed, NEW r \in Runs, [Next]_vars
  PROVE  WorkerMoves(r)
<1>a. /\ TypeOK /\ calls \in [Callers -> CallRecord]
      /\ watched \in [Turns -> Runs \cup {None}]
      /\ probed \in [Runs -> TerminalStatuses \cup {"none", "unknown"}]
      /\ reconcile \in [Runs -> WorkerRecord]
      /\ disconnect \in [runs: SUBSET Runs, status: BOOLEAN]
      /\ reader \in ReaderRecord
      /\ None \notin Runs
  BY ConstantsAssumption DEF WellFormed, TypeOK
<1>1. ASSUME NEW c \in Callers, InterruptGet(c)
      PROVE  WorkerMoves(r)
  <2>1. reconcile'[r] = reconcile[r] \/ reconcile'[r] = [reconcile[r] EXCEPT !.pc = "read"]
    BY <1>1, <1>a DEF InterruptGet, ScheduleReconcile
  <2> QED BY <2>1, <1>a DEF WorkerMoves, WorkerRecord
<1>2. ASSUME NEW x \in Runs, GetRun(x)
      PROVE  WorkerMoves(r)
  <2>1. reconcile'[r] = reconcile[r] \/ reconcile'[r] = [reconcile[r] EXCEPT !.pc = "read"]
    BY <1>2, <1>a DEF GetRun, ScheduleReconcile
  <2> QED BY <2>1, <1>a DEF WorkerMoves, WorkerRecord
<1>3. ASSUME NEW x \in Runs, ReconcileRead(x)
      PROVE  WorkerMoves(r)
  BY <1>3, <1>a DEF ReconcileRead, WorkerMoves, NoWorker
<1>4. ASSUME NEW x \in Runs, ReconcileList(x)
      PROVE  WorkerMoves(r)
  <2>1. CASE r # x
    BY <1>4, <2>1, <1>a DEF ReconcileList, WorkerMoves
  <2>2. CASE r = x
    <3>1. /\ reconcile[r].pc = "list" /\ turns' = turns
          /\ reconcile'[r].pc # "list"
          /\ reconcile'[r].fact \in {"none", TerminalFact(runs[r].transportTurnId)}
      <4>1. reconcile[r].pc = "list" /\ turns' = turns
        BY <1>4, <2>2 DEF ReconcileList, appServer
      <4>2. CASE reconcile' = [reconcile EXCEPT ![r] = NoWorker]
        BY <4>1, <4>2, <1>a DEF NoWorker
      <4>3. ASSUME NEW active,
                   reconcile' = [reconcile EXCEPT ![r] =
                     [reconcile[r] EXCEPT !.pc = IF active \in {None, runs[r].transportTurnId}
                                      THEN "close" ELSE "project",
                               !.active = active,
                               !.fact = TerminalFact(runs[r].transportTurnId)]]
            PROVE  /\ reconcile'[r].pc # "list"
                   /\ reconcile'[r].fact = TerminalFact(runs[r].transportTurnId)
        BY <4>3, <1>a DEF WorkerRecord
      <4> QED BY <1>4, <2>2, <4>1, <4>2, <4>3 DEF ReconcileList
    <3> QED BY <3>1 DEF WorkerMoves, TerminalFact
  <2> QED BY <2>1, <2>2
<1>5. ASSUME NEW x \in Runs, ReconcileProject(x)
      PROVE  WorkerMoves(r)
  BY <1>5, <1>a DEF ReconcileProject, WorkerMoves, WorkerRecord
<1>6. ASSUME NEW x \in Runs, ReconcileClose(x)
      PROVE  WorkerMoves(r)
  BY <1>6, <1>a DEF ReconcileClose, WorkerMoves, NoWorker
<1>7. CASE Restart
  <2>1. reconcile'[r] \in {NoWorker, [NoWorker EXCEPT !.pc = "read"]}
    BY <1>7 DEF Restart
  <2> QED BY <2>1 DEF WorkerMoves, NoWorker
<1>8. ASSUME NEW c \in Callers, NEW s \in Sessions, NEW q \in Requests,
             StartCheck(c, s, q)
      PROVE  WorkerMoves(r)
  <2>1. UNCHANGED <<reconcile>>
    BY <1>8
    DEF StartCheck, gateway
  <2> QED BY <2>1 DEF WorkerMoves
<1>9. ASSUME NEW c \in Callers,
             StartRead(c) \/ StartDenied(c) \/ StartRemember(c) \/ StartRejected(c) \/
             StartUnanswered(c) \/ StartRegister(c) \/ StartTakeOrphan(c) \/
             StartOrphan(c) \/ StartFinish(c) \/ StartRefused(c) \/ StartUnknown(c) \/
             InterruptAccepted(c) \/ InterruptRejected(c) \/ InterruptUnanswered(c) \/
             InterruptFailed(c) \/ HandoffUnknown(c) \/ HandoffFailed(c) \/ PutCommit(c)
      PROVE  WorkerMoves(r)
  <2>1. UNCHANGED <<reconcile>>
    BY <1>9
    DEF StartRead, StartDenied, StartRemember, StartRejected, StartUnanswered, StartRegister,
        StartTakeOrphan, StartOrphan, StartFinish, StartRefused, StartUnknown,
        InterruptAccepted, InterruptRejected, InterruptUnanswered, InterruptFailed,
        HandoffUnknown, HandoffFailed, PutCommit, gateway
  <2> QED BY <2>1 DEF WorkerMoves
<1>10. ASSUME NEW c \in Callers, NEW x \in Runs,
             StartCreate(c, x) \/ InterruptCheck(c, x)
      PROVE  WorkerMoves(r)
  <2>1. UNCHANGED <<reconcile>>
    BY <1>10
    DEF StartCreate, InterruptCheck, gateway
  <2> QED BY <2>1 DEF WorkerMoves
<1>11. ASSUME NEW c \in Callers, NEW u \in Turns,
             StartAccepted(c, u)
      PROVE  WorkerMoves(r)
  <2>1. UNCHANGED <<reconcile>>
    BY <1>11
    DEF StartAccepted, gateway
  <2> QED BY <2>1 DEF WorkerMoves
<1>12. ASSUME NEW c \in Callers, NEW s \in Sessions, NEW q \in Requests, NEW x \in Runs,
             HandoffActive(c, s, q, x)
      PROVE  WorkerMoves(r)
  <2>1. UNCHANGED <<reconcile>>
    BY <1>12
    DEF HandoffActive, gateway
  <2> QED BY <2>1 DEF WorkerMoves
<1>13. ASSUME NEW c \in Callers, NEW s \in Sessions, NEW th \in Threads,
             PutRead(c, s, th)
      PROVE  WorkerMoves(r)
  <2>1. UNCHANGED <<reconcile>>
    BY <1>13
    DEF PutRead, gateway
  <2> QED BY <2>1 DEF WorkerMoves
<1>14. ASSUME NEW s \in Sessions, NEW q \in Requests,
             HandoffIdle(s, q) \/ Reclaim(s, q)
      PROVE  WorkerMoves(r)
  <2>1. UNCHANGED <<reconcile>>
    BY <1>14
    DEF HandoffIdle, Reclaim, gateway
  <2> QED BY <2>1 DEF WorkerMoves
<1>15. ASSUME NEW s \in Sessions, NEW th \in Threads, NEW enabled \in BOOLEAN,
              NEW mode \in {"managed", "external"}, NEW edited \in BOOLEAN,
             PutFull(s, th, enabled, mode, edited)
      PROVE  WorkerMoves(r)
  <2>1. UNCHANGED <<reconcile>>
    BY <1>15
    DEF PutFull, gateway
  <2> QED BY <2>1 DEF WorkerMoves
<1>16. CASE 
             ReadCompleted \/ ReadCallback \/ ReadOrphan \/ ReadMatch \/ ReadRelease \/
             ReadStarted \/ ReadProject \/ Disconnect \/ DisconnectStatus \/ Reconnect
  <2>1. UNCHANGED <<reconcile>>
    BY <1>16
    DEF ReadCompleted, ReadCallback, ReadOrphan, ReadMatch, ReadRelease, ReadStarted,
        ReadProject, Disconnect, DisconnectStatus, Reconnect, gateway
  <2> QED BY <2>1 DEF WorkerMoves
<1>17. ASSUME NEW x \in Runs,
             DisconnectCallback(x) \/ ProbeCallback(x)
      PROVE  WorkerMoves(r)
  <2>1. UNCHANGED <<reconcile>>
    BY <1>17
    DEF DisconnectCallback, ProbeCallback, gateway
  <2> QED BY <2>1 DEF WorkerMoves
<1>18. ASSUME NEW u \in Turns,
             Probe(u)
      PROVE  WorkerMoves(r)
  <2>1. UNCHANGED <<reconcile>>
    BY <1>18
    DEF Probe, gateway
  <2> QED BY <2>1 DEF WorkerMoves
<1>19. ASSUME NEW u \in Turns, NEW th \in Threads,
             ExternalTurnStarts(u, th)
      PROVE  WorkerMoves(r)
  <2>1. UNCHANGED <<reconcile>>
    BY <1>19
    DEF ExternalTurnStarts, gateway
  <2> QED BY <2>1 DEF WorkerMoves
<1>20. ASSUME NEW u \in Turns, NEW outcome \in TurnOutcomes,
             TurnEnds(u, outcome)
      PROVE  WorkerMoves(r)
  <2>1. UNCHANGED <<reconcile>>
    BY <1>20
    DEF TurnEnds, gateway
  <2> QED BY <2>1 DEF WorkerMoves
<1>21. CASE UNCHANGED vars
  <2>1. UNCHANGED <<reconcile>>
    BY <1>21 DEF vars, board, gateway, transport, appServer
  <2> QED BY <2>1 DEF WorkerMoves
<1> QED
  BY <1>1, <1>2, <1>3, <1>4, <1>5, <1>6, <1>7, <1>8, <1>9, <1>10, <1>11, <1>12, <1>13, <1>14,
     <1>15, <1>16, <1>17, <1>18, <1>19, <1>20, <1>21
  DEF Next, StartStep, ControlStep, SessionStep, ReconcileStep, ReaderStep, TransportStep,
      AppServerStep

\* Whose a turn is stays, and so does how it has ended.
LEMMA TurnStays ==
  ASSUME WellFormed, NEW t \in Turns, [Next]_vars
  PROVE  /\ turns[t].run # None => turns'[t].run = turns[t].run
         /\ turns[t].status \in TerminalStatuses => turns'[t] = turns[t]
<1>1. turns[t] \in TurnRecord
  BY DEF WellFormed, TypeOK
<1>2. turns[t].status = "absent" => turns[t].run = None
  BY <1>1 DEF TurnRecord, NoTurn, TerminalStatuses
<1>3. TurnMoves(t)
  BY TurnsMove
<1> QED BY <1>2, <1>3 DEF TurnMoves, TerminalStatuses

=============================================================================
