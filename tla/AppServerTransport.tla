------------------------- MODULE AppServerTransport -------------------------
(***************************************************************************)
(* The JSON-RPC client of better_subagent/transport.py (AppServerTransport)*)
(* against one App Server: callers of start_turn, the reader thread of each*)
(* connection, the probes that look for the end of a turn, and the thread  *)
(* that notices a lost connection.                                         *)
(*                                                                         *)
(* A `with self._lock` block is one step; so is what a thread does between *)
(* two of them.  Frames, heartbeats and request ids are abstracted: a      *)
(* caller has one request open at a time, so the caller stands for the id  *)
(* and slot[s] = "waiting" for its entry in _pending.  The turn that       *)
(* start_turn call s begins is named s as well.                            *)
(***************************************************************************)
EXTENDS Naturals, Sequences, FiniteSets

CONSTANTS
  Starts,          \* the calls of start_turn, and the turns they begin
  Threads,         \* App Server threads
  None,            \* no thread yet
  MaxGeneration,   \* bound: how many connections are made
  TurnOutcomes,    \* how turns end: a subset of TerminalStatuses \cup {"other"}
  IdleFirst,       \* whether a thread may be announced idle before its turn/completed
  Faults,          \* a subset of AllFaults
  MaxFaults        \* bound: how many kinds of fault happen

AllFaults == {"drop", "close", "timeout", "probe"}
TerminalStatuses == {"completed", "failed", "interrupted"}
Generations == 1..MaxGeneration

ASSUME ConstantsAssumption ==
  /\ None \notin Threads \cup Starts
  /\ MaxGeneration \in Nat
  /\ TurnOutcomes \subseteq TerminalStatuses \cup {"other"}
  /\ IdleFirst \subseteq BOOLEAN
  /\ Faults \subseteq AllFaults
  /\ MaxFaults \in Nat

VARIABLES
  (* The client object.                                                    *)
  generation, \* _generation
  connected,  \* _connected
  stopping,   \* _stopping
  slot,       \* slot[s]: the state of the request s waits for
  watched,    \* _turns: turns whose callback is registered
  tombstones, \* _terminal_tombstones: <<generation, turn>>; none of 256 is forgotten
  orphans,    \* _orphan_terminals: <<generation, turn>>
  (* Its threads.                                                          *)
  call,       \* call[s]: where the caller of start_turn is; on, which no step reads,
              \* is the connection its last request went out on
  reader,     \* reader[g]: where the reader thread of connection g is
  probe,      \* probe[s]: the reconcile worker of turn s (_reconcile_inflight)
  untold,     \* callbacks a lost connection still has to call with "unknown"
  (* What the callers see.                                                 *)
  answer,     \* answer[s]: how start_turn ended
  told,       \* told[s]: the calls of the terminal callback
  (* The wire and the App Server.                                          *)
  link,       \* link[g]: whether connection g carries messages
  outbox,     \* outbox[g]: requests on their way to the App Server
  inbox,      \* inbox[g]: responses and notifications on their way back
  ready,      \* connections whose initialize the App Server has served
  attached,   \* attached[g]: threads whose listener thread/resume joined to g
  turn,       \* turn[s]: what became of the turn s
  announced,  \* <<g, s, first>>: the end of s was sent over g, and whether idleness
              \* came first; no step reads it
  faults      \* the kinds of fault that have happened

conn      == <<generation, connected, stopping>>
table     == <<watched, tombstones, orphans>>
client    == <<conn, slot, table>>
threads   == <<call, reader, probe, untold>>
results   == <<answer, told>>
wire      == <<link, outbox, inbox>>
server    == <<ready, attached, turn, announced>>
appServer == <<wire, server>>
vars      == <<client, threads, results, appServer, faults>>

-----------------------------------------------------------------------------
(* Types                                                                   *)

Methods   == {"initialize", "read", "resume", "reread", "start"}
Verdicts  == {"idle", "active", "refused"}  \* what a response says
Request   ==  \* from None: by a probe
  [from: Starts, method: Methods] \cup [from: {None}, method: {"initialize"}]
Message   ==
  [kind: {"response"}, to: Starts, says: Verdicts]
    \cup [kind: {"completed"}, turn: Starts]
    \cup [kind: {"idle"}, thread: Threads]

\* The reader has a turn in hand between its message and the next one.
Reader ==
  [pc: {"none", "receive", "last", "gone"}, turn: {None}]
    \cup [pc: {"finish", "callback", "orphan"}, turn: Starts]

CallRecord ==
  [pc: Methods \cup {"none", "begin", "connected", "merge", "callback", "return", "done"},
   thread: Threads \cup {None}, next: {"none", "read", "reread"}, on: 0..MaxGeneration]
ProbeRecord ==
  [pc: {"none", "check", "list", "connected", "initialize", "recheck", "finish", "callback"},
   on: 0..MaxGeneration,
   says: TerminalStatuses \cup {"unknown"}]

TypeOK ==
  /\ generation \in 0..MaxGeneration
  /\ connected \in BOOLEAN /\ stopping \in BOOLEAN
  /\ slot \in [Starts -> Verdicts \cup {"none", "waiting", "lost"}]
  /\ watched \subseteq Starts /\ tombstones \subseteq (0..MaxGeneration) \X Starts
  /\ orphans \subseteq Generations \X Starts
  /\ call \in [Starts -> CallRecord]
  /\ reader \in [Generations -> Reader]
  /\ probe \in [Starts -> ProbeRecord]
  /\ untold \subseteq Starts
  /\ answer \in [Starts -> {"none", "waiting", "returned", "rejected", "unknown"}]
  /\ told \in [Starts -> Seq(TerminalStatuses \cup {"unknown"})]
  /\ link \in [Generations -> {"none", "up", "down"}]
  /\ outbox \in [Generations -> Seq(Request)]
  /\ inbox \in [Generations -> Seq(Message)]
  /\ ready \subseteq Generations
  /\ attached \in [Generations -> SUBSET Threads]
  /\ turn \in [Starts -> {"none", "running", "other"} \cup TerminalStatuses]
  /\ announced \subseteq Generations \X Starts \X IdleFirst
  /\ faults \subseteq Faults

-----------------------------------------------------------------------------
(* Helpers                                                                 *)

\* A kind of fault happens once.
Fault(kind) ==
  /\ kind \in Faults \ faults /\ Cardinality(faults) < MaxFaults
  /\ faults' = faults \cup {kind}

\* The status handed to a callback: App Server words other than three mean unknown.
CallbackStatus(s) ==
  IF turn[s] \in TerminalStatuses THEN turn[s] ELSE "unknown"

Tell(s, status) == told' = [told EXCEPT ![s] = Append(@, status)]

NoReader == [pc |-> "none", turn |-> None]
NoProbe  == [pc |-> "none", on |-> 0, says |-> "unknown"]

Running(th) == \E s \in Starts : turn[s] = "running" /\ call[s].thread = th

Goes(s, pc) == call' = [call EXCEPT ![s] = [@ EXCEPT !.pc = pc]]

\* The answer of start_turn, and the end of its call.
Ends(s, how) ==
  /\ Goes(s, "done")
  /\ answer' = [answer EXCEPT ![s] = how]

-----------------------------------------------------------------------------
(* Losing the connection                                                   *)

\* Every open request gets an error; a caller that noticed while sending has none.
Dropped(by) ==
  [s \in Starts |-> CASE s = by -> "none"
                     [] s # by /\ slot[s] = "waiting" -> "lost"
                     [] OTHER -> slot[s]]

\* _mark_disconnected: every registered callback is taken out of the table and
\* will be called with "unknown".
MarkDisconnected(by) ==
  /\ connected' = FALSE
  /\ slot' = Dropped(by)
  /\ untold' = untold \cup watched
  /\ watched' = {} /\ tombstones' = {} /\ orphans' = {}

TellUnknown(s) ==
  /\ s \in untold
  /\ untold' = untold \ {s}
  /\ Tell(s, "unknown")
  /\ UNCHANGED <<client, call, reader, probe, answer, appServer, faults>>

\* The link breaks; nobody has noticed yet.
Drop(g) ==
  /\ link[g] = "up"
  /\ Fault("drop")
  /\ link' = [link EXCEPT ![g] = "down"]
  /\ UNCHANGED <<client, threads, results, outbox, inbox, server>>

\* close: nobody is told, and the reader will leave without a word.
Close ==
  /\ connected
  /\ Fault("close")
  /\ stopping' = TRUE /\ connected' = FALSE
  /\ link' = [link EXCEPT ![generation] = "down"]
  /\ UNCHANGED <<generation, slot, table, threads, results, outbox, inbox, server>>

-----------------------------------------------------------------------------
(* Callers of start_turn                                                   *)

Begin(s, th) ==
  /\ call[s].pc = "none"
  /\ call' = [call EXCEPT ![s] = 
                 [pc |-> "begin", thread |-> th, next |-> "none", on |-> 0]]
  /\ answer' = [answer EXCEPT ![s] = "waiting"]
  /\ UNCHANGED <<client, reader, probe, untold, told, appServer, faults>>

\* What start_turn does next, its last request having been answered well.
After(s) ==
  CASE call[s].pc = "initialize" -> call[s].next
    [] call[s].pc = "read"   -> "resume"
    [] call[s].pc = "resume" -> "reread"
    [] call[s].pc = "reread" -> "start"
    [] call[s].pc = "start"  -> "register"

Due(s) ==
  CASE call[s].pc = "begin"     -> "read"
    [] call[s].pc = "connected" -> "initialize"
    [] call[s].pc \in Methods /\ slot[s] = "idle" -> After(s)
    [] OTHER -> "none"

\* About to send: read_thread first calls _ensure_connected, the others do not.
Sending(s) == Due(s) \in Methods
Connecting(s) == Due(s) \in {"read", "reread"} /\ ~connected

\* connect: a new connection and its reader; initialize is still to be sent on it,
\* and another caller may send before that.
Opens ==
  /\ generation < MaxGeneration
  /\ LET g == generation + 1
     IN  /\ generation' = g
         /\ link' = [link EXCEPT ![g] = "up"]
         /\ reader' = [reader EXCEPT ![g] = [pc |-> "receive", turn |-> None]]
  /\ connected' = TRUE /\ stopping' = FALSE

Connect(s) ==
  /\ Connecting(s)
  /\ Opens
  /\ call' = [call EXCEPT ![s] = [@ EXCEPT !.pc = "connected", !.next = Due(s)]]
  /\ slot' = [slot EXCEPT ![s] = "none"]
  /\ UNCHANGED <<table, probe, untold, results, outbox, inbox, server, faults>>

\* The App Server cannot be reached: the exception leaves start_turn.
ConnectFails(s) ==
  /\ Connecting(s)
  /\ slot' = [slot EXCEPT ![s] = "none"]
  /\ Ends(s, "rejected")
  /\ UNCHANGED <<conn, table, reader, probe, untold, told, appServer, faults>>

\* request: the entry in _pending is made and the request sent under one lock.
Send(s) ==
  /\ Sending(s) /\ connected
  /\ slot' = [slot EXCEPT ![s] = "waiting"]
  /\ outbox' = [outbox EXCEPT ![generation] = Append(@, [from |-> s, method |-> Due(s)])]
  /\ call' = [call EXCEPT ![s] = [@ EXCEPT !.pc = Due(s), !.on = generation]]
  /\ UNCHANGED <<conn, table, reader, probe, untold, results, link, inbox, server, faults>>

\* request finds no connection.
SendUnconnected(s) ==
  /\ Sending(s) /\ ~connected /\ ~Connecting(s)
  /\ slot' = [slot EXCEPT ![s] = "none"]
  /\ Ends(s, "unknown")
  /\ UNCHANGED <<conn, table, reader, probe, untold, told, appServer, faults>>

\* The socket refuses the request: this caller is the one who notices.
SendFails(s) ==
  /\ Sending(s) /\ connected
  /\ link[generation] = "down"
  /\ MarkDisconnected(s)
  /\ Ends(s, "unknown")
  /\ UNCHANGED <<generation, stopping, reader, probe, told, appServer, faults>>

TimeOut(s) ==
  /\ slot[s] = "waiting"
  /\ Fault("timeout")
  /\ slot' = [slot EXCEPT ![s] = "none"]
  /\ Ends(s, "unknown")
  /\ UNCHANGED <<conn, table, reader, probe, untold, told, appServer>>

\* An error in the slot, the one a lost connection puts there included, or a
\* thread that is not idle: TransportRejected.
Reject(s) ==
  /\ slot[s] \in {"active", "refused", "lost"}
  /\ slot' = [slot EXCEPT ![s] = "none"]
  /\ Ends(s, "rejected")
  /\ UNCHANGED <<conn, table, reader, probe, untold, told, appServer, faults>>

\* The turn is registered and its orphaned terminal taken under one lock.
Register(s) ==
  /\ Due(s) = "register"
  /\ watched' = watched \cup {s}
  /\ slot' = [slot EXCEPT ![s] = "none"]
  /\ orphans' = orphans \ {<<generation, s>>}
  /\ IF <<generation, s>> \in orphans
     THEN Goes(s, "merge") /\ UNCHANGED answer
     ELSE Ends(s, "returned")
  /\ UNCHANGED <<conn, tombstones, reader, probe, untold, told, appServer, faults>>

\* Mutant: the entry is read and left in the table.
TakesEntryCopy(s) ==
  /\ s \in watched
  /\ tombstones' = tombstones \cup {<<generation, s>>}
  /\ UNCHANGED watched

\* _finish_turn's lock: whoever takes the entry calls the callback.
TakesEntry(s) ==
  /\ s \in watched
  /\ watched' = watched \ {s}
  /\ tombstones' = tombstones \cup {<<generation, s>>}

FindsNoEntry(s) == s \notin watched /\ UNCHANGED <<watched, tombstones>>

Merge(s) ==
  /\ call[s].pc = "merge"
  /\ \/ /\ TakesEntry(s)
        /\ Goes(s, "callback") /\ UNCHANGED answer
     \/ FindsNoEntry(s) /\ Ends(s, "returned")
  /\ UNCHANGED <<conn, slot, orphans, reader, probe, untold, told, appServer, faults>>

MergeCallback(s) ==
  /\ call[s].pc = "callback"
  /\ Tell(s, CallbackStatus(s))
  /\ Goes(s, "return")
  /\ UNCHANGED <<client, reader, probe, untold, answer, appServer, faults>>

Return(s) ==
  /\ call[s].pc = "return"
  /\ Ends(s, "returned")
  /\ UNCHANGED <<client, reader, probe, untold, told, appServer, faults>>

-----------------------------------------------------------------------------
(* The reader thread of a connection                                       *)

Current(g) == connected /\ generation = g

\* Mutant: back at the loop's guard with the turn of the last message.
ResumeHolding(g) ==
  reader' = [reader EXCEPT ![g].pc = IF Current(g) THEN "receive" ELSE "last"]

\* Back at the loop's guard: receive again, or leave the loop.
Resume(g) ==
  reader' = [reader EXCEPT ![g] = [pc |-> IF Current(g) THEN "receive" ELSE "last",
                                   turn |-> None]]

Holds(g, pc, s) == reader' = [reader EXCEPT ![g] = [pc |-> pc, turn |-> s]]

Receives(g, kind) ==
  /\ reader[g].pc = "receive"
  /\ inbox[g] # <<>>
  /\ Head(inbox[g]).kind = kind
  /\ inbox' = [inbox EXCEPT ![g] = Tail(@)]

\* A response wakes the caller that still waits for it, whatever connection it
\* came over; nobody waits for it after a timeout.
ReadResponse(g) ==
  /\ Receives(g, "response")
  /\ LET m == Head(inbox[g])
     IN  slot' = [slot EXCEPT ![m.to] = IF @ = "waiting" THEN m.says ELSE @]
  /\ Resume(g)
  /\ UNCHANGED <<conn, table, call, probe, untold, results, link, outbox, server, faults>>

\* turn/completed: dropped if its connection has been replaced or its turn has a
\* tombstone.
ReadCompleted(g) ==
  /\ Receives(g, "completed")
  /\ LET s == Head(inbox[g]).turn
     IN  IF g = generation /\ <<g, s>> \notin tombstones THEN Holds(g, "finish", s) ELSE Resume(g)
  /\ UNCHANGED <<client, call, probe, untold, results, link, outbox, server, faults>>

ReaderFinish(g) ==
  LET s == reader[g].turn
  IN  /\ reader[g].pc = "finish"
      /\ \/ TakesEntry(s) /\ Holds(g, "callback", s)
         \/ FindsNoEntry(s) /\ Holds(g, "orphan", s)
      /\ UNCHANGED <<conn, slot, orphans, call, probe, untold, results, appServer, faults>>

ReaderCallback(g) ==
  /\ reader[g].pc = "callback"
  /\ Tell(reader[g].turn, CallbackStatus(reader[g].turn))
  /\ Resume(g)
  /\ UNCHANGED <<client, call, probe, untold, answer, appServer, faults>>

\* Nobody had registered the turn when ReaderFinish looked.
ReaderOrphan(g) ==
  LET s == reader[g].turn
  IN  /\ reader[g].pc = "orphan"
      /\ orphans' = IF <<g, s>> \in tombstones THEN orphans ELSE orphans \cup {<<g, s>>}
      /\ Resume(g)
      /\ UNCHANGED <<conn, slot, watched, tombstones, call, probe, untold, results, appServer,
                     faults>>

\* Mutant: a thread that goes idle is not looked at.
ScheduledNever(th) == probe

\* _schedule_reconcile for every registered turn of the thread, one probe each.
Scheduled(th) ==
  [s \in Starts |->
    IF s \in watched /\ call[s].thread = th /\ probe[s].pc = "none"
    THEN [pc |-> "check", on |-> generation, says |-> "unknown"] ELSE probe[s]]

ReadIdle(g) ==
  /\ Receives(g, "idle")
  /\ probe' = IF g = generation THEN Scheduled(Head(inbox[g]).thread) ELSE probe
  /\ Resume(g)
  /\ UNCHANGED <<client, call, untold, results, link, outbox, server, faults>>

\* Mutant: a reader whose connection has been replaced may still mark.
MayMarkStale(g) == ~stopping

\* _mark_disconnected by a reader counts only for the connection in use.
MayMark(g) == ~stopping /\ g = generation

\* recv fails; what the connection still carried is lost with it.  After close
\* the reader keeps quiet.
ReaderFails(g) ==
  /\ reader[g].pc = "receive"
  /\ link[g] = "down"
  /\ Holds(g, "last", None)
  /\ IF MayMark(g) THEN MarkDisconnected(None) ELSE UNCHANGED <<connected, slot, table, untold>>
  /\ UNCHANGED <<generation, stopping, call, probe, results, appServer, faults>>

\* The finally block marks a second time, which takes a callback registered since.
ReaderLeaves(g) ==
  /\ reader[g].pc = "last"
  /\ Holds(g, "gone", None)
  /\ IF MayMark(g) THEN MarkDisconnected(None) ELSE UNCHANGED <<connected, slot, table, untold>>
  /\ UNCHANGED <<generation, stopping, call, probe, results, appServer, faults>>

-----------------------------------------------------------------------------
(* Probes: the workers of _schedule_reconcile                              *)

ProbeAt(s, pc) == probe' = [probe EXCEPT ![s] = [@ EXCEPT !.pc = pc]]
ProbeEnds(s)   == probe' = [probe EXCEPT ![s] = NoProbe]

\* The fence around the lookup: same connection, and somebody still waits.
Fenced(s) == connected /\ probe[s].on = generation /\ s \in watched

ProbeCheck(s) ==
  /\ probe[s].pc = "check"
  /\ IF Fenced(s) THEN ProbeAt(s, "list") ELSE ProbeEnds(s)
  /\ UNCHANGED <<client, call, reader, untold, results, appServer, faults>>

\* thread/turns/list answers with the turn as it is; a status that is not
\* terminal proves nothing.
ProbeList(s) ==
  /\ probe[s].pc = "list"
  /\ connected /\ link[generation] = "up"
  /\ probe' = [probe EXCEPT ![s] = [@ EXCEPT !.pc = "recheck", !.says = CallbackStatus(s)]]
  /\ UNCHANGED <<client, call, reader, untold, results, appServer, faults>>

\* list_thread_turns calls _ensure_connected: a lookup that finds the connection lost
\* makes a new one, initializes it and is answered over it.
ProbeConnect(s) ==
  /\ probe[s].pc = "list" /\ ~connected
  /\ Opens
  /\ ProbeAt(s, "connected")
  /\ UNCHANGED <<slot, table, call, untold, results, outbox, inbox, server, faults>>

ProbeInitialize(s) ==
  /\ probe[s].pc = "connected" /\ connected
  /\ outbox' = [outbox EXCEPT ![generation] =
                  Append(@, [from |-> None, method |-> "initialize"])]
  /\ ProbeAt(s, "initialize")
  /\ UNCHANGED <<client, call, reader, untold, results, link, inbox, server, faults>>

ProbeInitialized(s) ==
  /\ probe[s].pc = "initialize"
  /\ connected /\ link[generation] = "up" /\ generation \in ready
  /\ ProbeAt(s, "list")
  /\ UNCHANGED <<client, call, reader, untold, results, appServer, faults>>

\* The lookup fails: no fence before the verdict.  Over a connection other than the
\* probe's own it may be refused because it overtook initialize.
ProbeFails(s) ==
  /\ probe[s].pc \in {"list", "connected", "initialize"}
  /\ IF connected /\ link[generation] = "up" /\ probe[s].on = generation
     THEN Fault("probe") ELSE UNCHANGED faults
  /\ ProbeAt(s, "finish")
  /\ UNCHANGED <<client, call, reader, untold, results, appServer>>

ProbeRecheck(s) ==
  /\ probe[s].pc = "recheck"
  /\ IF Fenced(s) THEN ProbeAt(s, "finish") ELSE ProbeEnds(s)
  /\ UNCHANGED <<client, call, reader, untold, results, appServer, faults>>

ProbeFinish(s) ==
  /\ probe[s].pc = "finish"
  /\ \/ TakesEntry(s) /\ ProbeAt(s, "callback")
     \/ FindsNoEntry(s) /\ ProbeEnds(s)
  /\ UNCHANGED <<conn, slot, orphans, call, reader, untold, results, appServer, faults>>

ProbeCallback(s) ==
  /\ probe[s].pc = "callback"
  /\ Tell(s, probe[s].says)
  /\ ProbeEnds(s)
  /\ UNCHANGED <<client, call, reader, untold, answer, appServer, faults>>

-----------------------------------------------------------------------------
(* The App Server                                                          *)

Responds(g, s, says) ==
  inbox' = [inbox EXCEPT ![g] = Append(@, [kind |-> "response", to |-> s, says |-> says])]

\* Requests are served in order.  One that overtook initialize is refused, and
\* so is a turn on a thread that has one.
Serve(g) ==
  LET s  == Head(outbox[g]).from
      m  == Head(outbox[g]).method
      th == call[s].thread
      Replies(says) == Responds(g, s, says)
  IN  /\ link[g] = "up" /\ outbox[g] # <<>> /\ s # None
      /\ outbox' = [outbox EXCEPT ![g] = Tail(@)]
      /\ \/ /\ m = "initialize"
            /\ ready' = ready \cup {g}
            /\ Replies("idle") /\ UNCHANGED <<attached, turn>>
         \/ /\ m # "initialize" /\ (g \in ready => m = "start" /\ Running(th))
            /\ Replies("refused") /\ UNCHANGED <<ready, attached, turn>>
         \/ /\ m \in {"read", "resume", "reread"} /\ g \in ready
            /\ attached' = [attached EXCEPT ![g] = IF m = "resume" THEN @ \cup {th} ELSE @]
            /\ Replies(IF Running(th) THEN "active" ELSE "idle")
            /\ UNCHANGED <<ready, turn>>
         \/ /\ m = "start" /\ g \in ready /\ ~Running(th)
            /\ turn' = [turn EXCEPT ![s] = "running"]
            /\ Replies("idle") /\ UNCHANGED <<ready, attached>>
      /\ UNCHANGED <<client, threads, results, link, announced, faults>>

\* The initialize of a probe, whose answer is not on the wire.
Greet(g) ==
  /\ link[g] = "up" /\ outbox[g] # <<>> /\ Head(outbox[g]).from = None
  /\ outbox' = [outbox EXCEPT ![g] = Tail(@)]
  /\ ready' = ready \cup {g}
  /\ UNCHANGED <<client, threads, results, link, inbox, attached, turn, announced, faults>>

\* The turn ends.  Only connections joined to its thread hear of it.
EndTurn(s, outcome) ==
  LET completed == [kind |-> "completed", turn |-> s]
      idle == [kind |-> "idle", thread |-> call[s].thread]
      hears(g) == link[g] = "up" /\ call[s].thread \in attached[g]
  IN  /\ turn[s] = "running"
      /\ turn' = [turn EXCEPT ![s] = outcome]
      /\ \E first \in IdleFirst :
           /\ announced' = announced \cup {<<g, s, first>> : g \in {h \in Generations : hears(h)}}
           /\ inbox' = [g \in Generations |->
                IF ~hears(g) THEN inbox[g]
                ELSE inbox[g] \o (IF first THEN <<idle, completed>> ELSE <<completed, idle>>)]
      /\ UNCHANGED <<client, threads, results, link, outbox, ready, attached, faults>>

-----------------------------------------------------------------------------
Init ==
  /\ generation = 0 /\ connected = FALSE /\ stopping = FALSE
  /\ slot = [s \in Starts |-> "none"]
  /\ watched = {} /\ tombstones = {} /\ orphans = {}
  /\ call = [s \in Starts |-> [pc |-> "none", thread |-> None, next |-> "none", on |-> 0]]
  /\ reader = [g \in Generations |-> NoReader]
  /\ probe = [s \in Starts |-> NoProbe]
  /\ untold = {}
  /\ answer = [s \in Starts |-> "none"]
  /\ told = [s \in Starts |-> <<>>]
  /\ link = [g \in Generations |-> "none"]
  /\ outbox = [g \in Generations |-> <<>>]
  /\ inbox = [g \in Generations |-> <<>>]
  /\ ready = {}
  /\ attached = [g \in Generations |-> {}]
  /\ turn = [s \in Starts |-> "none"]
  /\ announced = {}
  /\ faults = {}

CallerStep(s) ==
  \/ Connect(s) \/ ConnectFails(s) \/ Send(s) \/ SendUnconnected(s) \/ SendFails(s)
  \/ Reject(s) \/ Register(s) \/ Merge(s) \/ MergeCallback(s) \/ Return(s)

ProbeStep(s) ==
  \/ ProbeCheck(s) \/ ProbeConnect(s) \/ ProbeInitialize(s) \/ ProbeInitialized(s)
  \/ ProbeList(s) \/ ProbeFails(s) \/ ProbeRecheck(s)
  \/ ProbeFinish(s) \/ ProbeCallback(s)

ReaderStep(g) ==
  \/ ReadResponse(g) \/ ReadCompleted(g) \/ ReaderFinish(g) \/ ReaderCallback(g)
  \/ ReaderOrphan(g) \/ ReadIdle(g) \/ ReaderFails(g) \/ ReaderLeaves(g)

Next ==
  \/ \E s \in Starts :
       \/ \E th \in Threads : Begin(s, th)
       \/ CallerStep(s) \/ TimeOut(s) \/ TellUnknown(s) \/ ProbeStep(s)
       \/ \E outcome \in TurnOutcomes : EndTurn(s, outcome)
  \/ \E g \in Generations : ReaderStep(g) \/ Serve(g) \/ Greet(g) \/ Drop(g)
  \/ Close

Spec == Init /\ [][Next]_vars

=============================================================================
