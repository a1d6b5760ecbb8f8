------------------------- MODULE GatewayProperties -------------------------
(***************************************************************************)
(* What must hold of the GatewayService of module Gateway: the safety      *)
(* invariants, what a step may never do, the progress the scheduling of    *)
(* its threads ensures, and the abstract ledger of Runs it implements.     *)
(***************************************************************************)
EXTENDS Gateway

-----------------------------------------------------------------------------
(* Invariants                                                              *)

\* At most one Run occupies a Session: start_run looks twice, with a thread/read
\* in between, while several handler threads run it (gateway.py:1106, 1143).
SingleOccupancy == \A s \in Sessions : Cardinality(OccupyingRuns(s)) <= 1

\* A requestId names one Run, however often and however concurrently its
\* start_run is repeated, and also after that Run has ended (gateway.py:1129).
OneRunPerRequest ==
  \A r1, r2 \in Runs :
    /\ runs[r1].status # "absent"
    /\ runs[r1].requestId = runs[r2].requestId
    => r1 = r2

\* A Run that ends with a recorded turn ends the way the App Server says that
\* turn ended: no callback, late RPC error or poll invents an outcome
\* (gateway.py:1404, 1175, 534).
OutcomeIsFact ==
  \A r \in Runs :
    Terminated(r) /\ runs[r].transportTurnId # None
      => turns[runs[r].transportTurnId].status = runs[r].status

\* Every live Run has somebody who will still report on it: a live Run is never
\* reconciled, so without that it would occupy its Session for good
\* (gateway.py:162, 1177).
LiveHasWatcher ==
  \A r \in live :
    \/ \E c \in Callers :
         /\ calls[c].run = r
         /\ calls[c].pc \in {"start.rpc", "start.reply", "start.take", "start.orphan",
                             "start.refused", "start.unknown"}
    \/ \E t \in Turns : watched[t] = r
    \/ r \in disconnect.runs
    \/ probed[r] # "none"
    \/ reader.pc = "callback" /\ reader.run = r

\* A Run the board calls ended has no turn still running on the App Server, so
\* admitting the next Run of its Session cannot disturb it (gateway.py:1185).
TerminalRunHasNoRunningTurn ==
  \A r \in Runs : Terminated(r) =>
    \A t \in Turns : turns[t].run = r => turns[t].status # "running"

\* Either turn t has not ended, or its end is still on its way to the board.
EndUnderway(t) ==
  \/ turns[t].status = "running"
  \/ \E i \in DOMAIN events : events[i].method = "turn/completed" /\ events[i].turn = t
  \/ /\ reader.pc \in {"callback", "orphan", "match", "release"}
     /\ reader.message.turn = t

\* A Session is shown active only because of a turn: the recorded turn of a Run
\* that occupies it, or a turn on its thread whose end has not been handled yet.
\* A late projection must not resurrect a finished turn, or the Session could
\* neither start a Run nor be reclaimed (gateway.py:237, 574).
ActivityIsJustified ==
  \A s \in Sessions :
    sessions[s].registered /\ sessions[s].runtimeStatus = "active" =>
      \/ /\ sessions[s].activeTurnId # None
         /\ \E r \in OccupyingRuns(s) :
              runs[r].transportTurnId = sessions[s].activeTurnId
      \/ /\ sessions[s].controlMode = "external"
         /\ \E t \in Turns :
              /\ turns[t].thread = sessions[s].thread
              /\ sessions[s].activeTurnId \in {None, t}
              /\ EndUnderway(t)

\* controlGeneration fences Runs: a Run carries the generation it was created
\* in, and while that is still the Session's, the Session is managed.  Whoever
\* took it over since has moved the generation on (gateway.py:969, 1070, 1157).
GenerationFencesRun ==
  \A r \in Runs : runs[r].status # "absent" =>
    LET session == sessions[runs[r].sessionId]
    IN  /\ runs[r].controlGeneration <= session.controlGeneration
        /\ runs[r].controlGeneration = session.controlGeneration
             => session.controlMode = "managed"

-----------------------------------------------------------------------------
(* Action properties                                                       *)

\* An outcome, once given, stays: the callback, the reader thread, the reconcile
\* worker, the start_run and the handoff of one Run all write its status
\* (gateway.py:1390, 1423, 1210, 987, 999).
TerminalIsFinal ==
  [][\A r \in Runs : Terminated(r) => runs'[r].status = runs[r].status]_vars

\* unknown fails closed: a Run of unknown outcome keeps its Session until a
\* terminal fact settles it, whatever answer arrives late (gateway.py:1209).
UnknownFailsClosed ==
  [][\A r \in Runs : runs[r].status = "unknown" =>
       runs'[r].status \in {"unknown"} \cup TerminalStatuses]_vars

\* The Session gets another thread, or passes between managed and external.
Switched(before, after) ==
  after.thread # before.thread \/ after.controlMode # before.controlMode

\* A failed handoff makes the Session managed again, whoever has taken it over
\* meanwhile.
HandedBack(before, after) ==
  /\ after.thread = before.thread
  /\ before.controlMode = "external"
  /\ after.controlMode = "managed"
  /\ after.handoffStatus = "failed"

\* controlGeneration moves by exactly one when a Session changes its thread or
\* its mode, in either direction and whichever thread writes it, and stands
\* still in every other write (gateway.py:603, 969, 1032, 1057).  One write is
\* excepted: the failure of a handoff hands back a Session that a foreign turn
\* took over meanwhile, and the generation stands still (gateway.py:1006).
GenerationCountsTakeovers ==
  [][\A s \in Sessions : sessions[s].registered =>
       LET before == sessions[s]
           after  == sessions'[s]
           moved  == Switched(before, after) /\ ~HandedBack(before, after)
       IN  after.controlGeneration =
             before.controlGeneration + (IF moved THEN 1 ELSE 0)]_vars

\* Every change between managed and external moves controlGeneration, as the
\* contract has it (docs/BETTER-SUBAGENT-CONTRACT.md:28).  It does not: see
\* HandedBack.
GenerationCountsEveryChange ==
  [][\A s \in Sessions :
       /\ sessions[s].registered
       /\ sessions'[s].controlMode # sessions[s].controlMode
       => sessions'[s].controlGeneration > sessions[s].controlGeneration]_vars

\* A turn is projected as external only if no Run of this Gateway is still open
\* for it: the turn of a Run whose start is under way is managed
\* (gateway.py:232, 587).
ProjectsOnlyUnowned ==
  [][\A s \in Sessions :
       LET t == sessions'[s].activeTurnId IN
       /\ sessions'[s].controlMode = "external"
       /\ t \notin {None, sessions[s].activeTurnId}
       /\ turns[t].run # None
       => \/ runs'[turns[t].run].transportTurnId = t
          \/ runs[turns[t].run].status \notin {"starting", "active", "interrupting"}]_vars

-----------------------------------------------------------------------------
(* The ledger of Runs                                                      *)

\* How the ledger sees a Run: absent, open while it occupies, or its outcome.
Outcome(status) ==
  IF status = "absent" THEN "none"
  ELSE IF status \in OccupyingStatuses THEN "open" ELSE status

Entries ==
  [r \in Runs |-> [request |-> runs[r].requestId, session |-> runs[r].sessionId,
                   outcome |-> Outcome(runs[r].status)]]

Ledger == INSTANCE RunLedger WITH entries <- Entries

\* GatewayService implements the ledger of Runs: every step of every thread
\* admits one Run, settles one Run, or leaves every entry as it is.
ImplementsLedger == Ledger!Spec

-----------------------------------------------------------------------------
(* The inductive invariant                                                 *)

Created == {r \in Runs : runs[r].status # "absent"}

\* The board: a Run belongs to a registered Session, which has a thread; ids not
\* yet handed out carry nothing.
BoardConsistent ==
  /\ \A s \in Sessions : sessions[s].registered => sessions[s].thread \in Threads
  /\ \A r \in Created :
       /\ runs[r].requestId \in Requests
       /\ runs[r].sessionId \in Sessions
       /\ sessions[runs[r].sessionId].registered
  /\ \A r \in Runs \ Created : runs[r] = Absent

StartedPhases ==
  {"start.remember", "start.rpc", "start.reply", "start.take", "start.orphan",
   "start.finish", "start.refused", "start.unknown"}
ControlPhases ==
  {"interrupt.rpc", "interrupt.get", "interrupt.failed", "handoff.rpc",
   "handoff.failed", "handoff.unknown"}
TurnPhases ==
  {"start.reply", "start.take", "start.orphan", "start.finish", "interrupt.rpc",
   "handoff.rpc"}

\* The locals of a handler thread are set before the phases that use them.
LocalsSet(call) ==
  /\ call.pc # "idle" => call.session \in Sessions
  /\ call.pc \in StartedPhases \cup {"start.read", "start.create"} =>
       call.request \in Requests /\ call.thread \in Threads
  /\ call.pc \in TurnPhases => call.turn \in Turns
  /\ call.pc \in {"handoff.rpc", "handoff.failed"} => call.request \in Requests
  /\ call.pc = "put.commit" => call.thread \in Threads

CallsConsistent ==
  \A c \in Callers :
    /\ LocalsSet(calls[c])
    /\ calls[c].pc \in StartedPhases \cup ControlPhases => calls[c].run \in Created

\* Whatever waits to be reported concerns a Run that is on the board.
ReferencesConsistent ==
  /\ live \subseteq Created
  /\ \A r \in Runs : reconcile[r].pc # "none" => r \in Created
  /\ \A r \in Runs : probed[r] # "none" => r \in Created
  /\ \A t \in Turns : watched[t] \in Created \cup {None}
  /\ disconnect.runs \subseteq Created
  /\ reader.pc = "callback" => reader.run \in Created
  /\ reader.pc \in {"callback", "orphan", "match", "release"} =>
       reader.message.turn \in Turns

WellFormed == TypeOK /\ BoardConsistent /\ CallsConsistent /\ ReferencesConsistent

\* start_run between its App Server turn and the answer that records it.
HasTurn == {"start.reply", "start.take", "start.orphan", "start.finish"}

\* start_run while nobody can have reported on its Run.
Unreported ==
  {"start.remember", "start.rpc", "start.reply", "start.refused", "start.unknown"}

\* The callback of r is registered, or somebody holds it.
Reported(r) ==
  \/ \E t \in Turns : watched[t] = r
  \/ r \in disconnect.runs
  \/ probed[r] # "none"
  \/ reader.pc = "callback" /\ reader.run = r

\* A start_run is alone with its Run, knows its turn, and has not recorded it yet.
StarterAlone(c) ==
  calls[c].pc \in StartedPhases =>
    /\ runs[calls[c].run].transportTurnId = None
    /\ calls[c].pc \in Unreported =>
         runs[calls[c].run].status = "starting" /\ ~Reported(calls[c].run)
    /\ calls[c].pc \in {"start.remember", "start.rpc"} =>
         \A t \in Turns : turns[t].run # calls[c].run
    /\ calls[c].pc \in HasTurn => turns[calls[c].turn].run = calls[c].run
    /\ \A d \in Callers :
         calls[d].pc \in StartedPhases /\ calls[d].run = calls[c].run => c = d

\* An interrupt or handoff is about a Run that has recorded its turn.
ControlsRecorded(c) ==
  calls[c].pc \in ControlPhases => runs[calls[c].run].transportTurnId # None

\* A turn is one Run's at most, and so is its callback.
TurnOfOneRun(t) ==
  /\ turns[t].run \in Created \cup {None}
  /\ turns[t].run # None => \A u \in Turns : turns[u].run = turns[t].run => t = u
  /\ watched[t] # None => turns[t].run = watched[t]

\* What the reader, a probe or a reconcile worker is about to report of r is the
\* status of r's turn.
ReportIsFact(r) ==
  /\ runs[r].transportTurnId # None => turns[runs[r].transportTurnId].run = r
  /\ reader.pc = "callback" /\ reader.run = r => turns[reader.message.turn].run = r
  /\ probed[r] \in TerminalStatuses =>
       \E t \in Turns : turns[t].run = r /\ turns[t].status = probed[r]
  /\ reconcile[r].pc = "list" => runs[r].transportTurnId # None
  /\ reconcile[r].fact # "none" =>
       /\ runs[r].transportTurnId # None
       /\ turns[runs[r].transportTurnId].status = reconcile[r].fact

\* The Run has recorded its turn, or its start_run still may.
MayRecord(r) ==
  \/ runs[r].transportTurnId # None
  \/ \E c \in Callers : calls[c].pc \in HasTurn /\ calls[c].run = r

\* The outcome of a Run that has a turn is that turn's.
EndIsTurns(r) ==
  Terminated(r) /\ MayRecord(r) =>
    \A t \in Turns : turns[t].run = r => turns[t].status = runs[r].status

Provenance ==
  /\ \A c \in Callers : StarterAlone(c) /\ ControlsRecorded(c)
  /\ \A t \in Turns : TurnOfOneRun(t)
  /\ \A r \in Runs : ReportIsFact(r) /\ EndIsTurns(r)

\* LiveHasWatcher without the phase in which start_run may lose the callback.
Watched(r) ==
  r \in live =>
    \/ Reported(r)
    \/ \E c \in Callers :
         /\ calls[c].pc \in {"start.rpc", "start.reply", "start.orphan", "start.refused",
                             "start.unknown"}
         /\ calls[c].run = r
AllWatched == \A r \in Runs : Watched(r)

\* The state of a well-formed Gateway with the promises its steps preserve; the
\* proofs are by induction on this invariant (gateway.py:1073, 1404, 1032).
InductiveInvariant ==
  /\ WellFormed /\ SingleOccupancy /\ OneRunPerRequest /\ GenerationFencesRun
  /\ Provenance /\ AllWatched

-----------------------------------------------------------------------------
(* Progress                                                                *)

\* A handler thread goes on unless the environment withholds an answer.
CallProgress(c) ==
  \/ StartRead(c) \/ (\E r \in Runs : StartCreate(c, r)) \/ StartDenied(c)
  \/ StartRemember(c) \/ (\E t \in Turns : StartAccepted(c, t)) \/ StartRejected(c)
  \/ StartRegister(c) \/ StartTakeOrphan(c) \/ StartOrphan(c) \/ StartFinish(c)
  \/ StartRefused(c) \/ StartUnknown(c)
  \/ InterruptAccepted(c) \/ InterruptRejected(c) \/ InterruptGet(c) \/ InterruptFailed(c)
  \/ HandoffUnknown(c) \/ HandoffFailed(c) \/ PutCommit(c)

\* Python threads are scheduled fairly, and clients keep polling get_run.  Nothing
\* is assumed of Probe: the transport schedules it only when a thread is announced
\* idle while the callback of one of its turns is registered.
Fairness ==
  /\ \A c \in Callers : WF_vars(CallProgress(c))
  /\ \A r \in Runs :
       /\ WF_vars(GetRun(r))
       /\ WF_vars(ReconcileRead(r) \/ ReconcileList(r) \/ ReconcileProject(r)
                  \/ ReconcileClose(r))
       /\ WF_vars(DisconnectCallback(r))
       /\ WF_vars(ProbeCallback(r))
  /\ WF_vars(ReaderStep)
  /\ WF_vars(DisconnectStatus)
  /\ WF_vars(Reconnect)

FairSpec == Spec /\ Fairness

\* The end of t is on its way, or the reader is at it.
EndIsComing(t) ==
  \/ \E i \in DOMAIN events : events[i].method = "turn/completed" /\ events[i].turn = t
  \/ reader.pc \in {"orphan", "callback", "match"} /\ reader.message.turn = t

\* The callback of a live Run waits for an end that was announced without it: the
\* reader found no callback yet and stored the end when start_turn had looked
\* (transport.py:599-604), or the connection the end came on was lost before the
\* callback was registered (transport.py:324).
Stranded(r) ==
  /\ r \in live
  /\ \E t \in Turns :
       /\ runs[r].transportTurnId = t
       /\ watched[t] = r
       /\ ~EndIsComing(t)

\* A Run whose recorded turn has ended is eventually ended on the board, even if
\* the notification, the callback or the whole process was lost in between
\* (gateway.py:265, 317, 1221).  One Run is excepted, the stranded one: only a
\* later idle announcement, a lost connection or a restart settles it, since a
\* live Run is not reconciled (gateway.py:162).
EndedTurnClosesRun ==
  \A r \in Runs :
    (/\ runs[r].transportTurnId # None
     /\ TerminalFact(runs[r].transportTurnId) # "none")
      ~> (Terminated(r) \/ Stranded(r))

=============================================================================
