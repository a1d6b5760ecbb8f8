-------------------------- MODULE GatewayTheorems ---------------------------
(***************************************************************************)
(* The safety of GatewayService for every number of Sessions, Runs, turns, *)
(* requests, handler threads and faults, and the ledger of Runs it         *)
(* implements.  What the board promises follows from the two shapes of a   *)
(* write to it (GatewaySteps!StepWrites); that outcomes are facts and live *)
(* Runs are watched, from how one Run, turn, call and report move; that a  *)
(* Session is active only because of a turn, from how notifications are    *)
(* delivered.                                                              *)
(***************************************************************************)
EXTENDS GatewaySteps, FiniteSetTheorems

-----------------------------------------------------------------------------
(* The well-formed Gateway                                                 *)

\* The Gateway stays well formed: the board names only registered Sessions, the
\* locals of every thread are set when it uses them, and whatever waits to be
\* reported concerns a Run on the board (gateway.py:1073, 1404).
THEOREM AlwaysWellFormed == Spec => []WellFormed
<1>1. Init => WellFormed
  BY InitWellFormed
<1>2. WellFormed /\ [Next]_vars => WellFormed'
  BY NextWellFormed
<1> QED BY <1>1, <1>2, PTL DEF Spec

\* Every variable keeps its type, whatever the threads and the faults do.
THEOREM TypeCorrect == Spec => []TypeOK
<1>1. WellFormed => TypeOK
  BY DEF WellFormed
<1> QED BY <1>1, AlwaysWellFormed, PTL

\* What a step does to Runs: one is created while its Session is free and its
\* request new, or ids and outcomes stay.
LEMMA RunChanges ==
  ASSUME WellFormed, [Next]_vars
  PROVE  \/ runs' = runs
         \/ \E r \in Created : Rewritten(r)
         \/ \E r \in Runs, q \in Requests, s \in Sessions :
              /\ runs[r] = Absent
              /\ runs' = [runs EXCEPT ![r] =
                   [status |-> "starting", requestId |-> q, sessionId |-> s,
                    transportTurnId |-> None, handoffRequestId |-> None,
                    controlGeneration |-> sessions[s].controlGeneration]]
              /\ sessions' = sessions
              /\ Admissible(s, q)
<1>1. CASE RunWrite
  BY <1>1 DEF RunWrite
<1>2. ASSUME NEW c \in Callers, NEW r \in Runs, StartCreate(c, r)
      PROVE  \E q \in Requests, s \in Sessions :
               /\ runs[r] = Absent
               /\ runs' = [runs EXCEPT ![r] =
                    [status |-> "starting", requestId |-> q, sessionId |-> s,
                     transportTurnId |-> None, handoffRequestId |-> None,
                     controlGeneration |-> sessions[s].controlGeneration]]
               /\ sessions' = sessions
               /\ Admissible(s, q)
  <2>1. calls[c].session \in Sessions /\ calls[c].request \in Requests
    BY <1>2 DEF StartCreate, WellFormed, CallsConsistent, LocalsSet, StartedPhases
  <2>2. runs[r] = Absent
    BY <1>2 DEF StartCreate, WellFormed, BoardConsistent, Created
  <2> QED BY <1>2, <2>1, <2>2 DEF StartCreate
<1> QED BY <1>1, <1>2, StepWrites

-----------------------------------------------------------------------------
(* One Run per Session                                                     *)

\* SingleOccupancy without counting.
OneOccupant ==
  \A s \in Sessions : \A r1, r2 \in OccupyingRuns(s) : r1 = r2

\* Without two occupants a Session has at most one.
LEMMA OneOccupantCounts == OneOccupant => SingleOccupancy
<1> SUFFICES ASSUME OneOccupant, NEW s \in Sessions
             PROVE  Cardinality(OccupyingRuns(s)) <= 1
  BY DEF SingleOccupancy
<1>1. CASE OccupyingRuns(s) = {}
  BY <1>1, FS_EmptySet
<1>2. ASSUME NEW r \in OccupyingRuns(s)
      PROVE  Cardinality(OccupyingRuns(s)) <= 1
  <2>1. OccupyingRuns(s) = {r}
    BY <1>2 DEF OneOccupant
  <2>2. Cardinality({r}) = 1
    BY FS_Singleton
  <2> QED BY <2>1, <2>2
<1> QED BY <1>1, <1>2

\* A second occupant would have to pass the recheck or come back from an outcome.
LEMMA NextOneOccupant ==
  ASSUME WellFormed, OneOccupant, [Next]_vars
  PROVE  OneOccupant'
<1>1. runs \in [Runs -> RunRecord]
  BY DEF WellFormed, TypeOK
<1>2. CASE runs' = runs
  BY <1>2 DEF OneOccupant, OccupyingRuns, Occupies
<1>3. ASSUME NEW r \in Created, Rewritten(r)
      PROVE  OneOccupant'
  <2>1. ASSUME NEW x \in Runs, Occupies(x)'
        PROVE  Occupies(x) /\ runs'[x].sessionId = runs[x].sessionId
    BY <1>3, <1>1, <2>1 DEF Rewritten, Occupies, Terminated, Created, OccupyingStatuses,
       TerminalStatuses, RunRecord, RunStatuses
  <2> QED BY <2>1 DEF OneOccupant, OccupyingRuns
<1>4. ASSUME NEW r \in Runs, NEW q \in Requests, NEW s \in Sessions,
             runs' = [runs EXCEPT ![r] =
               [status |-> "starting", requestId |-> q, sessionId |-> s,
                transportTurnId |-> None, handoffRequestId |-> None,
                controlGeneration |-> sessions[s].controlGeneration]],
             Admissible(s, q)
      PROVE  OneOccupant'
  <2>1. OccupyingRuns(s) = {}
    BY <1>4 DEF Admissible
  <2>2. /\ runs'[r].sessionId = s
        /\ \A x \in Runs \ {r} : runs'[x] = runs[x]
    BY <1>4, <1>1
  <2> QED BY <2>1, <2>2 DEF OneOccupant, OccupyingRuns, Occupies
<1> QED BY <1>2, <1>3, <1>4, RunChanges

\* At most one Run occupies a Session, however many handler threads start Runs on
\* it at once: start_run looks again under the lock that creates the Run
\* (gateway.py:1106, 1143).
THEOREM OneRunAtATime == Spec => []SingleOccupancy
<1>1. Init => OneOccupant
  BY DEF Init, Absent, OneOccupant, OccupyingRuns, Occupies, OccupyingStatuses
<1>2. WellFormed /\ OneOccupant /\ [Next]_vars => OneOccupant'
  BY NextOneOccupant
<1>3. OneOccupant => SingleOccupancy
  BY OneOccupantCounts
<1> QED BY <1>1, <1>2, <1>3, AlwaysWellFormed, PTL DEF Spec

-----------------------------------------------------------------------------
(* One Run per request                                                     *)

\* A requestId is given to a new Run only if no Run carries it.
LEMMA NextOneRunPerRequest ==
  ASSUME WellFormed, OneRunPerRequest, [Next]_vars
  PROVE  OneRunPerRequest'
<1>1. runs \in [Runs -> RunRecord]
  BY DEF WellFormed, TypeOK
<1>2. CASE runs' = runs
  BY <1>2 DEF OneRunPerRequest
<1>3. ASSUME NEW r \in Created, Rewritten(r)
      PROVE  OneRunPerRequest'
  BY <1>3 DEF OneRunPerRequest, Rewritten, Created
<1>4. ASSUME NEW r \in Runs, NEW q \in Requests, NEW s \in Sessions,
             runs' = [runs EXCEPT ![r] =
               [status |-> "starting", requestId |-> q, sessionId |-> s,
                transportTurnId |-> None, handoffRequestId |-> None,
                controlGeneration |-> sessions[s].controlGeneration]],
             Admissible(s, q)
      PROVE  OneRunPerRequest'
  <2>1. /\ runs'[r].requestId = q
        /\ \A x \in Runs \ {r} : runs'[x] = runs[x]
        /\ \A x \in Runs : runs[x].requestId # q
    BY <1>4, <1>1 DEF Admissible
  <2> QED BY <2>1 DEF OneRunPerRequest
<1> QED BY <1>2, <1>3, <1>4, RunChanges

\* A requestId names one Run for good, however often and however concurrently its
\* start_run is repeated (gateway.py:1129).
THEOREM RequestNamesOneRun == Spec => []OneRunPerRequest
<1>1. Init => OneRunPerRequest
  BY DEF Init, Absent, OneRunPerRequest
<1>2. WellFormed /\ OneRunPerRequest /\ [Next]_vars => OneRunPerRequest'
  BY NextOneRunPerRequest
<1> QED BY <1>1, <1>2, AlwaysWellFormed, PTL DEF Spec

-----------------------------------------------------------------------------
(* The control generation                                                  *)

\* A Run takes the generation of a managed Session; later writes respect it.
LEMMA NextGenerationFencesRun ==
  ASSUME WellFormed, GenerationFencesRun, [Next]_vars
  PROVE  GenerationFencesRun'
<1>1. /\ runs \in [Runs -> RunRecord]
      /\ \A s \in Sessions : sessions[s] \in SessionRecord
      /\ \A s \in Sessions : sessions'[s] \in SessionRecord
      /\ \A s \in Sessions : Fenced(sessions[s], sessions'[s])
      /\ \A r \in Runs : runs[r].controlGeneration \in Nat
      /\ \A r \in Created : /\ runs[r].sessionId \in Sessions
                            /\ sessions[runs[r].sessionId].registered
  BY NextWellFormed, StepWrites DEF WellFormed, TypeOK, SessionWrite, BoardConsistent,
     RunRecord
<1>2. ASSUME NEW r \in Created, runs'[r].sessionId = runs[r].sessionId,
             runs'[r].controlGeneration = runs[r].controlGeneration
      PROVE  LET session == sessions'[runs'[r].sessionId]
             IN  /\ runs'[r].controlGeneration <= session.controlGeneration
                 /\ runs'[r].controlGeneration = session.controlGeneration
                      => session.controlMode = "managed"
  <2> DEFINE s == runs[r].sessionId
  <2>1. s \in Sessions /\ sessions[s].registered
    BY <1>1
  <2>2. /\ runs[r].controlGeneration <= sessions[s].controlGeneration
        /\ runs[r].controlGeneration = sessions[s].controlGeneration
             => sessions[s].controlMode = "managed"
    BY DEF GenerationFencesRun, Created
  <2>3. /\ runs[r].controlGeneration \in Nat
        /\ sessions[s].controlGeneration \in Nat
        /\ sessions'[s].controlGeneration \in Nat
        /\ sessions'[s].controlMode \in {"managed", "external"}
    BY <1>1, <2>1 DEF Created, SessionRecord
  <2>4. Fenced(sessions[s], sessions'[s])
    BY <1>1, <2>1
  <2> QED BY <1>2, <2>1, <2>2, <2>3, <2>4 DEF Fenced, Switched, HandedBack
<1>3. CASE runs' = runs
  BY <1>2, <1>3 DEF GenerationFencesRun, Created
<1>4. ASSUME NEW r \in Created, Rewritten(r)
      PROVE  GenerationFencesRun'
  BY <1>2, <1>4 DEF GenerationFencesRun, Created, Rewritten
<1>5. ASSUME NEW r \in Runs, NEW q \in Requests, NEW s \in Sessions,
             runs' = [runs EXCEPT ![r] =
               [status |-> "starting", requestId |-> q, sessionId |-> s,
                transportTurnId |-> None, handoffRequestId |-> None,
                controlGeneration |-> sessions[s].controlGeneration]],
             sessions' = sessions, Admissible(s, q)
      PROVE  GenerationFencesRun'
  <2>1. /\ runs'[r].sessionId = s
        /\ runs'[r].controlGeneration = sessions[s].controlGeneration
        /\ \A x \in Runs \ {r} : runs'[x] = runs[x]
    BY <1>5, <1>1
  <2>2. sessions[s].controlGeneration \in Nat /\ sessions[s].controlMode = "managed"
    BY <1>1, <1>5 DEF Admissible, SessionRecord
  <2> QED BY <1>5, <2>1, <2>2 DEF GenerationFencesRun
<1> QED BY <1>3, <1>4, <1>5, RunChanges

\* While a Run's controlGeneration is still the Session's, nobody has taken the
\* Session over: handoff, projection and put_session all move the generation on
\* (gateway.py:969, 602, 1057).
THEOREM GenerationIsAFence == Spec => []GenerationFencesRun
<1>1. Init => GenerationFencesRun
  BY DEF Init, Absent, GenerationFencesRun
<1>2. WellFormed /\ GenerationFencesRun /\ [Next]_vars => GenerationFencesRun'
  BY NextGenerationFencesRun
<1> QED BY <1>1, <1>2, AlwaysWellFormed, PTL DEF Spec

\* controlGeneration moves by one exactly when a Session changes its thread or its
\* mode, whichever thread writes it; only the failure of a handoff hands a Session
\* back without a move (gateway.py:603, 969, 1006, 1032, 1057).
THEOREM GenerationsCountSwitches == Spec => GenerationCountsTakeovers
<1> DEFINE Counts(s) ==
      sessions[s].registered =>
        LET before == sessions[s]
            after  == sessions'[s]
            moved  == Switched(before, after) /\ ~HandedBack(before, after)
        IN  after.controlGeneration =
              before.controlGeneration + (IF moved THEN 1 ELSE 0)
<1>1. ASSUME WellFormed, [Next]_vars, NEW s \in Sessions
      PROVE  Counts(s)
  <2>1. Fenced(sessions[s], sessions'[s])
    BY <1>1, StepWrites DEF SessionWrite
  <2>2. sessions[s].controlGeneration \in Nat
    BY <1>1, RecordTypes DEF WellFormed, SessionRecord
  <2> QED BY <2>1, <2>2 DEF Fenced, Switched, HandedBack
<1>2. WellFormed /\ [Next]_vars => [\A s \in Sessions : Counts(s)]_vars
  BY <1>1
<1> QED BY <1>2, AlwaysWellFormed, PTL DEF Spec, GenerationCountsTakeovers

-----------------------------------------------------------------------------
(* Outcomes                                                                *)

\* An outcome once given stays, whichever of the threads that write a Run's
\* status comes last (gateway.py:1390, 1423, 1210, 987, 999).
THEOREM OutcomesAreFinal == Spec => TerminalIsFinal
<1>1. WellFormed /\ [Next]_vars
        => [\A r \in Runs : Terminated(r) => runs'[r].status = runs[r].status]_vars
  <2> SUFFICES ASSUME WellFormed, [Next]_vars, NEW r \in Runs, Terminated(r)
               PROVE  runs'[r].status = runs[r].status
    OBVIOUS
  <2>1. runs \in [Runs -> RunRecord]
    BY DEF WellFormed, TypeOK
  <2>2. ASSUME NEW x \in Runs, runs[x] = Absent, \A y \in Runs \ {x} : runs'[y] = runs[y]
        PROVE  runs'[r].status = runs[r].status
    BY <2>2 DEF Terminated, TerminalStatuses, Absent
  <2> QED BY <2>1, <2>2, RunChanges DEF Rewritten
<1> QED BY <1>1, AlwaysWellFormed, PTL DEF Spec, TerminalIsFinal

-----------------------------------------------------------------------------
(* Outcomes stay facts                                                     *)

\* A start_run under way has been under way with this Run, or creates it.
LEMMA StartersWere ==
  ASSUME WellFormed, NEW c \in Callers, [Next]_vars, calls'[c].pc \in StartedPhases
  PROVE  \/ /\ calls[c].pc \in StartedPhases /\ calls'[c].run = calls[c].run
            /\ calls[c].run \in Created
         \/ Creates(c)
<1>1. CallMoves(c)
  BY CallsMove
<1>2. calls[c].pc \in StartedPhases => calls[c].run \in Created
  BY DEF WellFormed, CallsConsistent
<1> QED BY <1>1, <1>2 DEF CallMoves, Leaves, Accepted, GoesOn, Onward, Controls, StartedPhases,
   ControlPhases

\* Only one start_run is under way with a Run.
LEMMA StartersAreOne ==
  ASSUME WellFormed, Provenance, NEW c \in Callers, NEW d \in Callers,
         calls[c].pc \in StartedPhases, calls[d].pc \in StartedPhases,
         calls[c].run = calls[d].run
  PROVE  c = d
BY DEF Provenance, StarterAlone

\* And one remains.
LEMMA StartersStayOne ==
  ASSUME WellFormed, Provenance, NEW c \in Callers, NEW d \in Callers, [Next]_vars,
         calls'[c].pc \in StartedPhases, calls'[d].pc \in StartedPhases,
         calls'[c].run = calls'[d].run
  PROVE  c = d
<1>1. ASSUME NEW a \in Callers, NEW b \in Callers, Creates(a), calls'[a].run = calls'[b].run,
             calls'[b].pc \in StartedPhases
      PROVE  a = b
  <2>1. calls'[a].run \notin Created
    BY <1>1 DEF Creates, Created, Absent
  <2>2. CASE a # b
    <3>1. calls'[b] = calls[b]
      BY <1>1, <2>2 DEF Creates
    <3>2. calls[b].run \in Created
      BY <1>1, <3>1 DEF WellFormed, CallsConsistent
    <3> QED BY <1>1, <2>1, <3>1, <3>2
  <2> QED BY <2>2
<1>2. \/ calls[c].pc \in StartedPhases /\ calls'[c].run = calls[c].run
      \/ Creates(c)
  BY StartersWere
<1>3. \/ calls[d].pc \in StartedPhases /\ calls'[d].run = calls[d].run
      \/ Creates(d)
  BY StartersWere
<1> QED BY <1>1, <1>2, <1>3, StartersAreOne

\* A recorded turn stays.
LEMMA RecordedStays ==
  ASSUME WellFormed, Provenance, NEW r \in Runs, [Next]_vars,
         runs[r].transportTurnId # None
  PROVE  runs'[r].transportTurnId = runs[r].transportTurnId
<1>1. RunMoves(r)
  BY RunsMove
<1>2. runs[r] # Absent
  BY DEF Absent
<1>3. ASSUME NEW c \in Callers, calls[c].pc = "start.finish"
      PROVE  calls[c].run # r
  BY <1>3 DEF Provenance, StarterAlone, StartedPhases
<1> QED BY <1>1, <1>2, <1>3 DEF RunMoves, RunKept

\* A Run stays on the board.
LEMMA CreatedStays ==
  ASSUME WellFormed, Provenance, NEW r \in Created, [Next]_vars
  PROVE  r \in Created'
<1>1. RunMoves(r)
  BY RunsMove DEF Created
<1>2. runs[r].status # "absent" /\ r \in Runs /\ runs[r] # Absent
  BY DEF Created, Absent
<1>3. Confirmed(runs[r].status) # "absent"
  BY <1>2 DEF Confirmed
<1>4. runs'[r].status # "absent"
  BY <1>1, <1>2, <1>3 DEF RunMoves, RunKept, OccupyingStatuses, TerminalStatuses
<1> QED BY <1>2, <1>4 DEF Created

\* The Run of a start_run under way has no turn recorded by anybody else.
LEMMA StarterRecords ==
  ASSUME WellFormed, Provenance, NEW c \in Callers, [Next]_vars,
         calls[c].pc \in StartedPhases, calls'[c].pc \in StartedPhases
  PROVE  runs'[calls[c].run].transportTurnId = None
<1>1. calls[c].run \in Created /\ runs[calls[c].run].transportTurnId = None
  BY DEF WellFormed, CallsConsistent, Provenance, StarterAlone
<1>2. RunMoves(calls[c].run)
  BY <1>1, RunsMove DEF Created
<1>3. ASSUME NEW d \in Callers, calls[d].pc = "start.finish", calls[d].run = calls[c].run,
             calls'[d].pc = "idle"
      PROVE  FALSE
  <2>1. c = d
    BY <1>3, StartersAreOne DEF StartedPhases
  <2> QED BY <1>3, <2>1 DEF StartedPhases
<1> QED BY <1>1, <1>2, <1>3 DEF RunMoves, RunKept

\* Nobody reports on the Run of a start_run that has not registered its callback.
LEMMA StarterUnreported ==
  ASSUME WellFormed, Provenance, NEW c \in Callers, NEW r \in Runs, [Next]_vars,
         calls[c].pc \in Unreported, calls'[c].pc \in Unreported, calls[c].run = r
  PROVE  runs'[r].status = "starting" /\ ~Reported(r)'
<1>1. calls[c].pc \in StartedPhases
  BY DEF Unreported, StartedPhases
<1>2. /\ runs[r].transportTurnId = None
      /\ runs[r].status = "starting" /\ ~Reported(r)
  BY <1>1 DEF Provenance, StarterAlone
<1>3. ASSUME NEW d \in Callers, calls[d].run = r, calls'[d].pc \notin Unreported,
             calls[d].pc \in StartedPhases
      PROVE  FALSE
  <2>1. c = d
    BY <1>1, <1>3, StartersAreOne
  <2> QED BY <1>3, <2>1
<1>4. runs'[r].status = "starting"
  <2>1. RunMoves(r)
    BY RunsMove
  <2>2. runs[r] # Absent
    BY <1>2 DEF Absent
  <2>3. ~Cause(r)
    BY <1>2, <1>3 DEF Cause, StartedPhases
  <2>4. ~\E d \in Callers :
            calls[d].pc = "start.finish" /\ calls[d].run = r /\ calls'[d].pc = "idle"
    BY <1>3 DEF StartedPhases, Unreported
  <2> QED BY <1>2, <2>1, <2>2, <2>3, <2>4 DEF RunMoves, RunKept
<1>5. ~Reported(r)'
  <2>1. ReportMoves(r)
    BY ReportsAppear
  <2>2. ~\E d \in Callers :
            /\ calls[d].pc = "start.reply" /\ calls[d].run = r
            /\ calls'[d].pc \in {"start.take", "start.finish"}
    BY <1>3 DEF StartedPhases, Unreported
  <2> QED BY <1>2, <2>1, <2>2 DEF ReportMoves
<1> QED BY <1>4, <1>5

\* No turn is for a Run whose turn has not been asked for.
LEMMA StarterTurnless ==
  ASSUME WellFormed, Provenance, NEW c \in Callers, NEW r \in Runs, [Next]_vars,
         calls[c].pc \in {"start.remember", "start.rpc"}, calls[c].run = r,
         calls'[c].pc \in {"start.remember", "start.rpc"}, NEW t \in Turns
  PROVE  turns'[t].run # r
<1>1. calls[c].pc \in StartedPhases
  BY DEF StartedPhases
<1>2. turns[t].run # r
  BY <1>1 DEF Provenance, StarterAlone
<1>3. ASSUME NEW d \in Callers, calls[d].pc = "start.rpc", calls[d].run = r,
             calls'[d].pc = "start.reply"
      PROVE  FALSE
  <2>1. c = d
    BY <1>1, <1>3, StartersAreOne DEF StartedPhases
  <2> QED BY <1>3, <2>1
<1>4. TurnMoves(t)
  BY TurnsMove
<1> QED BY <1>2, <1>3, <1>4, ConstantsAssumption DEF TurnMoves

\* A start_run under way keeps its turn.
LEMMA StarterHasTurn ==
  ASSUME WellFormed, Provenance, NEW c \in Callers, NEW r \in Runs, [Next]_vars,
         calls[c].pc \in StartedPhases, calls[c].run = r, calls'[c].pc \in HasTurn
  PROVE  turns'[calls'[c].turn].run = r
<1>1. CallMoves(c)
  BY CallsMove
<1>2. CASE Accepted(c)
  BY <1>2 DEF Accepted
<1>3. CASE ~Accepted(c)
  <2>1. calls[c].pc \in HasTurn /\ calls'[c].turn = calls[c].turn
    BY <1>1, <1>3 DEF CallMoves, Leaves, Creates, GoesOn, Onward, Controls, HasTurn,
       StartedPhases, ControlPhases
  <2>2. turns[calls[c].turn].run = r
    BY <2>1 DEF Provenance, StarterAlone
  <2>3. calls[c].turn \in Turns
    BY <2>1 DEF WellFormed, CallsConsistent, LocalsSet, TurnPhases, HasTurn
  <2> QED BY <2>1, <2>2, <2>3, TurnStays, ConstantsAssumption
<1> QED BY <1>2, <1>3

\* A start_run that is alone with its Run stays so.
LEMMA NextStarterAlone ==
  ASSUME WellFormed, Provenance, NEW c \in Callers, [Next]_vars
  PROVE  StarterAlone(c)'
<1> SUFFICES ASSUME calls'[c].pc \in StartedPhases
             PROVE  StarterAlone(c)'
  BY DEF StarterAlone
<1>1. \A d \in Callers :
        calls'[d].pc \in StartedPhases /\ calls'[d].run = calls'[c].run => c = d
  BY StartersStayOne
<1>2. ASSUME NEW r \in Runs, calls[c].pc \in StartedPhases, calls[c].run = r,
             calls'[c].run = r
      PROVE  StarterAlone(c)'
  <2>1. runs'[r].transportTurnId = None
    BY <1>2, StarterRecords
  <2>2. calls'[c].pc \in Unreported => calls[c].pc \in Unreported
    <3>1. CallMoves(c)
      BY CallsMove
    <3> QED BY <1>2, <3>1 DEF CallMoves, Leaves, Creates, Accepted, GoesOn, Onward, Controls,
       Unreported, StartedPhases, ControlPhases
  <2>3. calls'[c].pc \in Unreported => runs'[r].status = "starting" /\ ~Reported(r)'
    BY <1>2, <2>2, StarterUnreported
  <2>4. calls'[c].pc \in {"start.remember", "start.rpc"} =>
          calls[c].pc \in {"start.remember", "start.rpc"}
    <3>1. CallMoves(c)
      BY CallsMove
    <3> QED BY <1>2, <3>1 DEF CallMoves, Leaves, Creates, Accepted, GoesOn, Onward, Controls,
       StartedPhases, ControlPhases
  <2>5. calls'[c].pc \in {"start.remember", "start.rpc"} => \A t \in Turns : turns'[t].run # r
    BY <1>2, <2>4, StarterTurnless
  <2>6. calls'[c].pc \in HasTurn => turns'[calls'[c].turn].run = r
    BY <1>2, StarterHasTurn
  <2> HIDE DEF Unreported, HasTurn
  <2> QED BY <1>1, <1>2, <2>1, <2>3, <2>5, <2>6 DEF StarterAlone, Reported
<1>3. ASSUME NEW r \in Runs, runs[r] = Absent, runs'[r].status = "starting",
             runs'[r].transportTurnId = None, calls'[c].run = r,
             calls[c].pc = "start.create", calls'[c].pc = "start.remember"
      PROVE  StarterAlone(c)'
  <2>1. r \notin Created /\ None \notin Runs
    BY <1>3, ConstantsAssumption DEF Absent, Created
  <2>2. ASSUME NEW d \in Callers, calls[d].pc \in StartedPhases
        PROVE  calls[d].run # r
    BY <2>1, <2>2 DEF WellFormed, CallsConsistent
  <2>3. ~Reported(r)
    BY <2>1 DEF WellFormed, ReferencesConsistent, Reported
  <2>4. ~Reported(r)'
    <3>1. ReportMoves(r)
      BY ReportsAppear
    <3> QED BY <2>2, <2>3, <3>1 DEF ReportMoves, StartedPhases
  <2>5. ASSUME NEW t \in Turns
        PROVE  turns'[t].run # r
    <3>1. turns[t].run # r
      BY <2>1 DEF Provenance, TurnOfOneRun
    <3>2. TurnMoves(t)
      BY TurnsMove
    <3> QED BY <2>1, <2>2, <3>1, <3>2 DEF TurnMoves, StartedPhases
  <2> QED BY <1>1, <1>3, <2>4, <2>5 DEF StarterAlone, Reported, HasTurn
<1>4. \/ calls[c].pc \in StartedPhases /\ calls'[c].run = calls[c].run /\ calls[c].run \in Runs
      \/ Creates(c)
  BY StartersWere DEF Created
<1> QED BY <1>2, <1>3, <1>4 DEF Creates

\* An interrupt or handoff is still about a Run with a recorded turn.
LEMMA NextControlsRecorded ==
  ASSUME WellFormed, Provenance, NEW c \in Callers, [Next]_vars
  PROVE  ControlsRecorded(c)'
<1> SUFFICES ASSUME calls'[c].pc \in ControlPhases
             PROVE  runs'[calls'[c].run].transportTurnId # None
  BY DEF ControlsRecorded
<1>1. calls'[c].run \in Runs /\ runs[calls'[c].run].transportTurnId # None
  <2>1. CallMoves(c)
    BY CallsMove
  <2>2. calls[c].pc \in ControlPhases =>
          calls[c].run \in Runs /\ runs[calls[c].run].transportTurnId # None
    BY DEF WellFormed, CallsConsistent, Created, Provenance, ControlsRecorded
  <2> QED BY <2>1, <2>2 DEF CallMoves, Leaves, Creates, Accepted, GoesOn, Onward, Controls,
     ControlPhases
<1> QED BY <1>1, RecordedStays

\* A turn stays one Run's at most, and so does its callback.
LEMMA NextTurnOfOneRun ==
  ASSUME WellFormed, Provenance, NEW t \in Turns, [Next]_vars
  PROVE  TurnOfOneRun(t)'
<1>a. None \notin Runs
  BY ConstantsAssumption
<1>b. ASSUME NEW d \in Callers, calls[d].pc = "start.rpc"
      PROVE  /\ calls[d].run \in Created /\ calls[d].run \in Runs
             /\ \A u \in Turns : turns[u].run # calls[d].run
  BY <1>b DEF WellFormed, CallsConsistent, StartedPhases, Provenance, StarterAlone, Created
<1>c. ASSUME NEW u \in Turns
      PROVE  \/ turns'[u].run = turns[u].run
             \/ turns'[u].run = None
             \/ /\ \E d \in Callers :
                     calls[d].pc = "start.rpc" /\ turns'[u].run = calls[d].run
                /\ \A v \in Turns \ {u} : turns'[v] = turns[v]
  BY TurnsMove DEF TurnMoves
<1>1. turns'[t].run \in Created' \cup {None}
  <2>1. turns[t].run \in Created \cup {None}
    BY DEF Provenance, TurnOfOneRun
  <2>2. turns'[t].run \in Created \cup {None}
    BY <1>b, <1>c, <2>1
  <2> QED BY <2>2, CreatedStays
<1>2. ASSUME NEW u \in Turns, turns'[t].run # None, turns'[u].run = turns'[t].run
      PROVE  t = u
  <2>1. CASE turns'[t].run = turns[t].run /\ turns'[u].run = turns[u].run
    BY <1>2, <2>1 DEF Provenance, TurnOfOneRun
  <2>2. CASE turns'[t].run # turns[t].run
    <3>1. PICK d \in Callers : calls[d].pc = "start.rpc" /\ turns'[t].run = calls[d].run
      BY <1>2, <1>c, <2>2
    <3>2. \A v \in Turns \ {t} : turns'[v] = turns[v]
      BY <1>2, <1>c, <2>2
    <3> QED BY <1>2, <1>b, <3>1, <3>2
  <2>3. CASE turns'[u].run # turns[u].run
    <3>1. PICK d \in Callers : calls[d].pc = "start.rpc" /\ turns'[u].run = calls[d].run
      BY <1>2, <1>c, <2>3
    <3>2. \A v \in Turns \ {u} : turns'[v] = turns[v]
      BY <1>2, <1>c, <2>3
    <3> QED BY <1>2, <1>b, <3>1, <3>2
  <2> QED BY <2>1, <2>2, <2>3
<1>3. watched'[t] # None => turns'[t].run = watched'[t]
  <2>1. WatchMoves(t)
    BY WatchesMove
  <2>2. watched[t] # None => turns[t].run = watched[t]
    BY DEF Provenance, TurnOfOneRun
  <2>3. ASSUME NEW d \in Callers, calls[d].pc = "start.reply", calls[d].turn = t
        PROVE  turns[t].run = calls[d].run
    BY <2>3 DEF Provenance, StarterAlone, StartedPhases, HasTurn
  <2> QED BY <2>1, <2>2, <2>3, TurnStays DEF WatchMoves
<1> QED BY <1>1, <1>2, <1>3 DEF TurnOfOneRun

\* What is about to be reported of r stays the status of r's turn.
LEMMA NextReportIsFact ==
  ASSUME WellFormed, Provenance, NEW r \in Runs, [Next]_vars
  PROVE  ReportIsFact(r)'
<1>a. /\ ReportIsFact(r) /\ None \notin Runs
      /\ runs[r].transportTurnId \in Turns \cup {None}
      /\ reconcile[r].fact \in TerminalStatuses \cup {"none"}
  BY ConstantsAssumption DEF Provenance, WellFormed, TypeOK, RunRecord, WorkerRecord
<1>b. runs[r].transportTurnId # None =>
        /\ runs'[r].transportTurnId = runs[r].transportTurnId
        /\ runs[r].transportTurnId \in Turns
  BY <1>a, RecordedStays
<1>1. runs'[r].transportTurnId # None => turns'[runs'[r].transportTurnId].run = r
  <2>1. CASE runs[r].transportTurnId # None
    BY <1>a, <1>b, <2>1, TurnStays DEF ReportIsFact
  <2>2. CASE runs[r].transportTurnId = None
    <3>1. RunMoves(r)
      BY RunsMove
    <3>2. ASSUME NEW c \in Callers, calls[c].pc = "start.finish", calls[c].run = r
          PROVE  turns[calls[c].turn].run = r /\ calls[c].turn \in Turns
      BY <3>2 DEF Provenance, StarterAlone, StartedPhases, HasTurn, WellFormed,
         CallsConsistent, LocalsSet, TurnPhases
    <3>3. ASSUME NEW c \in Callers, calls[c].pc = "start.finish", calls[c].run = r,
                 runs'[r].transportTurnId = calls[c].turn
          PROVE  turns'[runs'[r].transportTurnId].run = r
      BY <1>a, <3>2, <3>3, TurnStays
    <3> QED BY <2>2, <3>1, <3>3 DEF RunMoves, RunKept
  <2> QED BY <2>1, <2>2
<1>2. reader'.pc = "callback" /\ reader'.run = r => turns'[reader'.message.turn].run = r
  <2>1. ReaderMoves
    BY ReaderMovesOn
  <2>2. reader.pc = "callback" => reader.message.turn \in Turns
    BY DEF WellFormed, ReferencesConsistent
  <2>3. \A t \in Turns : watched[t] # None => turns[t].run = watched[t]
    BY DEF Provenance, TurnOfOneRun
  <2> QED BY <1>a, <2>1, <2>2, <2>3, TurnStays DEF ReaderMoves, ReportIsFact
<1>3. probed'[r] \in TerminalStatuses =>
        \E t \in Turns : turns'[t].run = r /\ turns'[t].status = probed'[r]
  <2>1. ProbeMoves(r)
    BY ProbesMove
  <2>2. CASE probed'[r] = probed[r] /\ probed'[r] \in TerminalStatuses
    <3>1. PICK t \in Turns : turns[t].run = r /\ turns[t].status = probed[r]
      BY <1>a, <2>2 DEF ReportIsFact
    <3>2. turns'[t] = turns[t]
      BY <2>2, <3>1, TurnStays
    <3> QED BY <2>2, <3>1, <3>2
  <2>3. ASSUME NEW t \in Turns, watched[t] = r, turns' = turns, probed'[r] = turns[t].status
        PROVE  \E u \in Turns : turns'[u].run = r /\ turns'[u].status = probed'[r]
    BY <1>a, <2>3 DEF Provenance, TurnOfOneRun
  <2> QED BY <2>1, <2>2, <2>3 DEF ProbeMoves, TerminalStatuses
<1>w. WorkerMoves(r)
  BY WorkersMove
<1>4. reconcile'[r].pc = "list" => runs'[r].transportTurnId # None
  BY <1>a, <1>b, <1>w DEF WorkerMoves, ReportIsFact
<1>5. ASSUME reconcile'[r].fact # "none"
      PROVE  /\ runs'[r].transportTurnId # None
             /\ turns'[runs'[r].transportTurnId].status = reconcile'[r].fact
  <2>1. CASE reconcile'[r].fact = reconcile[r].fact
    <3>1. /\ runs[r].transportTurnId # None
          /\ turns[runs[r].transportTurnId].status = reconcile[r].fact
      BY <1>a, <1>5, <2>1 DEF ReportIsFact
    <3>2. turns'[runs[r].transportTurnId] = turns[runs[r].transportTurnId]
      BY <1>a, <1>b, <1>5, <2>1, <3>1, TurnStays
    <3> QED BY <1>b, <2>1, <3>1, <3>2
  <2>2. CASE reconcile'[r].fact # reconcile[r].fact
    <3>1. /\ reconcile[r].pc = "list" /\ turns' = turns
          /\ reconcile'[r].fact = turns[runs[r].transportTurnId].status
      BY <1>5, <1>w, <2>2 DEF WorkerMoves
    <3>2. runs[r].transportTurnId # None
      BY <1>a, <3>1 DEF ReportIsFact
    <3> QED BY <1>b, <3>1, <3>2
  <2> QED BY <2>1, <2>2
<1> QED BY <1>1, <1>2, <1>3, <1>4, <1>5 DEF ReportIsFact

\* Who may record a turn for r could before, unless its start_run has just begun.
LEMMA MayRecordWas ==
  ASSUME WellFormed, Provenance, NEW r \in Runs, [Next]_vars, Terminated(r),
         runs'[r].transportTurnId = runs[r].transportTurnId, MayRecord(r)'
  PROVE  MayRecord(r)
<1>1. CASE runs[r].transportTurnId # None
  BY <1>1 DEF MayRecord
<1>2. ASSUME NEW c \in Callers, calls'[c].pc \in HasTurn, calls'[c].run = r
      PROVE  MayRecord(r)
  <2>1. CallMoves(c)
    BY CallsMove
  <2>2. ~(calls[c].pc = "start.rpc" /\ calls[c].run = r)
    BY DEF Provenance, StarterAlone, StartedPhases, Unreported, Terminated, TerminalStatuses
  <2>3. calls[c].pc \in HasTurn /\ calls[c].run = r
    BY <1>2, <2>1, <2>2 DEF CallMoves, Leaves, Creates, Accepted, GoesOn, Onward, Controls,
       HasTurn, StartedPhases, ControlPhases
  <2> QED BY <2>3 DEF MayRecord
<1> QED BY <1>1, <1>2 DEF MayRecord

\* What is reported of a Run that has a turn is that turn's status.
LEMMA SourceIsTurn ==
  ASSUME WellFormed, Provenance, NEW r \in Runs, NEW v \in TerminalStatuses, Source(r, v),
         NEW t \in Turns, turns[t].run = r
  PROVE  \/ turns[t].status = v
         \/ \E c \in Callers :
              calls[c].run = r /\ calls[c].pc = "start.refused" /\ calls'[c].pc = "idle"
<1>a. None \notin Runs /\ ReportIsFact(r)
  BY ConstantsAssumption DEF Provenance
<1>b. ASSUME NEW u \in Turns, turns[u].run = r
      PROVE  t = u
  BY <1>a, <1>b DEF Provenance, TurnOfOneRun
<1>1. CASE reader.pc = "callback" /\ reader.run = r /\ turns[reader.message.turn].status = v
  <2>1. reader.message.turn \in Turns /\ turns[reader.message.turn].run = r
    BY <1>a, <1>1 DEF ReportIsFact, WellFormed, ReferencesConsistent
  <2> QED BY <1>b, <1>1, <2>1
<1>2. CASE probed[r] = v
  <2>1. PICK u \in Turns : turns[u].run = r /\ turns[u].status = probed[r]
    BY <1>a, <1>2 DEF ReportIsFact
  <2> QED BY <1>b, <1>2, <2>1
<1>3. CASE /\ runs[r].transportTurnId # None
           /\ turns[runs[r].transportTurnId].status = v
  <2>1. runs[r].transportTurnId \in Turns /\ turns[runs[r].transportTurnId].run = r
    BY <1>a, <1>3 DEF ReportIsFact, WellFormed, TypeOK, RunRecord
  <2> QED BY <1>b, <1>3, <2>1
<1>4. ASSUME NEW c \in Callers, calls[c].run = r, calls[c].pc = "start.orphan",
             turns[calls[c].turn].status = v
      PROVE  turns[t].status = v
  <2>1. calls[c].turn \in Turns /\ turns[calls[c].turn].run = r
    BY <1>4 DEF Provenance, StarterAlone, StartedPhases, HasTurn, WellFormed,
       CallsConsistent, LocalsSet, TurnPhases
  <2> QED BY <1>b, <1>4, <2>1
<1> QED BY <1>1, <1>2, <1>3, <1>4 DEF Source

\* The outcome of a Run that has a turn remains that turn's.
LEMMA NextEndIsTurns ==
  ASSUME WellFormed, Provenance, NEW r \in Runs, [Next]_vars
  PROVE  EndIsTurns(r)'
<1> SUFFICES ASSUME Terminated(r)', MayRecord(r)', NEW t \in Turns, turns'[t].run = r
             PROVE  turns'[t].status = runs'[r].status
  BY DEF EndIsTurns
<1>a. /\ None \notin Runs /\ runs'[r].status \in TerminalStatuses
      /\ EndIsTurns(r) /\ ReportIsFact(r)
  BY ConstantsAssumption DEF Terminated, Provenance
<1>1. CASE RunKept(r)
  <2>1. /\ Terminated(r) /\ runs'[r].transportTurnId = runs[r].transportTurnId
        /\ runs'[r].status = runs[r].status
    BY <1>a, <1>1 DEF RunKept, Terminated
  <2>2. MayRecord(r)
    BY <2>1, MayRecordWas
  <2>3. turns[t].run = r => turns[t].status = runs[r].status
    BY <1>a, <2>1, <2>2 DEF EndIsTurns
  <2>4. TurnMoves(t)
    BY TurnsMove
  <2>5. ~\E c \in Callers : calls[c].pc = "start.rpc" /\ calls[c].run = r
    BY <2>1 DEF Provenance, StarterAlone, StartedPhases, Unreported, Terminated,
       TerminalStatuses
  <2>6. runs[r].status # "running"
    BY <2>1 DEF Terminated, TerminalStatuses
  <2> QED BY <1>a, <2>1, <2>3, <2>4, <2>5, <2>6 DEF TurnMoves
<1>2. ASSUME NEW c \in Callers, calls[c].pc = "start.finish", calls[c].run = r,
             runs'[r].status = Confirmed(runs[r].status), turns' = turns
      PROVE  turns'[t].status = runs'[r].status
  <2>1. MayRecord(r)
    BY <1>2 DEF MayRecord, HasTurn
  <2>2. Terminated(r) /\ runs'[r].status = runs[r].status
    BY <1>a, <1>2 DEF Confirmed, Terminated, TerminalStatuses
  <2> QED BY <1>a, <1>2, <2>1, <2>2 DEF EndIsTurns
<1>3. ASSUME Source(r, runs'[r].status), turns' = turns,
             runs'[r].transportTurnId = runs[r].transportTurnId
      PROVE  turns'[t].status = runs'[r].status
  <2>1. CASE turns[t].status = runs'[r].status
    BY <1>3, <2>1
  <2>2. ASSUME NEW c \in Callers, calls[c].run = r, calls[c].pc = "start.refused",
               calls'[c].pc = "idle"
        PROVE  FALSE
    <3>1. runs[r].transportTurnId = None /\ calls[c].pc \in StartedPhases
      BY <2>2 DEF Provenance, StarterAlone, StartedPhases
    <3>2. PICK d \in Callers : calls'[d].pc \in HasTurn /\ calls'[d].run = r
      BY <1>3, <3>1 DEF MayRecord
    <3>3. calls[d].pc \in StartedPhases /\ calls[d].run = r
      BY <3>2, StartersWere DEF HasTurn, StartedPhases, Creates
    <3>4. c = d
      BY <2>2, <3>1, <3>3, StartersAreOne
    <3> QED BY <2>2, <3>2, <3>4 DEF HasTurn
  <2> QED BY <1>a, <1>3, <2>1, <2>2, SourceIsTurn
<1>4. RunMoves(r)
  BY RunsMove
<1> QED BY <1>a, <1>1, <1>2, <1>3, <1>4 DEF RunMoves, TerminalStatuses

\* Every step keeps where outcomes come from.
LEMMA NextProvenance ==
  ASSUME WellFormed, Provenance, [Next]_vars
  PROVE  Provenance'
<1>1. \A c \in Callers : (StarterAlone(c) /\ ControlsRecorded(c))'
  BY NextStarterAlone, NextControlsRecorded
<1>2. \A t \in Turns : TurnOfOneRun(t)'
  BY NextTurnOfOneRun
<1>3. \A r \in Runs : (ReportIsFact(r) /\ EndIsTurns(r))'
  BY NextReportIsFact, NextEndIsTurns
<1> QED BY <1>1, <1>2, <1>3 DEF Provenance

\* Initially there are no outcomes.
LEMMA InitProvenance == Init => Provenance
<1> SUFFICES ASSUME Init
             PROVE  Provenance
  OBVIOUS
<1>1. /\ \A r \in Runs : runs[r].status = "absent" /\ runs[r].transportTurnId = None
      /\ \A c \in Callers : calls[c].pc = "idle"
      /\ \A t \in Turns : watched[t] = None /\ turns[t].run = None
      /\ \A r \in Runs : /\ probed[r] = "none" /\ reconcile[r].pc = "none"
                         /\ reconcile[r].fact = "none"
      /\ reader.pc = "ready"
  BY DEF Init, InitProcess, Absent, IdleCall, NoTurn, NoWorker, ReadyReader
<1>2. \A c \in Callers : StarterAlone(c) /\ ControlsRecorded(c)
  BY <1>1 DEF StarterAlone, ControlsRecorded, StartedPhases, ControlPhases
<1>3. \A t \in Turns : TurnOfOneRun(t)
  BY <1>1 DEF TurnOfOneRun
<1>4. \A r \in Runs : ReportIsFact(r) /\ EndIsTurns(r)
  BY <1>1 DEF ReportIsFact, EndIsTurns, Terminated, TerminalStatuses
<1> QED BY <1>2, <1>3, <1>4 DEF Provenance

\* Outcomes come from turns, always (gateway.py:1175, 1404).
LEMMA AlwaysProvenance == Spec => []Provenance
BY InitProvenance, NextProvenance, AlwaysWellFormed, PTL DEF Spec

\* A Run that ends with a recorded turn ends the way the App Server says that turn
\* ended, whoever reports it and whenever: the terminal callback, a probe, the
\* reader thread, start_turn with an end that came first, or a reconcile worker
\* (gateway.py:1404, 1175, 534).
THEOREM OutcomesAreFacts == Spec => []OutcomeIsFact
<1>1. WellFormed /\ Provenance => OutcomeIsFact
  <2> SUFFICES ASSUME WellFormed, Provenance, NEW r \in Runs, Terminated(r),
                      runs[r].transportTurnId # None
               PROVE  turns[runs[r].transportTurnId].status = runs[r].status
    BY DEF OutcomeIsFact
  <2>1. runs[r].transportTurnId \in Turns
    BY DEF WellFormed, TypeOK, RunRecord
  <2>2. turns[runs[r].transportTurnId].run = r /\ EndIsTurns(r)
    BY DEF Provenance, ReportIsFact
  <2> QED BY <2>1, <2>2 DEF EndIsTurns, MayRecord
<1> QED BY <1>1, AlwaysWellFormed, AlwaysProvenance, PTL

-----------------------------------------------------------------------------
(* Live Runs are watched                                                   *)

\* A live Run keeps somebody who will report on it.
LEMMA NextAllWatched ==
  ASSUME WellFormed, Provenance, AllWatched, [Next]_vars
  PROVE  AllWatched'
<1> DEFINE Holders == {"start.rpc", "start.reply", "start.orphan", "start.refused",
                       "start.unknown"}
<1> SUFFICES ASSUME NEW r \in Runs, r \in live'
             PROVE  \/ Reported(r)'
                    \/ \E c \in Callers : calls'[c].pc \in Holders /\ calls'[c].run = r
  BY DEF AllWatched, Watched
<1>1. CASE r \notin live
  BY <1>1, LivesMove DEF LiveMoves
<1>2. CASE Reported(r)
  <2>1. ReportGoes(r)
    BY ReportsGo
  <2>2. ASSUME NEW c \in Callers, calls[c].pc = "start.take", calls'[c].pc = "start.orphan",
               calls[c].run = r
        PROVE  calls'[c].run = r
    BY <2>2, StartersWere DEF StartedPhases, Creates
  <2> QED BY <1>2, <2>1, <2>2 DEF ReportGoes
<1>3. ASSUME NEW c \in Callers, calls[c].pc \in Holders, calls[c].run = r
      PROVE  \/ Reported(r)'
             \/ calls'[c].pc \in Holders /\ calls'[c].run = r
  <2>1. CallMoves(c)
    BY CallsMove
  <2>2. CASE GoesOn(c) /\ calls[c].pc = "start.reply" /\ calls'[c].pc \notin Holders
    <3>1. watched'[calls[c].turn] = r
      BY <1>3, <2>2 DEF GoesOn, Onward
    <3>2. calls[c].turn \in Turns
      BY <2>2 DEF WellFormed, CallsConsistent, LocalsSet, TurnPhases
    <3> QED BY <3>1, <3>2 DEF Reported
  <2>3. CASE ~(GoesOn(c) /\ calls[c].pc = "start.reply" /\ calls'[c].pc \notin Holders)
    BY <1>3, <2>1, <2>3 DEF CallMoves, Leaves, Creates, Accepted, GoesOn, Onward, Controls,
       StartedPhases, ControlPhases
  <2> QED BY <2>2, <2>3
<1>4. r \in live => \/ Reported(r)
                    \/ \E c \in Callers : calls[c].pc \in Holders /\ calls[c].run = r
  BY DEF AllWatched, Watched
<1> HIDE DEF Holders
<1>5. CASE r \in live
  BY <1>2, <1>3, <1>4, <1>5
<1> QED BY <1>1, <1>5

\* Live Runs are watched, always (gateway.py:162, 1177).
LEMMA AlwaysWatched == Spec => []AllWatched
<1>1. Init => AllWatched
  BY DEF Init, InitProcess, AllWatched, Watched
<1>2. WellFormed /\ Provenance /\ AllWatched /\ [Next]_vars => AllWatched'
  BY NextAllWatched
<1> QED BY <1>1, <1>2, AlwaysWellFormed, AlwaysProvenance, PTL DEF Spec

\* Whatever start_run, the reader thread, a probe and a lost connection do to the
\* callback of a Run, while the Run is live one of them still holds it
\* (gateway.py:162, 1177).
THEOREM LiveRunsAreWatched == Spec => []LiveHasWatcher
<1>1. WellFormed /\ AllWatched => LiveHasWatcher
  <2> SUFFICES ASSUME WellFormed, AllWatched, NEW r \in live
               PROVE  \/ Reported(r)
                      \/ \E c \in Callers :
                           /\ calls[c].run = r
                           /\ calls[c].pc \in {"start.rpc", "start.reply", "start.take",
                                               "start.orphan", "start.refused",
                                               "start.unknown"}
    BY DEF LiveHasWatcher, Reported
  <2>1. r \in Runs
    BY DEF WellFormed, TypeOK
  <2> QED BY <2>1 DEF AllWatched, Watched
<1> QED BY <1>1, AlwaysWellFormed, AlwaysWatched, PTL

-----------------------------------------------------------------------------
(* What only one thing breaks                                              *)

\* The Run of a refused start_run has no turn.
RefusedTurnless(c) ==
  calls[c].pc = "start.refused" => \A t \in Turns : turns[t].run # calls[c].run

\* A Run that has ended has no turn that has not ended so.
EndedWithTurn(r) ==
  Terminated(r) => \A t \in Turns : turns[t].run = r => turns[t].status = runs[r].status

AllSettled ==
  /\ \A c \in Callers : RefusedTurnless(c)
  /\ \A r \in Runs : EndedWithTurn(r)

\* Only a lost connection refuses a start whose turn has begun.
LEMMA NextRefusedTurnless ==
  ASSUME WellFormed, Provenance, AllSettled, "disconnect" \notin Faults, [Next]_vars,
         NEW c \in Callers
  PROVE  RefusedTurnless(c)'
<1> SUFFICES ASSUME calls'[c].pc = "start.refused", NEW t \in Turns
             PROVE  turns'[t].run # calls'[c].run
  BY DEF RefusedTurnless
<1>1. CallMoves(c)
  BY CallsMove
<1>2. /\ calls[c].pc \in {"start.rpc", "start.refused"}
      /\ calls'[c].run = calls[c].run
  BY <1>1 DEF CallMoves, Leaves, Creates, Accepted, GoesOn, Onward, Controls, StartedPhases,
     ControlPhases
<1>3. calls[c].pc \in StartedPhases /\ calls[c].run \in Created /\ calls[c].run \in Runs
  BY <1>2 DEF WellFormed, CallsConsistent, StartedPhases, Created
<1>4. turns[t].run # calls[c].run
  BY <1>2, <1>3 DEF Provenance, StarterAlone, AllSettled, RefusedTurnless
<1>5. TurnMoves(t)
  BY TurnsMove
<1>6. ASSUME NEW d \in Callers, calls[d].pc = "start.rpc", calls'[d].pc = "start.reply",
             calls[d].run = calls[c].run
      PROVE  FALSE
  <2>1. c = d
    BY <1>3, <1>6, StartersAreOne DEF StartedPhases
  <2> QED BY <1>6, <2>1
<1> QED BY <1>2, <1>3, <1>4, <1>5, <1>6, ConstantsAssumption DEF TurnMoves

\* So whatever ends a Run that has a turn is that turn's end.
LEMMA NextEndedWithTurn ==
  ASSUME WellFormed, Provenance, AllSettled, [Next]_vars, NEW r \in Runs
  PROVE  EndedWithTurn(r)'
<1> SUFFICES ASSUME Terminated(r)', NEW t \in Turns, turns'[t].run = r
             PROVE  turns'[t].status = runs'[r].status
  BY DEF EndedWithTurn
<1>a. None \notin Runs /\ runs'[r].status \in TerminalStatuses /\ EndedWithTurn(r)
  BY ConstantsAssumption DEF Terminated, AllSettled
<1>1. CASE Terminated(r) /\ runs'[r].status = runs[r].status
  <2>1. turns[t].run = r => turns[t].status = runs[r].status
    BY <1>a, <1>1 DEF EndedWithTurn
  <2>2. TurnMoves(t)
    BY TurnsMove
  <2>3. ~\E c \in Callers : calls[c].pc = "start.rpc" /\ calls[c].run = r
    BY <1>1 DEF Provenance, StarterAlone, StartedPhases, Unreported, Terminated,
       TerminalStatuses
  <2>4. runs[r].status # "running"
    BY <1>1 DEF Terminated, TerminalStatuses
  <2> QED BY <1>a, <1>1, <2>1, <2>2, <2>3, <2>4 DEF TurnMoves
<1>2. ASSUME Source(r, runs'[r].status), turns' = turns
      PROVE  turns'[t].status = runs'[r].status
  <2>1. ASSUME NEW c \in Callers, calls[c].run = r, calls[c].pc = "start.refused"
        PROVE  FALSE
    BY <1>2, <2>1 DEF AllSettled, RefusedTurnless
  <2> QED BY <1>a, <1>2, <2>1, SourceIsTurn
<1>3. RunMoves(r)
  BY RunsMove
<1>4. Confirmed(runs[r].status) \in TerminalStatuses =>
        Terminated(r) /\ Confirmed(runs[r].status) = runs[r].status
  BY DEF Confirmed, Terminated, TerminalStatuses
<1>5. RunKept(r) => Terminated(r) /\ runs'[r].status = runs[r].status
  BY <1>a DEF RunKept, Terminated
<1> QED BY <1>a, <1>1, <1>2, <1>3, <1>4, <1>5 DEF RunMoves, TerminalStatuses

\* Unless a connection is lost, a Run the board calls ended has no turn running on
\* the App Server: no refusal, timeout, probe, crash or restart frees the Session
\* under a turn.  A lost connection does, as the run gateway_rejected shows
\* (gateway.py:1185; transport.py:770).
THEOREM EndedRunsHaveStopped ==
  "disconnect" \notin Faults /\ Spec => []TerminalRunHasNoRunningTurn
<1> DEFINE Connected == "disconnect" \notin Faults
<1>1. Init => AllSettled
  BY DEF Init, InitProcess, Absent, IdleCall, AllSettled, RefusedTurnless, EndedWithTurn,
     Terminated, TerminalStatuses
<1>2. Connected /\ WellFormed /\ Provenance /\ AllSettled /\ [Next]_vars => AllSettled'
  <2> SUFFICES ASSUME Connected, WellFormed, Provenance, AllSettled, [Next]_vars
               PROVE  AllSettled'
    OBVIOUS
  <2>1. \A c \in Callers : RefusedTurnless(c)'
    BY NextRefusedTurnless
  <2>2. \A r \in Runs : EndedWithTurn(r)'
    BY NextEndedWithTurn
  <2> QED BY <2>1, <2>2 DEF AllSettled
<1>3. AllSettled => TerminalRunHasNoRunningTurn
  BY DEF AllSettled, EndedWithTurn, TerminalRunHasNoRunningTurn, Terminated, TerminalStatuses
<1>4. Connected => Connected'
  OBVIOUS
<1> HIDE DEF Connected
<1>5. Connected /\ Spec => []TerminalRunHasNoRunningTurn
  BY <1>1, <1>2, <1>3, <1>4, AlwaysWellFormed, AlwaysProvenance, PTL DEF Spec
<1> QED BY <1>5 DEF Connected

\* Unless a handoff interrupts it, a Run of unknown outcome stays unknown until a
\* terminal fact settles it, whatever callback or answer comes late
\* (gateway.py:1209, 973).
THEOREM UnknownsStayClosed ==
  "handoff" \notin Operations /\ Spec => UnknownFailsClosed
<1> DEFINE NoHandoff == "handoff" \notin Operations
           Closed == \A r \in Runs : runs[r].status = "unknown" =>
                       runs'[r].status \in {"unknown"} \cup TerminalStatuses
<1>1. NoHandoff /\ WellFormed /\ Provenance /\ [Next]_vars => [Closed]_vars
  <2> SUFFICES ASSUME NoHandoff, WellFormed, Provenance, [Next]_vars, NEW r \in Runs,
                      runs[r].status = "unknown"
               PROVE  runs'[r].status \in {"unknown"} \cup TerminalStatuses
    OBVIOUS
  <2>1. RunMoves(r)
    BY RunsMove
  <2>2. runs[r] # Absent /\ Confirmed("unknown") = "unknown"
    BY DEF Absent, Confirmed
  <2> QED BY <2>1, <2>2 DEF RunMoves, RunKept
<1>2. NoHandoff => NoHandoff'
  OBVIOUS
<1> HIDE DEF NoHandoff
<1>3. NoHandoff /\ Spec => UnknownFailsClosed
  BY <1>1, <1>2, AlwaysWellFormed, AlwaysProvenance, PTL DEF Spec, UnknownFailsClosed
<1> QED BY <1>3 DEF NoHandoff

-----------------------------------------------------------------------------
(* The inductive invariant                                                 *)

\* The Gateway never leaves the invariant the proofs are by induction on: it is
\* well formed, a Session has one Run, a request one Run, a generation is a fence,
\* outcomes come from turns and live Runs are watched (gateway.py:1073, 1404, 1032).
THEOREM AlwaysInductiveInvariant == Spec => []InductiveInvariant
BY AlwaysWellFormed, OneRunAtATime, RequestNamesOneRun, GenerationIsAFence,
   AlwaysProvenance, AlwaysWatched, PTL DEF InductiveInvariant

-----------------------------------------------------------------------------
(* The ledger of Runs                                                      *)

\* The ledger's view of a Run that is rewritten: nothing, or its settlement.
LEMMA RewrittenRefines ==
  ASSUME WellFormed, NEW r \in Created, Rewritten(r)
  PROVE  [Ledger!Next]_Entries
<1>1. r \in Runs /\ runs \in [Runs -> RunRecord] /\ runs[r] \in RunRecord
  BY RecordTypes DEF WellFormed, TypeOK, Created
<1> DEFINE before == Outcome(runs[r].status)
           after == Outcome(runs'[r].status)
<1>2. Entries' = [Entries EXCEPT ![r].outcome = after]
  <2>1. \A x \in Runs \ {r} : Entries'[x] = Entries[x]
    BY DEF Rewritten, Entries
  <2>2. Entries'[r] = [Entries[r] EXCEPT !.outcome = after]
    BY <1>1 DEF Rewritten, Entries
  <2> QED BY <1>1, <2>1, <2>2 DEF Entries
<1>3. ASSUME after = Entries[r].outcome
      PROVE  Entries' = Entries
  <2>1. [Entries[r] EXCEPT !.outcome = Entries[r].outcome] = Entries[r]
    BY <1>1 DEF Entries
  <2>2. Entries'[r] = Entries[r]
    <3> HIDE DEF after
    <3> QED BY <1>1, <1>2, <1>3, <2>1 DEF Entries
  <2>3. \A x \in Runs \ {r} : Entries'[x] = Entries[x]
    BY DEF Rewritten, Entries
  <2> QED BY <1>1, <2>2, <2>3 DEF Entries
<1>4. CASE Terminated(r)
  <2>1. after = Entries[r].outcome
    BY <1>1, <1>4 DEF Rewritten, Entries
  <2> QED BY <1>3, <2>1
<1>5. CASE ~Terminated(r)
  <2>1. Entries[r].outcome = "open"
    BY <1>1, <1>5 DEF Entries, Outcome, Terminated, Created, RunRecord, RunStatuses
  <2>2. after \in Ledger!Outcomes \cup {"open"}
    BY DEF Rewritten, Outcome, RunStatuses, OccupyingStatuses, TerminalStatuses,
       Ledger!Outcomes
  <2>3. CASE after = "open"
    BY <1>3, <2>1, <2>3
  <2>4. CASE after \in Ledger!Outcomes
    <3>1. Ledger!Settle(r, after)
      BY <1>2, <2>1 DEF Ledger!Settle
    <3> QED BY <1>1, <2>4, <3>1 DEF Ledger!Next
  <2> QED BY <2>2, <2>3, <2>4
<1> QED BY <1>4, <1>5

\* Every step of the Gateway is a step of the ledger or leaves it alone.
LEMMA StepRefines ==
  ASSUME WellFormed, [Next]_vars
  PROVE  [Ledger!Next]_Entries
<1>1. runs \in [Runs -> RunRecord]
  BY DEF WellFormed, TypeOK
<1>2. CASE runs' = runs
  BY <1>2 DEF Entries
<1>3. ASSUME NEW r \in Runs, NEW q \in Requests, NEW s \in Sessions,
             runs[r] = Absent,
             runs' = [runs EXCEPT ![r] =
               [status |-> "starting", requestId |-> q, sessionId |-> s,
                transportTurnId |-> None, handoffRequestId |-> None,
                controlGeneration |-> sessions[s].controlGeneration]],
             Admissible(s, q)
      PROVE  [Ledger!Next]_Entries
  <2>1. Entries[r] = Ledger!Blank
    BY <1>3 DEF Entries, Absent, Outcome, Ledger!Blank
  <2>2. \A x \in Runs : Entries[x].request # q
    BY <1>3 DEF Entries, Admissible
  <2>3. Ledger!Open(s) = {}
    <3>1. ASSUME NEW x \in Runs, Entries[x].session = s, Entries[x].outcome = "open"
          PROVE  x \in OccupyingRuns(s)
      BY <1>1, <3>1 DEF Entries, Outcome, OccupyingRuns, Occupies, OccupyingStatuses,
         TerminalStatuses, RunRecord, RunStatuses
    <3> QED BY <1>3, <3>1 DEF Admissible, Ledger!Open
  <2>4. Entries' =
          [Entries EXCEPT ![r] = [request |-> q, session |-> s, outcome |-> "open"]]
    <3>1. /\ runs'[r].requestId = q
          /\ runs'[r].sessionId = s
          /\ runs'[r].status = "starting"
          /\ \A x \in Runs \ {r} : runs'[x] = runs[x]
      BY <1>3, <1>1
    <3>2. Outcome("starting") = "open"
      BY DEF Outcome, OccupyingStatuses
    <3>3. Entries'[r] = [request |-> q, session |-> s, outcome |-> "open"]
      BY <3>1, <3>2 DEF Entries
    <3>4. \A x \in Runs \ {r} : Entries'[x] = Entries[x]
      BY <3>1 DEF Entries
    <3> QED BY <3>3, <3>4 DEF Entries
  <2>5. Ledger!Admit(r, q, s)
    BY <2>1, <2>2, <2>3, <2>4 DEF Ledger!Admit, Entries
  <2> QED BY <2>5 DEF Ledger!Next
<1> QED BY <1>2, <1>3, RewrittenRefines, RunChanges

\* The Gateway implements the ledger of Runs: whatever threads, notifications,
\* faults and restarts lie between, a request opens one Run, a Session has one open
\* Run, and a Run is settled once (gateway.py:1073, 1386, 1404).
THEOREM GatewayImplementsLedger == Spec => ImplementsLedger
<1>1. Init => Ledger!Init
  BY DEF Init, Absent, Entries, Outcome, Ledger!Init, Ledger!Blank
<1>2. WellFormed /\ [Next]_vars => [Ledger!Next]_Entries
  BY StepRefines
<1> QED BY <1>1, <1>2, AlwaysWellFormed, PTL DEF Spec, ImplementsLedger, Ledger!Spec

-----------------------------------------------------------------------------
(* What makes a Session active                                             *)

\* The deque of recently ended turns gives up turn t for a later one.
Forgets(t) == EndedRecently(t) /\ \A i \in DOMAIN recent' : recent'[i] # t

\* What can leave a Session active without a cause: the end of a turn is lost with
\* the process or the connection; a failed handoff makes an external Session that
\* is active managed (gateway.py:1006); a minimal PUT stores an activity that has
\* ended since it was read (1036), and a full one moves an active Session to
\* another thread (1051); the deque forgets a turn that a reconcile worker is about
\* to project (91).
Interference ==
  \/ Restart \/ Disconnect
  \/ \E c \in Callers :
       /\ HandoffFailed(c) /\ ~Terminated(calls[c].run)
       /\ sessions[calls[c].session].controlMode = "external"
       /\ sessions[calls[c].session].runtimeStatus = "active"
  \/ \E c \in Callers :
       /\ PutCommit(c) /\ calls[c].runtime = "active"
       /\ \A t \in Turns : turns[t].thread = calls[c].thread => ~EndUnderway(t)
  \/ \E s \in Sessions :
       /\ SessionStep(s)
       /\ sessions[s].registered /\ sessions[s].runtimeStatus = "active"
       /\ sessions'[s].thread # sessions[s].thread
  \/ \E r \in Runs : reconcile[r].pc = "project" /\ Forgets(reconcile[r].active)

\* The phases in which the reader thread handles the end of a turn.
EndPhases == {"callback", "orphan", "match", "release"}

\* Message i is the end of turn t.
EndsAt(i, t) ==
  /\ i \in 1..Len(events)
  /\ events[i].method = "turn/completed" /\ events[i].turn = t

\* The reader thread has the end of turn t in its hands.
Handles(t) == reader.pc \in EndPhases /\ reader.message.turn = t

\* How a step delivers notifications: it does not, a turn begins or ends, or the
\* reader thread takes a message one phase further.
Takes ==
  /\ reader.pc = "ready" /\ events # <<>> /\ events' = Tail(events)
  /\ reader'.message = Head(events)
  /\ reader'.pc \in IF Head(events).method = "turn/completed"
                    THEN {"callback", "orphan"} ELSE {"project"}
  /\ UNCHANGED <<turns, recent>>
Reports ==
  /\ reader.pc \in {"callback", "orphan"} /\ reader'.pc = "match"
  /\ reader'.message = reader.message
  /\ UNCHANGED <<turns, events, recent>>
Remembers ==
  /\ reader.pc = "match" /\ reader'.pc = "release"
  /\ reader'.message = reader.message
  /\ recent' = Remembered(recent, reader.message.turn)
  /\ UNCHANGED <<turns, events>>
Finishes(pc) ==
  /\ reader.pc = pc /\ reader' = ReadyReader
  /\ UNCHANGED <<turns, events, recent>>

Delivery ==
  \/ UNCHANGED <<turns, events, reader, recent>>
  \/ \E t \in Turns, th \in Threads, r \in Runs \cup {None} :
       BeginTurn(t, th, r) /\ UNCHANGED <<reader, recent>>
  \/ \E t \in Turns, outcome \in TurnOutcomes :
       TurnEnds(t, outcome) /\ UNCHANGED <<reader, recent>>
  \/ Takes \/ Reports \/ Remembers
  \/ ReadRelease /\ Finishes("release")
  \/ Finishes("project")

\* The last phase of an end leaves everything but the board alone.
LEMMA ReleaseFinishes ==
  ASSUME ReadRelease
  PROVE  Finishes("release") /\ UNCHANGED connected
BY Zenon DEF ReadRelease, Finishes, appServer, transport

\* What a phase of the reader thread delivers.
LEMMA ReaderDelivers ==
  ASSUME reader \in ReaderRecord
  PROVE  /\ ReadCompleted \/ ReadStarted => Takes
         /\ ReadCallback \/ ReadOrphan => Reports
         /\ ReadMatch => Remembers
         /\ ReadRelease => Finishes("release")
         /\ ReadProject => Finishes("project")
<1>1. ASSUME NEW pc
      PROVE  LET moved == [reader EXCEPT !.pc = pc]
             IN  moved.pc = pc /\ moved.message = reader.message
  BY DEF ReaderRecord
<1>2. [reader EXCEPT !.pc = "match", !.run = None].message = reader.message
  BY DEF ReaderRecord
<1>3. [reader EXCEPT !.pc = "match", !.run = None].pc = "match"
  BY DEF ReaderRecord
<1>4. ReadCompleted => Takes
  BY DEF ReadCompleted, Takes, ReadyReader
<1>5. ReadStarted => Takes
  BY DEF ReadStarted, Takes, ReadyReader
<1>6. ReadOrphan => Reports
  BY <1>1 DEF ReadOrphan, Reports, appServer
<1>7. ReadCallback => Reports
  BY <1>2, <1>3 DEF ReadCallback, Reports, appServer
<1>8. ReadMatch => Remembers
  BY <1>1 DEF ReadMatch, Remembers, appServer
<1>9. ReadRelease => Finishes("release")
  BY ReleaseFinishes
<1>10. ReadProject => Finishes("project")
  BY DEF ReadProject, Finishes, appServer
<1> QED BY <1>4, <1>5, <1>6, <1>7, <1>8, <1>9, <1>10

\* Every step over a connection that stays up delivers in one of these ways.
LEMMA StepDelivers ==
  ASSUME WellFormed, connected, [Next]_vars, ~Restart, ~Disconnect
  PROVE  Delivery /\ connected'
<1>a. reader \in ReaderRecord
  BY DEF WellFormed, TypeOK
<1> DEFINE Silent == UNCHANGED <<turns, events, reader, recent, connected>>
<1>s. Silent => Delivery /\ connected'
  BY DEF Delivery
<1>1. ASSUME ReadCompleted \/ ReadCallback \/ ReadOrphan \/ ReadMatch \/ ReadRelease \/
             ReadStarted \/ ReadProject
      PROVE  Delivery /\ connected'
  <2>1. Delivery
    BY <1>1, <1>a, ReaderDelivers DEF Delivery
  <2>2. ~ReadRelease => UNCHANGED connected
    BY <1>1
    DEF ReadCompleted, ReadCallback, ReadOrphan, ReadMatch, ReadStarted, ReadProject,
        transport
  <2>3. UNCHANGED connected
    BY <2>2, ReleaseFinishes, Zenon
  <2> QED BY <2>1, <2>3
<1>2. ASSUME NEW c \in Callers, NEW t \in Turns, StartAccepted(c, t)
      PROVE  Delivery /\ connected'
  <2>1. calls[c].thread \in Threads /\ calls[c].run \in Runs
    BY <1>2 DEF StartAccepted, WellFormed, CallsConsistent, LocalsSet, Created, StartedPhases
  <2> QED BY <1>2, <2>1 DEF StartAccepted, Delivery, transport
<1>3. ASSUME NEW t \in Turns, NEW th \in Threads, ExternalTurnStarts(t, th)
      PROVE  Delivery /\ connected'
  BY <1>3 DEF ExternalTurnStarts, Delivery, gateway, transport
<1>4. ASSUME NEW t \in Turns, NEW outcome \in TurnOutcomes, TurnEnds(t, outcome)
      PROVE  Delivery /\ connected'
  BY <1>4 DEF TurnEnds, Delivery, transport, gateway
<1>5. ASSUME NEW c \in Callers, NEW s \in Sessions, NEW q \in Requests, StartCheck(c, s, q)
      PROVE  Delivery /\ connected'
  <2>1. Silent
    BY <1>5 DEF StartCheck, transport, appServer
  <2> QED BY <1>s, <2>1
<1>6. ASSUME NEW c \in Callers,
             StartRead(c) \/ StartDenied(c) \/ StartRemember(c) \/ StartRejected(c) \/
             StartUnanswered(c) \/ StartRegister(c) \/ StartTakeOrphan(c) \/
             StartOrphan(c) \/ StartFinish(c) \/ StartRefused(c) \/ StartUnknown(c) \/
             InterruptAccepted(c) \/ InterruptGet(c) \/ InterruptRejected(c) \/
             InterruptUnanswered(c) \/ InterruptFailed(c) \/ HandoffUnknown(c) \/
             HandoffFailed(c) \/ PutCommit(c)
      PROVE  Delivery /\ connected'
  <2>1. Silent
    BY <1>6
    DEF StartRead, StartDenied, StartRemember, StartRejected, StartUnanswered, StartRegister,
        StartTakeOrphan, StartOrphan, StartFinish, StartRefused, StartUnknown,
        InterruptAccepted, InterruptGet, InterruptRejected, InterruptUnanswered,
        InterruptFailed, HandoffUnknown, HandoffFailed, PutCommit, transport, appServer
  <2> QED BY <1>s, <2>1
<1>7. ASSUME NEW c \in Callers, NEW x \in Runs, StartCreate(c, x) \/ InterruptCheck(c, x)
       PROVE  Delivery /\ connected'
  <2>1. Silent
    BY <1>7 DEF StartCreate, InterruptCheck, transport, appServer
  <2> QED BY <1>s, <2>1
<1>8. ASSUME NEW c \in Callers, NEW s \in Sessions, NEW q \in Requests, NEW x \in Runs,
              HandoffActive(c, s, q, x)
       PROVE  Delivery /\ connected'
  <2>1. Silent
    BY <1>8 DEF HandoffActive, transport, appServer
  <2> QED BY <1>s, <2>1
<1>9. ASSUME NEW c \in Callers, NEW s \in Sessions, NEW th \in Threads, PutRead(c, s, th)
       PROVE  Delivery /\ connected'
  <2>1. Silent
    BY <1>9 DEF PutRead, transport, appServer
  <2> QED BY <1>s, <2>1
<1>10. ASSUME NEW s \in Sessions, NEW q \in Requests, HandoffIdle(s, q) \/ Reclaim(s, q)
       PROVE  Delivery /\ connected'
  <2>1. Silent
    BY <1>10 DEF HandoffIdle, Reclaim, gateway, transport, appServer
  <2> QED BY <1>s, <2>1
<1>11. ASSUME NEW s \in Sessions, NEW th \in Threads, NEW enabled \in BOOLEAN,
              NEW mode \in {"managed", "external"}, NEW edited \in BOOLEAN,
              PutFull(s, th, enabled, mode, edited)
       PROVE  Delivery /\ connected'
  <2>1. Silent
    BY <1>11 DEF PutFull, gateway, transport, appServer
  <2> QED BY <1>s, <2>1
<1>12. ASSUME NEW x \in Runs,
              GetRun(x) \/ ReconcileRead(x) \/ ReconcileList(x) \/ ReconcileProject(x) \/
              ReconcileClose(x) \/ DisconnectCallback(x) \/ ProbeCallback(x)
       PROVE  Delivery /\ connected'
  <2>1. CASE ReconcileProject(x)
    <3>1. Silent
      BY <2>1 DEF ReconcileProject, transport, appServer
    <3> QED BY <1>s, <3>1
  <2>2. CASE ReconcileList(x)
    <3>1. Silent
      BY <2>2, Zenon DEF ReconcileList, transport, appServer
    <3> QED BY <1>s, <3>1
  <2>3. CASE GetRun(x) \/ ReconcileRead(x) \/ ReconcileClose(x)
    <3>1. Silent
      BY <2>3 DEF GetRun, ReconcileRead, ReconcileClose, transport, appServer
    <3> QED BY <1>s, <3>1
  <2>4. CASE DisconnectCallback(x) \/ ProbeCallback(x)
    <3>1. Silent
      BY <2>4 DEF DisconnectCallback, ProbeCallback, appServer
    <3> QED BY <1>s, <3>1
  <2> QED BY <1>12, <2>1, <2>2, <2>3, <2>4
<1>13. CASE DisconnectStatus
  <2>1. Silent
    BY <1>13 DEF DisconnectStatus, gateway, appServer
  <2> QED BY <1>s, <2>1
<1>14. CASE Reconnect
  BY <1>14 DEF Reconnect
<1>15. ASSUME NEW u \in Turns, Probe(u)
       PROVE  Delivery /\ connected'
  <2>1. Silent
    BY <1>15 DEF Probe, gateway, appServer
  <2> QED BY <1>s, <2>1
<1>16. CASE UNCHANGED vars
  <2>1. Silent
    BY <1>16 DEF vars, gateway, transport, appServer
  <2> QED BY <1>s, <2>1
<1> HIDE DEF Silent
<1> QED
  BY <1>1, <1>2, <1>3, <1>4, <1>5, <1>6, <1>7, <1>8, <1>9, <1>10, <1>11, <1>12, <1>13,
     <1>14, <1>15, <1>16
  DEF Next, StartStep, ControlStep, SessionStep, ReconcileStep, ReaderStep, TransportStep,
      AppServerStep

-----------------------------------------------------------------------------
(* The end of a turn is announced once                                     *)

\* The end of t waits to be read.
EndUnread(t) == \E i \in Nat : EndsAt(i, t)

\* The end of t is announced when t has ended, and once; it is remembered before it
\* is handled.
OneEnd(t) ==
  /\ turns[t].status \in {"absent", "running"} => ~EndUnread(t) /\ ~Handles(t)
  /\ EndUnread(t) => ~Handles(t)
  /\ Handles(t) /\ reader.pc = "release" => EndedRecently(t)
  /\ \A i, j \in Nat : EndsAt(i, t) /\ EndsAt(j, t) => i = j

\* EndUnderway in these terms.
LEMMA UnderwayIs ==
  ASSUME WellFormed, NEW t
  PROVE  EndUnderway(t) <=> turns[t].status = "running" \/ EndUnread(t) \/ Handles(t)
<1>1. events \in Seq(Message)
  BY DEF WellFormed, TypeOK
<1>2. DOMAIN events = 1..Len(events) /\ Len(events) \in Nat
  BY <1>1
<1>3. EndUnread(t) <=>
        \E i \in DOMAIN events : events[i].method = "turn/completed" /\ events[i].turn = t
  BY <1>2 DEF EndUnread, EndsAt
<1> QED BY <1>3 DEF EndUnderway, Handles, EndPhases

\* The reader thread takes the first message.
LEMMA TailShifts ==
  ASSUME WellFormed, events # <<>>, events' = Tail(events)
  PROVE  /\ Len(events) \in Nat /\ Len(events') = Len(events) - 1
         /\ Head(events) = events[1]
         /\ Len(events) >= 1
         /\ \A i \in 1..Len(events') : events'[i] = events[i + 1]
         /\ \A i \in Nat : \A t : EndsAt(i, t)' <=> i # 0 /\ EndsAt(i + 1, t)
<1>1. events \in Seq(Message)
  BY DEF WellFormed, TypeOK
<1>2. /\ Len(events) \in Nat /\ Len(events') = Len(events) - 1
      /\ Len(events) >= 1
      /\ \A i \in 1..Len(events') : events'[i] = events[i + 1]
  BY <1>1, HeadTailProperties, EmptySeq
<1>3. Head(events) = events[1]
  BY <1>1
<1>4. ASSUME NEW i \in Nat, NEW t
      PROVE  EndsAt(i, t)' <=> i # 0 /\ EndsAt(i + 1, t)
  <2>1. i \in 1..Len(events') <=> i # 0 /\ i + 1 \in 1..Len(events)
    BY <1>2
  <2>2. CASE i \in 1..Len(events')
    BY <1>2, <2>1, <2>2 DEF EndsAt
  <2>3. CASE i \notin 1..Len(events')
    BY <2>1, <2>3 DEF EndsAt
  <2> QED BY <2>2, <2>3
<1> QED BY <1>2, <1>3, <1>4

\* Messages are appended behind those that wait.
LEMMA NotifyAppends ==
  ASSUME WellFormed, connected, NEW messages \in Seq(Message), Notify(messages)
  PROVE  /\ Len(events) \in Nat /\ Len(messages) \in Nat
         /\ Len(events') = Len(events) + Len(messages)
         /\ \A i \in 1..Len(events) : events'[i] = events[i]
         /\ \A i \in 1..Len(events') :
              i \notin 1..Len(events) =>
                /\ i - Len(events) \in 1..Len(messages)
                /\ events'[i] = messages[i - Len(events)]
<1>1. events \in Seq(Message)
  BY DEF WellFormed, TypeOK
<1>2. events' = events \o messages
  BY DEF Notify
<1>3. /\ Len(events) \in Nat /\ Len(messages) \in Nat
      /\ Len(events \o messages) = Len(events) + Len(messages)
      /\ \A i \in 1 .. Len(events) + Len(messages) :
           (events \o messages)[i] =
             IF i <= Len(events) THEN events[i] ELSE messages[i - Len(events)]
  BY <1>1, ConcatProperties
<1> QED BY <1>2, <1>3

\* A turn that begins announces no end.
LEMMA BeginAnnounces ==
  ASSUME WellFormed, connected, NEW t \in Turns, NEW th \in Threads, NEW r,
         BeginTurn(t, th, r)
  PROVE  /\ Len(events) \in Nat /\ Len(events') \in Nat
         /\ Len(events) <= Len(events')
         /\ \A i \in 1..Len(events) : events'[i] = events[i]
         /\ \A i \in 1..Len(events') :
              i \notin 1..Len(events) =>
                /\ events'[i].method # "turn/completed" /\ events'[i].thread = th
                /\ events'[i].turn \in {None, t}
         /\ \A i \in Nat : \A u : EndsAt(i, u)' <=> EndsAt(i, u)
<1> DEFINE status == [method |-> "thread/status/changed", thread |-> th, turn |-> None]
           started == [method |-> "turn/started", thread |-> th, turn |-> t]
<1>1. PICK announced \in Announcements :
        Notify((IF announced THEN <<status>> ELSE <<>>) \o <<started>>)
  BY DEF BeginTurn
<1> DEFINE messages == (IF announced THEN <<status>> ELSE <<>>) \o <<started>>
<1>2. status \in Message /\ started \in Message
  BY DEF Message
<1>3. messages \in Seq(Message)
  BY <1>2
<1>4. \A i \in 1..Len(messages) : messages[i] \in {status, started}
  <2> HIDE DEF status, started
  <2>1. <<>> \in Seq({status, started})
    OBVIOUS
  <2>2. <<status>> \in Seq({status, started})
    OBVIOUS
  <2>3. <<started>> \in Seq({status, started})
    OBVIOUS
  <2>4. (IF announced THEN <<status>> ELSE <<>>) \in Seq({status, started})
    BY <2>1, <2>2
  <2>5. messages \in Seq({status, started})
    BY <2>3, <2>4, ConcatProperties
  <2> HIDE DEF messages
  <2> QED BY <2>5
<1>5. \A m \in {status, started} :
        m.method # "turn/completed" /\ m.thread = th /\ m.turn \in {None, t}
  OBVIOUS
<1>6. Notify(messages)
  BY <1>1
<1> HIDE DEF status, started, messages
<1>7. /\ Len(events) \in Nat /\ Len(messages) \in Nat
      /\ Len(events') = Len(events) + Len(messages)
      /\ \A i \in 1..Len(events) : events'[i] = events[i]
      /\ \A i \in 1..Len(events') :
           i \notin 1..Len(events) =>
             /\ i - Len(events) \in 1..Len(messages)
             /\ events'[i] = messages[i - Len(events)]
  BY <1>3, <1>6, NotifyAppends
<1>8. \A i \in 1..Len(events') :
        i \notin 1..Len(events) =>
          /\ events'[i].method # "turn/completed" /\ events'[i].thread = th
          /\ events'[i].turn \in {None, t}
  BY <1>4, <1>5, <1>7
<1>9. ASSUME NEW i \in Nat, NEW u
      PROVE  EndsAt(i, u)' <=> EndsAt(i, u)
  <2>1. CASE i \in 1..Len(events)
    <3>1. i \in 1..Len(events')
      BY <1>7, <2>1
    <3> QED BY <1>7, <2>1, <3>1 DEF EndsAt
  <2>2. CASE i \notin 1..Len(events)
    BY <1>8, <2>2 DEF EndsAt
  <2> QED BY <2>1, <2>2
<1> QED BY <1>7, <1>8, <1>9

\* A turn that ends announces its end last.
LEMMA EndAnnounces ==
  ASSUME WellFormed, connected, NEW t \in Turns, NEW outcome, TurnEnds(t, outcome)
  PROVE  /\ Len(events) \in Nat /\ Len(events') = Len(events) + 1
         /\ \A i \in 1..Len(events) : events'[i] = events[i]
         /\ events'[Len(events) + 1] =
              [method |-> "turn/completed", thread |-> turns[t].thread, turn |-> t]
         /\ \A i \in Nat : \A u :
              EndsAt(i, u)' <=> EndsAt(i, u) \/ (i = Len(events) + 1 /\ u = t)
<1> DEFINE ended == [method |-> "turn/completed", thread |-> turns[t].thread, turn |-> t]
<1>1. turns[t].thread \in Threads
  BY DEF TurnEnds, WellFormed, TypeOK, TurnRecord, NoTurn
<1>2. ended \in Message
  BY <1>1 DEF Message
<1>3. Notify(<<ended>>)
  BY DEF TurnEnds
<1>4. ended.method = "turn/completed" /\ ended.turn = t
  OBVIOUS
<1> HIDE DEF ended
<1>5. <<ended>> \in Seq(Message) /\ Len(<<ended>>) = 1 /\ <<ended>>[1] = ended
  BY <1>2
<1>6. /\ Len(events) \in Nat /\ Len(events') = Len(events) + 1
      /\ \A i \in 1..Len(events) : events'[i] = events[i]
      /\ \A i \in 1..Len(events') :
           i \notin 1..Len(events) => events'[i] = <<ended>>[i - Len(events)]
  BY <1>3, <1>5, NotifyAppends
<1>7. events'[Len(events) + 1] = ended
  <2>1. /\ Len(events) + 1 \in 1..Len(events')
        /\ Len(events) + 1 \notin 1..Len(events)
        /\ (Len(events) + 1) - Len(events) = 1
    BY <1>6
  <2> QED BY <1>5, <1>6, <2>1
<1>8. ASSUME NEW i \in Nat, NEW u
      PROVE  EndsAt(i, u)' <=> EndsAt(i, u) \/ (i = Len(events) + 1 /\ u = t)
  <2>1. CASE i \in 1..Len(events)
    <3>1. i \in 1..Len(events') /\ i # Len(events) + 1
      BY <1>6, <2>1
    <3> QED BY <1>6, <2>1, <3>1 DEF EndsAt
  <2>2. CASE i \notin 1..Len(events)
    <3>1. i \in 1..Len(events') <=> i = Len(events) + 1
      BY <1>6, <2>2
    <3> QED BY <1>4, <1>7, <2>2, <3>1 DEF EndsAt
  <2> QED BY <2>1, <2>2
<1> QED BY <1>6, <1>7, <1>8 DEF ended

\* A deque with a place remembers the last turn.
LEMMA LastIsRemembered ==
  ASSUME WellFormed, RecentLimit > 0, NEW t \in Turns, recent' = Remembered(recent, t)
  PROVE  EndedRecently(t)'
<1> DEFINE grown == Append(recent, t)
<1>1. recent \in Seq(Turns)
  BY DEF WellFormed, TypeOK
<1>2. /\ grown \in Seq(Turns) /\ Len(recent) \in Nat /\ Len(grown) = Len(recent) + 1
      /\ grown[Len(recent) + 1] = t
  BY <1>1, AppendProperties
<1>3. recent' = IF Len(grown) > RecentLimit THEN Tail(grown) ELSE grown
  BY DEF Remembered
<1> HIDE DEF grown
<1>4. CASE Len(grown) > RecentLimit
  <2>1. Len(recent) >= 1 /\ grown # <<>>
    BY <1>2, <1>4, ConstantsAssumption
  <2>2. /\ Tail(grown) \in Seq(Turns) /\ Len(Tail(grown)) = Len(grown) - 1
        /\ \A i \in 1..Len(Tail(grown)) : Tail(grown)[i] = grown[i + 1]
    BY <1>2, <2>1, HeadTailProperties
  <2>3. Len(recent) \in 1..Len(Tail(grown)) /\ Tail(grown)[Len(recent)] = t
    BY <1>2, <2>1, <2>2
  <2>4. \E i \in DOMAIN Tail(grown) : Tail(grown)[i] = t
    <3>1. DOMAIN Tail(grown) = 1..Len(Tail(grown))
      BY <2>2
    <3> QED BY <2>3, <3>1
  <2>5. recent' = Tail(grown)
    BY <1>3, <1>4
  <2> QED BY <2>4, <2>5 DEF EndedRecently
<1>5. CASE ~(Len(grown) > RecentLimit)
  <2>1. Len(recent) + 1 \in 1..Len(grown) /\ DOMAIN grown = 1..Len(grown)
    BY <1>2
  <2> QED BY <1>2, <1>3, <1>5, <2>1 DEF EndedRecently
<1> QED BY <1>4, <1>5

\* A turn that has begun stays on its thread.
LEMMA TurnPlaced ==
  ASSUME WellFormed, Delivery, NEW u \in Turns
  PROVE  /\ turns[u].status # "absent" =>
              turns'[u].status # "absent" /\ turns'[u].thread = turns[u].thread
         /\ turns[u].status = "running" /\ turns'[u].status # "running" =>
              \E outcome \in TurnOutcomes : TurnEnds(u, outcome)
<1>a. turns \in [Turns -> TurnRecord]
  BY DEF WellFormed, TypeOK
<1>1. CASE UNCHANGED turns
  BY <1>1
<1>2. ASSUME NEW t \in Turns, NEW th \in Threads, NEW r \in Runs \cup {None},
             BeginTurn(t, th, r)
      PROVE  turns[u].status # "absent" => turns'[u] = turns[u]
  BY <1>2, <1>a DEF BeginTurn
<1>3. ASSUME NEW t \in Turns, NEW outcome \in TurnOutcomes, TurnEnds(t, outcome)
      PROVE  /\ turns'[u].thread = turns[u].thread
             /\ turns[u].status # "absent" => turns'[u].status # "absent"
             /\ u # t => turns'[u] = turns[u]
  <2>1. turns' = [turns EXCEPT ![t].status = outcome]
    BY <1>3 DEF TurnEnds
  <2>2. outcome # "absent"
    BY ConstantsAssumption DEF TerminalStatuses
  <2>3. turns[t] \in TurnRecord
    BY <1>a
  <2>4. turns[t] = NoTurn \/ turns[t] \in [status: {"running", "other"} \cup TerminalStatuses,
                                          thread: Threads, run: Runs \cup {None}]
    BY <2>3 DEF TurnRecord
  <2>5. [turns[t] EXCEPT !.status = outcome].thread = turns[t].thread
    BY <2>4 DEF NoTurn
  <2>6. [turns[t] EXCEPT !.status = outcome].status = outcome
    BY <2>4 DEF NoTurn
  <2> QED BY <1>a, <2>1, <2>2, <2>5, <2>6
<1>4. \/ UNCHANGED turns
      \/ \E t \in Turns, th \in Threads, r \in Runs \cup {None} : BeginTurn(t, th, r)
      \/ \E t \in Turns, outcome \in TurnOutcomes : TurnEnds(t, outcome)
  BY DEF Delivery, Takes, Reports, Remembers, Finishes
<1> QED BY <1>1, <1>2, <1>3, <1>4

\* Every delivery keeps it so.
LEMMA NextOneEnd ==
  ASSUME WellFormed, RecentLimit > 0, connected, \A u \in Turns : OneEnd(u), Delivery
  PROVE  \A u \in Turns : OneEnd(u)'
<1>a. /\ turns \in [Turns -> TurnRecord]
      /\ reader.pc \in EndPhases => reader.message.turn \in Turns
  BY DEF WellFormed, TypeOK, ReferencesConsistent, EndPhases
<1>1. ASSUME UNCHANGED <<turns, events, reader, recent>>
      PROVE  \A u \in Turns : OneEnd(u)'
  BY <1>1 DEF OneEnd, EndUnread, EndsAt, Handles, EndedRecently
<1>2. ASSUME NEW t \in Turns, NEW th \in Threads, NEW r \in Runs \cup {None},
             BeginTurn(t, th, r), UNCHANGED <<reader, recent>>
      PROVE  \A u \in Turns : OneEnd(u)'
  <2>1. \A u \in Turns : EndUnread(u)' <=> EndUnread(u)
    BY <1>2, BeginAnnounces DEF EndUnread
  <2>2. \A i \in Nat : \A u : EndsAt(i, u)' <=> EndsAt(i, u)
    BY <1>2, BeginAnnounces
  <2>3. \A u \in Turns : /\ Handles(u)' <=> Handles(u)
                         /\ EndedRecently(u)' <=> EndedRecently(u)
    BY <1>2 DEF Handles, EndedRecently
  <2>4. /\ \A u \in Turns \ {t} : turns'[u] = turns[u]
        /\ turns[t].status = "absent" /\ turns'[t].status = "running"
    BY <1>2, <1>a DEF BeginTurn
  <2>5. ASSUME NEW u \in Turns PROVE OneEnd(u)'
    <3>1. OneEnd(u)
      OBVIOUS
    <3>2. turns'[u].status \in {"absent", "running"} <=>
            turns[u].status \in {"absent", "running"}
      BY <2>4
    <3> QED BY <1>2, <2>1, <2>2, <2>3, <3>1, <3>2 DEF OneEnd
  <2> QED BY <1>2, <2>5
<1>3. ASSUME NEW t \in Turns, NEW outcome \in TurnOutcomes, TurnEnds(t, outcome),
             UNCHANGED <<reader, recent>>
      PROVE  \A u \in Turns : OneEnd(u)'
  <2>2. /\ Len(events) \in Nat
        /\ \A i \in Nat : \A u :
             EndsAt(i, u)' <=> EndsAt(i, u) \/ (i = Len(events) + 1 /\ u = t)
    BY <1>3, EndAnnounces
  <2>3. \A u \in Turns : /\ Handles(u)' <=> Handles(u)
                         /\ EndedRecently(u)' <=> EndedRecently(u)
    BY <1>3 DEF Handles, EndedRecently
  <2>4. ASSUME NEW u \in Turns, u # t PROVE OneEnd(u)'
    <3>1. OneEnd(u)
      OBVIOUS
    <3>2. turns'[u] = turns[u]
      BY <1>3, <1>a, <2>4 DEF TurnEnds
    <3>3. \A i \in Nat : EndsAt(i, u)' <=> EndsAt(i, u)
      BY <2>2, <2>4
    <3>4. EndUnread(u)' <=> EndUnread(u)
      BY <3>3 DEF EndUnread
    <3> QED BY <1>3, <2>3, <3>1, <3>2, <3>3, <3>4 DEF OneEnd
  <2>5. OneEnd(t)'
    <3>1. ~EndUnread(t) /\ ~Handles(t)
      BY <1>3 DEF OneEnd, TurnEnds
    <3>2. \A i \in Nat : EndsAt(i, t)' <=> i = Len(events) + 1
      BY <2>2, <3>1 DEF EndUnread
    <3>3. EndUnread(t)'
      BY <2>2, <3>2 DEF EndUnread
    <3>4. turns'[t].status \notin {"absent", "running"}
      <4>1. outcome \notin {"absent", "running"}
        BY ConstantsAssumption DEF TerminalStatuses
      <4>2. turns[t] \in TurnRecord
        BY <1>a
      <4>3. [turns[t] EXCEPT !.status = outcome].status = outcome
        BY <4>2 DEF TurnRecord, NoTurn
      <4> QED BY <1>3, <1>a, <4>1, <4>3 DEF TurnEnds
    <3> QED BY <2>3, <3>1, <3>2, <3>3, <3>4 DEF OneEnd
  <2> QED BY <1>3, <2>4, <2>5
<1>4. ASSUME Takes
      PROVE  \A u \in Turns : OneEnd(u)'
  <2>1. /\ Len(events) \in Nat /\ Len(events) >= 1 /\ Head(events) = events[1]
        /\ \A i \in Nat : \A u : EndsAt(i, u)' <=> i # 0 /\ EndsAt(i + 1, u)
    BY <1>4, TailShifts DEF Takes
  <2>2. ASSUME NEW u \in Turns PROVE OneEnd(u)'
    <3>1. OneEnd(u) /\ turns'[u] = turns[u] /\ (EndedRecently(u)' <=> EndedRecently(u))
      BY <1>4 DEF Takes, EndedRecently
    <3>2. ~Handles(u)
      BY <1>4 DEF Takes, Handles, EndPhases
    <3>3. Handles(u)' <=> EndsAt(1, u)
      BY <1>4, <2>1 DEF Takes, Handles, EndPhases, EndsAt
    <3>4. EndUnread(u) <=> Handles(u)' \/ EndUnread(u)'
      <4>1. ASSUME NEW i \in Nat, EndsAt(i, u)
            PROVE  Handles(u)' \/ EndUnread(u)'
        <5>1. CASE i = 1
          BY <3>3, <4>1, <5>1
        <5>2. CASE i # 1
          <6>1. i # 0
            BY <4>1 DEF EndsAt
          <6>2. i - 1 \in Nat /\ i - 1 # 0 /\ (i - 1) + 1 = i
            BY <5>2, <6>1
          <6>3. EndsAt(i - 1, u)'
            BY <2>1, <4>1, <6>2
          <6> QED BY <6>2, <6>3 DEF EndUnread
        <5> QED BY <5>1, <5>2
      <4>2. ASSUME NEW i \in Nat, EndsAt(i, u)'
            PROVE  EndUnread(u)
        <5>1. i + 1 \in Nat /\ EndsAt(i + 1, u)
          BY <2>1, <4>2
        <5> QED BY <5>1 DEF EndUnread
      <4> QED BY <3>3, <4>1, <4>2 DEF EndUnread
    <3>5. EndsAt(1, u) => ~EndUnread(u)'
      <4> SUFFICES ASSUME EndsAt(1, u), NEW i \in Nat, EndsAt(i, u)'
                   PROVE  FALSE
        BY DEF EndUnread
      <4>1. i # 0 /\ i + 1 \in Nat /\ EndsAt(i + 1, u)
        BY <2>1
      <4>2. i + 1 = 1
        BY <3>1, <4>1 DEF OneEnd
      <4> QED BY <4>1, <4>2
    <3>6. \A i, j \in Nat : EndsAt(i, u)' /\ EndsAt(j, u)' => i = j
      <4> TAKE i, j \in Nat
      <4> HAVE EndsAt(i, u)' /\ EndsAt(j, u)'
      <4>1. /\ i + 1 \in Nat /\ EndsAt(i + 1, u)
            /\ j + 1 \in Nat /\ EndsAt(j + 1, u)
        BY <2>1
      <4>2. i + 1 = j + 1
        BY <3>1, <4>1 DEF OneEnd
      <4> QED BY <4>2
    <3>7. reader'.pc # "release"
      BY <1>4 DEF Takes
    <3> QED BY <3>1, <3>2, <3>3, <3>4, <3>5, <3>6, <3>7 DEF OneEnd
  <2> QED BY <1>4, <2>2 DEF Takes
<1>5. ASSUME UNCHANGED <<turns, events>>
      PROVE  \A u \in Turns : /\ turns'[u] = turns[u]
                              /\ EndUnread(u)' <=> EndUnread(u)
                              /\ \A i \in Nat : EndsAt(i, u)' <=> EndsAt(i, u)
  BY <1>5 DEF EndUnread, EndsAt
<1>6. ASSUME Reports
      PROVE  \A u \in Turns : OneEnd(u)'
  <2>1. \A u \in Turns : /\ Handles(u)' <=> Handles(u)
                         /\ EndedRecently(u)' <=> EndedRecently(u)
    BY <1>6 DEF Reports, Handles, EndPhases, EndedRecently
  <2>2. reader.pc # "release" /\ reader'.pc # "release" /\ UNCHANGED <<turns, events, recent>>
    BY <1>6 DEF Reports
  <2> QED BY <1>5, <2>1, <2>2 DEF OneEnd
<1>7. ASSUME Remembers
      PROVE  \A u \in Turns : OneEnd(u)'
  <2> DEFINE t == reader.message.turn
  <2>1. /\ t \in Turns /\ Handles(t) /\ reader.pc # "release" /\ reader'.pc = "release"
        /\ UNCHANGED <<turns, events>>
    BY <1>7, <1>a DEF Remembers, Handles, EndPhases
  <2>2. \A u \in Turns : Handles(u) <=> u = t
    BY <1>7 DEF Remembers, Handles, EndPhases
  <2>3. recent' = Remembered(recent, t)
    BY <1>7 DEF Remembers
  <2>4. \A u \in Turns : Handles(u)' <=> u = t
    BY <1>7 DEF Remembers, Handles, EndPhases
  <2> HIDE DEF t
  <2>5. \A u \in Turns : u = t => EndedRecently(u)'
    BY <2>1, <2>3, LastIsRemembered
  <2>6. ASSUME NEW u \in Turns PROVE OneEnd(u)'
    <3>1. OneEnd(u)
      OBVIOUS
    <3> QED BY <1>5, <2>1, <2>2, <2>4, <2>5, <3>1 DEF OneEnd
  <2> QED BY <2>6
<1>8. ASSUME Finishes("release") \/ Finishes("project")
      PROVE  \A u \in Turns : OneEnd(u)'
  <2>1. /\ reader'.pc = "ready" /\ reader.pc \in {"release", "project"}
        /\ UNCHANGED <<turns, events, recent>>
    BY <1>8 DEF Finishes, ReadyReader
  <2>2. ASSUME NEW u \in Turns PROVE OneEnd(u)'
    <3>1. OneEnd(u)
      OBVIOUS
    <3>2. ~Handles(u)'
      BY <2>1 DEF Handles, EndPhases
    <3> QED BY <1>5, <2>1, <3>1, <3>2 DEF OneEnd
  <2> QED BY <2>1, <2>2
<1> QED BY <1>1, <1>2, <1>3, <1>4, <1>6, <1>7, <1>8 DEF Delivery

-----------------------------------------------------------------------------
(* A turn begins before it ends                                            *)

\* The end of u is still to come after the first i messages.
Ahead(i, u) ==
  turns[u].status = "running" \/ \E j \in Nat : j > i /\ EndsAt(j, u)

\* Message m, read after i messages, is about a turn whose end is ahead of it.
Begins(m, i) ==
  \E u \in Turns : turns[u].thread = m.thread /\ m.turn \in {None, u} /\ Ahead(i, u)

\* A notification names the thread of its turn, and what begins has yet to end.
EventsInOrder ==
  \A i \in 1..Len(events) :
    IF events[i].method = "turn/completed"
    THEN events[i].thread = turns[events[i].turn].thread
    ELSE Begins(events[i], i)
ReaderInOrder ==
  /\ reader.pc \in EndPhases =>
       reader.message.thread = turns[reader.message.turn].thread
  /\ reader.pc = "project" => Begins(reader.message, 0)

\* The reader thread meets the beginning of a turn before its end.
LEMMA AheadStays ==
  ASSUME WellFormed, connected, Delivery, NEW u \in Turns, OneEnd(u), NEW i \in Nat,
         i <= Len(events), Ahead(i, u)
  PROVE  /\ turns'[u].thread = turns[u].thread
         /\ ~Takes => Ahead(i, u)'
         /\ Takes /\ i # 0 => \A k \in Nat : k + 1 = i => Ahead(k, u)'
<1>1. turns[u].status # "absent"
  BY DEF Ahead, OneEnd, EndUnread
<1>2. turns'[u].thread = turns[u].thread
  BY <1>1, TurnPlaced
<1>3. CASE UNCHANGED <<turns, events>> /\ ~Takes
  BY <1>2, <1>3 DEF Ahead, EndsAt
<1>4. ASSUME NEW t \in Turns, NEW th \in Threads, NEW r \in Runs \cup {None},
             BeginTurn(t, th, r)
      PROVE  Ahead(i, u)'
  <2>1. \A j \in Nat : EndsAt(j, u) => EndsAt(j, u)'
    BY <1>4, BeginAnnounces
  <2>2. turns[u].status = "running" => turns'[u].status = "running"
    BY <1>4 DEF BeginTurn, WellFormed, TypeOK
  <2> QED BY <2>1, <2>2 DEF Ahead
<1>5. ASSUME NEW t \in Turns, NEW outcome \in TurnOutcomes, TurnEnds(t, outcome)
      PROVE  Ahead(i, u)'
  <2>1. /\ Len(events) \in Nat
        /\ \A j \in Nat : \A w :
             EndsAt(j, w)' <=> EndsAt(j, w) \/ (j = Len(events) + 1 /\ w = t)
    BY <1>5, EndAnnounces
  <2>2. CASE u = t
    <3>1. Len(events) + 1 \in Nat /\ Len(events) + 1 > i
      BY <2>1
    <3>2. EndsAt(Len(events) + 1, u) \/ (Len(events) + 1 = Len(events) + 1 /\ u = t)
      BY <2>2
    <3>3. PICK j \in Nat : j = Len(events) + 1
      BY <3>1
    <3>4. EndsAt(j, u)' /\ j > i
      BY <2>1, <2>2, <3>1, <3>3
    <3> QED BY <3>4 DEF Ahead
  <2>3. CASE u # t
    <3>1. turns'[u] = turns[u]
      BY <1>5, <2>3 DEF TurnEnds, WellFormed, TypeOK
    <3> QED BY <2>1, <3>1 DEF Ahead
  <2> QED BY <2>2, <2>3
<1>6. ASSUME Takes, NEW k \in Nat, k + 1 = i
      PROVE  Ahead(k, u)'
  <2>1. \A j \in Nat : \A w : EndsAt(j, w)' <=> j # 0 /\ EndsAt(j + 1, w)
    BY <1>6, TailShifts DEF Takes
  <2>2. CASE turns[u].status = "running"
    BY <1>6, <2>2 DEF Takes, Ahead
  <2>3. ASSUME NEW j \in Nat, j > i, EndsAt(j, u)
        PROVE  Ahead(k, u)'
    <3>1. j - 1 \in Nat /\ j - 1 # 0 /\ j - 1 > k /\ (j - 1) + 1 = j
      BY <1>6, <2>3
    <3>2. EndsAt(j - 1, u)'
      BY <2>1, <2>3, <3>1
    <3> QED BY <3>1, <3>2 DEF Ahead
  <2> QED BY <2>2, <2>3 DEF Ahead
<1>7. ~Takes => \/ UNCHANGED <<turns, events>>
                \/ \E t \in Turns, th \in Threads, r \in Runs \cup {None} : BeginTurn(t, th, r)
                \/ \E t \in Turns, outcome \in TurnOutcomes : TurnEnds(t, outcome)
  BY DEF Delivery, Reports, Remembers, Finishes
<1>8. ~Takes => Ahead(i, u)'
  BY <1>3, <1>4, <1>5, <1>7
<1> QED BY <1>2, <1>6, <1>8

\* So a projection is about a turn whose end the reader thread has yet to handle.
LEMMA NextInOrder ==
  ASSUME WellFormed, connected, \A u \in Turns : OneEnd(u), EventsInOrder, ReaderInOrder,
         Delivery
  PROVE  EventsInOrder' /\ ReaderInOrder'
<1>a. /\ events \in Seq(Message) /\ Len(events) \in Nat
      /\ \A i \in 1..Len(events) : events[i] \in Message
      /\ reader.pc \in EndPhases => reader.message.turn \in Turns
  BY DEF WellFormed, TypeOK, ReferencesConsistent, EndPhases
<1>b. \A i \in 1..Len(events) :
        events[i].method = "turn/completed" =>
          events[i].turn \in Turns /\ EndsAt(i, events[i].turn)
  BY <1>a DEF Message, EndsAt
<1>c. ASSUME NEW u \in Turns, turns[u].status # "absent"
      PROVE  turns'[u].thread = turns[u].thread
  BY <1>c, TurnPlaced
<1>d. ASSUME NEW i \in 1..Len(events), events[i].method = "turn/completed"
      PROVE  events[i].thread = turns'[events[i].turn].thread
  <2>1. events[i].turn \in Turns /\ EndUnread(events[i].turn)
    BY <1>b, <1>d DEF EndUnread
  <2>2. turns[events[i].turn].status # "absent"
    BY <2>1 DEF OneEnd
  <2> QED BY <1>c, <1>d, <2>1, <2>2 DEF EventsInOrder
<1>e. ASSUME reader.pc \in EndPhases
      PROVE  reader.message.thread = turns'[reader.message.turn].thread
  <2>1. reader.message.turn \in Turns /\ Handles(reader.message.turn)
    BY <1>a, <1>e DEF Handles
  <2>2. turns[reader.message.turn].status # "absent"
    BY <2>1 DEF OneEnd
  <2> QED BY <1>c, <1>e, <2>1, <2>2 DEF ReaderInOrder
<1>f. ASSUME ~Takes, NEW u \in Turns, NEW i \in Nat, i <= Len(events), Ahead(i, u)
      PROVE  turns'[u].thread = turns[u].thread /\ Ahead(i, u)'
  BY <1>f, AheadStays
<1>1. ASSUME ~Takes, NEW i \in 1..Len(events), i \in 1..Len(events'), events'[i] = events[i]
      PROVE  IF events'[i].method = "turn/completed"
             THEN events'[i].thread = turns'[events'[i].turn].thread
             ELSE Begins(events[i], i)'
  <2>1. CASE events[i].method = "turn/completed"
    BY <1>1, <1>d, <2>1
  <2>2. CASE events[i].method # "turn/completed"
    <3>1. PICK u \in Turns : /\ turns[u].thread = events[i].thread
                             /\ events[i].turn \in {None, u} /\ Ahead(i, u)
      BY <2>2 DEF EventsInOrder, Begins
    <3>2. i \in Nat /\ i <= Len(events)
      BY <1>a
    <3>3. turns'[u].thread = turns[u].thread /\ Ahead(i, u)'
      BY <1>1, <1>f, <3>1, <3>2
    <3> QED BY <1>1, <2>2, <3>1, <3>3 DEF Begins
  <2> QED BY <2>1, <2>2
<1>2. ASSUME ~Takes, UNCHANGED reader
      PROVE  ReaderInOrder'
  <2>1. ASSUME reader.pc = "project"
        PROVE  Begins(reader.message, 0)'
    <3>1. PICK u \in Turns : /\ turns[u].thread = reader.message.thread
                             /\ reader.message.turn \in {None, u} /\ Ahead(0, u)
      BY <2>1 DEF ReaderInOrder, Begins
    <3>2. 0 \in Nat /\ 0 <= Len(events)
      BY <1>a
    <3>3. turns'[u].thread = turns[u].thread /\ Ahead(0, u)'
      BY <1>2, <1>f, <3>1, <3>2
    <3> QED BY <1>2, <3>1, <3>3 DEF Begins
  <2> QED BY <1>2, <1>e, <2>1 DEF ReaderInOrder
<1>3. ASSUME ~Takes, UNCHANGED events
      PROVE  EventsInOrder'
  <2>1. ASSUME NEW i \in 1..Len(events)
        PROVE  IF events'[i].method = "turn/completed"
               THEN events'[i].thread = turns'[events'[i].turn].thread
               ELSE Begins(events[i], i)'
    BY <1>1, <1>3
  <2> QED BY <1>3, <2>1 DEF EventsInOrder
<1>4. ASSUME NEW t \in Turns, NEW th \in Threads, NEW r \in Runs \cup {None},
             BeginTurn(t, th, r), ~Takes
      PROVE  EventsInOrder'
  <2>1. /\ Len(events') \in Nat
        /\ Len(events) <= Len(events')
        /\ \A i \in 1..Len(events) : events'[i] = events[i]
        /\ \A i \in 1..Len(events') :
             i \notin 1..Len(events) =>
               /\ events'[i].method # "turn/completed" /\ events'[i].thread = th
               /\ events'[i].turn \in {None, t}
    BY <1>4, BeginAnnounces
  <2>2. turns'[t].thread = th /\ turns'[t].status = "running"
    BY <1>4 DEF BeginTurn, WellFormed, TypeOK
  <2>3. ASSUME NEW i \in 1..Len(events'), i \notin 1..Len(events)
        PROVE  events'[i].method # "turn/completed" /\ Begins(events[i], i)'
    BY <2>1, <2>2, <2>3 DEF Begins, Ahead
  <2>4. ASSUME NEW i \in 1..Len(events)
        PROVE  IF events'[i].method = "turn/completed"
               THEN events'[i].thread = turns'[events'[i].turn].thread
               ELSE Begins(events[i], i)'
    <3>1. i \in 1..Len(events') /\ events'[i] = events[i]
      BY <1>a, <2>1
    <3> QED BY <1>1, <1>4, <3>1
  <2> QED BY <2>3, <2>4 DEF EventsInOrder
<1>5. ASSUME NEW t \in Turns, NEW outcome \in TurnOutcomes, TurnEnds(t, outcome), ~Takes
      PROVE  EventsInOrder'
  <2>1. /\ Len(events') = Len(events) + 1
        /\ \A i \in 1..Len(events) : events'[i] = events[i]
        /\ events'[Len(events) + 1] =
             [method |-> "turn/completed", thread |-> turns[t].thread, turn |-> t]
    BY <1>5, EndAnnounces
  <2>2. turns'[t].thread = turns[t].thread
    <3>1. turns[t].status # "absent"
      BY <1>5 DEF TurnEnds
    <3> QED BY <1>c, <3>1
  <2>3. ASSUME NEW i \in 1..Len(events'), i \notin 1..Len(events)
        PROVE  /\ events'[i].method = "turn/completed"
               /\ events'[i].thread = turns'[events'[i].turn].thread
    <3>1. i = Len(events) + 1
      BY <1>a, <2>1, <2>3
    <3>2. events'[i] = [method |-> "turn/completed", thread |-> turns[t].thread, turn |-> t]
      BY <2>1, <3>1
    <3> QED BY <2>2, <3>2
  <2>4. ASSUME NEW i \in 1..Len(events)
        PROVE  IF events'[i].method = "turn/completed"
               THEN events'[i].thread = turns'[events'[i].turn].thread
               ELSE Begins(events[i], i)'
    <3>1. i \in 1..Len(events') /\ events'[i] = events[i]
      BY <1>a, <2>1
    <3> QED BY <1>1, <1>5, <3>1
  <2> QED BY <2>3, <2>4 DEF EventsInOrder
<1>6. ASSUME Takes
      PROVE  EventsInOrder' /\ ReaderInOrder'
  <2>1. /\ Len(events') = Len(events) - 1
        /\ Head(events) = events[1]
        /\ Len(events) >= 1
        /\ \A i \in 1..Len(events') : events'[i] = events[i + 1]
    BY <1>6, TailShifts DEF Takes
  <2>2. UNCHANGED turns
    BY <1>6 DEF Takes
  <2>3. ASSUME NEW i \in 1..Len(events), events[i].method # "turn/completed",
               NEW k \in Nat, k + 1 = i
        PROVE  \E u \in Turns : /\ turns'[u].thread = events[i].thread
                                /\ events[i].turn \in {None, u} /\ Ahead(k, u)'
    <3>1. PICK u \in Turns : /\ turns[u].thread = events[i].thread
                             /\ events[i].turn \in {None, u} /\ Ahead(i, u)
      BY <2>3 DEF EventsInOrder, Begins
    <3>2. i \in Nat /\ i <= Len(events) /\ i # 0
      BY <1>a
    <3>3. Ahead(k, u)'
      BY <1>6, <2>3, <3>1, <3>2, AheadStays
    <3> QED BY <2>2, <3>1, <3>3
  <2>4. ASSUME NEW i \in 1..Len(events')
        PROVE  IF events'[i].method = "turn/completed"
               THEN events'[i].thread = turns'[events'[i].turn].thread
               ELSE Begins(events[i], i)'
    <3>1. i + 1 \in 1..Len(events) /\ events'[i] = events[i + 1] /\ i \in Nat
      BY <1>a, <2>1
    <3>2. CASE events[i + 1].method = "turn/completed"
      BY <1>d, <3>1, <3>2
    <3>3. CASE events[i + 1].method # "turn/completed"
      <4>1. \E u \in Turns : /\ turns'[u].thread = events[i + 1].thread
                             /\ events[i + 1].turn \in {None, u} /\ Ahead(i, u)'
        BY <2>3, <3>1, <3>3
      <4> QED BY <3>1, <3>3, <4>1 DEF Begins
    <3> QED BY <3>2, <3>3
  <2>5. EventsInOrder'
    BY <2>4 DEF EventsInOrder
  <2>6. reader'.message = events[1] /\ 1 \in 1..Len(events)
    BY <1>6, <1>a, <2>1 DEF Takes
  <2>7. CASE events[1].method = "turn/completed"
    <3>1. reader'.pc # "project"
      BY <1>6, <2>1, <2>7 DEF Takes
    <3> QED BY <1>d, <2>5, <2>6, <2>7, <3>1 DEF ReaderInOrder
  <2>8. CASE events[1].method # "turn/completed"
    <3>1. reader'.pc = "project"
      BY <1>6, <2>1, <2>8 DEF Takes
    <3>2. 0 \in Nat /\ 0 + 1 = 1
      OBVIOUS
    <3>3. \E u \in Turns : /\ turns'[u].thread = events[1].thread
                           /\ events[1].turn \in {None, u} /\ Ahead(0, u)'
      BY <2>3, <2>6, <2>8, <3>2
    <3>4. Begins(reader.message, 0)'
      BY <2>6, <3>3 DEF Begins
    <3> QED BY <2>5, <3>1, <3>4 DEF ReaderInOrder, EndPhases
  <2> QED BY <2>7, <2>8
<1>7. ASSUME Reports \/ Remembers
      PROVE  ReaderInOrder' /\ UNCHANGED events
  <2>1. /\ reader.pc \in EndPhases /\ reader'.pc # "project"
        /\ reader'.message = reader.message /\ UNCHANGED events
    BY <1>7 DEF Reports, Remembers, EndPhases
  <2> QED BY <1>e, <2>1 DEF ReaderInOrder
<1>8. ASSUME Finishes("release") \/ Finishes("project")
      PROVE  ReaderInOrder' /\ UNCHANGED events
  <2>1. reader'.pc = "ready" /\ UNCHANGED events
    BY <1>8 DEF Finishes, ReadyReader
  <2> QED BY <2>1 DEF ReaderInOrder, EndPhases
<1> QED BY <1>2, <1>3, <1>4, <1>5, <1>6, <1>7, <1>8 DEF Delivery

\* An end under way arrives, unless it is the one whose handling is over.
LEMMA UnderwayStays ==
  ASSUME WellFormed, WellFormed', connected, Delivery, NEW u \in Turns, OneEnd(u),
         EndUnderway(u)
  PROVE  /\ turns'[u].thread = turns[u].thread
         /\ EndUnderway(u)' \/ (ReadRelease /\ reader.message.turn = u)
<1>a. /\ events \in Seq(Message) /\ Len(events) \in Nat
      /\ events' \in Seq(Message) /\ Len(events') \in Nat
  BY DEF WellFormed, TypeOK
<1>1. turns[u].status = "running" \/ EndUnread(u) \/ Handles(u)
  BY UnderwayIs
<1>2. turns'[u].thread = turns[u].thread
  <2>1. turns[u].status # "absent"
    BY <1>1 DEF OneEnd
  <2> QED BY <2>1, TurnPlaced
<1> SUFFICES EndUnderway(u)' \/ (ReadRelease /\ reader.message.turn = u)
  BY <1>2
<1>3. ASSUME NEW i \in Nat, EndsAt(i, u)'
      PROVE  EndUnderway(u)'
  <2>1. i \in DOMAIN events'
    BY <1>a, <1>3 DEF EndsAt
  <2> QED BY <1>3, <2>1 DEF EndsAt, EndUnderway
<1>4. ASSUME NEW i \in Nat, Ahead(i, u)'
      PROVE  EndUnderway(u)'
  BY <1>3, <1>4 DEF Ahead, EndUnderway
<1>5. Handles(u)' => EndUnderway(u)'
  BY DEF Handles, EndPhases, EndUnderway
<1>6. CASE turns[u].status = "running" \/ EndUnread(u)
  <2>1. ASSUME NEW i \in Nat, i <= Len(events), Ahead(i, u)
        PROVE  /\ ~Takes => Ahead(i, u)'
               /\ Takes /\ i # 0 => \A k \in Nat : k + 1 = i => Ahead(k, u)'
    BY <2>1, AheadStays
  <2>2. CASE ~Takes
    <3>1. \A j \in Nat : EndsAt(j, u) => j > 0
      BY DEF EndsAt
    <3>2. Ahead(0, u) /\ 0 <= Len(events)
      BY <1>a, <1>6, <3>1 DEF Ahead, EndUnread
    <3>3. Ahead(0, u)'
      BY <2>1, <2>2, <3>2
    <3> QED BY <1>4, <3>3
  <2>3. CASE Takes
    <3>1. /\ Len(events) >= 1 /\ Head(events) = events[1]
      BY <2>3, TailShifts DEF Takes
    <3>2. CASE EndsAt(1, u)
      <4>1. Handles(u)'
        BY <2>3, <3>1, <3>2 DEF Takes, Handles, EndPhases, EndsAt
      <4> QED BY <1>5, <4>1
    <3>3. CASE ~EndsAt(1, u)
      <4>1. \A j \in Nat : EndsAt(j, u) => j > 1
        BY <3>3 DEF EndsAt
      <4>2. Ahead(1, u)
        BY <1>6, <4>1 DEF Ahead, EndUnread
      <4>3. 1 \in Nat /\ 1 <= Len(events) /\ 1 # 0 /\ 0 \in Nat /\ 0 + 1 = 1
        BY <1>a, <3>1
      <4>4. Ahead(0, u)'
        BY <2>1, <2>3, <4>2, <4>3
      <4> QED BY <1>4, <4>4
    <3> QED BY <3>2, <3>3
  <2> QED BY <2>2, <2>3
<1>7. CASE Handles(u)
  <2>1. reader.pc \in EndPhases /\ reader.message.turn = u
    BY <1>7 DEF Handles
  <2>2. CASE UNCHANGED reader \/ Reports \/ Remembers
    <3>1. Handles(u)'
      BY <2>1, <2>2 DEF Handles, EndPhases, Reports, Remembers
    <3> QED BY <1>5, <3>1
  <2>3. ~Takes /\ ~Finishes("project")
    BY <2>1 DEF Takes, Finishes, EndPhases
  <2> QED BY <2>1, <2>2, <2>3 DEF Delivery
<1> QED BY <1>1, <1>6, <1>7

-----------------------------------------------------------------------------
(* What a step makes of a Session that is shown active                     *)

\* A Run that occupies s has recorded the turn s is active with.
ByRun(s) ==
  /\ sessions[s].activeTurnId # None
  /\ \E r \in OccupyingRuns(s) : runs[r].transportTurnId = sessions[s].activeTurnId

\* Somebody else runs a turn on the thread of s whose end is still to be handled.
ByTurn(s) ==
  /\ sessions[s].controlMode = "external"
  /\ \E t \in Turns : /\ turns[t].thread = sessions[s].thread
                      /\ sessions[s].activeTurnId \in {None, t}
                      /\ EndUnderway(t)

\* s is shown active before and after, and for the same cause.
StaysActive(s) ==
  /\ sessions[s].registered /\ sessions[s].runtimeStatus = "active"
  /\ sessions'[s].thread = sessions[s].thread
  /\ sessions'[s].activeTurnId = sessions[s].activeTurnId
  /\ sessions'[s].controlMode \in {sessions[s].controlMode, "external"}
  /\ ByRun(s) => ByRun(s)'

\* After the step s is not shown active, is so as before, or for a new cause.
Explained(s) ==
  sessions'[s].registered /\ sessions'[s].runtimeStatus = "active" =>
    StaysActive(s) \/ ByRun(s)' \/ ByTurn(s)'

\* Whoever holds a Session still does.
RunsStay(s) ==
  \A r \in OccupyingRuns(s) :
    runs[r].transportTurnId = sessions[s].activeTurnId /\ sessions[s].activeTurnId # None =>
      /\ r \in OccupyingRuns(s)'
      /\ runs'[r].transportTurnId = runs[r].transportTurnId

\* A write that keeps what makes a Session active needs no new cause.
LEMMA SameIsExplained ==
  ASSUME NEW s \in Sessions, RunsStay(s),
         sessions'[s].registered /\ sessions'[s].runtimeStatus = "active" =>
           /\ sessions[s].registered /\ sessions[s].runtimeStatus = "active"
           /\ sessions'[s].thread = sessions[s].thread
           /\ sessions'[s].activeTurnId = sessions[s].activeTurnId
           /\ sessions'[s].controlMode \in {sessions[s].controlMode, "external"}
  PROVE  Explained(s)
<1>1. sessions'[s].activeTurnId = sessions[s].activeTurnId => (ByRun(s) => ByRun(s)')
  BY DEF RunsStay, ByRun
<1> QED BY <1>1 DEF Explained, StaysActive

\* Nor does one that leaves the Session alone.
LEMMA UntouchedIsExplained ==
  ASSUME NEW s \in Sessions, RunsStay(s), sessions'[s] = sessions[s]
  PROVE  Explained(s)
BY SameIsExplained

\* Statuses of Runs that still occupy change nothing.
LEMMA OpenRunsStay ==
  ASSUME NEW s \in Sessions,
         \A r \in Runs : Occupies(r) =>
           /\ runs'[r].status \in OccupyingStatuses
           /\ runs'[r].sessionId = runs[r].sessionId
           /\ runs[r].transportTurnId # None =>
                runs'[r].transportTurnId = runs[r].transportTurnId
  PROVE  RunsStay(s)
BY DEF RunsStay, OccupyingRuns, Occupies

\* A status written to one Run that keeps it open.
LEMMA OpenStatusStays ==
  ASSUME runs \in [Runs -> RunRecord], NEW x \in Runs, NEW v,
         runs' = [runs EXCEPT ![x].status = v],
         Occupies(x) => v \in OccupyingStatuses, NEW s \in Sessions
  PROVE  RunsStay(s)
<1>1. \A r \in Runs : /\ runs'[r].sessionId = runs[r].sessionId
                      /\ runs'[r].transportTurnId = runs[r].transportTurnId
                      /\ runs'[r].status = IF r = x THEN v ELSE runs[r].status
  BY DEF RunRecord
<1> QED BY <1>1, OpenRunsStay DEF Occupies

\* The end of a Run makes the Session of its turn idle.
LEMMA AfterTerminalIdles ==
  ASSUME NEW session \in SessionRecord, NEW run, NEW status,
         session.activeTurnId = run.transportTurnId
  PROVE  AfterTerminal(session, run, status).runtimeStatus = "idle"
<1> DEFINE idled == [session EXCEPT !.runtimeStatus = "idle", !.activeTurnId = None]
           resolved(outcome) ==
             [idled EXCEPT !.handoffStatus = outcome,
                           !.lastHandoffRequestId = run.handoffRequestId]
<1>1. idled.runtimeStatus = "idle"
  BY DEF SessionRecord
<1>2. \A outcome : resolved(outcome).runtimeStatus = "idle"
  BY DEF SessionRecord
<1>3. TakenOver(resolved("completed")).runtimeStatus = "idle"
  BY DEF TakenOver, SessionRecord
<1>4. [resolved("failed") EXCEPT !.controlMode = "managed"].runtimeStatus = "idle"
  BY DEF SessionRecord
<1> HIDE DEF idled, resolved
<1>5. AfterTerminal(session, run, status) \in
        {idled, TakenOver(resolved("completed")),
         [resolved("failed") EXCEPT !.controlMode = "managed"]}
  BY DEF AfterTerminal, idled, resolved
<1> QED BY <1>1, <1>3, <1>4, <1>5

\* So _set_terminal leaves no Session active for the Run it closes.
LEMMA TerminalIsExplained ==
  ASSUME WellFormed, NEW x \in Created, NEW status \in TerminalStatuses,
         SetTerminal(x, status), NEW s \in Sessions
  PROVE  Explained(s)
<1>a. /\ runs \in [Runs -> RunRecord] /\ sessions \in [Sessions -> SessionRecord]
      /\ x \in Runs /\ runs[x].sessionId \in Sessions
  BY DEF WellFormed, TypeOK, BoardConsistent, Created
<1>1. \A r \in Runs : /\ runs'[r].sessionId = runs[r].sessionId
                      /\ runs'[r].transportTurnId = runs[r].transportTurnId
                      /\ r # x \/ Terminated(x) => runs'[r].status = runs[r].status
  BY <1>a DEF SetTerminal, Terminated, RunRecord
<1>2. sessions' = IF Terminated(x) THEN sessions
                  ELSE [sessions EXCEPT
                    ![runs[x].sessionId] =
                      AfterTerminal(sessions[runs[x].sessionId], runs[x], status)]
  BY DEF SetTerminal
<1>3. CASE Terminated(x)
  <2>1. RunsStay(s)
    BY <1>1, <1>3 DEF RunsStay, OccupyingRuns, Occupies
  <2> QED BY <1>2, <1>3, <2>1, UntouchedIsExplained
<1>4. CASE ~Terminated(x) /\ runs[x].sessionId = s
           /\ sessions[s].activeTurnId = runs[x].transportTurnId
  <2>1. AfterTerminal(sessions[s], runs[x], status).runtimeStatus = "idle"
    BY <1>a, <1>4, AfterTerminalIdles
  <2>2. sessions'[s] = AfterTerminal(sessions[s], runs[x], status)
    BY <1>2, <1>4, <1>a
  <2> QED BY <2>1, <2>2 DEF Explained
<1>5. CASE ~Terminated(x)
           /\ (runs[x].sessionId # s \/ sessions[s].activeTurnId # runs[x].transportTurnId)
  <2>1. RunsStay(s)
    BY <1>1, <1>5 DEF RunsStay, OccupyingRuns, Occupies
  <2>2. sessions'[s] = sessions[s]
    BY <1>a, <1>2, <1>5 DEF AfterTerminal
  <2> QED BY <2>1, <2>2, UntouchedIsExplained
<1> QED BY <1>3, <1>4, <1>5

\* A Run of unknown outcome keeps its Session as it is.
LEMMA UnknownIsExplained ==
  ASSUME WellFormed, NEW x \in Runs, SetUnknown(x), NEW s \in Sessions
  PROVE  Explained(s)
<1> DEFINE v == IF Terminated(x) THEN runs[x].status ELSE "unknown"
<1>1. runs' = [runs EXCEPT ![x].status = v] /\ UNCHANGED sessions
  BY DEF SetUnknown
<1>2. Occupies(x) => v \in OccupyingStatuses
  BY DEF Occupies, OccupyingStatuses
<1>3. runs \in [Runs -> RunRecord]
  BY DEF WellFormed, TypeOK
<1> HIDE DEF v
<1>4. RunsStay(s)
  BY <1>1, <1>2, <1>3, OpenStatusStays
<1> QED BY <1>1, <1>4, UntouchedIsExplained

\* The terminal callback is one of the two.
LEMMA ResultIsExplained ==
  ASSUME WellFormed, NEW x \in Created, NEW status \in TerminalStatuses \cup {"unknown"},
         WorkerResult(x, status), NEW s \in Sessions
  PROVE  Explained(s)
<1>1. x \in Runs
  BY DEF Created
<1> QED BY <1>1, TerminalIsExplained, UnknownIsExplained DEF WorkerResult

\* What a projection shows.
LEMMA ProjectedShows ==
  ASSUME NEW session \in SessionRecord, NEW t \in Turns \cup {None}
  PROVE  /\ Projected(session, t).thread = session.thread
         /\ Projected(session, t).controlMode = "external"
         /\ Projected(session, t).activeTurnId = t
<1>1. TakenOver(session) \in SessionRecord
  BY TakenOverType
<1>2. /\ Projected(session, t).thread = TakenOver(session).thread
      /\ Projected(session, t).controlMode = TakenOver(session).controlMode
      /\ Projected(session, t).activeTurnId = t
  BY <1>1 DEF Projected, SessionRecord
<1> QED BY <1>2, TakenOverFenced

\* It is explained by a turn on the thread of the Session whose end is under way.
LEMMA ProjectionIsExplained ==
  ASSUME WellFormed, NEW s \in Sessions, NEW u \in Turns, NEW t \in {None, u},
         sessions'[s] = Projected(sessions[s], t),
         turns'[u].thread = sessions[s].thread, EndUnderway(u)'
  PROVE  Explained(s)
<1>1. sessions[s] \in SessionRecord
  BY DEF WellFormed, TypeOK
<1>2. /\ sessions'[s].thread = sessions[s].thread
      /\ sessions'[s].controlMode = "external"
      /\ sessions'[s].activeTurnId = t
  BY <1>1, ProjectedShows
<1> QED BY <1>2 DEF Explained, ByTurn

\* What a PUT stores over a Session that is shown active.
LEMMA MergedShows ==
  ASSUME NEW previous \in SessionRecord, NEW record \in SessionRecord, NEW minimal \in BOOLEAN,
         record.registered,
         Merged(previous, record, minimal).runtimeStatus = "active",
         record.runtimeStatus # "active"
  PROVE  /\ previous.registered /\ previous.runtimeStatus = "active" /\ ~minimal
         /\ Merged(previous, record, minimal).activeTurnId = previous.activeTurnId
         /\ Merged(previous, record, minimal).controlMode
              \in {previous.controlMode, "external"}
<1> DEFINE runtime == IF minimal THEN record.runtimeStatus ELSE previous.runtimeStatus
           turn == IF minimal THEN None ELSE previous.activeTurnId
           updated == [previous EXCEPT !.thread = record.thread, !.enabled = record.enabled,
                                       !.runtimeStatus = runtime, !.activeTurnId = turn]
           kept == OwnedByRuntime(updated)
           switched == \/ kept.thread # previous.thread
                       \/ kept.controlMode # previous.controlMode
           generation == IF switched THEN kept.controlGeneration + 1
                                     ELSE kept.controlGeneration
<1>1. /\ runtime \in RuntimeStatuses
      /\ turn \in Turns \cup {None}
      /\ record.thread \in Threads \cup {None}
      /\ record.enabled \in BOOLEAN
  BY DEF SessionRecord
<1>2. /\ updated \in SessionRecord
      /\ updated.runtimeStatus = runtime
      /\ updated.activeTurnId = turn
      /\ updated.controlMode = previous.controlMode
  <2> HIDE DEF runtime, turn
  <2> QED BY <1>1 DEF SessionRecord
<1>3. \A x \in SessionRecord :
        /\ OwnedByRuntime(x) \in SessionRecord
        /\ OwnedByRuntime(x).runtimeStatus = x.runtimeStatus
        /\ OwnedByRuntime(x).activeTurnId = x.activeTurnId
        /\ OwnedByRuntime(x).controlMode \in {x.controlMode, "external"}
  BY DEF OwnedByRuntime, SessionRecord
<1>4. /\ kept \in SessionRecord
      /\ kept.runtimeStatus = runtime
      /\ kept.activeTurnId = turn
      /\ kept.controlMode \in {previous.controlMode, "external"}
  <2> HIDE DEF updated, runtime, turn
  <2> QED BY <1>2, <1>3
<1>5. CASE previous.registered
  <2>1. Merged(previous, record, minimal) = [kept EXCEPT !.controlGeneration = generation]
    BY <1>5 DEF Merged
  <2> DEFINE stored == [kept EXCEPT !.controlGeneration = generation]
  <2>2. /\ stored.runtimeStatus = kept.runtimeStatus
        /\ stored.activeTurnId = kept.activeTurnId
        /\ stored.controlMode = kept.controlMode
    <3> HIDE DEF kept, generation
    <3> QED BY <1>4 DEF SessionRecord
  <2> HIDE DEF stored, kept
  <2>3. runtime = "active"
    BY <1>4, <2>1, <2>2 DEF stored
  <2>4. ~minimal
    BY <2>3
  <2> QED BY <1>4, <1>5, <2>1, <2>2, <2>3, <2>4 DEF stored
<1>6. CASE ~previous.registered
  <2>1. Merged(previous, record, minimal) = OwnedByRuntime(record)
    BY <1>6 DEF Merged
  <2> QED BY <1>3, <2>1
<1> QED BY <1>5, <1>6

\* A PUT that neither reports a running turn nor moves an active Session keeps its
\* cause.
LEMMA PutIsExplained ==
  ASSUME WellFormed, NEW x \in Sessions, NEW th \in Threads, NEW enabled \in BOOLEAN,
         NEW mode \in {"managed", "external"}, NEW runtime \in RuntimeStatuses \ {"active"},
         NEW minimal \in BOOLEAN, NEW edited \in BOOLEAN,
         PutSession(x, Fresh(th, enabled, mode, runtime), minimal, edited),
         UNCHANGED runs, NEW s \in Sessions,
         ~minimal /\ sessions[s].registered /\ sessions[s].runtimeStatus = "active" =>
           sessions'[s].thread = sessions[s].thread
  PROVE  Explained(s)
<1> DEFINE record == Fresh(th, enabled, mode, runtime)
           stored == Merged(sessions[x], record, minimal)
<1>1. record \in SessionRecord /\ record.registered /\ record.runtimeStatus # "active"
  BY DEF Fresh, SessionRecord, RuntimeStatuses, HandoffStatuses
<1>2. sessions[x] \in SessionRecord /\ sessions \in [Sessions -> SessionRecord]
  BY DEF WellFormed, TypeOK
<1>3. RunsStay(s)
  BY DEF RunsStay, OccupyingRuns, Occupies
<1>4. UNCHANGED sessions \/ sessions' = [sessions EXCEPT ![x] = stored]
  BY DEF PutSession
<1> HIDE DEF record
<1>5. stored.runtimeStatus = "active" =>
        /\ sessions[x].registered /\ sessions[x].runtimeStatus = "active" /\ ~minimal
        /\ stored.activeTurnId = sessions[x].activeTurnId
        /\ stored.controlMode \in {sessions[x].controlMode, "external"}
  BY <1>1, <1>2, MergedShows
<1> HIDE DEF stored
<1>6. CASE sessions'[s] = sessions[s]
  BY <1>3, <1>6, UntouchedIsExplained
<1>7. CASE s = x /\ sessions'[s] = stored
  <2>1. sessions'[s].registered /\ sessions'[s].runtimeStatus = "active" =>
          /\ sessions[s].registered /\ sessions[s].runtimeStatus = "active"
          /\ sessions'[s].thread = sessions[s].thread
          /\ sessions'[s].activeTurnId = sessions[s].activeTurnId
          /\ sessions'[s].controlMode \in {sessions[s].controlMode, "external"}
    BY <1>5, <1>7
  <2> QED BY <1>3, <2>1, SameIsExplained
<1> QED BY <1>2, <1>4, <1>6, <1>7

\* A minimal PUT shows the activity it has read.
LEMMA MergedBusyShows ==
  ASSUME NEW previous \in SessionRecord, NEW record \in SessionRecord, NEW minimal \in BOOLEAN,
         minimal, record.runtimeStatus = "active", record.activeTurnId = None
  PROVE  /\ Merged(previous, record, minimal).thread = record.thread
         /\ Merged(previous, record, minimal).controlMode = "external"
         /\ Merged(previous, record, minimal).activeTurnId = None
<1> DEFINE updated == [previous EXCEPT !.thread = record.thread, !.enabled = record.enabled,
                                       !.runtimeStatus = IF minimal THEN record.runtimeStatus
                                                         ELSE @,
                                       !.activeTurnId = IF minimal THEN None ELSE @]
           kept == OwnedByRuntime(updated)
           switched == \/ kept.thread # previous.thread
                       \/ kept.controlMode # previous.controlMode
           generation == IF switched THEN kept.controlGeneration + 1
                                     ELSE kept.controlGeneration
           stored == [kept EXCEPT !.controlGeneration = generation]
<1>1. \A x \in SessionRecord :
        x.runtimeStatus = "active" =>
          /\ OwnedByRuntime(x) \in SessionRecord
          /\ OwnedByRuntime(x).thread = x.thread
          /\ OwnedByRuntime(x).controlMode = "external"
          /\ OwnedByRuntime(x).activeTurnId = x.activeTurnId
  BY DEF OwnedByRuntime, BusyRuntime, SessionRecord
<1>2. CASE previous.registered
  <2>1. Merged(previous, record, minimal) = stored
    BY <1>2 DEF Merged
  <2>2. /\ updated \in SessionRecord /\ updated.thread = record.thread
        /\ updated.runtimeStatus = "active" /\ updated.activeTurnId = None
    BY DEF SessionRecord, RuntimeStatuses
  <2> HIDE DEF updated
  <2>3. /\ kept \in SessionRecord /\ kept.thread = record.thread
        /\ kept.activeTurnId = None /\ kept.controlMode = "external"
    BY <1>1, <2>2
  <2> HIDE DEF kept, generation
  <2>4. /\ stored.thread = record.thread /\ stored.controlMode = "external"
        /\ stored.activeTurnId = None
    BY <2>3 DEF SessionRecord
  <2> HIDE DEF stored
  <2> QED BY <2>1, <2>4
<1>3. CASE ~previous.registered
  <2>1. Merged(previous, record, minimal) = OwnedByRuntime(record)
    BY <1>3 DEF Merged
  <2> QED BY <1>1, <2>1
<1> QED BY <1>2, <1>3

\* That is a cause if the end of a turn on the thread is still under way.
LEMMA BusyPutIsExplained ==
  ASSUME WellFormed, NEW x \in Sessions, NEW th \in Threads, NEW enabled \in BOOLEAN,
         NEW mode \in {"managed", "external"}, NEW edited \in BOOLEAN, NEW minimal \in BOOLEAN,
         minimal, PutSession(x, Fresh(th, enabled, mode, "active"), minimal, edited),
         UNCHANGED runs, NEW u \in Turns, turns'[u].thread = th, EndUnderway(u)',
         NEW s \in Sessions
  PROVE  Explained(s)
<1> DEFINE record == Fresh(th, enabled, mode, "active")
           stored == Merged(sessions[x], record, minimal)
<1>1. /\ record \in SessionRecord /\ record.runtimeStatus = "active"
      /\ record.activeTurnId = None /\ record.thread = th
  BY DEF Fresh, SessionRecord, RuntimeStatuses, HandoffStatuses
<1>2. sessions[x] \in SessionRecord /\ sessions \in [Sessions -> SessionRecord]
  BY DEF WellFormed, TypeOK
<1>3. RunsStay(s)
  BY DEF RunsStay, OccupyingRuns, Occupies
<1>4. UNCHANGED sessions \/ sessions' = [sessions EXCEPT ![x] = stored]
  BY DEF PutSession
<1> HIDE DEF record
<1>5. stored.thread = th /\ stored.controlMode = "external" /\ stored.activeTurnId = None
  BY <1>1, <1>2, MergedBusyShows
<1> HIDE DEF stored
<1>6. CASE sessions'[s] = sessions[s]
  BY <1>3, <1>6, UntouchedIsExplained
<1>7. CASE sessions'[s] = stored
  <2>1. ByTurn(s)'
    BY <1>5, <1>7 DEF ByTurn
  <2> QED BY <2>1 DEF Explained
<1> QED BY <1>2, <1>4, <1>6, <1>7

\* A reconcile worker that is about to project a turn found it on its thread; it is
\* remembered once it is over.
WorkerKnows(r) ==
  reconcile[r].pc = "project" =>
    /\ reconcile[r].active \in Turns
    /\ turns[reconcile[r].active].status # "absent"
    /\ turns[reconcile[r].active].thread = reconcile[r].thread
    /\ EndUnderway(reconcile[r].active) \/ EndedRecently(reconcile[r].active)

\* It found it running.
WorkerFinds(r) ==
  reconcile'[r].pc = "project" =>
    \/ reconcile'[r] = reconcile[r]
    \/ reconcile'[r].active \in RunningOn(reconcile'[r].thread) /\ turns' = turns

\* Every step of a reconcile worker is one of these.
LEMMA WorkersFind ==
  ASSUME WellFormed, NEW r \in Runs, [Next]_vars
  PROVE  WorkerFinds(r)
<1>a. reconcile \in [Runs -> WorkerRecord] /\ None \notin Runs
  BY ConstantsAssumption DEF WellFormed, TypeOK
<1>1. ASSUME NEW c \in Callers, InterruptGet(c)
      PROVE  WorkerFinds(r)
  <2>1. reconcile'[r] = reconcile[r] \/ reconcile'[r] = [reconcile[r] EXCEPT !.pc = "read"]
    BY <1>1, <1>a DEF InterruptGet, ScheduleReconcile
  <2> QED BY <2>1, <1>a DEF WorkerFinds, WorkerRecord
<1>2. ASSUME NEW x \in Runs, GetRun(x)
      PROVE  WorkerFinds(r)
  <2>1. reconcile'[r] = reconcile[r] \/ reconcile'[r] = [reconcile[r] EXCEPT !.pc = "read"]
    BY <1>2, <1>a DEF GetRun, ScheduleReconcile
  <2> QED BY <2>1, <1>a DEF WorkerFinds, WorkerRecord
<1>3. ASSUME NEW x \in Runs, ReconcileRead(x)
      PROVE  WorkerFinds(r)
  BY <1>3, <1>a DEF ReconcileRead, WorkerFinds, NoWorker
<1>4. ASSUME NEW x \in Runs, ReconcileList(x)
      PROVE  WorkerFinds(r)
  <2>1. CASE r # x
    BY <1>4, <2>1, <1>a DEF ReconcileList, WorkerFinds
  <2>2. CASE r = x
    <3>1. turns' = turns
      BY <1>4 DEF ReconcileList, appServer
    <3>2. CASE reconcile' = [reconcile EXCEPT ![r] = NoWorker]
      BY <3>2, <1>a DEF NoWorker, WorkerFinds
    <3>3. ASSUME NEW active \in IF RunningOn(reconcile[r].thread) = {} THEN {None}
                                ELSE RunningOn(reconcile[r].thread),
                 reconcile' = [reconcile EXCEPT ![r] =
                   [reconcile[r] EXCEPT !.pc = IF active \in {None, runs[r].transportTurnId}
                                    THEN "close" ELSE "project",
                             !.active = active,
                             !.fact = TerminalFact(runs[r].transportTurnId)]]
          PROVE  WorkerFinds(r)
      <4>1. /\ reconcile'[r].pc = IF active \in {None, runs[r].transportTurnId}
                                  THEN "close" ELSE "project"
            /\ reconcile'[r].active = active
            /\ reconcile'[r].thread = reconcile[r].thread
        BY <3>3, <1>a DEF WorkerRecord
      <4> QED BY <3>1, <3>3, <4>1 DEF WorkerFinds
    <3> QED BY <1>4, <2>2, <3>2, <3>3 DEF ReconcileList
  <2> QED BY <2>1, <2>2
<1>5. ASSUME NEW x \in Runs, ReconcileProject(x)
      PROVE  WorkerFinds(r)
  BY <1>5, <1>a DEF ReconcileProject, WorkerFinds, WorkerRecord
<1>6. ASSUME NEW x \in Runs, ReconcileClose(x)
      PROVE  WorkerFinds(r)
  BY <1>6, <1>a DEF ReconcileClose, WorkerFinds, NoWorker
<1>7. CASE Restart
  <2>1. reconcile'[r] \in {NoWorker, [NoWorker EXCEPT !.pc = "read"]}
    BY <1>7 DEF Restart
  <2> QED BY <2>1 DEF WorkerFinds, NoWorker
<1>8. ASSUME NEW c \in Callers, NEW s \in Sessions, NEW q \in Requests,
             StartCheck(c, s, q)
      PROVE  WorkerFinds(r)
  <2>1. UNCHANGED <<reconcile>>
    BY <1>8
    DEF StartCheck, gateway
  <2> QED BY <2>1 DEF WorkerFinds
<1>9. ASSUME NEW c \in Callers,
             StartRead(c) \/ StartDenied(c) \/ StartRemember(c) \/ StartRejected(c) \/
             StartUnanswered(c) \/ StartRegister(c) \/ StartTakeOrphan(c) \/
             StartOrphan(c) \/ StartFinish(c) \/ StartRefused(c) \/ StartUnknown(c) \/
             InterruptAccepted(c) \/ InterruptRejected(c) \/ InterruptUnanswered(c) \/
             InterruptFailed(c) \/ HandoffUnknown(c) \/ HandoffFailed(c) \/ PutCommit(c)
      PROVE  WorkerFinds(r)
  <2>1. UNCHANGED <<reconcile>>
    BY <1>9
    DEF StartRead, StartDenied, StartRemember, StartRejected, StartUnanswered, StartRegister,
        StartTakeOrphan, StartOrphan, StartFinish, StartRefused, StartUnknown,
        InterruptAccepted, InterruptRejected, InterruptUnanswered, InterruptFailed,
        HandoffUnknown, HandoffFailed, PutCommit, gateway
  <2> QED BY <2>1 DEF WorkerFinds
<1>10. ASSUME NEW c \in Callers, NEW x \in Runs,
             StartCreate(c, x) \/ InterruptCheck(c, x)
      PROVE  WorkerFinds(r)
  <2>1. UNCHANGED <<reconcile>>
    BY <1>10
    DEF StartCreate, InterruptCheck, gateway
  <2> QED BY <2>1 DEF WorkerFinds
<1>11. ASSUME NEW c \in Callers, NEW u \in Turns,
             StartAccepted(c, u)
      PROVE  WorkerFinds(r)
  <2>1. UNCHANGED <<reconcile>>
    BY <1>11
    DEF StartAccepted, gateway
  <2> QED BY <2>1 DEF WorkerFinds
<1>12. ASSUME NEW c \in Callers, NEW s \in Sessions, NEW q \in Requests, NEW x \in Runs,
             HandoffActive(c, s, q, x)
      PROVE  WorkerFinds(r)
  <2>1. UNCHANGED <<reconcile>>
    BY <1>12
    DEF HandoffActive, gateway
  <2> QED BY <2>1 DEF WorkerFinds
<1>13. ASSUME NEW c \in Callers, NEW s \in Sessions, NEW th \in Threads,
             PutRead(c, s, th)
      PROVE  WorkerFinds(r)
  <2>1. UNCHANGED <<reconcile>>
    BY <1>13
    DEF PutRead, gateway
  <2> QED BY <2>1 DEF WorkerFinds
<1>14. ASSUME NEW s \in Sessions, NEW q \in Requests,
             HandoffIdle(s, q) \/ Reclaim(s, q)
      PROVE  WorkerFinds(r)
  <2>1. UNCHANGED <<reconcile>>
    BY <1>14
    DEF HandoffIdle, Reclaim, gateway
  <2> QED BY <2>1 DEF WorkerFinds
<1>15. ASSUME NEW s \in Sessions, NEW th \in Threads, NEW enabled \in BOOLEAN,
              NEW mode \in {"managed", "external"}, NEW edited \in BOOLEAN,
             PutFull(s, th, enabled, mode, edited)
      PROVE  WorkerFinds(r)
  <2>1. UNCHANGED <<reconcile>>
    BY <1>15
    DEF PutFull, gateway
  <2> QED BY <2>1 DEF WorkerFinds
<1>16. CASE 
             ReadCompleted \/ ReadCallback \/ ReadOrphan \/ ReadMatch \/ ReadRelease \/
             ReadStarted \/ ReadProject \/ Disconnect \/ DisconnectStatus \/ Reconnect
  <2>1. UNCHANGED <<reconcile>>
    BY <1>16
    DEF ReadCompleted, ReadCallback, ReadOrphan, ReadMatch, ReadRelease, ReadStarted,
        ReadProject, Disconnect, DisconnectStatus, Reconnect, gateway
  <2> QED BY <2>1 DEF WorkerFinds
<1>17. ASSUME NEW x \in Runs,
             DisconnectCallback(x) \/ ProbeCallback(x)
      PROVE  WorkerFinds(r)
  <2>1. UNCHANGED <<reconcile>>
    BY <1>17
    DEF DisconnectCallback, ProbeCallback, gateway
  <2> QED BY <2>1 DEF WorkerFinds
<1>18. ASSUME NEW u \in Turns,
             Probe(u)
      PROVE  WorkerFinds(r)
  <2>1. UNCHANGED <<reconcile>>
    BY <1>18
    DEF Probe, gateway
  <2> QED BY <2>1 DEF WorkerFinds
<1>19. ASSUME NEW u \in Turns, NEW th \in Threads,
             ExternalTurnStarts(u, th)
      PROVE  WorkerFinds(r)
  <2>1. UNCHANGED <<reconcile>>
    BY <1>19
    DEF ExternalTurnStarts, gateway
  <2> QED BY <2>1 DEF WorkerFinds
<1>20. ASSUME NEW u \in Turns, NEW outcome \in TurnOutcomes,
             TurnEnds(u, outcome)
      PROVE  WorkerFinds(r)
  <2>1. UNCHANGED <<reconcile>>
    BY <1>20
    DEF TurnEnds, gateway
  <2> QED BY <2>1 DEF WorkerFinds
<1>21. CASE UNCHANGED vars
  <2>1. UNCHANGED <<reconcile>>
    BY <1>21 DEF vars, board, gateway, transport, appServer
  <2> QED BY <2>1 DEF WorkerFinds
<1> QED
  BY <1>1, <1>2, <1>3, <1>4, <1>5, <1>6, <1>7, <1>8, <1>9, <1>10, <1>11, <1>12, <1>13, <1>14,
     <1>15, <1>16, <1>17, <1>18, <1>19, <1>20, <1>21
  DEF Next, StartStep, ControlStep, SessionStep, ReconcileStep, ReaderStep, TransportStep,
      AppServerStep

\* So it knows what it projects.
LEMMA NextWorkerKnows ==
  ASSUME WellFormed, WellFormed', connected, Delivery, [Next]_vars, ~Interference,
         \A u \in Turns : OneEnd(u), NEW r \in Runs, WorkerKnows(r)
  PROVE  WorkerKnows(r)'
<1> SUFFICES ASSUME reconcile'[r].pc = "project"
             PROVE  \E u \in Turns :
                      /\ u = reconcile'[r].active /\ turns'[u].status # "absent"
                      /\ turns'[u].thread = reconcile'[r].thread
                      /\ EndUnderway(u)' \/ EndedRecently(u)'
  BY DEF WorkerKnows, EndUnderway, EndedRecently
<1>1. CASE reconcile'[r] = reconcile[r]
  <2>1. PICK u \in Turns : /\ u = reconcile[r].active /\ turns[u].status # "absent"
                           /\ turns[u].thread = reconcile[r].thread
                           /\ EndUnderway(u) \/ EndedRecently(u)
    BY <1>1 DEF WorkerKnows
  <2>2. turns'[u].status # "absent" /\ turns'[u].thread = turns[u].thread
    BY <2>1, TurnPlaced
  <2>3. EndedRecently(u) => EndedRecently(u)'
    <3>1. ~Forgets(u)
      BY <1>1, <2>1 DEF Interference
    <3> QED BY <3>1 DEF Forgets, EndedRecently
  <2>4. EndUnderway(u) => EndUnderway(u)' \/ EndedRecently(u)'
    <3>1. EndUnderway(u) => EndUnderway(u)' \/ (ReadRelease /\ reader.message.turn = u)
      BY UnderwayStays
    <3>2. ReadRelease /\ reader.message.turn = u => EndedRecently(u)
      BY DEF ReadRelease, OneEnd, Handles, EndPhases
    <3> QED BY <2>3, <3>1, <3>2
  <2> QED BY <1>1, <2>1, <2>2, <2>3, <2>4
<1>2. CASE reconcile'[r].active \in RunningOn(reconcile'[r].thread) /\ turns' = turns
  <2>1. PICK u \in Turns : /\ u = reconcile'[r].active /\ turns[u].status = "running"
                           /\ turns[u].thread = reconcile'[r].thread
    BY <1>2 DEF RunningOn
  <2>2. EndUnderway(u)'
    BY <1>2, <2>1 DEF EndUnderway
  <2> QED BY <1>2, <2>1, <2>2
<1>3. WorkerFinds(r)
  BY WorkersFind
<1> QED BY <1>1, <1>2, <1>3 DEF WorkerFinds

-----------------------------------------------------------------------------
(* The steps, one after the other                                          *)

\* A step that leaves the board alone needs no cause.
LEMMA BoardIsExplained ==
  ASSUME UNCHANGED board, NEW s \in Sessions
  PROVE  Explained(s)
<1>1. UNCHANGED <<sessions, runs>>
  BY DEF board
<1>2. RunsStay(s)
  BY <1>1 DEF RunsStay, OccupyingRuns, Occupies
<1> QED BY <1>1, <1>2, UntouchedIsExplained

\* start_run shows a Session active with the turn its Run records.
LEMMA FinishIsExplained ==
  ASSUME WellFormed, Provenance, NEW c \in Callers, StartFinish(c), NEW s \in Sessions
  PROVE  Explained(s)
<1> DEFINE r == calls[c].run
           t == calls[c].turn
           x == runs[r].sessionId
           open == runs[r].status \in OccupyingStatuses \ {"unknown"}
<1>a. /\ runs \in [Runs -> RunRecord] /\ sessions \in [Sessions -> SessionRecord]
      /\ r \in Runs /\ x \in Sessions /\ t \in Turns /\ t # None
  BY ConstantsAssumption
  DEF StartFinish, StartedPhases, TurnPhases, WellFormed, TypeOK, BoardConsistent,
      CallsConsistent, LocalsSet, Created
<1>b. runs[r].transportTurnId = None
  BY DEF StartFinish, StartedPhases, Provenance, StarterAlone
<1>1. \A y \in Runs :
        /\ runs'[y].sessionId = runs[y].sessionId
        /\ runs'[y].status = IF y = r THEN Confirmed(runs[y].status) ELSE runs[y].status
        /\ runs'[y].transportTurnId = IF y = r THEN t ELSE runs[y].transportTurnId
  BY <1>a DEF StartFinish, RunRecord
<1>2. \A status : status \in OccupyingStatuses => Confirmed(status) \in OccupyingStatuses
  BY DEF Confirmed, OccupyingStatuses
<1>3. sessions' = IF open THEN [sessions EXCEPT ![x].runtimeStatus = "active",
                                                ![x].activeTurnId = t]
                  ELSE sessions
  BY DEF StartFinish
<1> HIDE DEF r, t, x, open
<1>4. RunsStay(s)
  BY <1>1, <1>2, <1>b, OpenRunsStay DEF Occupies
<1>5. CASE open /\ s = x
  <2>1. sessions'[s].activeTurnId = t
    BY <1>3, <1>5, <1>a DEF SessionRecord
  <2>2. r \in OccupyingRuns(s)' /\ runs'[r].transportTurnId = t
    BY <1>1, <1>2, <1>5, <1>a DEF OccupyingRuns, Occupies, open, x
  <2>3. ByRun(s)'
    BY <1>a, <2>1, <2>2 DEF ByRun
  <2> QED BY <2>3 DEF Explained
<1>6. CASE ~open \/ s # x
  <2>1. sessions'[s] = sessions[s]
    BY <1>3, <1>6, <1>a
  <2> QED BY <1>4, <2>1, UntouchedIsExplained
<1> QED BY <1>5, <1>6

\* start_run: every step.
LEMMA StartIsExplained ==
  ASSUME WellFormed, Provenance, NEW c \in Callers, StartStep(c), NEW s \in Sessions
  PROVE  Explained(s)
<1>1. calls[c].pc \in StartedPhases => calls[c].run \in Created
  BY DEF WellFormed, CallsConsistent
<1>2. CASE \/ \E x \in Sessions, q \in Requests : StartCheck(c, x, q)
           \/ StartRead(c) \/ StartDenied(c) \/ StartRemember(c)
           \/ \E t \in Turns : StartAccepted(c, t)
           \/ StartRejected(c) \/ StartUnanswered(c) \/ StartRegister(c)
           \/ StartTakeOrphan(c)
  <2>1. UNCHANGED board
    BY <1>2 DEF StartCheck, StartRead, StartDenied, StartRemember, StartAccepted,
         StartRejected, StartUnanswered, StartRegister, StartTakeOrphan
  <2> QED BY <2>1, BoardIsExplained
<1>3. ASSUME NEW x \in Runs, StartCreate(c, x)
      PROVE  Explained(s)
  <2>1. /\ \A r \in Runs : r # x => runs'[r] = runs[r]
        /\ runs[x].status = "absent" /\ UNCHANGED sessions
    BY <1>3 DEF StartCreate, WellFormed, TypeOK
  <2>2. RunsStay(s)
    BY <2>1, OpenRunsStay DEF Occupies, OccupyingStatuses
  <2> QED BY <2>1, <2>2, UntouchedIsExplained
<1>4. CASE StartOrphan(c)
  <2>1. calls[c].run \in Created /\ calls[c].turn \in Turns
    BY <1>1, <1>4 DEF StartOrphan, StartedPhases, TurnPhases, WellFormed, CallsConsistent,
         LocalsSet
  <2> QED BY <1>4, <2>1, CallbackStatusType, ResultIsExplained DEF StartOrphan
<1>5. CASE StartFinish(c)
  BY <1>5, FinishIsExplained
<1>6. CASE StartRefused(c)
  <2>1. calls[c].run \in Created
    BY <1>1, <1>6 DEF StartRefused, StartedPhases
  <2> QED BY <1>6, <2>1, TerminalIsExplained DEF StartRefused, TerminalStatuses
<1>7. CASE StartUnknown(c)
  <2>1. calls[c].run \in Runs
    BY <1>1, <1>7 DEF StartUnknown, StartedPhases, Created
  <2> QED BY <1>7, <2>1, UnknownIsExplained DEF StartUnknown
<1> QED BY <1>2, <1>3, <1>4, <1>5, <1>6, <1>7 DEF StartStep

\* interrupt_run, handoff with a turn, and the commit of a minimal PUT.
LEMMA ControlIsExplained ==
  ASSUME WellFormed, NEW c \in Callers, ControlStep(c), ~Interference, NEW s \in Sessions
  PROVE  Explained(s)
<1>a. /\ runs \in [Runs -> RunRecord] /\ sessions \in [Sessions -> SessionRecord]
      /\ calls \in [Callers -> CallRecord]
  BY DEF WellFormed, TypeOK
<1>b. calls[c].pc \in ControlPhases => calls[c].run \in Runs /\ calls[c].session \in Sessions
  BY DEF WellFormed, CallsConsistent, LocalsSet, Created, ControlPhases
<1>1. CASE InterruptAccepted(c) \/ InterruptGet(c) \/ InterruptRejected(c)
           \/ InterruptUnanswered(c)
           \/ \E x \in Sessions, th \in Threads : PutRead(c, x, th)
  <2>1. UNCHANGED board
    BY <1>1 DEF InterruptAccepted, InterruptGet, InterruptRejected, InterruptUnanswered,
         PutRead
  <2> QED BY <2>1, BoardIsExplained
<1>2. ASSUME NEW x \in Runs, InterruptCheck(c, x)
      PROVE  Explained(s)
  <2>1. runs' = [runs EXCEPT ![x].status = "interrupting"] /\ UNCHANGED sessions
    BY <1>2 DEF InterruptCheck
  <2>2. RunsStay(s)
    BY <1>a, <2>1, OpenStatusStays DEF OccupyingStatuses
  <2> QED BY <2>1, <2>2, UntouchedIsExplained
<1>3. CASE InterruptFailed(c)
  <2> DEFINE x == calls[c].run
             v == IF runs[x].status = "interrupting" THEN "active" ELSE runs[x].status
  <2>1. runs' = [runs EXCEPT ![x].status = v] /\ UNCHANGED sessions /\ x \in Runs
    BY <1>3, <1>b DEF InterruptFailed, ControlPhases
  <2>2. Occupies(x) => v \in OccupyingStatuses
    BY DEF Occupies, OccupyingStatuses
  <2> HIDE DEF x, v
  <2>3. RunsStay(s)
    BY <1>a, <2>1, <2>2, OpenStatusStays
  <2> QED BY <2>1, <2>3, UntouchedIsExplained
<1>4. ASSUME NEW y \in Sessions, NEW q \in Requests, NEW x \in Runs, HandoffActive(c, y, q, x)
      PROVE  Explained(s)
  <2>1. \A r \in Runs :
          /\ runs'[r].sessionId = runs[r].sessionId
          /\ runs'[r].transportTurnId = runs[r].transportTurnId
          /\ runs'[r].status = IF r = x THEN "interrupting" ELSE runs[r].status
    BY <1>4, <1>a DEF HandoffActive, RunRecord
  <2>2. RunsStay(s)
    BY <2>1, OpenRunsStay DEF Occupies, OccupyingStatuses
  <2>3. /\ sessions'[s].registered = sessions[s].registered
        /\ sessions'[s].thread = sessions[s].thread
        /\ sessions'[s].runtimeStatus = sessions[s].runtimeStatus
        /\ sessions'[s].activeTurnId = sessions[s].activeTurnId
        /\ sessions'[s].controlMode = sessions[s].controlMode
    BY <1>4, <1>a DEF HandoffActive, SessionRecord
  <2> QED BY <2>2, <2>3, SameIsExplained
<1>5. CASE HandoffUnknown(c)
  <2> DEFINE x == calls[c].run
             y == calls[c].session
             v == IF Terminated(x) THEN runs[x].status ELSE "unknown"
  <2>1. /\ runs' = [runs EXCEPT ![x].status = v] /\ x \in Runs /\ y \in Sessions
        /\ sessions' = IF Terminated(x) THEN sessions
                       ELSE [sessions EXCEPT ![y].runtimeStatus = "unknown",
                                             ![y].handoffStatus = "unknown"]
    BY <1>5, <1>b DEF HandoffUnknown, ControlPhases
  <2>2. Occupies(x) => v \in OccupyingStatuses
    BY DEF Occupies, OccupyingStatuses
  <2> HIDE DEF x, y, v
  <2>3. RunsStay(s)
    BY <1>a, <2>1, <2>2, OpenStatusStays
  <2>4. sessions'[s] = sessions[s] \/ sessions'[s].runtimeStatus = "unknown"
    BY <1>a, <2>1 DEF SessionRecord
  <2> QED BY <2>3, <2>4, UntouchedIsExplained DEF Explained
<1>6. CASE HandoffFailed(c)
  <2> DEFINE x == calls[c].run
             y == calls[c].session
             v == IF runs[x].status = "interrupting" THEN "active" ELSE runs[x].status
  <2>1. CASE Terminated(x)
    <3>1. UNCHANGED board
      BY <1>6, <2>1 DEF HandoffFailed
    <3> QED BY <3>1, BoardIsExplained
  <2>2. CASE ~Terminated(x)
    <3>1. sessions[y].controlMode # "external" \/ sessions[y].runtimeStatus # "active"
      BY <1>6, <2>2 DEF Interference
    <3>2. /\ runs' = [runs EXCEPT ![x].status = v] /\ x \in Runs /\ y \in Sessions
          /\ sessions' = [sessions EXCEPT ![y] =
               [@ EXCEPT !.controlMode = "managed", !.handoffStatus = "failed",
                         !.handoffRequestId = calls[c].request,
                         !.lastHandoffRequestId = calls[c].request]]
      BY <1>6, <1>b, <2>2 DEF HandoffFailed, ControlPhases
    <3>3. Occupies(x) => v \in OccupyingStatuses
      BY DEF Occupies, OccupyingStatuses
    <3> HIDE DEF x, y, v
    <3>4. RunsStay(s)
      BY <1>a, <3>2, <3>3, OpenStatusStays
    <3>5. /\ sessions'[s].registered = sessions[s].registered
          /\ sessions'[s].thread = sessions[s].thread
          /\ sessions'[s].runtimeStatus = sessions[s].runtimeStatus
          /\ sessions'[s].activeTurnId = sessions[s].activeTurnId
          /\ sessions[s].runtimeStatus = "active" =>
               sessions'[s].controlMode \in {sessions[s].controlMode, "external"}
      BY <1>a, <3>1, <3>2 DEF SessionRecord
    <3> QED BY <3>4, <3>5, SameIsExplained
  <2> QED BY <2>1, <2>2
<1>7. CASE PutCommit(c)
  <2>1. /\ calls[c].session \in Sessions /\ calls[c].thread \in Threads
        /\ calls[c].runtime \in RuntimeStatuses
    BY <1>7, <1>a DEF PutCommit, WellFormed, CallsConsistent, LocalsSet, CallRecord
  <2>2. PICK enabled \in BOOLEAN, edited \in BOOLEAN, mode \in {"managed", "external"} :
          PutSession(calls[c].session,
                     Fresh(calls[c].thread, enabled, mode, calls[c].runtime), TRUE, edited)
    BY <1>7 DEF PutCommit
  <2>3. UNCHANGED runs
    BY <1>7 DEF PutCommit
  <2>4. CASE calls[c].runtime # "active"
    BY <2>1, <2>2, <2>3, <2>4, PutIsExplained
  <2>5. CASE calls[c].runtime = "active"
    <3>1. PICK u \in Turns : turns[u].thread = calls[c].thread /\ EndUnderway(u)
      BY <1>7, <2>5 DEF Interference
    <3>2. UNCHANGED <<turns, events, reader>>
      BY <1>7 DEF PutCommit, appServer
    <3>3. turns'[u].thread = calls[c].thread /\ EndUnderway(u)'
      BY <3>1, <3>2 DEF EndUnderway
    <3> QED BY <2>1, <2>2, <2>3, <2>5, <3>3, BusyPutIsExplained
  <2> QED BY <2>4, <2>5
<1> QED BY <1>1, <1>2, <1>3, <1>4, <1>5, <1>6, <1>7 DEF ControlStep

\* What a client does to a Session with no turn.
LEMMA SessionIsExplained ==
  ASSUME WellFormed, NEW x \in Sessions, SessionStep(x), ~Interference, NEW s \in Sessions
  PROVE  Explained(s)
<1>a. sessions \in [Sessions -> SessionRecord]
  BY DEF WellFormed, TypeOK
<1>1. ASSUME NEW q \in Requests, HandoffIdle(x, q) \/ Reclaim(x, q)
      PROVE  Explained(s)
  <2>1. UNCHANGED runs
    BY <1>1 DEF HandoffIdle, Reclaim
  <2>2. RunsStay(s)
    BY <2>1 DEF RunsStay, OccupyingRuns, Occupies
  <2>3. sessions'[s] = sessions[s] \/ sessions'[s].runtimeStatus = "idle"
    <3>1. TakenOver(sessions[x]) \in SessionRecord
      BY <1>a, TakenOverType
    <3>2. TakenOver(sessions[x]).runtimeStatus = sessions[x].runtimeStatus
      BY <1>a DEF TakenOver, SessionRecord
    <3>3. CASE HandoffIdle(x, q)
      BY <1>a, <3>1, <3>2, <3>3 DEF HandoffIdle, SessionRecord
    <3>4. CASE Reclaim(x, q)
      BY <1>a, <3>4 DEF Reclaim, SessionRecord
    <3> QED BY <1>1, <3>3, <3>4
  <2> QED BY <2>2, <2>3, UntouchedIsExplained DEF Explained
<1>2. ASSUME NEW th \in Threads, NEW enabled \in BOOLEAN, NEW edited \in BOOLEAN,
             NEW mode \in {"managed", "external"}, PutFull(x, th, enabled, mode, edited)
      PROVE  Explained(s)
  <2>1. sessions[s].registered /\ sessions[s].runtimeStatus = "active" =>
          sessions'[s].thread = sessions[s].thread
    <3>1. CASE s = x
      BY <3>1 DEF Interference
    <3>2. CASE s # x
      BY <1>2, <1>a, <3>2 DEF PutFull, PutSession
    <3> QED BY <3>1, <3>2
  <2>2. "notLoaded" \in RuntimeStatuses \ {"active"}
    BY DEF RuntimeStatuses
  <2>3. /\ PutSession(x, Fresh(th, enabled, mode, "notLoaded"), FALSE, edited)
        /\ UNCHANGED runs
    BY <1>2 DEF PutFull
  <2> QED BY <2>1, <2>2, <2>3, PutIsExplained
<1> QED BY <1>1, <1>2 DEF SessionStep

\* An end that is still to be handled stays so, and so does where its turn runs.
StaysUnderway(u) ==
  EndUnderway(u) => EndUnderway(u)' /\ turns'[u].thread = turns[u].thread

\* A reconcile worker projects no turn whose end has been handled.
LEMMA WorkerProjectionIsExplained ==
  ASSUME WellFormed, \A u \in Turns : StaysUnderway(u),
         NEW x \in Runs, WorkerKnows(x), ReconcileProject(x), NEW s \in Sessions
  PROVE  Explained(s)
<1>1. PICK u \in Turns : /\ u = reconcile[x].active
                         /\ EndUnderway(u) \/ EndedRecently(u)
                         /\ turns[u].thread = reconcile[x].thread
  BY DEF ReconcileProject, WorkerKnows
<1>2. UNCHANGED runs
  BY DEF ReconcileProject
<1>3. RunsStay(s)
  BY <1>2 DEF RunsStay, OccupyingRuns, Occupies
<1>4. \/ sessions'[s] = sessions[s]
      \/ /\ ~EndedRecently(u) /\ s \in SessionsOn(reconcile[x].thread)
         /\ sessions'[s] = Projected(sessions[s], u)
  BY <1>1 DEF ReconcileProject, Unowned
<1>5. CASE ~EndedRecently(u) /\ s \in SessionsOn(reconcile[x].thread)
           /\ sessions'[s] = Projected(sessions[s], u)
  <2>1. EndUnderway(u)
    BY <1>1, <1>5
  <2>2. EndUnderway(u)' /\ turns'[u].thread = turns[u].thread
    BY <2>1 DEF StaysUnderway
  <2>3. turns'[u].thread = sessions[s].thread
    BY <1>1, <1>5, <2>2 DEF SessionsOn
  <2> QED BY <1>5, <2>2, <2>3, ProjectionIsExplained
<1> QED BY <1>3, <1>4, <1>5, UntouchedIsExplained

\* Nor does the reader thread, which reads the beginning of a turn first.
LEMMA ReaderProjectionIsExplained ==
  ASSUME WellFormed, ReaderInOrder, \A u \in Turns : StaysUnderway(u), ReadProject,
         NEW s \in Sessions
  PROVE  Explained(s)
<1> DEFINE t == reader.message.turn
<1>1. PICK u \in Turns : /\ turns[u].thread = reader.message.thread
                         /\ t \in {None, u} /\ Ahead(0, u)
  BY DEF ReadProject, ReaderInOrder, Begins
<1>2. UNCHANGED runs
  BY DEF ReadProject
<1>3. RunsStay(s)
  BY <1>2 DEF RunsStay, OccupyingRuns, Occupies
<1>4. \/ sessions'[s] = sessions[s]
      \/ s \in SessionsOn(reader.message.thread) /\ sessions'[s] = Projected(sessions[s], t)
  BY DEF ReadProject
<1> HIDE DEF t
<1>5. CASE s \in SessionsOn(reader.message.thread)
           /\ sessions'[s] = Projected(sessions[s], t)
  <2>1. EndUnderway(u)
    BY <1>1, UnderwayIs DEF Ahead, EndUnread
  <2>2. EndUnderway(u)' /\ turns'[u].thread = turns[u].thread
    BY <1>1, <2>1 DEF StaysUnderway
  <2>3. turns'[u].thread = sessions[s].thread
    BY <1>1, <1>5, <2>2 DEF SessionsOn
  <2> QED BY <1>1, <1>5, <2>2, <2>3, ProjectionIsExplained
<1> QED BY <1>3, <1>4, <1>5, UntouchedIsExplained

\* The reconcile worker.
LEMMA ReconcileIsExplained ==
  ASSUME WellFormed, \A u \in Turns : StaysUnderway(u),
         NEW x \in Runs, WorkerKnows(x), ReconcileStep(x), NEW s \in Sessions
  PROVE  Explained(s)
<1>1. CASE GetRun(x) \/ ReconcileRead(x) \/ ReconcileList(x)
  <2>1. UNCHANGED board
    BY <1>1 DEF GetRun, ReconcileRead, ReconcileList
  <2> QED BY <2>1, BoardIsExplained
<1>2. CASE ReconcileProject(x)
  BY <1>2, WorkerProjectionIsExplained
<1>3. CASE ReconcileClose(x)
  <2>1. CASE reconcile[x].fact = "none"
    <3>1. UNCHANGED board
      BY <1>3, <2>1 DEF ReconcileClose
    <3> QED BY <3>1, BoardIsExplained
  <2>2. CASE reconcile[x].fact # "none"
    <3>1. x \in Created /\ reconcile[x].fact \in TerminalStatuses
      BY <1>3, <2>2
      DEF ReconcileClose, WellFormed, TypeOK, WorkerRecord, ReferencesConsistent
    <3>2. SetTerminal(x, reconcile[x].fact)
      BY <1>3, <2>2 DEF ReconcileClose
    <3> QED BY <3>1, <3>2, TerminalIsExplained
  <2> QED BY <2>1, <2>2
<1> QED BY <1>1, <1>2, <1>3 DEF ReconcileStep

\* The reader thread, but for the last phase of an end.
LEMMA ReaderIsExplained ==
  ASSUME WellFormed, ReaderInOrder, \A u \in Turns : StaysUnderway(u),
         ReaderStep, ~ReadRelease, NEW s \in Sessions
  PROVE  Explained(s)
<1>a. reader.pc \in EndPhases => reader.message.turn \in Turns
  BY DEF WellFormed, ReferencesConsistent, EndPhases
<1>1. CASE ReadCompleted \/ ReadOrphan \/ ReadStarted
  <2>1. UNCHANGED board
    BY <1>1 DEF ReadCompleted, ReadOrphan, ReadStarted
  <2> QED BY <2>1, BoardIsExplained
<1>2. CASE ReadCallback
  <2>1. reader.run \in Created /\ reader.message.turn \in Turns
    BY <1>2, <1>a DEF ReadCallback, WellFormed, ReferencesConsistent, EndPhases
  <2>2. WorkerResult(reader.run, CallbackStatus(reader.message.turn))
    BY <1>2 DEF ReadCallback
  <2> QED BY <2>1, <2>2, CallbackStatusType, ResultIsExplained
<1>3. CASE ReadMatch
  <2>1. reader.message.turn \in Turns
    BY <1>3, <1>a DEF ReadMatch, EndPhases
  <2>2. \/ UNCHANGED board
        \/ \E r \in Created : WorkerResult(r, CallbackStatus(reader.message.turn))
    BY <1>3 DEF ReadMatch, Occupies, OccupyingStatuses, Created
  <2> QED BY <2>1, <2>2, BoardIsExplained, CallbackStatusType, ResultIsExplained
<1>4. CASE ReadProject
  BY <1>4, ReaderProjectionIsExplained
<1> QED BY <1>1, <1>2, <1>3, <1>4 DEF ReaderStep

\* Late reports of the transport.
LEMMA TransportIsExplained ==
  ASSUME WellFormed, connected, TransportStep, ~Disconnect, NEW s \in Sessions
  PROVE  Explained(s)
<1>a. sessions \in [Sessions -> SessionRecord]
  BY DEF WellFormed, TypeOK
<1>1. ASSUME NEW x \in Runs, DisconnectCallback(x)
      PROVE  Explained(s)
  BY <1>1, UnknownIsExplained DEF DisconnectCallback
<1>2. ASSUME NEW x \in Runs, ProbeCallback(x)
      PROVE  Explained(s)
  <2>1. x \in Created /\ probed[x] \in TerminalStatuses \cup {"unknown"}
    BY <1>2 DEF ProbeCallback, WellFormed, TypeOK, ReferencesConsistent
  <2> QED BY <1>2, <2>1, ResultIsExplained DEF ProbeCallback
<1>3. CASE DisconnectStatus
  <2>1. UNCHANGED runs
    BY <1>3 DEF DisconnectStatus
  <2>2. RunsStay(s)
    BY <2>1 DEF RunsStay, OccupyingRuns, Occupies
  <2>3. sessions'[s] = sessions[s] \/ sessions'[s].runtimeStatus = "unknown"
    BY <1>3, <1>a DEF DisconnectStatus, SessionRecord
  <2> QED BY <2>2, <2>3, UntouchedIsExplained DEF Explained
<1>4. ~Reconnect
  BY DEF Reconnect
<1>5. ASSUME NEW t \in Turns, Probe(t)
      PROVE  Explained(s)
  <2>1. UNCHANGED board
    BY <1>5 DEF Probe
  <2> QED BY <2>1, BoardIsExplained
<1> QED BY <1>1, <1>2, <1>3, <1>4, <1>5 DEF TransportStep

\* Every step but the last phase of an end explains what it shows.
LEMMA StepIsExplained ==
  ASSUME WellFormed, Provenance, [Next]_vars, ~Interference, connected, ~ReadRelease,
         \A u \in Turns : StaysUnderway(u), ReaderInOrder,
         \A r \in Runs : WorkerKnows(r), NEW s \in Sessions
  PROVE  Explained(s)
<1>1. ~Disconnect /\ ~Restart
  BY DEF Interference
<1>2. ASSUME NEW c \in Callers, StartStep(c)
      PROVE  Explained(s)
  BY <1>2, StartIsExplained
<1>3. ASSUME NEW c \in Callers, ControlStep(c)
      PROVE  Explained(s)
  BY <1>3, ControlIsExplained
<1>4. ASSUME NEW x \in Sessions, SessionStep(x)
      PROVE  Explained(s)
  BY <1>4, SessionIsExplained
<1>5. ASSUME NEW r \in Runs, ReconcileStep(r)
      PROVE  Explained(s)
  BY <1>5, ReconcileIsExplained
<1>6. CASE ReaderStep
  BY <1>6, ReaderIsExplained
<1>7. CASE TransportStep
  BY <1>1, <1>7, TransportIsExplained
<1>8. CASE AppServerStep
  <2>1. UNCHANGED board
    BY <1>8 DEF AppServerStep, ExternalTurnStarts, TurnEnds
  <2> QED BY <2>1, BoardIsExplained
<1>9. CASE UNCHANGED vars
  <2>1. UNCHANGED board
    BY <1>9 DEF vars
  <2> QED BY <2>1, BoardIsExplained
<1> QED BY <1>1, <1>2, <1>3, <1>4, <1>5, <1>6, <1>7, <1>8, <1>9 DEF Next

-----------------------------------------------------------------------------
(* The last phase of an end, and the theorem                               *)

\* A cause that is a turn lasts while its end is under way.
LEMMA TurnStaysCause ==
  ASSUME \A u \in Turns : StaysUnderway(u), NEW s \in Sessions,
         sessions'[s].thread = sessions[s].thread,
         sessions'[s].activeTurnId = sessions[s].activeTurnId,
         sessions'[s].controlMode \in {sessions[s].controlMode, "external"},
         ByTurn(s)
  PROVE  ByTurn(s)'
<1>1. sessions'[s].controlMode = "external"
  BY DEF ByTurn
<1>2. PICK u \in Turns : /\ turns[u].thread = sessions[s].thread
                         /\ sessions[s].activeTurnId \in {None, u}
                         /\ EndUnderway(u)
  BY DEF ByTurn
<1>3. EndUnderway(u)' /\ turns'[u].thread = turns[u].thread
  BY <1>2 DEF StaysUnderway
<1> QED BY <1>1, <1>2, <1>3 DEF ByTurn

\* ActivityIsJustified in these terms.
LEMMA JustifiedIs ==
  ActivityIsJustified <=>
    \A s \in Sessions :
      sessions[s].registered /\ sessions[s].runtimeStatus = "active" => ByRun(s) \/ ByTurn(s)
BY DEF ActivityIsJustified, ByRun, ByTurn

\* What is explained is justified.
LEMMA ExplainedIsJustified ==
  ASSUME ActivityIsJustified, \A u \in Turns : StaysUnderway(u),
         \A s \in Sessions : Explained(s)
  PROVE  ActivityIsJustified'
<1>1. ASSUME NEW s \in Sessions, sessions'[s].registered, sessions'[s].runtimeStatus = "active"
      PROVE  ByRun(s)' \/ ByTurn(s)'
  <2>1. CASE StaysActive(s)
    <3>1. ByRun(s) \/ ByTurn(s)
      BY <2>1, JustifiedIs DEF StaysActive
    <3>2. ByRun(s) => ByRun(s)'
      BY <2>1 DEF StaysActive
    <3>3. ByTurn(s) => ByTurn(s)'
      BY <2>1, TurnStaysCause DEF StaysActive
    <3> QED BY <3>1, <3>2, <3>3
  <2> QED BY <1>1, <2>1 DEF Explained
<1> QED BY <1>1 DEF ActivityIsJustified, ByRun, ByTurn

\* With the end of a turn the Sessions that follow it go idle; what another turn
\* or a Run keeps active stays so.
LEMMA ReleaseIsJustified ==
  ASSUME WellFormed, ActivityIsJustified, ReaderInOrder, ReadRelease,
         \A u \in Turns : EndUnderway(u) =>
           /\ turns'[u].thread = turns[u].thread
           /\ EndUnderway(u)' \/ reader.message.turn = u
  PROVE  ActivityIsJustified'
<1> DEFINE t == reader.message.turn
<1>a. sessions \in [Sessions -> SessionRecord]
  BY DEF WellFormed, TypeOK
<1>b. reader.message.thread = turns[t].thread
  BY DEF ReadRelease, ReaderInOrder, EndPhases
<1>1. ASSUME NEW s \in Sessions, sessions'[s].registered, sessions'[s].runtimeStatus = "active"
      PROVE  ByRun(s)' \/ ByTurn(s)'
  <2>1. /\ sessions'[s] = sessions[s] /\ UNCHANGED runs
        /\ ~ /\ s \in SessionsOn(reader.message.thread)
             /\ sessions[s].controlMode = "external"
             /\ sessions[s].activeTurnId \in {None, t}
    BY <1>1, <1>a DEF ReadRelease, SessionRecord
  <2>2. ByRun(s) \/ ByTurn(s)
    BY <1>1, <2>1, JustifiedIs
  <2>3. CASE ByRun(s)
    BY <2>1, <2>3 DEF ByRun, OccupyingRuns, Occupies
  <2>4. CASE ByTurn(s)
    <3>1. PICK u \in Turns : /\ turns[u].thread = sessions[s].thread
                             /\ sessions[s].activeTurnId \in {None, u}
                             /\ EndUnderway(u)
      BY <2>4 DEF ByTurn
    <3>2. t # u
      BY <1>1, <1>b, <2>1, <2>4, <3>1 DEF ByTurn, SessionsOn
    <3>3. EndUnderway(u)' /\ turns'[u].thread = turns[u].thread
      BY <3>1, <3>2
    <3> QED BY <2>1, <2>4, <3>1, <3>3 DEF ByTurn
  <2> QED BY <2>2, <2>3, <2>4
<1> QED BY <1>1 DEF ActivityIsJustified, ByRun, ByTurn

\* The inductive invariant: ends and beginnings arrive once and in order, the
\* workers know what they project, and what is shown active has a cause.
Undisturbed ==
  /\ connected /\ EventsInOrder /\ ReaderInOrder /\ ActivityIsJustified
  /\ \A u \in Turns : OneEnd(u)
  /\ \A r \in Runs : WorkerKnows(r)

\* Every step that does not interfere keeps it.
LEMMA NextUndisturbed ==
  ASSUME WellFormed, WellFormed', Provenance, RecentLimit > 0, Undisturbed, [Next]_vars,
         ~Interference
  PROVE  Undisturbed'
<1>1. /\ connected /\ EventsInOrder /\ ReaderInOrder /\ ActivityIsJustified
      /\ \A u \in Turns : OneEnd(u)
      /\ \A r \in Runs : WorkerKnows(r)
  BY DEF Undisturbed
<1>2. ~Restart /\ ~Disconnect
  BY DEF Interference
<1>3. Delivery /\ connected'
  BY <1>1, <1>2, StepDelivers
<1>4. \A u \in Turns : OneEnd(u)'
  BY <1>1, <1>3, NextOneEnd
<1>5. EventsInOrder' /\ ReaderInOrder'
  BY <1>1, <1>3, NextInOrder
<1>6. \A r \in Runs : WorkerKnows(r)'
  BY <1>1, <1>3, NextWorkerKnows
<1>7. \A u \in Turns : EndUnderway(u) =>
        /\ turns'[u].thread = turns[u].thread
        /\ EndUnderway(u)' \/ (ReadRelease /\ reader.message.turn = u)
  BY <1>1, <1>3, UnderwayStays
<1>8. ActivityIsJustified'
  <2>1. CASE ReadRelease
    BY <1>1, <1>7, <2>1, ReleaseIsJustified
  <2>2. CASE ~ReadRelease
    <3>1. \A u \in Turns : StaysUnderway(u)
      BY <1>7, <2>2 DEF StaysUnderway
    <3>2. \A s \in Sessions : Explained(s)
      BY <1>1, <2>2, <3>1, StepIsExplained
    <3> QED BY <1>1, <3>1, <3>2, ExplainedIsJustified
  <2> QED BY <2>1, <2>2
<1> QED BY <1>3, <1>4, <1>5, <1>6, <1>8 DEF Undisturbed

\* At first no turn runs and no Session is active.
LEMMA InitUndisturbed == Init => Undisturbed
<1> SUFFICES ASSUME Init
             PROVE  Undisturbed
  OBVIOUS
<1>a. /\ connected /\ events = <<>> /\ reader = ReadyReader
      /\ reconcile = [r \in Runs |-> NoWorker] /\ turns = [t \in Turns |-> NoTurn]
  BY DEF Init, InitProcess
<1>1. Len(events) = 0
  BY <1>a
<1>3. EventsInOrder
  BY <1>1 DEF EventsInOrder
<1>4. ReaderInOrder
  BY <1>a DEF ReaderInOrder, ReadyReader, EndPhases
<1>5. ASSUME NEW u \in Turns
      PROVE  OneEnd(u)
  <2>1. turns[u].status = "absent"
    BY <1>a DEF NoTurn
  <2>2. \A i \in Nat : ~EndsAt(i, u)
    BY <1>1 DEF EndsAt
  <2>3. ~Handles(u)
    BY <1>a DEF Handles, EndPhases, ReadyReader
  <2> QED BY <2>1, <2>2, <2>3 DEF OneEnd, EndUnread
<1>6. \A r \in Runs : WorkerKnows(r)
  BY <1>a DEF WorkerKnows, NoWorker
<1>7. \A s \in Sessions : ~(sessions[s].registered /\ sessions[s].runtimeStatus = "active")
  BY DEF Init, Unregistered, Fresh
<1>8. ActivityIsJustified
  BY <1>7 DEF ActivityIsJustified
<1> QED BY <1>a, <1>3, <1>4, <1>5, <1>6, <1>8 DEF Undisturbed

\* A Session is shown active only because of a turn, as long as no step interferes
\* and the deque of ended turns has a place: no late notification, callback or
\* reconciliation resurrects a turn that is over, whichever threads they come from
\* (gateway.py:232, 237, 574).
THEOREM ActivityHasATurn ==
  RecentLimit > 0 /\ Spec /\ [][~Interference]_vars => []ActivityIsJustified
<1> DEFINE Kept == RecentLimit > 0
<1>1. Kept /\ Undisturbed /\ WellFormed /\ WellFormed' /\ Provenance /\ [Next]_vars
      /\ [~Interference]_vars => Undisturbed'
  <2> SUFFICES ASSUME Kept, Undisturbed, WellFormed, WellFormed', Provenance, [Next]_vars,
                      [~Interference]_vars
               PROVE  Undisturbed'
    OBVIOUS
  <2>1. CASE ~Interference
    BY <2>1, NextUndisturbed
  <2>2. CASE UNCHANGED vars
    <3>1. UNCHANGED <<sessions, runs, reconcile, recent, reader, connected, turns, events>>
      BY <2>2 DEF vars, board, gateway, transport, appServer
    <3> QED BY <3>1
        DEF Undisturbed, EventsInOrder, ReaderInOrder, ActivityIsJustified, OneEnd,
            WorkerKnows, EndUnread, EndsAt, Handles, EndedRecently, Begins, Ahead,
            EndUnderway, OccupyingRuns, Occupies
  <2> QED BY <2>1, <2>2
<1>2. Kept => Kept'
  OBVIOUS
<1>3. Undisturbed => ActivityIsJustified
  BY DEF Undisturbed
<1> HIDE DEF Kept
<1>4. Kept /\ Spec /\ [][~Interference]_vars => []ActivityIsJustified
  BY <1>1, <1>2, <1>3, InitUndisturbed, AlwaysWellFormed, AlwaysProvenance, PTL DEF Spec
<1> QED BY <1>4 DEF Kept

=============================================================================
