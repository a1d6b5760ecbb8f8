---------------------- MODULE AppServerTransportProofs ----------------------
(***************************************************************************)
(* The promises of AppServerTransport for every number of calls, threads,  *)
(* connections and faults: it implements the callback interface of module  *)
(* TurnCallback, every outcome it reports has its reason, and no end that  *)
(* was announced before its thread went idle is lost.                      *)
(***************************************************************************)
EXTENDS AppServerTransportSteps

-----------------------------------------------------------------------------
(* The inductive invariant.                                                *)

\* start_turn has registered its turn.
Registered(s) ==
  \/ call[s].pc \in {"merge", "callback", "return"}
  \/ call[s].pc = "done" /\ answer[s] = "returned"

\* The caller, its slot and its answer agree.
CallConsistent(s) ==
  /\ slot[s] # "none" <=> call[s].pc \in Methods
  /\ answer[s] = "none" <=> call[s].pc = "none"
  /\ answer[s] = "waiting" <=> call[s].pc \notin {"none", "done"}
  /\ call[s].on \in 0..generation
  /\ call[s].pc \in Methods \/ Registered(s) => call[s].on # 0
  /\ call[s].pc # "none" => call[s].thread \in Threads

Calls == \A s \in Starts : CallConsistent(s)

-----------------------------------------------------------------------------
(* Who may call a callback.                                                *)

\* The callback of a turn is with one of those who may call it, or has been called.
ReaderHas(g, s) == reader[g].pc = "callback" /\ reader[g].turn = s

OneHolder(s) ==
  /\ s \in watched =>
       /\ s \notin untold /\ call[s].pc # "callback" /\ probe[s].pc # "callback"
       /\ \A g \in Generations : ~ReaderHas(g, s)
       /\ told[s] = <<>>
  /\ s \in untold =>
       /\ call[s].pc # "callback" /\ probe[s].pc # "callback"
       /\ \A g \in Generations : ~ReaderHas(g, s)
       /\ told[s] = <<>>
  /\ call[s].pc = "callback" =>
       /\ probe[s].pc # "callback"
       /\ \A g \in Generations : ~ReaderHas(g, s)
       /\ told[s] = <<>>
  /\ probe[s].pc = "callback" =>
       /\ \A g \in Generations : ~ReaderHas(g, s)
       /\ told[s] = <<>>
  /\ \A g \in Generations : ReaderHas(g, s) =>
       /\ told[s] = <<>>
       /\ \A h \in Generations : ReaderHas(h, s) => g = h
  /\ told[s] = <<>> \/ Len(told[s]) = 1

\* A callback of the turn has been taken out of the table.
Buried(s) == \E k : <<k, s>> \in tombstones

Involved(s) ==
  \/ s \in watched \cup untold \/ Buried(s)
  \/ probe[s].pc # "none" \/ told[s] # <<>>
  \/ \E g \in Generations : ReaderHas(g, s)

Holders == \A s \in Starts : OneHolder(s) /\ (Involved(s) => Registered(s))

-----------------------------------------------------------------------------
(* The requests of a caller, on the wire and answered.                     *)

Asks(g, i, s) == i \in 1..Len(outbox[g]) /\ outbox[g][i].from = s
Replied(g, i, s) ==
  i \in 1..Len(inbox[g]) /\ inbox[g][i].kind = "response" /\ inbox[g][i].to = s

\* No request of s is open.
Settled(s) ==
  \/ call[s].pc \in {"none", "begin", "connected"}
  \/ Registered(s)
  \/ slot[s] \in {"idle", "active", "refused"}

Quiet(s) == \A g \in Generations, i \in Nat : ~Asks(g, i, s) /\ ~Replied(g, i, s)

\* One request of s is on its way to the App Server, ...
AskedOnce(s) ==
  \A g \in Generations, i \in Nat : Asks(g, i, s) =>
    /\ g = call[s].on
    /\ call[s].pc \in Methods => outbox[g][i].method = call[s].pc
    /\ outbox[g][i].method = "start" => turn[s] = "none" /\ call[s].pc \in {"start", "done"}
    /\ \A j \in Nat : ~Replied(g, j, s) /\ (Asks(g, j, s) => i = j)

\* ... or its response is on its way back.
RepliedOnce(s) ==
  \A g \in Generations, i \in Nat : Replied(g, i, s) =>
    /\ g = call[s].on
    /\ inbox[g][i].says = "idle" /\ call[s].pc = "start" => turn[s] # "none"
    /\ \A j \in Nat : Replied(g, j, s) => i = j

\* A registered turn exists, and a turn exists once turn/start has been sent.
Placed(s) ==
  /\ Registered(s) \/ (call[s].pc = "start" /\ slot[s] = "idle") => turn[s] # "none"
  /\ turn[s] # "none" => call[s].pc \in {"start", "done"} \/ Registered(s)

OneRequest(s) ==
  /\ Settled(s) => Quiet(s)
  /\ AskedOnce(s) /\ RepliedOnce(s) /\ Placed(s)

-----------------------------------------------------------------------------
(* Ends and outcomes.                                                      *)

Ended(s) == turn[s] \in TerminalStatuses \cup {"other"}

\* Somebody has heard that s ended, or is going to.
Posted(s) == \E g \in Generations : Waiting(g, [kind |-> "completed", turn |-> s])

EndSeen(s) ==
  \/ Posted(s)
  \/ \E g \in Generations : reader[g].turn = s \/ <<g, s>> \in orphans
  \/ call[s].pc \in {"merge", "callback"}
  \/ probe[s].pc # "none"

\* Why an outcome may be unknown.
Reason(s) == "probe" \in faults \/ link[call[s].on] = "down"

Explained(s, says) ==
  \/ Ended(s) /\ says = CallbackStatus(s)
  \/ says = "unknown" /\ Reason(s)

\* What is told, or is going to be, has its reason.
Reasons(s) ==
  /\ probe[s].pc \in {"check", "list", "connected", "initialize"} => probe[s].says = "unknown"
  /\ probe[s].pc \in {"recheck", "finish", "callback"} => Explained(s, probe[s].says)
  /\ s \in untold => Reason(s)
  /\ told[s] # <<>> => Explained(s, told[s][1])

\* A connection that has not been made carries nothing.
Fresh == \A g \in Generations : g > generation => inbox[g] = <<>>

\* A thread has one turn running.
Alone ==
  \A s, t \in Starts :
    turn[s] = "running" /\ turn[t] = "running" /\ call[s].thread = call[t].thread => s = t

\* A thread announced idle has not begun the running turn, or begins it later on the wire.
Idles(s) ==
  \A g \in Generations, i \in Nat :
    i \in 1..Len(inbox[g]) /\ inbox[g][i] = Idle(s) /\ turn[s] = "running" =>
      \/ call[s].on > g
      \/ call[s].on = g /\ \E j \in Nat : j > i /\ Replied(g, j, s)

\* Behind every c of the inbox there is a d.
Behind(g, c, d) ==
  \A i \in Nat : i \in 1..Len(inbox[g]) /\ inbox[g][i] = c =>
    \E j \in Nat : j > i /\ j \in 1..Len(inbox[g]) /\ inbox[g][j] = d

\* The end of s, announced over g, is followed by the idleness of its thread.
IdleFollows(g, s) ==
  /\ Behind(g, Completed(s), Idle(s))
  /\ reader[g].turn = s /\ reader[g].pc \in {"finish", "orphan"} => Waiting(g, Idle(s))

\* What was announced has happened; and if completion came first, idleness follows it.
Heralded(s) ==
  \A g \in Generations, first \in BOOLEAN : <<g, s, first>> \in announced =>
    Ended(s) /\ (~first => IdleFollows(g, s))

\* A probe was made on the turn's connection or on a later one.
Aimed(s) == probe[s].pc # "none" => call[s].on <= probe[s].on /\ probe[s].on <= generation

\* A turn with a tombstone is not waited for.
Fences(s) ==
  /\ s \in watched => ~Buried(s)
  /\ Aimed(s)

\* The end of s can still be found on g by the caller, ...
Unread(g, s) ==
  \/ Waiting(g, Completed(s))
  \/ reader[g].turn = s
  \/ <<g, s>> \in orphans

\* ... and once the callback is registered somebody is looking for it.
Sought(g, s, first) ==
  \/ Waiting(g, Completed(s))
  \/ Waiting(g, Idle(s))
  \/ reader[g].turn = s
  \/ call[s].pc = "merge"
  \/ probe[s].pc # "none"
  \/ first /\ <<g, s>> \in orphans

\* The end of a turn that was announced over its living connection is not lost.
Followed(s) ==
  \A g \in Generations, first \in BOOLEAN :
    <<g, s, first>> \in announced /\ g = call[s].on /\ link[g] = "up" =>
      /\ call[s].pc = "start" => Unread(g, s)
      /\ s \in watched => Sought(g, s, first)

-----------------------------------------------------------------------------
(* Connections and callers.                                                *)

\* A link has one of three states.
LEMMA LinkTypes ==
  ASSUME TypeOK, NEW g \in Generations
  PROVE  link[g] \in {"none", "up", "down"} /\ g \in Nat /\ g # 0
BY ConstantsAssumption DEF TypeOK, Generations

\* At most the connection in use is up, and a reader ends with its connection.
LEMMA NextConnections ==
  ASSUME TypeOK, Connections, Askers, [Next]_vars
  PROVE  Connections'
<1>a. generation \in 0..MaxGeneration
  BY DEF TypeOK
<1>1. ASSUME NEW s \in Starts, Connect(s)
      PROVE  Connections'
  <2>1. /\ ~connected /\ connected'
        /\ generation' = generation + 1 /\ generation' \in Generations
        /\ link'[generation'] = "up"
        /\ \A h \in Generations \ {generation'} : link'[h] = link[h]
        /\ ReaderTo(generation', "receive", None)
    BY <1>1, ConnectStep
  <2> QED BY <2>1, <1>a
     DEF Connections, ReaderTo, Generations
<1>2. ASSUME NEW s \in Starts, SendFails(s)
      PROVE  Connections'
  <2>1. /\ Poised(s) /\ connected /\ link[generation] = "down"
        /\ Disconnects(s)
        /\ UNCHANGED <<generation, reader, link>>
    BY <1>2, SendFailsStep
  <2> QED BY <2>1, <1>a
     DEF Connections, Disconnects
<1>3. ASSUME NEW g \in Generations, ReadResponse(g)
      PROVE  Connections'
  <2>1. /\ reader[g].pc = "receive" /\ Pops(g, Head(inbox[g])) /\ ReaderLoops(g)
        /\ Head(inbox[g]).kind = "response" /\ Head(inbox[g]).to \in Starts
        /\ Head(inbox[g]).says \in Verdicts
        /\ UNCHANGED <<generation, connected, link>>
    BY <1>3, ReadResponseStep
  <2> QED BY <2>1, <1>a, LinkTypes
     DEF Connections, ReaderLoops, ReaderTo, Current, Generations
<1>4. ASSUME NEW g \in Generations, ReadCompleted(g)
      PROVE  Connections'
  <2>1. /\ reader[g].pc = "receive" /\ Head(inbox[g]).turn \in Starts
        /\ \/ g = generation /\ ReaderTo(g, "finish", Head(inbox[g]).turn)
           \/ /\ g # generation \/ <<g, Head(inbox[g]).turn>> \in tombstones
              /\ ReaderLoops(g)
        /\ UNCHANGED <<generation, connected, link>>
    BY <1>4, ReadCompletedStep
  <2> QED BY <2>1, <1>a, LinkTypes
     DEF Connections, ReaderTo, ReaderLoops, Current, Generations
<1>5. ASSUME NEW g \in Generations, ReaderFinish(g)
      PROVE  Connections'
  <2>1. /\ reader[g].pc = "finish" /\ reader[g].turn \in Starts
        /\ \/ Takes(reader[g].turn) /\ ReaderTo(g, "callback", reader[g].turn)
           \/ Misses(reader[g].turn) /\ ReaderTo(g, "orphan", reader[g].turn)
        /\ UNCHANGED <<generation, connected, link>>
    BY <1>5, ReaderFinishStep
  <2> QED BY <2>1, <1>a
     DEF Connections, ReaderTo
<1>6. ASSUME NEW g \in Generations, ReaderCallback(g)
      PROVE  Connections'
  <2>1. /\ reader[g].pc = "callback" /\ reader[g].turn \in Starts
        /\ ReaderLoops(g) /\ ToldTo(reader[g].turn, CallbackStatus(reader[g].turn))
        /\ UNCHANGED <<generation, connected, link>>
    BY <1>6, ReaderCallbackStep
  <2> QED BY <2>1, <1>a, LinkTypes
     DEF Connections, ReaderLoops, ReaderTo, Current, Generations
<1>7. ASSUME NEW g \in Generations, ReaderOrphan(g)
      PROVE  Connections'
  <2>1. /\ reader[g].pc = "orphan" /\ reader[g].turn \in Starts /\ ReaderLoops(g)
        /\ UNCHANGED <<generation, connected, link>>
    BY <1>7, ReaderOrphanStep
  <2> QED BY <2>1, <1>a, LinkTypes
     DEF Connections, ReaderLoops, ReaderTo, Current, Generations
<1>8. ASSUME NEW g \in Generations, ReadIdle(g)
      PROVE  Connections'
  <2>1. /\ reader[g].pc = "receive" /\ Pops(g, Head(inbox[g])) /\ ReaderLoops(g)
        /\ Head(inbox[g]).kind = "idle"
        /\ UNCHANGED <<generation, connected, link>>
    BY <1>8, ReadIdleStep
  <2> QED BY <2>1, <1>a, LinkTypes
     DEF Connections, ReaderLoops, ReaderTo, Current, Generations
<1>9. ASSUME NEW g \in Generations, ReaderFails(g)
      PROVE  Connections'
  <2>1. /\ reader[g].pc = "receive" /\ link[g] = "down" /\ ReaderTo(g, "last", None)
        /\ \/ MayMark(g) /\ Disconnects(None)
           \/ /\ ~MayMark(g)
              /\ UNCHANGED <<connected, slot, watched, tombstones, orphans, untold>>
        /\ UNCHANGED <<generation, link>>
    BY <1>9, ReaderFailsStep
  <2> QED BY <2>1, <1>a, LinkTypes
     DEF Connections, ReaderTo, Disconnects, MayMark
<1>10. ASSUME NEW g \in Generations, ReaderLeaves(g)
      PROVE  Connections'
  <2>1. /\ reader[g].pc = "last" /\ ReaderTo(g, "gone", None)
        /\ \/ MayMark(g) /\ Disconnects(None)
           \/ /\ ~MayMark(g)
              /\ UNCHANGED <<connected, slot, watched, tombstones, orphans, untold>>
        /\ UNCHANGED <<generation, link>>
    BY <1>10, ReaderLeavesStep
  <2> QED BY <2>1, <1>a, LinkTypes
     DEF Connections, ReaderTo, Disconnects, MayMark
<1>11. ASSUME NEW g \in Generations, Drop(g)
      PROVE  Connections'
  <2>1. /\ link[g] = "up" /\ link'[g] = "down"
        /\ \A h \in Generations \ {g} : link'[h] = link[h]
        /\ UNCHANGED <<generation, connected, reader>>
    BY <1>11, DropStep
  <2> QED BY <2>1, <1>a
     DEF Connections, Generations
<1>12. ASSUME Close
      PROVE  Connections'
  <2>1. /\ connected /\ ~connected' /\ generation \in Generations
        /\ link'[generation] = "down"
        /\ \A h \in Generations \ {generation} : link'[h] = link[h]
        /\ UNCHANGED <<generation, reader>>
    BY <1>12, CloseStep
  <2> QED BY <2>1, <1>a
     DEF Connections, Generations
<1>13. ASSUME NEW s \in Starts, NEW th \in Threads, Begin(s, th)
      PROVE  Connections'
  <2>1. UNCHANGED <<generation, connected, reader, link>>
    BY <1>13, BeginStep
  <2> QED BY <2>1, <1>a DEF Connections
<1>14. ASSUME NEW s \in Starts,
          ConnectFails(s) \/ Send(s) \/ SendUnconnected(s) \/ TimeOut(s) \/ Reject(s)
             \/ Register(s) \/ Merge(s) \/ MergeCallback(s) \/ Return(s) \/ TellUnknown(s)
             \/ ProbeCheck(s) \/ ProbeInitialize(s) \/ ProbeInitialized(s) \/ ProbeList(s)
             \/ ProbeFails(s) \/ ProbeRecheck(s) \/ ProbeFinish(s) \/ ProbeCallback(s)
      PROVE  Connections'
  <2>1. UNCHANGED <<generation, connected, reader, link>>
    BY <1>14, ConnectFailsStep, SendStep, SendUnconnectedStep, TimeOutStep, RejectStep,
       RegisterStep, MergeStep, MergeCallbackStep, ReturnStep, TellUnknownStep,
       ProbeCheckStep, ProbeInitializeStep, ProbeInitializedStep, ProbeListStep,
       ProbeFailsStep, ProbeRecheckStep, ProbeFinishStep, ProbeCallbackStep
  <2> QED BY <2>1, <1>a DEF Connections
<1>15. ASSUME NEW g \in Generations, Serve(g) \/ Greet(g)
      PROVE  Connections'
  <2>1. UNCHANGED <<generation, connected, reader, link>>
    BY <1>15, ServeStep, GreetStep
  <2> QED BY <2>1, <1>a DEF Connections
<1>16. ASSUME NEW s \in Starts, NEW outcome \in TurnOutcomes, EndTurn(s, outcome)
      PROVE  Connections'
  <2>1. UNCHANGED <<generation, connected, reader, link>>
    BY <1>16, EndTurnStep
  <2> QED BY <2>1, <1>a DEF Connections
<1>17. CASE UNCHANGED vars
  <2>1. UNCHANGED <<generation, connected, reader, link>>
    BY <1>17 DEF vars, conn, table, client, threads, results, wire, server, appServer
  <2> QED BY <2>1, <1>a DEF Connections
<1>18. ASSUME NEW s \in Starts, ProbeConnect(s)
      PROVE  Connections'
  <2>1. /\ ~connected /\ connected'
        /\ generation' = generation + 1 /\ generation' \in Generations
        /\ link'[generation'] = "up"
        /\ \A h \in Generations \ {generation'} : link'[h] = link[h]
        /\ ReaderTo(generation', "receive", None)
    BY <1>18, ProbeConnectStep
  <2> QED BY <2>1, <1>a
     DEF Connections, ReaderTo, Generations
<1> QED
  BY <1>1, <1>2, <1>3, <1>4, <1>5, <1>6, <1>7, <1>8, <1>9, <1>10, <1>11, <1>12, <1>13, <1>14,
     <1>15, <1>16, <1>17, <1>18
     DEF Next, CallerStep, ProbeStep, ReaderStep

\* The caller, its slot and its answer go on agreeing.
LEMMA NextCalls ==
  ASSUME TypeOK, Connections, Askers, Calls, NEW t \in Starts, [Next]_vars
  PROVE  CallConsistent(t)'
<1>a. CallConsistent(t) /\ \A s \in Starts : CallConsistent(s)
  BY DEF Calls
<1>b. generation \in Nat
  BY ConstantsAssumption DEF TypeOK
<1>1. ASSUME NEW s \in Starts, NEW th \in Threads, Begin(s, th)
      PROVE  CallConsistent(t)'
  <2>1. /\ call[s].pc = "none"
        /\ call'[s].pc = "begin" /\ call'[s].thread = th /\ call'[s].on = 0
        /\ \A x \in Starts \ {s} : call'[x] = call[x]
        /\ AnswerTo(s, "waiting")
        /\ UNCHANGED <<generation, slot>>
    BY <1>1, BeginStep
  <2> QED BY <2>1, <1>a, <1>b
     DEF CallConsistent, Registered, AnswerTo, Methods
<1>2. ASSUME NEW s \in Starts, Connect(s)
      PROVE  CallConsistent(t)'
  <2>1. /\ Poised(s)
        /\ generation' = generation + 1 /\ generation' \in Generations
        /\ ReaderTo(generation', "receive", None)
        /\ CallTo(s, "connected", call[s].on)
        /\ SlotTo(s, "none")
        /\ UNCHANGED <<answer>>
    BY <1>2, ConnectStep
  <2> QED BY <2>1, <1>a, <1>b
     DEF CallConsistent, Registered, CallTo, SlotTo, Poised, Methods
<1>3. ASSUME NEW s \in Starts, ConnectFails(s)
      PROVE  CallConsistent(t)'
  <2>1. /\ Poised(s) /\ ~connected
        /\ SlotTo(s, "none")
        /\ CallTo(s, "done", call[s].on)
        /\ AnswerTo(s, "rejected")
        /\ UNCHANGED <<generation>>
    BY <1>3, ConnectFailsStep
  <2> QED BY <2>1, <1>a, <1>b
     DEF CallConsistent, Registered, SlotTo, CallTo, AnswerTo, Poised, Methods
<1>4. ASSUME NEW s \in Starts, Send(s)
      PROVE  CallConsistent(t)'
  <2>1. /\ connected /\ generation \in Generations /\ Due(s) \in Methods /\ Poised(s)
        /\ CallTo(s, Due(s), generation) /\ SlotTo(s, "waiting")
        /\ UNCHANGED <<generation, answer>>
    BY <1>4, SendStep
  <2>2. CASE t = s
    BY <2>2, <2>1, <1>a, <1>b
       DEF CallConsistent, Registered, SlotTo, CallTo, Poised, Methods, Generations
  <2>3. CASE t # s
    BY <2>3, <2>1, <1>a, <1>b
       DEF CallConsistent, Registered, SlotTo, CallTo, Poised, Methods, Generations
  <2> QED BY <2>2, <2>3
<1>5. ASSUME NEW s \in Starts, SendUnconnected(s)
      PROVE  CallConsistent(t)'
  <2>1. /\ Poised(s) /\ ~connected
        /\ SlotTo(s, "none")
        /\ CallTo(s, "done", call[s].on)
        /\ AnswerTo(s, "unknown")
        /\ UNCHANGED <<generation>>
    BY <1>5, SendUnconnectedStep
  <2> QED BY <2>1, <1>a, <1>b
     DEF CallConsistent, Registered, SlotTo, CallTo, AnswerTo, Poised, Methods
<1>6. ASSUME NEW s \in Starts, SendFails(s)
      PROVE  CallConsistent(t)'
  <2>1. /\ Poised(s) /\ connected /\ link[generation] = "down"
        /\ Disconnects(s)
        /\ CallTo(s, "done", call[s].on)
        /\ AnswerTo(s, "unknown")
        /\ UNCHANGED <<generation>>
    BY <1>6, SendFailsStep
  <2>2. CASE t = s
    BY <2>2, <2>1, <1>a, <1>b
       DEF CallConsistent, Registered, Disconnects, CallTo, AnswerTo, Poised, Methods
  <2>3. CASE t # s
    BY <2>3, <2>1, <1>a, <1>b
       DEF CallConsistent, Registered, Disconnects, CallTo, AnswerTo, Poised, Methods
  <2> QED BY <2>2, <2>3
<1>7. ASSUME NEW s \in Starts, TimeOut(s)
      PROVE  CallConsistent(t)'
  <2>1. /\ slot[s] = "waiting"
        /\ SlotTo(s, "none")
        /\ CallTo(s, "done", call[s].on)
        /\ AnswerTo(s, "unknown")
        /\ UNCHANGED <<generation>>
    BY <1>7, TimeOutStep
  <2> QED BY <2>1, <1>a, <1>b
     DEF CallConsistent, Registered, SlotTo, CallTo, AnswerTo, Methods
<1>8. ASSUME NEW s \in Starts, Reject(s)
      PROVE  CallConsistent(t)'
  <2>1. /\ slot[s] \in {"active", "refused", "lost"}
        /\ SlotTo(s, "none")
        /\ CallTo(s, "done", call[s].on)
        /\ AnswerTo(s, "rejected")
        /\ UNCHANGED <<generation>>
    BY <1>8, RejectStep
  <2> QED BY <2>1, <1>a, <1>b
     DEF CallConsistent, Registered, SlotTo, CallTo, AnswerTo, Methods
<1>9. ASSUME NEW s \in Starts, Register(s)
      PROVE  CallConsistent(t)'
  <2>1. /\ call[s].pc = "start" /\ slot[s] = "idle"
        /\ SlotTo(s, "none")
        /\ \/ /\ <<generation, s>> \in orphans
              /\ CallTo(s, "merge", call[s].on) /\ answer' = answer
           \/ /\ <<generation, s>> \notin orphans
              /\ CallTo(s, "done", call[s].on) /\ AnswerTo(s, "returned")
        /\ UNCHANGED <<generation>>
    BY <1>9, RegisterStep
  <2> QED BY <2>1, <1>a, <1>b
     DEF CallConsistent, Registered, SlotTo, CallTo, AnswerTo, Methods
<1>10. ASSUME NEW s \in Starts, Merge(s)
      PROVE  CallConsistent(t)'
  <2>1. /\ call[s].pc = "merge"
        /\ \/ /\ Takes(s)
              /\ CallTo(s, "callback", call[s].on) /\ answer' = answer
           \/ /\ Misses(s)
              /\ CallTo(s, "done", call[s].on) /\ AnswerTo(s, "returned")
        /\ UNCHANGED <<generation, slot>>
    BY <1>10, MergeStep
  <2> QED BY <2>1, <1>a, <1>b
     DEF CallConsistent, Registered, CallTo, AnswerTo, Methods
<1>11. ASSUME NEW s \in Starts, MergeCallback(s)
      PROVE  CallConsistent(t)'
  <2>1. /\ call[s].pc = "callback"
        /\ CallTo(s, "return", call[s].on)
        /\ UNCHANGED <<generation, slot, answer>>
    BY <1>11, MergeCallbackStep
  <2> QED BY <2>1, <1>a, <1>b
     DEF CallConsistent, Registered, CallTo, Methods
<1>12. ASSUME NEW s \in Starts, Return(s)
      PROVE  CallConsistent(t)'
  <2>1. /\ call[s].pc = "return"
        /\ CallTo(s, "done", call[s].on)
        /\ AnswerTo(s, "returned")
        /\ UNCHANGED <<generation, slot>>
    BY <1>12, ReturnStep
  <2> QED BY <2>1, <1>a, <1>b
     DEF CallConsistent, Registered, CallTo, AnswerTo, Methods
<1>13. ASSUME NEW g \in Generations, ReadResponse(g)
      PROVE  CallConsistent(t)'
  <2>1. /\ Head(inbox[g]).kind = "response" /\ Head(inbox[g]).to \in Starts
        /\ Head(inbox[g]).says \in Verdicts
        /\ SlotTo(Head(inbox[g]).to,
                  IF slot[Head(inbox[g]).to] = "waiting" THEN Head(inbox[g]).says
                  ELSE slot[Head(inbox[g]).to])
        /\ UNCHANGED <<generation, call, answer>>
    BY <1>13, ReadResponseStep
  <2> QED BY <2>1, <1>a, <1>b
     DEF CallConsistent, Registered, SlotTo, Methods, Verdicts
<1>14. ASSUME NEW g \in Generations, ReaderFails(g)
      PROVE  CallConsistent(t)'
  <2>1. /\ \/ MayMark(g) /\ Disconnects(None)
           \/ /\ ~MayMark(g)
              /\ UNCHANGED <<connected, slot, watched, tombstones, orphans, untold>>
        /\ UNCHANGED <<generation, call, answer>>
    BY <1>14, ReaderFailsStep
  <2> QED BY <2>1, <1>a, <1>b, ConstantsAssumption
     DEF CallConsistent, Registered, Disconnects, MayMark, Methods
<1>15. ASSUME NEW g \in Generations, ReaderLeaves(g)
      PROVE  CallConsistent(t)'
  <2>1. /\ \/ MayMark(g) /\ Disconnects(None)
           \/ /\ ~MayMark(g)
              /\ UNCHANGED <<connected, slot, watched, tombstones, orphans, untold>>
        /\ UNCHANGED <<generation, call, answer>>
    BY <1>15, ReaderLeavesStep
  <2> QED BY <2>1, <1>a, <1>b, ConstantsAssumption
     DEF CallConsistent, Registered, Disconnects, MayMark, Methods
<1>16. ASSUME NEW s \in Starts,
          TellUnknown(s) \/ ProbeCheck(s) \/ ProbeInitialize(s) \/ ProbeInitialized(s)
             \/ ProbeList(s) \/ ProbeFails(s) \/ ProbeRecheck(s) \/ ProbeFinish(s)
             \/ ProbeCallback(s)
      PROVE  CallConsistent(t)'
  <2>1. UNCHANGED <<generation, slot, call, answer>>
    BY <1>16, TellUnknownStep, ProbeCheckStep, ProbeInitializeStep, ProbeInitializedStep,
       ProbeListStep, ProbeFailsStep, ProbeRecheckStep, ProbeFinishStep, ProbeCallbackStep
  <2> QED BY <2>1, <1>a, <1>b DEF CallConsistent, Registered
<1>17. ASSUME NEW g \in Generations,
          ReadCompleted(g) \/ ReaderFinish(g) \/ ReaderCallback(g) \/ ReaderOrphan(g)
             \/ ReadIdle(g) \/ Serve(g) \/ Greet(g) \/ Drop(g)
      PROVE  CallConsistent(t)'
  <2>1. UNCHANGED <<generation, slot, call, answer>>
    BY <1>17, ReadCompletedStep, ReaderFinishStep, ReaderCallbackStep, ReaderOrphanStep,
       ReadIdleStep, ServeStep, GreetStep, DropStep
  <2> QED BY <2>1, <1>a, <1>b DEF CallConsistent, Registered
<1>18. ASSUME NEW s \in Starts, NEW outcome \in TurnOutcomes, EndTurn(s, outcome)
      PROVE  CallConsistent(t)'
  <2>1. UNCHANGED <<generation, slot, call, answer>>
    BY <1>18, EndTurnStep
  <2> QED BY <2>1, <1>a, <1>b DEF CallConsistent, Registered
<1>19. ASSUME Close
      PROVE  CallConsistent(t)'
  <2>1. UNCHANGED <<generation, slot, call, answer>>
    BY <1>19, CloseStep
  <2> QED BY <2>1, <1>a, <1>b DEF CallConsistent, Registered
<1>20. CASE UNCHANGED vars
  <2>1. UNCHANGED <<generation, slot, call, answer>>
    BY <1>20 DEF vars, conn, table, client, threads, results, wire, server, appServer
  <2> QED BY <2>1, <1>a, <1>b DEF CallConsistent, Registered
<1>21. ASSUME NEW s \in Starts, ProbeConnect(s)
      PROVE  CallConsistent(t)'
  <2>1. generation' = generation + 1 /\ UNCHANGED <<slot, call, answer>>
    BY <1>21, ProbeConnectStep
  <2> QED BY <2>1, <1>a, <1>b DEF CallConsistent, Registered
<1> QED
  BY <1>1, <1>2, <1>3, <1>4, <1>5, <1>6, <1>7, <1>8, <1>9, <1>10, <1>11, <1>12, <1>13, <1>14,
     <1>15, <1>16, <1>17, <1>18, <1>19, <1>20, <1>21
     DEF Next, CallerStep, ProbeStep, ReaderStep

\* A caller keeps its thread.
LEMMA ThreadStays ==
  ASSUME TypeOK, Connections, Askers, Calls, NEW t \in Starts, [Next]_vars
  PROVE  /\ call[t].pc # "none" => /\ call'[t].pc # "none"
                               /\ call'[t].thread = call[t].thread
         /\ call'[t].pc # "none" => call'[t].thread \in Threads
<1> DEFINE Keeps == /\ call[t].pc # "none" => /\ call'[t].pc # "none"
                                         /\ call'[t].thread = call[t].thread
                    /\ call'[t].pc # "none" => call'[t].thread \in Threads
<1> SUFFICES Keeps
  OBVIOUS
<1>a. /\ \A s \in Starts : slot[s] # "none" => call[s].pc \in Methods
      /\ \A s \in Starts : call[s].pc # "none" => call[s].thread \in Threads
  BY DEF Calls, CallConsistent
<1>1. ASSUME NEW s \in Starts, NEW th \in Threads, Begin(s, th)
      PROVE  Keeps
  <2>1. /\ call[s].pc = "none"
        /\ call'[s].pc = "begin" /\ call'[s].thread = th /\ call'[s].on = 0
        /\ \A x \in Starts \ {s} : call'[x] = call[x]
        /\ UNCHANGED <<slot>>
    BY <1>1, BeginStep
  <2> QED BY <2>1, <1>a
     DEF Methods
<1>2. ASSUME NEW s \in Starts, Connect(s)
      PROVE  Keeps
  <2>1. /\ Poised(s)
        /\ CallTo(s, "connected", call[s].on)
        /\ SlotTo(s, "none")
    BY <1>2, ConnectStep
  <2> QED BY <2>1, <1>a
     DEF Methods, CallTo, SlotTo, Poised
<1>3. ASSUME NEW s \in Starts, ConnectFails(s)
      PROVE  Keeps
  <2>1. /\ Poised(s) /\ ~connected
        /\ SlotTo(s, "none")
        /\ CallTo(s, "done", call[s].on)
    BY <1>3, ConnectFailsStep
  <2> QED BY <2>1, <1>a
     DEF Methods, SlotTo, CallTo, Poised
<1>4. ASSUME NEW s \in Starts, Send(s)
      PROVE  Keeps
  <2>1. /\ connected /\ generation \in Generations /\ Due(s) \in Methods /\ Poised(s)
        /\ CallTo(s, Due(s), generation) /\ SlotTo(s, "waiting")
    BY <1>4, SendStep
  <2> QED BY <2>1, <1>a
     DEF Methods, SlotTo, CallTo, Poised
<1>5. ASSUME NEW s \in Starts, SendUnconnected(s)
      PROVE  Keeps
  <2>1. /\ Poised(s) /\ ~connected
        /\ SlotTo(s, "none")
        /\ CallTo(s, "done", call[s].on)
    BY <1>5, SendUnconnectedStep
  <2> QED BY <2>1, <1>a
     DEF Methods, SlotTo, CallTo, Poised
<1>6. ASSUME NEW s \in Starts, SendFails(s)
      PROVE  Keeps
  <2>1. /\ Poised(s) /\ connected /\ link[generation] = "down"
        /\ Disconnects(s)
        /\ CallTo(s, "done", call[s].on)
    BY <1>6, SendFailsStep
  <2>2. CASE t = s
    BY <2>2, <2>1, <1>a
       DEF Methods, Disconnects, CallTo, Poised
  <2>3. CASE t # s
    BY <2>3, <2>1, <1>a
       DEF Methods, Disconnects, CallTo, Poised
  <2> QED BY <2>2, <2>3
<1>7. ASSUME NEW s \in Starts, TimeOut(s)
      PROVE  Keeps
  <2>1. /\ slot[s] = "waiting"
        /\ SlotTo(s, "none")
        /\ CallTo(s, "done", call[s].on)
    BY <1>7, TimeOutStep
  <2> QED BY <2>1, <1>a
     DEF Methods, SlotTo, CallTo
<1>8. ASSUME NEW s \in Starts, Reject(s)
      PROVE  Keeps
  <2>1. /\ slot[s] \in {"active", "refused", "lost"}
        /\ SlotTo(s, "none")
        /\ CallTo(s, "done", call[s].on)
    BY <1>8, RejectStep
  <2> QED BY <2>1, <1>a
     DEF Methods, SlotTo, CallTo
<1>9. ASSUME NEW s \in Starts, Register(s)
      PROVE  Keeps
  <2>1. /\ call[s].pc = "start" /\ slot[s] = "idle"
        /\ SlotTo(s, "none")
        /\ \/ /\ <<generation, s>> \in orphans
              /\ CallTo(s, "merge", call[s].on) /\ answer' = answer
           \/ /\ <<generation, s>> \notin orphans
              /\ CallTo(s, "done", call[s].on) /\ AnswerTo(s, "returned")
    BY <1>9, RegisterStep
  <2> QED BY <2>1, <1>a
     DEF Methods, SlotTo, CallTo
<1>10. ASSUME NEW s \in Starts, Merge(s)
      PROVE  Keeps
  <2>1. /\ call[s].pc = "merge"
        /\ \/ /\ Takes(s)
              /\ CallTo(s, "callback", call[s].on) /\ answer' = answer
           \/ /\ Misses(s)
              /\ CallTo(s, "done", call[s].on) /\ AnswerTo(s, "returned")
        /\ UNCHANGED <<slot>>
    BY <1>10, MergeStep
  <2> QED BY <2>1, <1>a
     DEF Methods, CallTo
<1>11. ASSUME NEW s \in Starts, MergeCallback(s)
      PROVE  Keeps
  <2>1. /\ call[s].pc = "callback"
        /\ CallTo(s, "return", call[s].on)
        /\ UNCHANGED <<slot>>
    BY <1>11, MergeCallbackStep
  <2> QED BY <2>1, <1>a
     DEF Methods, CallTo
<1>12. ASSUME NEW s \in Starts, Return(s)
      PROVE  Keeps
  <2>1. /\ call[s].pc = "return"
        /\ CallTo(s, "done", call[s].on)
        /\ UNCHANGED <<slot>>
    BY <1>12, ReturnStep
  <2> QED BY <2>1, <1>a
     DEF Methods, CallTo
<1>13. ASSUME NEW g \in Generations, ReadResponse(g)
      PROVE  Keeps
  <2>1. /\ Head(inbox[g]).kind = "response" /\ Head(inbox[g]).to \in Starts
        /\ Head(inbox[g]).says \in Verdicts
        /\ SlotTo(Head(inbox[g]).to,
                  IF slot[Head(inbox[g]).to] = "waiting" THEN Head(inbox[g]).says
                  ELSE slot[Head(inbox[g]).to])
        /\ UNCHANGED <<call>>
    BY <1>13, ReadResponseStep
  <2> QED BY <2>1, <1>a
     DEF Methods, SlotTo
<1>14. ASSUME NEW g \in Generations, ReaderFails(g)
      PROVE  Keeps
  <2>1. /\ \/ MayMark(g) /\ Disconnects(None)
           \/ /\ ~MayMark(g)
              /\ UNCHANGED <<connected, slot, watched, tombstones, orphans, untold>>
        /\ UNCHANGED <<call>>
    BY <1>14, ReaderFailsStep
  <2> QED BY <2>1, <1>a
     DEF Methods, Disconnects, MayMark
<1>15. ASSUME NEW g \in Generations, ReaderLeaves(g)
      PROVE  Keeps
  <2>1. /\ \/ MayMark(g) /\ Disconnects(None)
           \/ /\ ~MayMark(g)
              /\ UNCHANGED <<connected, slot, watched, tombstones, orphans, untold>>
        /\ UNCHANGED <<call>>
    BY <1>15, ReaderLeavesStep
  <2> QED BY <2>1, <1>a
     DEF Methods, Disconnects, MayMark
<1>16. ASSUME NEW s \in Starts,
          TellUnknown(s) \/ ProbeCheck(s) \/ ProbeConnect(s) \/ ProbeInitialize(s)
             \/ ProbeInitialized(s) \/ ProbeList(s) \/ ProbeFails(s) \/ ProbeRecheck(s)
             \/ ProbeFinish(s) \/ ProbeCallback(s)
      PROVE  Keeps
  <2>1. UNCHANGED <<slot, call>>
    BY <1>16, TellUnknownStep, ProbeCheckStep, ProbeConnectStep, ProbeInitializeStep,
       ProbeInitializedStep, ProbeListStep, ProbeFailsStep, ProbeRecheckStep,
       ProbeFinishStep, ProbeCallbackStep
  <2> QED BY <2>1, <1>a DEF Methods
<1>17. ASSUME NEW g \in Generations,
          ReadCompleted(g) \/ ReaderFinish(g) \/ ReaderCallback(g) \/ ReaderOrphan(g)
             \/ ReadIdle(g) \/ Serve(g) \/ Greet(g) \/ Drop(g)
      PROVE  Keeps
  <2>1. UNCHANGED <<slot, call>>
    BY <1>17, ReadCompletedStep, ReaderFinishStep, ReaderCallbackStep, ReaderOrphanStep,
       ReadIdleStep, ServeStep, GreetStep, DropStep
  <2> QED BY <2>1, <1>a DEF Methods
<1>18. ASSUME NEW s \in Starts, NEW outcome \in TurnOutcomes, EndTurn(s, outcome)
      PROVE  Keeps
  <2>1. UNCHANGED <<slot, call>>
    BY <1>18, EndTurnStep
  <2> QED BY <2>1, <1>a DEF Methods
<1>19. ASSUME Close
      PROVE  Keeps
  <2>1. UNCHANGED <<slot, call>>
    BY <1>19, CloseStep
  <2> QED BY <2>1, <1>a DEF Methods
<1>20. CASE UNCHANGED vars
  <2>1. UNCHANGED <<slot, call>>
    BY <1>20 DEF vars, conn, table, client, threads, results, wire, server, appServer
  <2> QED BY <2>1, <1>a DEF Methods
<1> QED
  BY <1>1, <1>2, <1>3, <1>4, <1>5, <1>6, <1>7, <1>8, <1>9, <1>10, <1>11, <1>12, <1>13, <1>14,
     <1>15, <1>16, <1>17, <1>18, <1>19, <1>20
     DEF Next, CallerStep, ProbeStep, ReaderStep

\* Whoever asks has a thread.
LEMMA NextAskers ==
  ASSUME TypeOK, Connections, Askers, Calls, [Next]_vars
  PROVE  Askers'
<1>a. \A g \in Generations : \A i \in 1..Len(outbox[g]) :
        outbox[g][i].from \in Starts \cup {None}
  <2>1. outbox \in [Generations -> Seq(Request)]
        /\ \A r \in Request : r.from \in Starts \cup {None}
    BY DEF TypeOK, Request
  <2> QED BY <2>1
<1>b. \A x \in Starts : /\ call[x].pc # "none" => call'[x].pc # "none"
                        /\ call'[x].pc # "none" => call'[x].thread \in Threads
  BY ThreadStays
<1>1. ASSUME NEW s \in Starts, Send(s)
      PROVE  Askers'
  <2>1. /\ generation \in Generations /\ Due(s) \in Methods
        /\ CallTo(s, Due(s), generation)
        /\ outbox[generation] \in Seq(Request)
        /\ [from |-> s, method |-> Due(s)] \in Request
        /\ outbox'[generation] = Append(outbox[generation], [from |-> s, method |-> Due(s)])
        /\ \A h \in Generations \ {generation} : outbox'[h] = outbox[h]
        /\ UNCHANGED turn
    BY <1>1, SendStep
  <2>2. call'[s].pc # "none"
    BY <2>1 DEF CallTo, Methods
  <2>3. \A i \in 1..Len(outbox'[generation]) :
          \/ i \in 1..Len(outbox[generation]) /\ outbox'[generation][i] = outbox[generation][i]
          \/ outbox'[generation][i].from = s
    BY <2>1
  <2>4. ASSUME NEW g \in Generations, NEW i \in 1..Len(outbox'[g])
        PROVE  outbox'[g][i].from # None => call'[outbox'[g][i].from].pc # "none"
    <3>1. CASE g = generation
      BY <3>1, <1>a, <1>b, <2>2, <2>3 DEF Askers
    <3>2. CASE g # generation
      BY <3>2, <1>a, <1>b, <2>1 DEF Askers
    <3> QED BY <3>1, <3>2
  <2> QED BY <1>b, <2>1, <2>4 DEF Askers
<1>2. ASSUME NEW g \in Generations, Serve(g)
      PROVE  Askers'
  <2>1. UNCHANGED call
    BY <1>2, ServeStep
  <2>2. PICK q \in Request, says \in Verdicts : Served(g, q, says)
    BY <1>2, ServeStep
  <2>3. /\ outbox[g] \in Seq(Request) /\ outbox[g] # <<>> /\ outbox'[g] = Tail(outbox[g])
        /\ q = Head(outbox[g]) /\ q.from # None
        /\ \A h \in Generations \ {g} : outbox'[h] = outbox[h]
        /\ \A x \in Starts : turn'[x] = turn[x] \/ x = q.from
    BY <2>2, ConstantsAssumption DEF Served
  <2>4. \A i \in 1..Len(outbox'[g]) :
          i + 1 \in 1..Len(outbox[g]) /\ outbox'[g][i] = outbox[g][i+1]
    BY <2>3
  <2>5. q = outbox[g][1] /\ 1 \in 1..Len(outbox[g])
    BY <2>3
  <2>6. ASSUME NEW h \in Generations, NEW i \in 1..Len(outbox'[h])
        PROVE  outbox'[h][i].from # None => call[outbox'[h][i].from].pc # "none"
    <3>1. CASE h = g
      BY <3>1, <2>4 DEF Askers
    <3>2. CASE h # g
      BY <3>2, <2>3 DEF Askers
    <3> QED BY <3>1, <3>2
  <2>7. call[q.from].pc # "none"
    BY <2>3, <2>5 DEF Askers
  <2> QED BY <2>1, <2>3, <2>6, <2>7 DEF Askers
<1>3. ASSUME NEW s \in Starts, NEW outcome \in TurnOutcomes, EndTurn(s, outcome)
      PROVE  Askers'
  <2>1. /\ turn[s] = "running" /\ Completed(s) \in Message /\ Idle(s) \in Message
        /\ turn'[s] = outcome /\ \A x \in Starts \ {s} : turn'[x] = turn[x]
        /\ inbox \in [Generations -> Seq(Message)]
        /\ UNCHANGED <<outbox>>
    BY <1>3, EndTurnStep
  <2> QED BY <2>1, <1>a, <1>b
     DEF Askers
<1>4. ASSUME NEW s \in Starts, NEW th \in Threads, Begin(s, th)
      PROVE  Askers'
  <2>1. UNCHANGED <<outbox, turn>>
    BY <1>4, BeginStep
  <2> QED BY <2>1, <1>a, <1>b DEF Askers
<1>5. ASSUME NEW s \in Starts,
          Connect(s) \/ ConnectFails(s) \/ SendUnconnected(s) \/ SendFails(s) \/ TimeOut(s)
             \/ Reject(s) \/ Register(s) \/ Merge(s) \/ MergeCallback(s) \/ Return(s)
             \/ TellUnknown(s) \/ ProbeCheck(s) \/ ProbeConnect(s) \/ ProbeInitialized(s)
             \/ ProbeList(s) \/ ProbeFails(s) \/ ProbeRecheck(s) \/ ProbeFinish(s)
             \/ ProbeCallback(s)
      PROVE  Askers'
  <2>1. UNCHANGED <<outbox, turn>>
    BY <1>5, ConnectStep, ConnectFailsStep, SendUnconnectedStep, SendFailsStep, TimeOutStep,
       RejectStep, RegisterStep, MergeStep, MergeCallbackStep, ReturnStep, TellUnknownStep,
       ProbeCheckStep, ProbeConnectStep, ProbeInitializedStep, ProbeListStep,
       ProbeFailsStep, ProbeRecheckStep, ProbeFinishStep, ProbeCallbackStep
  <2> QED BY <2>1, <1>a, <1>b DEF Askers
<1>6. ASSUME NEW g \in Generations,
          ReadResponse(g) \/ ReadCompleted(g) \/ ReaderFinish(g) \/ ReaderCallback(g)
             \/ ReaderOrphan(g) \/ ReadIdle(g) \/ ReaderFails(g) \/ ReaderLeaves(g)
             \/ Drop(g)
      PROVE  Askers'
  <2>1. UNCHANGED <<outbox, turn>>
    BY <1>6, ReadResponseStep, ReadCompletedStep, ReaderFinishStep, ReaderCallbackStep,
       ReaderOrphanStep, ReadIdleStep, ReaderFailsStep, ReaderLeavesStep, DropStep
  <2> QED BY <2>1, <1>a, <1>b DEF Askers
<1>7. ASSUME Close
      PROVE  Askers'
  <2>1. UNCHANGED <<outbox, turn>>
    BY <1>7, CloseStep
  <2> QED BY <2>1, <1>a, <1>b DEF Askers
<1>8. CASE UNCHANGED vars
  <2>1. UNCHANGED <<outbox, turn>>
    BY <1>8 DEF vars, conn, table, client, threads, results, wire, server, appServer
  <2> QED BY <2>1, <1>a, <1>b DEF Askers
<1>9. ASSUME NEW s \in Starts, ProbeInitialize(s)
      PROVE  Askers'
  <2> DEFINE q == [from |-> None, method |-> "initialize"]
  <2>1. /\ generation \in Generations
        /\ q \in Request /\ outbox[generation] \in Seq(Request)
        /\ outbox'[generation] = Append(outbox[generation], q)
        /\ \A h \in Generations \ {generation} : outbox'[h] = outbox[h]
        /\ UNCHANGED <<call, turn>>
    BY <1>9, ProbeInitializeStep
  <2>2. q.from = None
    OBVIOUS
  <2> HIDE DEF q
  <2>3. \A i \in 1..Len(outbox'[generation]) :
          \/ i \in 1..Len(outbox[generation]) /\ outbox'[generation][i] = outbox[generation][i]
          \/ outbox'[generation][i].from = None
    BY <2>1, <2>2
  <2>4. ASSUME NEW g \in Generations, NEW i \in 1..Len(outbox'[g])
        PROVE  outbox'[g][i].from # None => call[outbox'[g][i].from].pc # "none"
    <3>1. CASE g = generation
      BY <3>1, <2>3 DEF Askers
    <3>2. CASE g # generation
      BY <3>2, <2>1 DEF Askers
    <3> QED BY <3>1, <3>2
  <2> QED BY <2>1, <2>4 DEF Askers
<1>10. ASSUME NEW g \in Generations, Greet(g)
      PROVE  Askers'
  <2>1. /\ outbox[g] \in Seq(Request) /\ outbox[g] # <<>> /\ outbox'[g] = Tail(outbox[g])
        /\ \A h \in Generations \ {g} : outbox'[h] = outbox[h]
        /\ UNCHANGED <<call, turn>>
    BY <1>10, GreetStep
  <2>2. \A i \in 1..Len(outbox'[g]) :
          i + 1 \in 1..Len(outbox[g]) /\ outbox'[g][i] = outbox[g][i+1]
    BY <2>1
  <2>3. ASSUME NEW h \in Generations, NEW i \in 1..Len(outbox'[h])
        PROVE  outbox'[h][i].from # None => call[outbox'[h][i].from].pc # "none"
    <3>1. CASE h = g
      BY <3>1, <2>2 DEF Askers
    <3>2. CASE h # g
      BY <3>2, <2>1 DEF Askers
    <3> QED BY <3>1, <3>2
  <2> QED BY <2>1, <2>3 DEF Askers
<1> QED
  BY <1>1, <1>2, <1>3, <1>4, <1>5, <1>6, <1>7, <1>8, <1>9, <1>10
     DEF Next, CallerStep, ProbeStep, ReaderStep

\* What a first call of a callback leaves.
LEMMA ToldOnce ==
  ASSUME NEW s, NEW v, ToldTo(s, v)
  PROVE  /\ told[s] = <<>> => told'[s] # <<>> /\ Len(told'[s]) = 1 /\ told'[s][1] = v
         /\ \A x \in Starts \ {s} : told'[x] = told[x]
BY DEF ToldTo

\* A turn stays registered.
LEMMA RegisteredStays ==
  ASSUME TypeOK, Connections, Askers, Calls, NEW t \in Starts, Registered(t), [Next]_vars
  PROVE  Registered(t)'
<1>a. \A s \in Starts : CallConsistent(s)
  BY DEF Calls
<1>1. ASSUME NEW s \in Starts, NEW th \in Threads, Begin(s, th)
      PROVE  Registered(t)'
  <2>1. /\ call[s].pc = "none"
        /\ call'[s].pc = "begin" /\ call'[s].thread = th /\ call'[s].on = 0
        /\ \A x \in Starts \ {s} : call'[x] = call[x]
        /\ AnswerTo(s, "waiting")
        /\ UNCHANGED <<slot>>
    BY <1>1, BeginStep
  <2> QED BY <2>1, <1>a
     DEF Registered, AnswerTo, CallConsistent, Methods
<1>2. ASSUME NEW s \in Starts, Connect(s)
      PROVE  Registered(t)'
  <2>1. /\ Poised(s)
        /\ CallTo(s, "connected", call[s].on)
        /\ SlotTo(s, "none")
        /\ UNCHANGED <<answer>>
    BY <1>2, ConnectStep
  <2> QED BY <2>1, <1>a
     DEF Registered, CallTo, SlotTo, Poised, CallConsistent, Methods
<1>3. ASSUME NEW s \in Starts, ConnectFails(s)
      PROVE  Registered(t)'
  <2>1. /\ Poised(s) /\ ~connected
        /\ SlotTo(s, "none")
        /\ CallTo(s, "done", call[s].on)
        /\ AnswerTo(s, "rejected")
    BY <1>3, ConnectFailsStep
  <2> QED BY <2>1, <1>a
     DEF Registered, SlotTo, CallTo, AnswerTo, Poised, CallConsistent, Methods
<1>4. ASSUME NEW s \in Starts, Send(s)
      PROVE  Registered(t)'
  <2>1. /\ connected /\ generation \in Generations /\ Due(s) \in Methods /\ Poised(s)
        /\ CallTo(s, Due(s), generation) /\ SlotTo(s, "waiting")
        /\ UNCHANGED <<answer>>
    BY <1>4, SendStep
  <2> QED BY <2>1, <1>a
     DEF Registered, SlotTo, CallTo, Poised, CallConsistent, Methods
<1>5. ASSUME NEW s \in Starts, SendUnconnected(s)
      PROVE  Registered(t)'
  <2>1. /\ Poised(s) /\ ~connected
        /\ SlotTo(s, "none")
        /\ CallTo(s, "done", call[s].on)
        /\ AnswerTo(s, "unknown")
    BY <1>5, SendUnconnectedStep
  <2> QED BY <2>1, <1>a
     DEF Registered, SlotTo, CallTo, AnswerTo, Poised, CallConsistent, Methods
<1>6. ASSUME NEW s \in Starts, SendFails(s)
      PROVE  Registered(t)'
  <2>1. /\ Poised(s) /\ connected /\ link[generation] = "down"
        /\ Disconnects(s)
        /\ CallTo(s, "done", call[s].on)
        /\ AnswerTo(s, "unknown")
    BY <1>6, SendFailsStep
  <2>2. CASE t = s
    BY <2>2, <2>1, <1>a
       DEF Registered, Disconnects, CallTo, AnswerTo, Poised, CallConsistent, Methods
  <2>3. CASE t # s
    BY <2>3, <2>1, <1>a
       DEF Registered, Disconnects, CallTo, AnswerTo, Poised, CallConsistent, Methods
  <2> QED BY <2>2, <2>3
<1>7. ASSUME NEW s \in Starts, TimeOut(s)
      PROVE  Registered(t)'
  <2>1. /\ slot[s] = "waiting"
        /\ SlotTo(s, "none")
        /\ CallTo(s, "done", call[s].on)
        /\ AnswerTo(s, "unknown")
    BY <1>7, TimeOutStep
  <2> QED BY <2>1, <1>a
     DEF Registered, SlotTo, CallTo, AnswerTo, CallConsistent, Methods
<1>8. ASSUME NEW s \in Starts, Reject(s)
      PROVE  Registered(t)'
  <2>1. /\ slot[s] \in {"active", "refused", "lost"}
        /\ SlotTo(s, "none")
        /\ CallTo(s, "done", call[s].on)
        /\ AnswerTo(s, "rejected")
    BY <1>8, RejectStep
  <2> QED BY <2>1, <1>a
     DEF Registered, SlotTo, CallTo, AnswerTo, CallConsistent, Methods
<1>9. ASSUME NEW s \in Starts, Register(s)
      PROVE  Registered(t)'
  <2>1. /\ call[s].pc = "start" /\ slot[s] = "idle"
        /\ SlotTo(s, "none")
        /\ \/ /\ <<generation, s>> \in orphans
              /\ CallTo(s, "merge", call[s].on) /\ answer' = answer
           \/ /\ <<generation, s>> \notin orphans
              /\ CallTo(s, "done", call[s].on) /\ AnswerTo(s, "returned")
    BY <1>9, RegisterStep
  <2> QED BY <2>1, <1>a
     DEF Registered, SlotTo, CallTo, AnswerTo, CallConsistent, Methods
<1>10. ASSUME NEW s \in Starts, Merge(s)
      PROVE  Registered(t)'
  <2>1. /\ call[s].pc = "merge"
        /\ \/ /\ Takes(s)
              /\ CallTo(s, "callback", call[s].on) /\ answer' = answer
           \/ /\ Misses(s)
              /\ CallTo(s, "done", call[s].on) /\ AnswerTo(s, "returned")
        /\ UNCHANGED <<slot>>
    BY <1>10, MergeStep
  <2> QED BY <2>1, <1>a
     DEF Registered, CallTo, AnswerTo, CallConsistent, Methods
<1>11. ASSUME NEW s \in Starts, MergeCallback(s)
      PROVE  Registered(t)'
  <2>1. /\ call[s].pc = "callback"
        /\ CallTo(s, "return", call[s].on)
        /\ UNCHANGED <<slot, answer>>
    BY <1>11, MergeCallbackStep
  <2> QED BY <2>1, <1>a
     DEF Registered, CallTo, CallConsistent, Methods
<1>12. ASSUME NEW s \in Starts, Return(s)
      PROVE  Registered(t)'
  <2>1. /\ call[s].pc = "return"
        /\ CallTo(s, "done", call[s].on)
        /\ AnswerTo(s, "returned")
        /\ UNCHANGED <<slot>>
    BY <1>12, ReturnStep
  <2> QED BY <2>1, <1>a
     DEF Registered, CallTo, AnswerTo, CallConsistent, Methods
<1>13. ASSUME NEW g \in Generations, ReadResponse(g)
      PROVE  Registered(t)'
  <2>1. /\ Head(inbox[g]).kind = "response" /\ Head(inbox[g]).to \in Starts
        /\ Head(inbox[g]).says \in Verdicts
        /\ SlotTo(Head(inbox[g]).to,
                  IF slot[Head(inbox[g]).to] = "waiting" THEN Head(inbox[g]).says
                  ELSE slot[Head(inbox[g]).to])
        /\ UNCHANGED <<call, answer>>
    BY <1>13, ReadResponseStep
  <2> QED BY <2>1, <1>a
     DEF Registered, SlotTo, CallConsistent, Methods
<1>14. ASSUME NEW g \in Generations, ReaderFails(g)
      PROVE  Registered(t)'
  <2>1. /\ \/ MayMark(g) /\ Disconnects(None)
           \/ /\ ~MayMark(g)
              /\ UNCHANGED <<connected, slot, watched, tombstones, orphans, untold>>
        /\ UNCHANGED <<call, answer>>
    BY <1>14, ReaderFailsStep
  <2> QED BY <2>1, <1>a
     DEF Registered, Disconnects, MayMark, CallConsistent, Methods
<1>15. ASSUME NEW g \in Generations, ReaderLeaves(g)
      PROVE  Registered(t)'
  <2>1. /\ \/ MayMark(g) /\ Disconnects(None)
           \/ /\ ~MayMark(g)
              /\ UNCHANGED <<connected, slot, watched, tombstones, orphans, untold>>
        /\ UNCHANGED <<call, answer>>
    BY <1>15, ReaderLeavesStep
  <2> QED BY <2>1, <1>a
     DEF Registered, Disconnects, MayMark, CallConsistent, Methods
<1>16. ASSUME NEW s \in Starts,
          TellUnknown(s) \/ ProbeCheck(s) \/ ProbeConnect(s) \/ ProbeInitialize(s)
             \/ ProbeInitialized(s) \/ ProbeList(s) \/ ProbeFails(s) \/ ProbeRecheck(s)
             \/ ProbeFinish(s) \/ ProbeCallback(s)
      PROVE  Registered(t)'
  <2>1. UNCHANGED <<slot, call, answer>>
    BY <1>16, TellUnknownStep, ProbeCheckStep, ProbeConnectStep, ProbeInitializeStep,
       ProbeInitializedStep, ProbeListStep, ProbeFailsStep, ProbeRecheckStep,
       ProbeFinishStep, ProbeCallbackStep
  <2> QED BY <2>1, <1>a DEF Registered
<1>17. ASSUME NEW g \in Generations,
          ReadCompleted(g) \/ ReaderFinish(g) \/ ReaderCallback(g) \/ ReaderOrphan(g)
             \/ ReadIdle(g) \/ Serve(g) \/ Greet(g) \/ Drop(g)
      PROVE  Registered(t)'
  <2>1. UNCHANGED <<slot, call, answer>>
    BY <1>17, ReadCompletedStep, ReaderFinishStep, ReaderCallbackStep, ReaderOrphanStep,
       ReadIdleStep, ServeStep, GreetStep, DropStep
  <2> QED BY <2>1, <1>a DEF Registered
<1>18. ASSUME NEW s \in Starts, NEW outcome \in TurnOutcomes, EndTurn(s, outcome)
      PROVE  Registered(t)'
  <2>1. UNCHANGED <<slot, call, answer>>
    BY <1>18, EndTurnStep
  <2> QED BY <2>1, <1>a DEF Registered
<1>19. ASSUME Close
      PROVE  Registered(t)'
  <2>1. UNCHANGED <<slot, call, answer>>
    BY <1>19, CloseStep
  <2> QED BY <2>1, <1>a DEF Registered
<1>20. CASE UNCHANGED vars
  <2>1. UNCHANGED <<slot, call, answer>>
    BY <1>20 DEF vars, conn, table, client, threads, results, wire, server, appServer
  <2> QED BY <2>1, <1>a DEF Registered
<1> QED
  BY <1>1, <1>2, <1>3, <1>4, <1>5, <1>6, <1>7, <1>8, <1>9, <1>10, <1>11, <1>12, <1>13, <1>14,
     <1>15, <1>16, <1>17, <1>18, <1>19, <1>20
     DEF Next, CallerStep, ProbeStep, ReaderStep

\* The callback of a turn stays with one holder.
LEMMA NextHolders ==
  ASSUME TypeOK, Connections, Askers, Calls, Holders, NEW t \in Starts, [Next]_vars
  PROVE  OneHolder(t)'
<1>a. OneHolder(t) /\ (Involved(t) => Registered(t)) /\ CallConsistent(t)
  BY DEF Holders, Calls
<1>1. ASSUME NEW s \in Starts, NEW th \in Threads, Begin(s, th)
      PROVE  OneHolder(t)'
  <2>1. /\ call[s].pc = "none"
        /\ call'[s].pc = "begin" /\ call'[s].thread = th /\ call'[s].on = 0
        /\ \A x \in Starts \ {s} : call'[x] = call[x]
        /\ UNCHANGED <<watched, reader, probe, untold, told>>
    BY <1>1, BeginStep
  <2> QED BY <2>1, <1>a
     DEF OneHolder, ReaderHas
<1>2. ASSUME NEW s \in Starts, Connect(s)
      PROVE  OneHolder(t)'
  <2>1. /\ Poised(s)
        /\ ReaderTo(generation', "receive", None)
        /\ CallTo(s, "connected", call[s].on)
        /\ UNCHANGED <<watched, probe, untold, told>>
    BY <1>2, ConnectStep
  <2> QED BY <2>1, <1>a
     DEF OneHolder, ReaderHas, ReaderTo, CallTo, Poised
<1>3. ASSUME NEW s \in Starts, ConnectFails(s)
      PROVE  OneHolder(t)'
  <2>1. /\ Poised(s) /\ ~connected
        /\ CallTo(s, "done", call[s].on)
        /\ UNCHANGED <<watched, reader, probe, untold, told>>
    BY <1>3, ConnectFailsStep
  <2> QED BY <2>1, <1>a
     DEF OneHolder, ReaderHas, CallTo, Poised
<1>4. ASSUME NEW s \in Starts, Send(s)
      PROVE  OneHolder(t)'
  <2>1. /\ connected /\ generation \in Generations /\ Due(s) \in Methods /\ Poised(s)
        /\ CallTo(s, Due(s), generation) /\ SlotTo(s, "waiting")
        /\ UNCHANGED <<watched, reader, probe, untold, told>>
    BY <1>4, SendStep
  <2> QED BY <2>1, <1>a
     DEF OneHolder, ReaderHas, CallTo, Poised, Methods
<1>5. ASSUME NEW s \in Starts, SendUnconnected(s)
      PROVE  OneHolder(t)'
  <2>1. /\ Poised(s) /\ ~connected
        /\ CallTo(s, "done", call[s].on)
        /\ UNCHANGED <<watched, reader, probe, untold, told>>
    BY <1>5, SendUnconnectedStep
  <2> QED BY <2>1, <1>a
     DEF OneHolder, ReaderHas, CallTo, Poised
<1>6. ASSUME NEW s \in Starts, SendFails(s)
      PROVE  OneHolder(t)'
  <2>1. /\ Poised(s) /\ connected /\ link[generation] = "down"
        /\ Disconnects(s)
        /\ CallTo(s, "done", call[s].on)
        /\ UNCHANGED <<reader, probe, told>>
    BY <1>6, SendFailsStep
  <2> QED BY <2>1, <1>a
     DEF OneHolder, ReaderHas, Disconnects, CallTo, Poised
<1>7. ASSUME NEW s \in Starts, TimeOut(s)
      PROVE  OneHolder(t)'
  <2>1. /\ slot[s] = "waiting"
        /\ CallTo(s, "done", call[s].on)
        /\ UNCHANGED <<watched, reader, probe, untold, told>>
    BY <1>7, TimeOutStep
  <2> QED BY <2>1, <1>a
     DEF OneHolder, ReaderHas, CallTo
<1>8. ASSUME NEW s \in Starts, Reject(s)
      PROVE  OneHolder(t)'
  <2>1. /\ slot[s] \in {"active", "refused", "lost"}
        /\ CallTo(s, "done", call[s].on)
        /\ UNCHANGED <<watched, reader, probe, untold, told>>
    BY <1>8, RejectStep
  <2> QED BY <2>1, <1>a
     DEF OneHolder, ReaderHas, CallTo
<1>9. ASSUME NEW s \in Starts, Register(s)
      PROVE  OneHolder(t)'
  <2>1. /\ call[s].pc = "start" /\ slot[s] = "idle"
        /\ watched' = watched \cup {s}
        /\ \/ /\ <<generation, s>> \in orphans
              /\ CallTo(s, "merge", call[s].on) /\ answer' = answer
           \/ /\ <<generation, s>> \notin orphans
              /\ CallTo(s, "done", call[s].on) /\ AnswerTo(s, "returned")
        /\ UNCHANGED <<reader, probe, untold, told>>
    BY <1>9, RegisterStep
  <2> QED BY <2>1, <1>a
     DEF OneHolder, ReaderHas, CallTo, Involved, Registered, CallConsistent
<1>10. ASSUME NEW s \in Starts, Merge(s)
      PROVE  OneHolder(t)'
  <2>1. /\ call[s].pc = "merge"
        /\ \/ /\ Takes(s)
              /\ CallTo(s, "callback", call[s].on) /\ answer' = answer
           \/ /\ Misses(s)
              /\ CallTo(s, "done", call[s].on) /\ AnswerTo(s, "returned")
        /\ UNCHANGED <<reader, probe, untold, told>>
    BY <1>10, MergeStep
  <2> QED BY <2>1, <1>a
     DEF OneHolder, ReaderHas, CallTo, Takes, Misses
<1>11. ASSUME NEW s \in Starts, MergeCallback(s)
      PROVE  OneHolder(t)'
  <2>1. /\ call[s].pc = "callback"
        /\ CallTo(s, "return", call[s].on)
        /\ ToldTo(s, CallbackStatus(s))
        /\ UNCHANGED <<watched, reader, probe, untold>>
    BY <1>11, MergeCallbackStep
  <2> QED BY <2>1, <1>a, ToldOnce
     DEF OneHolder, ReaderHas, CallTo
<1>12. ASSUME NEW s \in Starts, Return(s)
      PROVE  OneHolder(t)'
  <2>1. /\ call[s].pc = "return"
        /\ CallTo(s, "done", call[s].on)
        /\ UNCHANGED <<watched, reader, probe, untold, told>>
    BY <1>12, ReturnStep
  <2> QED BY <2>1, <1>a
     DEF OneHolder, ReaderHas, CallTo
<1>13. ASSUME NEW s \in Starts, TellUnknown(s)
      PROVE  OneHolder(t)'
  <2>1. /\ s \in untold /\ untold' = untold \ {s}
        /\ ToldTo(s, "unknown")
        /\ UNCHANGED <<watched, call, reader, probe>>
    BY <1>13, TellUnknownStep
  <2> QED BY <2>1, <1>a, ToldOnce
     DEF OneHolder, ReaderHas
<1>14. ASSUME NEW g \in Generations, ReadResponse(g)
      PROVE  OneHolder(t)'
  <2>1. /\ reader[g].pc = "receive" /\ Pops(g, Head(inbox[g])) /\ ReaderLoops(g)
        /\ Head(inbox[g]).kind = "response" /\ Head(inbox[g]).to \in Starts
        /\ Head(inbox[g]).says \in Verdicts
        /\ UNCHANGED <<watched, call, probe, untold, told>>
    BY <1>14, ReadResponseStep
  <2> QED BY <2>1, <1>a
     DEF OneHolder, ReaderHas, ReaderLoops, ReaderTo, Current
<1>15. ASSUME NEW g \in Generations, ReadCompleted(g)
      PROVE  OneHolder(t)'
  <2>1. /\ reader[g].pc = "receive" /\ Head(inbox[g]).turn \in Starts
        /\ \/ g = generation /\ ReaderTo(g, "finish", Head(inbox[g]).turn)
           \/ /\ g # generation \/ <<g, Head(inbox[g]).turn>> \in tombstones
              /\ ReaderLoops(g)
        /\ UNCHANGED <<watched, call, probe, untold, told>>
    BY <1>15, ReadCompletedStep
  <2> QED BY <2>1, <1>a
     DEF OneHolder, ReaderHas, ReaderTo, ReaderLoops, Current
<1>16. ASSUME NEW g \in Generations, ReaderFinish(g)
      PROVE  OneHolder(t)'
  <2>1. /\ reader[g].pc = "finish" /\ reader[g].turn \in Starts
        /\ \/ Takes(reader[g].turn) /\ ReaderTo(g, "callback", reader[g].turn)
           \/ Misses(reader[g].turn) /\ ReaderTo(g, "orphan", reader[g].turn)
        /\ UNCHANGED <<call, probe, untold, told>>
    BY <1>16, ReaderFinishStep
  <2> QED BY <2>1, <1>a
     DEF OneHolder, ReaderHas, ReaderTo, Takes, Misses
<1>17. ASSUME NEW g \in Generations, ReaderCallback(g)
      PROVE  OneHolder(t)'
  <2>1. /\ reader[g].pc = "callback" /\ reader[g].turn \in Starts
        /\ ReaderLoops(g) /\ ToldTo(reader[g].turn, CallbackStatus(reader[g].turn))
        /\ UNCHANGED <<watched, call, probe, untold>>
    BY <1>17, ReaderCallbackStep
  <2> QED BY <2>1, <1>a, ToldOnce
     DEF OneHolder, ReaderHas, ReaderLoops, ReaderTo, Current
<1>18. ASSUME NEW g \in Generations, ReaderOrphan(g)
      PROVE  OneHolder(t)'
  <2>1. /\ reader[g].pc = "orphan" /\ reader[g].turn \in Starts /\ ReaderLoops(g)
        /\ UNCHANGED <<watched, call, probe, untold, told>>
    BY <1>18, ReaderOrphanStep
  <2> QED BY <2>1, <1>a
     DEF OneHolder, ReaderHas, ReaderLoops, ReaderTo, Current
<1>19. ASSUME NEW g \in Generations, ReadIdle(g)
      PROVE  OneHolder(t)'
  <2>1. /\ reader[g].pc = "receive" /\ Pops(g, Head(inbox[g])) /\ ReaderLoops(g)
        /\ Head(inbox[g]).kind = "idle"
        /\ \A s \in Starts :
             IF /\ g = generation /\ s \in watched /\ probe[s].pc = "none"
                /\ Head(inbox[g]) = Idle(s)
             THEN /\ probe'[s].pc = "check" /\ probe'[s].on = generation
                  /\ probe'[s].says = "unknown"
             ELSE probe'[s] = probe[s]
        /\ UNCHANGED <<watched, call, untold, told>>
    BY <1>19, ReadIdleStep
  <2> QED BY <2>1, <1>a
     DEF OneHolder, ReaderHas, ReaderLoops, ReaderTo, Current
<1>20. ASSUME NEW g \in Generations, ReaderFails(g)
      PROVE  OneHolder(t)'
  <2>1. /\ reader[g].pc = "receive" /\ link[g] = "down" /\ ReaderTo(g, "last", None)
        /\ \/ MayMark(g) /\ Disconnects(None)
           \/ /\ ~MayMark(g)
              /\ UNCHANGED <<connected, slot, watched, tombstones, orphans, untold>>
        /\ UNCHANGED <<call, probe, told>>
    BY <1>20, ReaderFailsStep
  <2> QED BY <2>1, <1>a
     DEF OneHolder, ReaderHas, ReaderTo, Disconnects, MayMark
<1>21. ASSUME NEW g \in Generations, ReaderLeaves(g)
      PROVE  OneHolder(t)'
  <2>1. /\ reader[g].pc = "last" /\ ReaderTo(g, "gone", None)
        /\ \/ MayMark(g) /\ Disconnects(None)
           \/ /\ ~MayMark(g)
              /\ UNCHANGED <<connected, slot, watched, tombstones, orphans, untold>>
        /\ UNCHANGED <<call, probe, told>>
    BY <1>21, ReaderLeavesStep
  <2> QED BY <2>1, <1>a
     DEF OneHolder, ReaderHas, ReaderTo, Disconnects, MayMark
<1>22. ASSUME NEW s \in Starts, ProbeCheck(s)
      PROVE  OneHolder(t)'
  <2>1. /\ probe[s].pc = "check"
        /\ \/ Fenced(s) /\ ProbeTo(s, "list", probe[s].says)
           \/ ~Fenced(s) /\ ProbeOff(s)
        /\ UNCHANGED <<watched, call, reader, untold, told>>
    BY <1>22, ProbeCheckStep
  <2> QED BY <2>1, <1>a
     DEF OneHolder, ReaderHas, ProbeTo, ProbeOff
<1>23. ASSUME NEW s \in Starts, ProbeList(s)
      PROVE  OneHolder(t)'
  <2>1. /\ probe[s].pc = "list"
        /\ ProbeTo(s, "recheck", CallbackStatus(s))
        /\ UNCHANGED <<watched, call, reader, untold, told>>
    BY <1>23, ProbeListStep
  <2> QED BY <2>1, <1>a
     DEF OneHolder, ReaderHas, ProbeTo
<1>24. ASSUME NEW s \in Starts, ProbeFails(s)
      PROVE  OneHolder(t)'
  <2>1. /\ probe[s].pc \in {"list", "connected", "initialize"}
        /\ ProbeTo(s, "finish", probe[s].says)
        /\ UNCHANGED <<watched, call, reader, untold, told>>
    BY <1>24, ProbeFailsStep
  <2> QED BY <2>1, <1>a
     DEF OneHolder, ReaderHas, ProbeTo
<1>25. ASSUME NEW s \in Starts, ProbeRecheck(s)
      PROVE  OneHolder(t)'
  <2>1. /\ probe[s].pc = "recheck"
        /\ \/ Fenced(s) /\ ProbeTo(s, "finish", probe[s].says)
           \/ ~Fenced(s) /\ ProbeOff(s)
        /\ UNCHANGED <<watched, call, reader, untold, told>>
    BY <1>25, ProbeRecheckStep
  <2> QED BY <2>1, <1>a
     DEF OneHolder, ReaderHas, ProbeTo, ProbeOff
<1>26. ASSUME NEW s \in Starts, ProbeFinish(s)
      PROVE  OneHolder(t)'
  <2>1. /\ probe[s].pc = "finish"
        /\ \/ Takes(s) /\ ProbeTo(s, "callback", probe[s].says)
           \/ Misses(s) /\ ProbeOff(s)
        /\ UNCHANGED <<call, reader, untold, told>>
    BY <1>26, ProbeFinishStep
  <2> QED BY <2>1, <1>a
     DEF OneHolder, ReaderHas, ProbeTo, ProbeOff, Takes, Misses
<1>27. ASSUME NEW s \in Starts, ProbeCallback(s)
      PROVE  OneHolder(t)'
  <2>1. /\ probe[s].pc = "callback"
        /\ ProbeOff(s) /\ ToldTo(s, probe[s].says)
        /\ UNCHANGED <<watched, call, reader, untold>>
    BY <1>27, ProbeCallbackStep
  <2> QED BY <2>1, <1>a, ToldOnce
     DEF OneHolder, ReaderHas, ProbeOff
<1>28. ASSUME NEW g \in Generations,
          Serve(g) \/ Greet(g) \/ Drop(g)
      PROVE  OneHolder(t)'
  <2>1. UNCHANGED <<watched, call, reader, probe, untold, told>>
    BY <1>28, ServeStep, GreetStep, DropStep
  <2> QED BY <2>1, <1>a DEF OneHolder, ReaderHas
<1>29. ASSUME NEW s \in Starts, NEW outcome \in TurnOutcomes, EndTurn(s, outcome)
      PROVE  OneHolder(t)'
  <2>1. UNCHANGED <<watched, call, reader, probe, untold, told>>
    BY <1>29, EndTurnStep
  <2> QED BY <2>1, <1>a DEF OneHolder, ReaderHas
<1>30. ASSUME Close
      PROVE  OneHolder(t)'
  <2>1. UNCHANGED <<watched, call, reader, probe, untold, told>>
    BY <1>30, CloseStep
  <2> QED BY <2>1, <1>a DEF OneHolder, ReaderHas
<1>31. CASE UNCHANGED vars
  <2>1. UNCHANGED <<watched, call, reader, probe, untold, told>>
    BY <1>31 DEF vars, conn, table, client, threads, results, wire, server, appServer
  <2> QED BY <2>1, <1>a DEF OneHolder, ReaderHas
<1>32. ASSUME NEW s \in Starts, ProbeConnect(s)
      PROVE  OneHolder(t)'
  <2>1. /\ probe[s].pc = "list" /\ ProbeTo(s, "connected", probe[s].says)
        /\ ReaderTo(generation', "receive", None)
        /\ UNCHANGED <<watched, call, untold, told>>
    BY <1>32, ProbeConnectStep
  <2> QED BY <2>1, <1>a
     DEF OneHolder, ReaderHas, ProbeTo, ReaderTo
<1>33. ASSUME NEW s \in Starts, ProbeInitialize(s) \/ ProbeInitialized(s)
      PROVE  OneHolder(t)'
  <2>1. /\ probe[s].pc \in {"connected", "initialize"}
        /\ \/ ProbeTo(s, "initialize", probe[s].says)
           \/ ProbeTo(s, "list", probe[s].says)
        /\ UNCHANGED <<watched, call, reader, untold, told>>
    BY <1>33, ProbeInitializeStep, ProbeInitializedStep
  <2> QED BY <2>1, <1>a
     DEF OneHolder, ReaderHas, ProbeTo
<1> QED
  BY <1>1, <1>2, <1>3, <1>4, <1>5, <1>6, <1>7, <1>8, <1>9, <1>10, <1>11, <1>12, <1>13, <1>14,
     <1>15, <1>16, <1>17, <1>18, <1>19, <1>20, <1>21, <1>22, <1>23, <1>24, <1>25, <1>26, <1>27,
     <1>28, <1>29, <1>30, <1>31, <1>32, <1>33
     DEF Next, CallerStep, ProbeStep, ReaderStep

\* Taking an entry leaves a tombstone for its turn alone.
LEMMA TakingBuries ==
  ASSUME NEW s, NEW t, Takes(s)
  PROVE  Buried(t)' => Buried(t) \/ t = s
<1> SUFFICES ASSUME NEW k, <<k, t>> \in tombstones'
             PROVE  Buried(t) \/ t = s
  BY DEF Buried
<1>1. <<k, t>> \in tombstones \/ <<k, t>> = <<generation, s>>
  BY DEF Takes
<1>2. CASE <<k, t>> \in tombstones
  BY <1>2 DEF Buried
<1>3. CASE <<k, t>> = <<generation, s>>
  BY <1>3
<1> QED BY <1>1, <1>2, <1>3

\* An entry that is not there leaves none.
LEMMA MissingBuries ==
  ASSUME NEW s, NEW t, Misses(s)
  PROVE  Buried(t)' => Buried(t)
BY DEF Misses, Buried

\* Only a registered turn has to do with callbacks.
LEMMA NextInvolved ==
  ASSUME TypeOK, Connections, Askers, Calls, Holders, NEW t \in Starts, Involved(t)', [Next]_vars
  PROVE  Registered(t)'
<1>a. (Involved(t) => Registered(t)) /\ OneHolder(t)
  BY DEF Holders
<1>b. Registered(t) => Registered(t)'
  BY RegisteredStays
<1>1. ASSUME NEW s \in Starts, Connect(s)
      PROVE  Registered(t)'
  <2>1. /\ ReaderTo(generation', "receive", None)
        /\ UNCHANGED <<watched, tombstones, probe, untold, told>>
    BY <1>1, ConnectStep
  <2> QED BY <2>1, <1>a, <1>b
     DEF Involved, Buried, ReaderHas, ReaderTo
<1>2. ASSUME NEW s \in Starts, SendFails(s)
      PROVE  Registered(t)'
  <2>1. /\ Poised(s) /\ connected /\ link[generation] = "down"
        /\ Disconnects(s)
        /\ UNCHANGED <<reader, probe, told>>
    BY <1>2, SendFailsStep
  <2> QED BY <2>1, <1>a, <1>b
     DEF Involved, Buried, ReaderHas, Disconnects
<1>3. ASSUME NEW s \in Starts, Register(s)
      PROVE  Registered(t)'
  <2>1. /\ watched' = watched \cup {s}
        /\ UNCHANGED <<untold, tombstones, probe, told, reader>>
    BY <1>3, RegisterStep
  <2>2. CASE t # s
    BY <1>a, <1>b, <2>1, <2>2 DEF Involved, Buried, ReaderHas
  <2>3. CASE t = s
    <3>1. \/ CallTo(s, "merge", call[s].on)
          \/ CallTo(s, "done", call[s].on) /\ AnswerTo(s, "returned")
      BY <1>3, RegisterStep
    <3> QED BY <2>3, <3>1 DEF Registered, CallTo, AnswerTo
  <2> QED BY <2>2, <2>3
<1>4. ASSUME NEW s \in Starts, Merge(s)
      PROVE  Registered(t)'
  <2>1. /\ call[s].pc = "merge"
        /\ \/ /\ Takes(s)
              /\ CallTo(s, "callback", call[s].on) /\ answer' = answer
           \/ /\ Misses(s)
              /\ CallTo(s, "done", call[s].on) /\ AnswerTo(s, "returned")
        /\ UNCHANGED <<reader, probe, untold, told>>
    BY <1>4, MergeStep
  <2>2. CASE t # s
    BY <1>a, <1>b, <2>1, <2>2, TakingBuries, MissingBuries DEF Involved, ReaderHas, Takes, Misses
  <2>3. CASE t = s
    BY <2>1, <2>3 DEF Registered, CallTo, AnswerTo
  <2> QED BY <2>2, <2>3
<1>5. ASSUME NEW s \in Starts, MergeCallback(s)
      PROVE  Registered(t)'
  <2>1. /\ call[s].pc = "callback"
        /\ \A x \in Starts \ {s} : told'[x] = told[x]
        /\ UNCHANGED <<watched, untold, tombstones, probe, reader>>
    BY <1>5, MergeCallbackStep DEF ToldTo
  <2>2. CASE t # s
    BY <1>a, <1>b, <2>1, <2>2 DEF Involved, Buried, ReaderHas
  <2>3. CASE t = s
    <3>1. Registered(t)
      BY <2>1, <2>3 DEF Registered
    <3> QED BY <3>1, <1>b
  <2> QED BY <2>2, <2>3
<1>6. ASSUME NEW s \in Starts, TellUnknown(s)
      PROVE  Registered(t)'
  <2>1. /\ s \in untold /\ untold' = untold \ {s}
        /\ ToldTo(s, "unknown")
        /\ UNCHANGED <<watched, tombstones, reader, probe>>
    BY <1>6, TellUnknownStep
  <2> QED BY <2>1, <1>a, <1>b
     DEF Involved, Buried, ReaderHas, ToldTo
<1>7. ASSUME NEW g \in Generations, ReadResponse(g)
      PROVE  Registered(t)'
  <2>1. /\ reader[g].pc = "receive" /\ Pops(g, Head(inbox[g])) /\ ReaderLoops(g)
        /\ Head(inbox[g]).kind = "response" /\ Head(inbox[g]).to \in Starts
        /\ Head(inbox[g]).says \in Verdicts
        /\ UNCHANGED <<watched, tombstones, probe, untold, told>>
    BY <1>7, ReadResponseStep
  <2> QED BY <2>1, <1>a, <1>b
     DEF Involved, Buried, ReaderHas, ReaderLoops, ReaderTo, Current
<1>8. ASSUME NEW g \in Generations, ReadCompleted(g)
      PROVE  Registered(t)'
  <2>1. /\ reader[g].pc = "receive" /\ Head(inbox[g]).turn \in Starts
        /\ \/ g = generation /\ ReaderTo(g, "finish", Head(inbox[g]).turn)
           \/ /\ g # generation \/ <<g, Head(inbox[g]).turn>> \in tombstones
              /\ ReaderLoops(g)
        /\ UNCHANGED <<watched, tombstones, probe, untold, told>>
    BY <1>8, ReadCompletedStep
  <2> QED BY <2>1, <1>a, <1>b
     DEF Involved, Buried, ReaderHas, ReaderTo, ReaderLoops, Current
<1>9. ASSUME NEW g \in Generations, ReaderFinish(g)
      PROVE  Registered(t)'
  <2>1. /\ reader[g].pc = "finish" /\ reader[g].turn \in Starts
        /\ \/ Takes(reader[g].turn) /\ ReaderTo(g, "callback", reader[g].turn)
           \/ Misses(reader[g].turn) /\ ReaderTo(g, "orphan", reader[g].turn)
        /\ UNCHANGED <<probe, untold, told>>
    BY <1>9, ReaderFinishStep
  <2> QED BY <2>1, <1>a, <1>b
     DEF Involved, Buried, ReaderHas, ReaderTo, Takes, Misses, OneHolder
<1>10. ASSUME NEW g \in Generations, ReaderCallback(g)
      PROVE  Registered(t)'
  <2>1. /\ reader[g].pc = "callback" /\ reader[g].turn \in Starts
        /\ ReaderLoops(g) /\ ToldTo(reader[g].turn, CallbackStatus(reader[g].turn))
        /\ UNCHANGED <<watched, tombstones, probe, untold>>
    BY <1>10, ReaderCallbackStep
  <2> QED BY <2>1, <1>a, <1>b
     DEF Involved, Buried, ReaderHas, ToldTo, ReaderLoops, ReaderTo, Current
<1>11. ASSUME NEW g \in Generations, ReaderOrphan(g)
      PROVE  Registered(t)'
  <2>1. /\ reader[g].pc = "orphan" /\ reader[g].turn \in Starts /\ ReaderLoops(g)
        /\ UNCHANGED <<watched, tombstones, probe, untold, told>>
    BY <1>11, ReaderOrphanStep
  <2> QED BY <2>1, <1>a, <1>b
     DEF Involved, Buried, ReaderHas, ReaderLoops, ReaderTo, Current
<1>12. ASSUME NEW g \in Generations, ReadIdle(g)
      PROVE  Registered(t)'
  <2>1. /\ reader[g].pc = "receive" /\ Pops(g, Head(inbox[g])) /\ ReaderLoops(g)
        /\ Head(inbox[g]).kind = "idle"
        /\ \A s \in Starts :
             IF /\ g = generation /\ s \in watched /\ probe[s].pc = "none"
                /\ Head(inbox[g]) = Idle(s)
             THEN /\ probe'[s].pc = "check" /\ probe'[s].on = generation
                  /\ probe'[s].says = "unknown"
             ELSE probe'[s] = probe[s]
        /\ UNCHANGED <<watched, tombstones, untold, told>>
    BY <1>12, ReadIdleStep
  <2> QED BY <2>1, <1>a, <1>b
     DEF Involved, Buried, ReaderHas, ReaderLoops, ReaderTo, Current
<1>13. ASSUME NEW g \in Generations, ReaderFails(g)
      PROVE  Registered(t)'
  <2>1. /\ reader[g].pc = "receive" /\ link[g] = "down" /\ ReaderTo(g, "last", None)
        /\ \/ MayMark(g) /\ Disconnects(None)
           \/ /\ ~MayMark(g)
              /\ UNCHANGED <<connected, slot, watched, tombstones, orphans, untold>>
        /\ UNCHANGED <<probe, told>>
    BY <1>13, ReaderFailsStep
  <2> QED BY <2>1, <1>a, <1>b
     DEF Involved, Buried, ReaderHas, ReaderTo, Disconnects, MayMark
<1>14. ASSUME NEW g \in Generations, ReaderLeaves(g)
      PROVE  Registered(t)'
  <2>1. /\ reader[g].pc = "last" /\ ReaderTo(g, "gone", None)
        /\ \/ MayMark(g) /\ Disconnects(None)
           \/ /\ ~MayMark(g)
              /\ UNCHANGED <<connected, slot, watched, tombstones, orphans, untold>>
        /\ UNCHANGED <<probe, told>>
    BY <1>14, ReaderLeavesStep
  <2> QED BY <2>1, <1>a, <1>b
     DEF Involved, Buried, ReaderHas, ReaderTo, Disconnects, MayMark
<1>15. ASSUME NEW s \in Starts, ProbeCheck(s)
      PROVE  Registered(t)'
  <2>1. /\ probe[s].pc = "check"
        /\ \/ Fenced(s) /\ ProbeTo(s, "list", probe[s].says)
           \/ ~Fenced(s) /\ ProbeOff(s)
        /\ UNCHANGED <<watched, tombstones, reader, untold, told>>
    BY <1>15, ProbeCheckStep
  <2> QED BY <2>1, <1>a, <1>b
     DEF Involved, Buried, ReaderHas, ProbeTo, ProbeOff
<1>16. ASSUME NEW s \in Starts, ProbeList(s)
      PROVE  Registered(t)'
  <2>1. /\ probe[s].pc = "list"
        /\ ProbeTo(s, "recheck", CallbackStatus(s))
        /\ UNCHANGED <<watched, tombstones, reader, untold, told>>
    BY <1>16, ProbeListStep
  <2> QED BY <2>1, <1>a, <1>b
     DEF Involved, Buried, ReaderHas, ProbeTo
<1>17. ASSUME NEW s \in Starts, ProbeFails(s)
      PROVE  Registered(t)'
  <2>1. /\ probe[s].pc \in {"list", "connected", "initialize"}
        /\ ProbeTo(s, "finish", probe[s].says)
        /\ UNCHANGED <<watched, tombstones, reader, untold, told>>
    BY <1>17, ProbeFailsStep
  <2> QED BY <2>1, <1>a, <1>b
     DEF Involved, Buried, ReaderHas, ProbeTo
<1>18. ASSUME NEW s \in Starts, ProbeRecheck(s)
      PROVE  Registered(t)'
  <2>1. /\ probe[s].pc = "recheck"
        /\ \/ Fenced(s) /\ ProbeTo(s, "finish", probe[s].says)
           \/ ~Fenced(s) /\ ProbeOff(s)
        /\ UNCHANGED <<watched, tombstones, reader, untold, told>>
    BY <1>18, ProbeRecheckStep
  <2> QED BY <2>1, <1>a, <1>b
     DEF Involved, Buried, ReaderHas, ProbeTo, ProbeOff
<1>19. ASSUME NEW s \in Starts, ProbeFinish(s)
      PROVE  Registered(t)'
  <2>1. /\ probe[s].pc = "finish"
        /\ \/ Takes(s) /\ ProbeTo(s, "callback", probe[s].says)
           \/ Misses(s) /\ ProbeOff(s)
        /\ UNCHANGED <<reader, untold, told>>
    BY <1>19, ProbeFinishStep
  <2> QED BY <2>1, <1>a, <1>b
     DEF Involved, Buried, ReaderHas, ProbeTo, ProbeOff, Takes, Misses
<1>20. ASSUME NEW s \in Starts, ProbeCallback(s)
      PROVE  Registered(t)'
  <2>1. /\ probe[s].pc = "callback"
        /\ ProbeOff(s) /\ ToldTo(s, probe[s].says)
        /\ UNCHANGED <<watched, tombstones, reader, untold>>
    BY <1>20, ProbeCallbackStep
  <2> QED BY <2>1, <1>a, <1>b
     DEF Involved, Buried, ReaderHas, ToldTo, ProbeOff
<1>21. ASSUME NEW s \in Starts, NEW th \in Threads, Begin(s, th)
      PROVE  Registered(t)'
  <2>1. UNCHANGED <<watched, tombstones, reader, probe, untold, told>>
    BY <1>21, BeginStep
  <2> QED BY <2>1, <1>a, <1>b DEF Involved, Buried, ReaderHas
<1>22. ASSUME NEW s \in Starts,
          ConnectFails(s) \/ Send(s) \/ SendUnconnected(s) \/ TimeOut(s) \/ Reject(s)
             \/ Return(s)
      PROVE  Registered(t)'
  <2>1. UNCHANGED <<watched, tombstones, reader, probe, untold, told>>
    BY <1>22, ConnectFailsStep, SendStep, SendUnconnectedStep, TimeOutStep, RejectStep,
       ReturnStep
  <2> QED BY <2>1, <1>a, <1>b DEF Involved, Buried, ReaderHas
<1>23. ASSUME NEW g \in Generations,
          Serve(g) \/ Greet(g) \/ Drop(g)
      PROVE  Registered(t)'
  <2>1. UNCHANGED <<watched, tombstones, reader, probe, untold, told>>
    BY <1>23, ServeStep, GreetStep, DropStep
  <2> QED BY <2>1, <1>a, <1>b DEF Involved, Buried, ReaderHas
<1>24. ASSUME NEW s \in Starts, NEW outcome \in TurnOutcomes, EndTurn(s, outcome)
      PROVE  Registered(t)'
  <2>1. UNCHANGED <<watched, tombstones, reader, probe, untold, told>>
    BY <1>24, EndTurnStep
  <2> QED BY <2>1, <1>a, <1>b DEF Involved, Buried, ReaderHas
<1>25. ASSUME Close
      PROVE  Registered(t)'
  <2>1. UNCHANGED <<watched, tombstones, reader, probe, untold, told>>
    BY <1>25, CloseStep
  <2> QED BY <2>1, <1>a, <1>b DEF Involved, Buried, ReaderHas
<1>26. CASE UNCHANGED vars
  <2>1. UNCHANGED <<watched, tombstones, reader, probe, untold, told>>
    BY <1>26 DEF vars, conn, table, client, threads, results, wire, server, appServer
  <2> QED BY <2>1, <1>a, <1>b DEF Involved, Buried, ReaderHas
<1>27. ASSUME NEW s \in Starts, ProbeConnect(s)
      PROVE  Registered(t)'
  <2>1. /\ probe[s].pc = "list" /\ ProbeTo(s, "connected", probe[s].says)
        /\ ReaderTo(generation', "receive", None)
        /\ UNCHANGED <<watched, tombstones, untold, told>>
    BY <1>27, ProbeConnectStep
  <2> QED BY <2>1, <1>a, <1>b
     DEF Involved, Buried, ReaderHas, ProbeTo, ReaderTo
<1>28. ASSUME NEW s \in Starts, ProbeInitialize(s) \/ ProbeInitialized(s)
      PROVE  Registered(t)'
  <2>1. /\ probe[s].pc \in {"connected", "initialize"}
        /\ \/ ProbeTo(s, "initialize", probe[s].says)
           \/ ProbeTo(s, "list", probe[s].says)
        /\ UNCHANGED <<watched, tombstones, reader, untold, told>>
    BY <1>28, ProbeInitializeStep, ProbeInitializedStep
  <2> QED BY <2>1, <1>a, <1>b
     DEF Involved, Buried, ReaderHas, ProbeTo
<1> QED
  BY <1>1, <1>2, <1>3, <1>4, <1>5, <1>6, <1>7, <1>8, <1>9, <1>10, <1>11, <1>12, <1>13, <1>14,
     <1>15, <1>16, <1>17, <1>18, <1>19, <1>20, <1>21, <1>22, <1>23, <1>24, <1>25, <1>26, <1>27,
     <1>28
     DEF Next, CallerStep, ProbeStep, ReaderStep

-----------------------------------------------------------------------------
(* The contract of a terminal callback.                                    *)

Authority == TypeOK /\ Connections /\ Askers /\ Calls /\ Holders

\* Every reachable state has one holder of each callback, and calls that agree with it.
THEOREM AlwaysAuthority == Spec => []Authority
<1>1. Init => Authority
  <2> SUFFICES ASSUME Init
               PROVE  Authority
    OBVIOUS
  <2>1. TypeOK
    <3>1. /\ call \in [Starts -> CallRecord] /\ reader \in [Generations -> Reader]
          /\ probe \in [Starts -> ProbeRecord]
      <4>1. /\ [pc |-> "none", thread |-> None, next |-> "none", on |-> 0] \in CallRecord
            /\ NoReader \in Reader /\ NoProbe \in ProbeRecord
        BY ConstantsAssumption DEF CallRecord, Reader, ProbeRecord, NoReader, NoProbe
      <4> QED BY <4>1 DEF Init
    <3>2. /\ told \in [Starts -> Seq(TerminalStatuses \cup {"unknown"})]
          /\ outbox \in [Generations -> Seq(Request)] /\ inbox \in [Generations -> Seq(Message)]
      BY DEF Init
    <3>3. /\ generation \in 0..MaxGeneration
          /\ turn \in [Starts -> {"none", "running", "other"} \cup TerminalStatuses]
          /\ link \in [Generations -> {"none", "up", "down"}]
          /\ slot \in [Starts -> Verdicts \cup {"none", "waiting", "lost"}]
          /\ attached \in [Generations -> SUBSET Threads]
      BY ConstantsAssumption DEF Init
    <3> QED BY <3>1, <3>2, <3>3 DEF Init, TypeOK
  <2>2. Connections
    BY ConstantsAssumption DEF Init, Connections, Generations, NoReader
  <2>3. Askers
    BY DEF Init, Askers
  <2>4. Calls
    BY DEF Init, Calls, CallConsistent, Registered, Methods
  <2>5. Holders
    <3> SUFFICES ASSUME NEW s \in Starts
                 PROVE  OneHolder(s) /\ ~Involved(s)
      BY DEF Holders
    <3> QED BY DEF Init, OneHolder, Involved, Buried, ReaderHas, NoReader, NoProbe
  <2> QED BY <2>1, <2>2, <2>3, <2>4, <2>5 DEF Authority
<1>2. Authority /\ [Next]_vars => Authority'
  <2> SUFFICES ASSUME Authority, [Next]_vars
               PROVE  Authority'
    OBVIOUS
  <2>1. TypeOK /\ Connections /\ Askers /\ Calls /\ Holders
    BY DEF Authority
  <2>2. TypeOK' /\ Connections' /\ Askers'
    BY <2>1, NextTypeOK, NextConnections, NextAskers
  <2>3. Calls'
    BY <2>1, NextCalls DEF Calls
  <2>4. Holders'
    BY <2>1, NextHolders, NextInvolved DEF Holders
  <2> QED BY <2>2, <2>3, <2>4 DEF Authority
<1> QED BY <1>1, <1>2, PTL DEF Spec

\* Tables, threads, wire and App Server stay well typed (transport.py:61-89).
THEOREM TransportTypes == Spec => []TypeOK
<1>1. Authority => TypeOK
  BY DEF Authority
<1> QED BY <1>1, AlwaysAuthority, PTL

\* The variables of TurnCallback, seen from here.
View == <<answer, [s \in Starts |-> Heard(s)]>>

\* A caller that has not registered its turn waits, and its callback has not been called.
LEMMA Unregistered ==
  ASSUME Authority, NEW s \in Starts, call[s].pc \in Methods \cup {"begin", "connected"}
  PROVE  answer[s] = "waiting" /\ told[s] = <<>>
<1>1. CallConsistent(s) /\ (Involved(s) => Registered(s))
  BY DEF Authority, Calls, Holders
<1> QED BY <1>1 DEF CallConsistent, Registered, Involved, Methods

\* An answer is an answer of the contract.
LEMMA AnswerRefines ==
  ASSUME Authority, TypeOK', NEW s \in Starts, NEW how \in Callback!Answers,
         answer[s] = "waiting", how = "rejected" => told[s] = <<>>,
         AnswerTo(s, how), told' = told
  PROVE  [Callback!Next]_View
<1>1. answer' = [answer EXCEPT ![s] = how]
  BY DEF Authority, TypeOK, AnswerTo
<1>2. [x \in Starts |-> Heard(x)]' = [x \in Starts |-> Heard(x)]
  BY DEF Heard
<1>3. how = "rejected" => Heard(s) = "none"
  BY DEF Heard
<1>4. Callback!Answer(s, how)
  BY <1>1, <1>2, <1>3 DEF Callback!Answer
<1> QED BY <1>4 DEF Callback!Next

\* A first call of the callback is a call of the contract.
LEMMA TellRefines ==
  ASSUME Authority, NEW s \in Starts, NEW v \in Callback!Outcomes,
         answer[s] \in {"waiting", "returned"}, told[s] = <<>>,
         ToldTo(s, v), answer' = answer
  PROVE  [Callback!Next]_View
<1>1. /\ told'[s] # <<>> /\ Len(told'[s]) = 1 /\ told'[s][1] = v
      /\ \A x \in Starts \ {s} : told'[x] = told[x]
  BY ToldOnce
<1>2. Heard(s) = "none" /\ Heard(s)' = v /\ \A x \in Starts \ {s} : Heard(x)' = Heard(x)
  BY <1>1 DEF Heard
<1>3. [x \in Starts |-> Heard(x)]' = [[x \in Starts |-> Heard(x)] EXCEPT ![s] = v]
  BY <1>2
<1>4. Callback!Tell(s, v)
  BY <1>2, <1>3 DEF Callback!Tell
<1> QED BY <1>4 DEF Callback!Next

\* Whoever holds the callback of s may call it.
LEMMA HolderMayTell ==
  ASSUME Authority, NEW s \in Starts,
         \/ s \in untold \/ call[s].pc = "callback" \/ probe[s].pc = "callback"
         \/ \E g \in Generations : ReaderHas(g, s)
  PROVE  answer[s] \in {"waiting", "returned"} /\ told[s] = <<>>
<1>1. OneHolder(s) /\ CallConsistent(s) /\ (Involved(s) => Registered(s))
  BY DEF Authority, Calls, Holders
<1>2. Registered(s)
  BY <1>1 DEF Involved, Registered
<1>3. told[s] = <<>>
  BY <1>1 DEF OneHolder
<1> QED BY <1>1, <1>2, <1>3 DEF CallConsistent, Registered

\* Every step is one of the contract's, or leaves answers and outcomes alone.
LEMMA StepRefinesCallback ==
  ASSUME Authority, TypeOK', [Next]_vars
  PROVE  [Callback!Next]_View
<1>a. Authority /\ TypeOK /\ Connections /\ Askers
  BY DEF Authority
<1>b. \A s \in Starts : CallConsistent(s)
  BY DEF Authority, Calls
<1>1. ASSUME NEW s \in Starts, NEW th \in Threads, Begin(s, th)
      PROVE  [Callback!Next]_View
  <2>1. call[s].pc = "none" /\ AnswerTo(s, "waiting") /\ told' = told
    BY <1>a, <1>1, BeginStep
  <2>2. answer[s] = "none"
    BY <1>b, <2>1 DEF CallConsistent
  <2>3. answer' = [answer EXCEPT ![s] = "waiting"]
    BY <1>a, <2>1 DEF Authority, TypeOK, AnswerTo
  <2>4. [x \in Starts |-> Heard(x)]' = [x \in Starts |-> Heard(x)]
    BY <2>1 DEF Heard
  <2>5. Callback!Call(s)
    BY <2>2, <2>3, <2>4 DEF Callback!Call
  <2> QED BY <2>5 DEF Callback!Next
<1>2. ASSUME NEW s \in Starts, ConnectFails(s)
      PROVE  [Callback!Next]_View
  <2>1. /\ Poised(s)
        /\ AnswerTo(s, "rejected") /\ told' = told
    BY <1>a, <1>2, ConnectFailsStep
  <2>2. answer[s] = "waiting" /\ told[s] = <<>>
    BY <1>a, <2>1, Unregistered DEF Poised
  <2> QED BY <1>a, <2>1, <2>2, AnswerRefines DEF Callback!Answers
<1>3. ASSUME NEW s \in Starts, SendUnconnected(s)
      PROVE  [Callback!Next]_View
  <2>1. /\ Poised(s)
        /\ AnswerTo(s, "unknown") /\ told' = told
    BY <1>a, <1>3, SendUnconnectedStep
  <2>2. answer[s] = "waiting"
    BY <1>a, <2>1, Unregistered DEF Poised
  <2> QED BY <1>a, <2>1, <2>2, AnswerRefines DEF Callback!Answers
<1>4. ASSUME NEW s \in Starts, SendFails(s)
      PROVE  [Callback!Next]_View
  <2>1. /\ Poised(s)
        /\ AnswerTo(s, "unknown") /\ told' = told
    BY <1>a, <1>4, SendFailsStep
  <2>2. answer[s] = "waiting"
    BY <1>a, <2>1, Unregistered DEF Poised
  <2> QED BY <1>a, <2>1, <2>2, AnswerRefines DEF Callback!Answers
<1>5. ASSUME NEW s \in Starts, TimeOut(s)
      PROVE  [Callback!Next]_View
  <2>1. /\ slot[s] = "waiting"
        /\ AnswerTo(s, "unknown") /\ told' = told
    BY <1>a, <1>5, TimeOutStep
  <2>2. answer[s] = "waiting"
    BY <1>a, <2>1, <1>b DEF CallConsistent, Methods
  <2> QED BY <1>a, <2>1, <2>2, AnswerRefines DEF Callback!Answers
<1>6. ASSUME NEW s \in Starts, Reject(s)
      PROVE  [Callback!Next]_View
  <2>1. /\ slot[s] \in {"active", "refused", "lost"}
        /\ AnswerTo(s, "rejected") /\ told' = told
    BY <1>a, <1>6, RejectStep
  <2>2. call[s].pc \in Methods
    BY <1>b, <2>1 DEF CallConsistent
  <2>3. answer[s] = "waiting" /\ told[s] = <<>>
    BY <1>a, <2>2, Unregistered
  <2> QED BY <1>a, <2>1, <2>3, AnswerRefines DEF Callback!Answers
<1>7. ASSUME NEW s \in Starts, Register(s)
      PROVE  [Callback!Next]_View
  <2>1. /\ call[s].pc = "start" /\ slot[s] = "idle" /\ told' = told
        /\ answer' = answer \/ AnswerTo(s, "returned")
    BY <1>a, <1>7, RegisterStep
  <2>2. CASE answer' = answer
    BY <2>1, <2>2 DEF View, Heard
  <2>3. CASE AnswerTo(s, "returned")
    <3>1. answer[s] = "waiting"
      BY <1>b, <2>1 DEF CallConsistent
    <3> QED BY <1>a, <2>1, <2>3, <3>1, AnswerRefines DEF Callback!Answers
  <2> QED BY <2>1, <2>2, <2>3
<1>8. ASSUME NEW s \in Starts, Merge(s)
      PROVE  [Callback!Next]_View
  <2>1. /\ call[s].pc = "merge" /\ told' = told
        /\ answer' = answer \/ AnswerTo(s, "returned")
    BY <1>a, <1>8, MergeStep
  <2>2. CASE answer' = answer
    BY <2>1, <2>2 DEF View, Heard
  <2>3. CASE AnswerTo(s, "returned")
    <3>1. answer[s] = "waiting"
      BY <1>b, <2>1 DEF CallConsistent
    <3> QED BY <1>a, <2>1, <2>3, <3>1, AnswerRefines DEF Callback!Answers
  <2> QED BY <2>1, <2>2, <2>3
<1>9. ASSUME NEW s \in Starts, MergeCallback(s)
      PROVE  [Callback!Next]_View
  <2>1. /\ call[s].pc = "callback"
        /\ ToldTo(s, CallbackStatus(s)) /\ answer' = answer
    BY <1>a, <1>9, MergeCallbackStep
  <2>2. answer[s] \in {"waiting", "returned"} /\ told[s] = <<>>
    BY <1>a, <2>1, HolderMayTell DEF ReaderHas
  <2>3. CallbackStatus(s) \in Callback!Outcomes
    BY <1>a, <2>1, StatusTypes DEF Callback!Outcomes, TerminalStatuses
  <2> QED BY <1>a, <2>1, <2>2, <2>3, TellRefines
<1>10. ASSUME NEW s \in Starts, Return(s)
      PROVE  [Callback!Next]_View
  <2>1. /\ call[s].pc = "return"
        /\ AnswerTo(s, "returned") /\ told' = told
    BY <1>a, <1>10, ReturnStep
  <2>2. answer[s] = "waiting"
    BY <1>a, <2>1, <1>b DEF CallConsistent, Methods
  <2> QED BY <1>a, <2>1, <2>2, AnswerRefines DEF Callback!Answers
<1>11. ASSUME NEW s \in Starts, TellUnknown(s)
      PROVE  [Callback!Next]_View
  <2>1. /\ s \in untold
        /\ ToldTo(s, "unknown") /\ answer' = answer
    BY <1>a, <1>11, TellUnknownStep
  <2>2. answer[s] \in {"waiting", "returned"} /\ told[s] = <<>>
    BY <1>a, <2>1, HolderMayTell DEF ReaderHas
  <2>3. "unknown" \in Callback!Outcomes
    BY <1>a, <2>1 DEF Callback!Outcomes, TerminalStatuses
  <2> QED BY <1>a, <2>1, <2>2, <2>3, TellRefines
<1>12. ASSUME NEW g \in Generations, ReaderCallback(g)
      PROVE  [Callback!Next]_View
  <2>1. /\ reader[g].pc = "callback" /\ reader[g].turn \in Starts
        /\ ToldTo(reader[g].turn, CallbackStatus(reader[g].turn)) /\ answer' = answer
    BY <1>a, <1>12, ReaderCallbackStep
  <2>2. answer[reader[g].turn] \in {"waiting", "returned"} /\ told[reader[g].turn] = <<>>
    BY <1>a, <2>1, HolderMayTell DEF ReaderHas
  <2>3. CallbackStatus(reader[g].turn) \in Callback!Outcomes
    BY <1>a, <2>1, StatusTypes DEF Callback!Outcomes, TerminalStatuses
  <2> QED BY <1>a, <2>1, <2>2, <2>3, TellRefines
<1>13. ASSUME NEW s \in Starts, ProbeCallback(s)
      PROVE  [Callback!Next]_View
  <2>1. /\ probe[s].pc = "callback"
        /\ ToldTo(s, probe[s].says) /\ answer' = answer
    BY <1>a, <1>13, ProbeCallbackStep
  <2>2. answer[s] \in {"waiting", "returned"} /\ told[s] = <<>>
    BY <1>a, <2>1, HolderMayTell DEF ReaderHas
  <2>3. probe[s].says \in Callback!Outcomes
    BY <1>a, <2>1, ProbeTypes DEF Callback!Outcomes, TerminalStatuses
  <2> QED BY <1>a, <2>1, <2>2, <2>3, TellRefines
<1>14. ASSUME NEW s \in Starts,
          Connect(s) \/ Send(s) \/ ProbeCheck(s) \/ ProbeConnect(s) \/ ProbeInitialize(s)
             \/ ProbeInitialized(s) \/ ProbeList(s) \/ ProbeFails(s) \/ ProbeRecheck(s)
             \/ ProbeFinish(s)
      PROVE  [Callback!Next]_View
  <2>1. UNCHANGED <<answer, told>>
    BY <1>a, <1>14, ConnectStep, SendStep, ProbeCheckStep, ProbeConnectStep,
       ProbeInitializeStep, ProbeInitializedStep, ProbeListStep, ProbeFailsStep,
       ProbeRecheckStep, ProbeFinishStep
  <2> QED BY <2>1 DEF View, Heard
<1>15. ASSUME NEW g \in Generations,
          ReadResponse(g) \/ ReadCompleted(g) \/ ReaderFinish(g) \/ ReaderOrphan(g)
             \/ ReadIdle(g) \/ ReaderFails(g) \/ ReaderLeaves(g) \/ Serve(g) \/ Greet(g)
             \/ Drop(g)
      PROVE  [Callback!Next]_View
  <2>1. UNCHANGED <<answer, told>>
    BY <1>a, <1>15, ReadResponseStep, ReadCompletedStep, ReaderFinishStep, ReaderOrphanStep,
       ReadIdleStep, ReaderFailsStep, ReaderLeavesStep, ServeStep, GreetStep, DropStep
  <2> QED BY <2>1 DEF View, Heard
<1>16. ASSUME NEW s \in Starts, NEW outcome \in TurnOutcomes, EndTurn(s, outcome)
      PROVE  [Callback!Next]_View
  <2>1. UNCHANGED <<answer, told>>
    BY <1>a, <1>16, EndTurnStep
  <2> QED BY <2>1 DEF View, Heard
<1>17. ASSUME Close
      PROVE  [Callback!Next]_View
  <2>1. UNCHANGED <<answer, told>>
    BY <1>a, <1>17, CloseStep
  <2> QED BY <2>1 DEF View, Heard
<1>18. CASE UNCHANGED vars
  <2>1. UNCHANGED <<answer, told>>
    BY <1>18 DEF vars, conn, table, client, threads, results, wire, server, appServer
  <2> QED BY <2>1 DEF View, Heard
<1> QED
  BY <1>1, <1>2, <1>3, <1>4, <1>5, <1>6, <1>7, <1>8, <1>9, <1>10, <1>11, <1>12, <1>13, <1>14,
     <1>15, <1>16, <1>17, <1>18
     DEF Next, CallerStep, ProbeStep, ReaderStep

\* The App Server transport is a TurnCallback: however many of the reader, the caller, a
\* probe and the loss of the connection have seen the turn end, its callback is called at
\* most once, and never after a rejection (transport.py:476, 503-527, 603-613).
THEOREM TransportIsCallback == Spec => ImplementsCallback
<1>1. Init => Callback!Init
  BY DEF Init, Callback!Init, Heard
<1>2. Authority /\ Authority' /\ [Next]_vars => [Callback!Next]_View
  BY StepRefinesCallback DEF Authority
<1> QED BY <1>1, <1>2, AlwaysAuthority, PTL
        DEF Spec, ImplementsCallback, Callback!Spec, View

-----------------------------------------------------------------------------
(* How a caller and the wire move.                                         *)

\* The steps of a caller other than sending a request and hearing its response.
Moves(t) ==
  \/ /\ call'[t] = call[t] /\ answer'[t] = answer[t]
     /\ \/ slot'[t] = slot[t]
        \/ slot[t] = "waiting" /\ slot'[t] = "lost"
  \/ call[t].pc = "none" /\ call'[t].pc = "begin"
  \/ /\ Poised(t)
     /\ call'[t].pc = "connected" /\ call'[t].on = call[t].on
  \/ /\ call[t].pc \in Methods \cup {"begin", "connected"}
     /\ call'[t].pc = "done" /\ answer'[t] \in {"rejected", "unknown"}
     /\ call'[t].on = call[t].on
  \/ /\ call[t].pc = "start" /\ slot[t] = "idle"
     /\ Registered(t)' /\ call'[t].on = call[t].on
     /\ call'[t].pc \in {"merge", "done"}
  \/ /\ Registered(t)
     /\ Registered(t)' /\ call'[t].on = call[t].on /\ slot'[t] = slot[t]

\* A caller moves in one of six ways.
LEMMA CallerMoves ==
  ASSUME Authority, NEW t \in Starts,
         \A s \in Starts : ~Send(s), \A g \in Generations : ~ReadResponse(g), [Next]_vars
  PROVE  Moves(t)
<1>a. /\ TypeOK /\ Connections /\ Askers /\ t # None
      /\ \A s \in Starts : CallConsistent(s)
  BY ConstantsAssumption DEF Authority, Calls
<1>1. ASSUME NEW s \in Starts, NEW th \in Threads, Begin(s, th)
      PROVE  Moves(t)
  <2>1. /\ call[s].pc = "none"
        /\ call'[s].pc = "begin" /\ call'[s].thread = th /\ call'[s].on = 0
        /\ \A x \in Starts \ {s} : call'[x] = call[x]
        /\ AnswerTo(s, "waiting")
        /\ UNCHANGED <<slot>>
    BY <1>a, <1>1, BeginStep
  <2> QED BY <2>1, <1>a
     DEF Moves, AnswerTo, Registered, CallConsistent, Poised
<1>2. ASSUME NEW s \in Starts, Connect(s)
      PROVE  Moves(t)
  <2>1. /\ Poised(s)
        /\ CallTo(s, "connected", call[s].on)
        /\ SlotTo(s, "none")
        /\ UNCHANGED <<answer>>
    BY <1>a, <1>2, ConnectStep
  <2> QED BY <2>1, <1>a
     DEF Moves, CallTo, SlotTo, Poised, Registered, CallConsistent, Poised
<1>3. ASSUME NEW s \in Starts, ConnectFails(s)
      PROVE  Moves(t)
  <2>1. /\ Poised(s) /\ ~connected
        /\ SlotTo(s, "none")
        /\ CallTo(s, "done", call[s].on)
        /\ AnswerTo(s, "rejected")
    BY <1>a, <1>3, ConnectFailsStep
  <2>2. CASE t = s
    BY <2>2, <2>1, <1>a
       DEF Moves, SlotTo, CallTo, AnswerTo, Poised, Registered, CallConsistent, Poised
  <2>3. CASE t # s
    BY <2>3, <2>1, <1>a
       DEF Moves, SlotTo, CallTo, AnswerTo, Poised, Registered, CallConsistent, Poised
  <2> QED BY <2>2, <2>3
<1>4. ASSUME NEW s \in Starts, SendUnconnected(s)
      PROVE  Moves(t)
  <2>1. /\ Poised(s) /\ ~connected
        /\ SlotTo(s, "none")
        /\ CallTo(s, "done", call[s].on)
        /\ AnswerTo(s, "unknown")
    BY <1>a, <1>4, SendUnconnectedStep
  <2>2. CASE t = s
    BY <2>2, <2>1, <1>a
       DEF Moves, SlotTo, CallTo, AnswerTo, Poised, Registered, CallConsistent, Poised
  <2>3. CASE t # s
    BY <2>3, <2>1, <1>a
       DEF Moves, SlotTo, CallTo, AnswerTo, Poised, Registered, CallConsistent, Poised
  <2> QED BY <2>2, <2>3
<1>5. ASSUME NEW s \in Starts, SendFails(s)
      PROVE  Moves(t)
  <2>1. /\ Poised(s) /\ connected /\ link[generation] = "down"
        /\ Disconnects(s)
        /\ CallTo(s, "done", call[s].on)
        /\ AnswerTo(s, "unknown")
    BY <1>a, <1>5, SendFailsStep
  <2>2. CASE t = s
    BY <2>2, <2>1, <1>a
       DEF Moves, Disconnects, CallTo, AnswerTo, Poised, Registered, CallConsistent, Poised
  <2>3. CASE t # s
    BY <2>3, <2>1, <1>a
       DEF Moves, Disconnects, CallTo, AnswerTo, Poised, Registered, CallConsistent, Poised
  <2> QED BY <2>2, <2>3
<1>6. ASSUME NEW s \in Starts, TimeOut(s)
      PROVE  Moves(t)
  <2>1. /\ slot[s] = "waiting"
        /\ SlotTo(s, "none")
        /\ CallTo(s, "done", call[s].on)
        /\ AnswerTo(s, "unknown")
    BY <1>a, <1>6, TimeOutStep
  <2>2. CASE t = s
    BY <2>2, <2>1, <1>a
       DEF Moves, SlotTo, CallTo, AnswerTo, Registered, CallConsistent, Poised
  <2>3. CASE t # s
    BY <2>3, <2>1, <1>a
       DEF Moves, SlotTo, CallTo, AnswerTo, Registered, CallConsistent, Poised
  <2> QED BY <2>2, <2>3
<1>7. ASSUME NEW s \in Starts, Reject(s)
      PROVE  Moves(t)
  <2>1. /\ slot[s] \in {"active", "refused", "lost"}
        /\ SlotTo(s, "none")
        /\ CallTo(s, "done", call[s].on)
        /\ AnswerTo(s, "rejected")
    BY <1>a, <1>7, RejectStep
  <2>2. CASE t = s
    BY <2>2, <2>1, <1>a
       DEF Moves, SlotTo, CallTo, AnswerTo, Registered, CallConsistent, Poised
  <2>3. CASE t # s
    BY <2>3, <2>1, <1>a
       DEF Moves, SlotTo, CallTo, AnswerTo, Registered, CallConsistent, Poised
  <2> QED BY <2>2, <2>3
<1>8. ASSUME NEW s \in Starts, Register(s)
      PROVE  Moves(t)
  <2>1. /\ call[s].pc = "start" /\ slot[s] = "idle"
        /\ SlotTo(s, "none")
        /\ \/ /\ <<generation, s>> \in orphans
              /\ CallTo(s, "merge", call[s].on) /\ answer' = answer
           \/ /\ <<generation, s>> \notin orphans
              /\ CallTo(s, "done", call[s].on) /\ AnswerTo(s, "returned")
    BY <1>a, <1>8, RegisterStep
  <2> QED BY <2>1, <1>a
     DEF Moves, SlotTo, CallTo, AnswerTo, Registered, CallConsistent, Poised
<1>9. ASSUME NEW s \in Starts, Merge(s)
      PROVE  Moves(t)
  <2>1. /\ call[s].pc = "merge"
        /\ \/ /\ Takes(s)
              /\ CallTo(s, "callback", call[s].on) /\ answer' = answer
           \/ /\ Misses(s)
              /\ CallTo(s, "done", call[s].on) /\ AnswerTo(s, "returned")
        /\ UNCHANGED <<slot>>
    BY <1>a, <1>9, MergeStep
  <2> QED BY <2>1, <1>a
     DEF Moves, CallTo, AnswerTo, Registered, CallConsistent, Poised
<1>10. ASSUME NEW s \in Starts, MergeCallback(s)
      PROVE  Moves(t)
  <2>1. /\ call[s].pc = "callback"
        /\ CallTo(s, "return", call[s].on)
        /\ UNCHANGED <<slot, answer>>
    BY <1>a, <1>10, MergeCallbackStep
  <2> QED BY <2>1, <1>a
     DEF Moves, CallTo, Registered, CallConsistent, Poised
<1>11. ASSUME NEW s \in Starts, Return(s)
      PROVE  Moves(t)
  <2>1. /\ call[s].pc = "return"
        /\ CallTo(s, "done", call[s].on)
        /\ AnswerTo(s, "returned")
        /\ UNCHANGED <<slot>>
    BY <1>a, <1>11, ReturnStep
  <2> QED BY <2>1, <1>a
     DEF Moves, CallTo, AnswerTo, Registered, CallConsistent, Poised
<1>12. ASSUME NEW g \in Generations, ReaderFails(g)
      PROVE  Moves(t)
  <2>1. /\ \/ MayMark(g) /\ Disconnects(None)
           \/ /\ ~MayMark(g)
              /\ UNCHANGED <<connected, slot, watched, tombstones, orphans, untold>>
        /\ UNCHANGED <<call, answer>>
    BY <1>a, <1>12, ReaderFailsStep
  <2> QED BY <2>1, <1>a
     DEF Moves, Disconnects, MayMark, Registered, CallConsistent, Poised
<1>13. ASSUME NEW g \in Generations, ReaderLeaves(g)
      PROVE  Moves(t)
  <2>1. /\ \/ MayMark(g) /\ Disconnects(None)
           \/ /\ ~MayMark(g)
              /\ UNCHANGED <<connected, slot, watched, tombstones, orphans, untold>>
        /\ UNCHANGED <<call, answer>>
    BY <1>a, <1>13, ReaderLeavesStep
  <2> QED BY <2>1, <1>a
     DEF Moves, Disconnects, MayMark, Registered, CallConsistent, Poised
<1>14. ASSUME NEW s \in Starts,
          TellUnknown(s) \/ ProbeCheck(s) \/ ProbeConnect(s) \/ ProbeInitialize(s)
             \/ ProbeInitialized(s) \/ ProbeList(s) \/ ProbeFails(s) \/ ProbeRecheck(s)
             \/ ProbeFinish(s) \/ ProbeCallback(s)
      PROVE  Moves(t)
  <2>1. UNCHANGED <<slot, call, answer>>
    BY <1>a, <1>14, TellUnknownStep, ProbeCheckStep, ProbeConnectStep, ProbeInitializeStep,
       ProbeInitializedStep, ProbeListStep, ProbeFailsStep, ProbeRecheckStep,
       ProbeFinishStep, ProbeCallbackStep
  <2> QED BY <2>1 DEF Moves
<1>15. ASSUME NEW g \in Generations,
          ReadCompleted(g) \/ ReaderFinish(g) \/ ReaderCallback(g) \/ ReaderOrphan(g)
             \/ ReadIdle(g) \/ Serve(g) \/ Greet(g) \/ Drop(g)
      PROVE  Moves(t)
  <2>1. UNCHANGED <<slot, call, answer>>
    BY <1>a, <1>15, ReadCompletedStep, ReaderFinishStep, ReaderCallbackStep,
       ReaderOrphanStep, ReadIdleStep, ServeStep, GreetStep, DropStep
  <2> QED BY <2>1 DEF Moves
<1>16. ASSUME NEW s \in Starts, NEW outcome \in TurnOutcomes, EndTurn(s, outcome)
      PROVE  Moves(t)
  <2>1. UNCHANGED <<slot, call, answer>>
    BY <1>a, <1>16, EndTurnStep
  <2> QED BY <2>1 DEF Moves
<1>17. ASSUME Close
      PROVE  Moves(t)
  <2>1. UNCHANGED <<slot, call, answer>>
    BY <1>a, <1>17, CloseStep
  <2> QED BY <2>1 DEF Moves
<1>18. CASE UNCHANGED vars
  <2>1. UNCHANGED <<slot, call, answer>>
    BY <1>18 DEF vars, conn, table, client, threads, results, wire, server, appServer
  <2> QED BY <2>1 DEF Moves
<1> QED
  BY <1>1, <1>2, <1>3, <1>4, <1>5, <1>6, <1>7, <1>8, <1>9, <1>10, <1>11, <1>12, <1>13, <1>14,
     <1>15, <1>16, <1>17, <1>18
     DEF Next, CallerStep, ProbeStep, ReaderStep

\* What travels and what becomes of a turn change in five kinds of step only.
LEMMA WireMoves ==
  ASSUME Authority, [Next]_vars,
         \A s \in Starts : ~Send(s),
         \A g \in Generations :
           ~Serve(g) /\ ~ReadResponse(g) /\ ~ReadCompleted(g) /\ ~ReadIdle(g),
         \A s \in Starts : \A outcome \in TurnOutcomes : ~EndTurn(s, outcome)
  PROVE  /\ UNCHANGED <<inbox, turn, attached, announced>>
         /\ \/ UNCHANGED outbox
            \/ \E s \in Starts : ProbeInitialize(s)
            \/ \E g \in Generations : Greet(g)
<1>a. TypeOK /\ Connections /\ Askers
  BY DEF Authority
<1>1. ASSUME NEW s \in Starts, NEW th \in Threads, Begin(s, th)
      PROVE  UNCHANGED <<outbox, inbox, turn, attached, announced>>
  <2>1. UNCHANGED <<outbox, inbox, attached, turn, announced>>
    BY <1>a, <1>1, BeginStep
  <2> QED BY <2>1
<1>2. ASSUME NEW s \in Starts,
          Connect(s) \/ ConnectFails(s) \/ SendUnconnected(s) \/ SendFails(s) \/ TimeOut(s)
             \/ Reject(s) \/ Register(s) \/ Merge(s) \/ MergeCallback(s) \/ Return(s)
             \/ TellUnknown(s) \/ ProbeCheck(s) \/ ProbeConnect(s) \/ ProbeInitialized(s)
             \/ ProbeList(s) \/ ProbeFails(s) \/ ProbeRecheck(s) \/ ProbeFinish(s)
             \/ ProbeCallback(s)
      PROVE  UNCHANGED <<outbox, inbox, turn, attached, announced>>
  <2>1. UNCHANGED <<outbox, inbox, attached, turn, announced>>
    BY <1>a, <1>2, ConnectStep, ConnectFailsStep, SendUnconnectedStep, SendFailsStep,
       TimeOutStep, RejectStep, RegisterStep, MergeStep, MergeCallbackStep, ReturnStep,
       TellUnknownStep, ProbeCheckStep, ProbeConnectStep, ProbeInitializedStep,
       ProbeListStep, ProbeFailsStep, ProbeRecheckStep, ProbeFinishStep, ProbeCallbackStep
  <2> QED BY <2>1
<1>3. ASSUME NEW g \in Generations,
          ReaderFinish(g) \/ ReaderCallback(g) \/ ReaderOrphan(g) \/ ReaderFails(g)
             \/ ReaderLeaves(g) \/ Drop(g)
      PROVE  UNCHANGED <<outbox, inbox, turn, attached, announced>>
  <2>1. UNCHANGED <<outbox, inbox, attached, turn, announced>>
    BY <1>a, <1>3, ReaderFinishStep, ReaderCallbackStep, ReaderOrphanStep, ReaderFailsStep,
       ReaderLeavesStep, DropStep
  <2> QED BY <2>1
<1>4. ASSUME Close
      PROVE  UNCHANGED <<outbox, inbox, turn, attached, announced>>
  <2>1. UNCHANGED <<outbox, inbox, attached, turn, announced>>
    BY <1>a, <1>4, CloseStep
  <2> QED BY <2>1
<1>5. CASE UNCHANGED vars
  <2>1. UNCHANGED <<outbox, inbox, attached, turn, announced>>
    BY <1>5 DEF vars, conn, table, client, threads, results, wire, server, appServer
  <2> QED BY <2>1
<1>6. ASSUME NEW s \in Starts, ProbeInitialize(s)
      PROVE  UNCHANGED <<inbox, turn, attached, announced>>
  BY <1>a, <1>6, ProbeInitializeStep
<1>7. ASSUME NEW g \in Generations, Greet(g)
      PROVE  UNCHANGED <<inbox, turn, attached, announced>>
  BY <1>a, <1>7, GreetStep
<1> QED
  BY <1>1, <1>2, <1>3, <1>4, <1>5, <1>6, <1>7
     DEF Next, CallerStep, ProbeStep, ReaderStep

-----------------------------------------------------------------------------
(* Requests and responses.                                                 *)

\* What Append leaves of a sequence.
LEMMA AppendAt ==
  ASSUME NEW S, NEW q \in Seq(S), NEW m \in S, NEW p, p = Append(q, m)
  PROVE  /\ Len(q) \in Nat /\ Len(p) = Len(q) + 1 /\ p[Len(q) + 1] = m
         /\ \A i \in 1..Len(q) : p[i] = q[i]
OBVIOUS

\* What Tail leaves of a sequence.
LEMMA TailAt ==
  ASSUME NEW S, NEW q \in Seq(S), q # <<>>, NEW p, p = Tail(q)
  PROVE  /\ Len(q) \in Nat \ {0} /\ Len(p) = Len(q) - 1 /\ q[1] = Head(q)
         /\ \A i \in 1..Len(p) : p[i] = q[i + 1]
OBVIOUS

\* What two more elements leave of a sequence.
LEMMA TwoAt ==
  ASSUME NEW S, NEW q \in Seq(S), NEW a \in S, NEW b \in S, NEW p, p = q \o <<a, b>>
  PROVE  /\ Len(q) \in Nat /\ Len(p) = Len(q) + 2
         /\ p[Len(q) + 1] = a /\ p[Len(q) + 2] = b
         /\ \A i \in 1..Len(q) : p[i] = q[i]
<1>1. <<a, b>> \in Seq(S) /\ Len(<<a, b>>) = 2 /\ <<a, b>>[1] = a /\ <<a, b>>[2] = b
  OBVIOUS
<1> DEFINE z == <<a, b>>
<1> HIDE DEF z
<1>2. Len(q) \in Nat /\ Len(q \o z) = Len(q) + Len(z)
      /\ \A i \in 1..(Len(q) + Len(z)) :
           (q \o z)[i] = IF i <= Len(q) THEN q[i] ELSE z[i - Len(q)]
  BY <1>1, ConcatProperties DEF z
<1> QED BY <1>1, <1>2 DEF z

\* A request goes to the end of the outbox.
LEMMA SendWire ==
  ASSUME Authority, NEW s \in Starts, Send(s)
  PROVE  /\ generation \in Generations /\ UNCHANGED <<inbox, turn>>
         /\ \A g \in Generations, i \in Nat, t \in Starts : Asks(g, i, t)' =>
              \/ Asks(g, i, t) /\ outbox'[g][i] = outbox[g][i]
              \/ /\ t = s /\ g = generation /\ i = Len(outbox[g]) + 1
                 /\ outbox'[g][i].method = Due(s)
<1> DEFINE m == [from |-> s, method |-> Due(s)]
           o == outbox[generation]
<1>1. TypeOK /\ Connections
  BY DEF Authority
<1>2. /\ generation \in Generations /\ UNCHANGED <<inbox, turn>>
      /\ m \in Request /\ o \in Seq(Request)
      /\ outbox'[generation] = Append(o, m)
      /\ \A h \in Generations \ {generation} : outbox'[h] = outbox[h]
  BY <1>1, SendStep
<1>3. m.from = s /\ m.method = Due(s)
  OBVIOUS
<1> HIDE DEF m
<1>4. /\ Len(o) \in Nat /\ Len(outbox'[generation]) = Len(o) + 1
      /\ outbox'[generation][Len(o) + 1] = m
      /\ \A i \in 1..Len(o) : outbox'[generation][i] = o[i]
  <2> HIDE DEF o
  <2> QED BY <1>2, AppendAt
<1>5. ASSUME NEW g \in Generations, NEW i \in Nat, NEW t \in Starts, Asks(g, i, t)'
      PROVE  \/ Asks(g, i, t) /\ outbox'[g][i] = outbox[g][i]
             \/ /\ t = s /\ g = generation /\ i = Len(outbox[g]) + 1
                /\ outbox'[g][i].method = Due(s)
  <2>1. i \in 1..Len(outbox'[g]) /\ outbox'[g][i].from = t
    BY <1>5 DEF Asks
  <2>2. CASE g # generation
    BY <1>2, <2>1, <2>2 DEF Asks
  <2>3. CASE g = generation
    <3>1. i \in 1..Len(o) \/ i = Len(o) + 1
      BY <1>4, <2>1, <2>3
    <3> QED BY <1>3, <1>4, <2>1, <2>3, <3>1 DEF Asks
  <2> QED BY <2>2, <2>3
<1> QED BY <1>2, <1>5

\* A request leaves the outbox, and its response goes to the end of the inbox.
LEMMA ServeWire ==
  ASSUME Authority, NEW g \in Generations, NEW q \in Request, NEW says \in Verdicts,
         Served(g, q, says)
  PROVE  /\ Asks(g, 1, q.from) /\ outbox[g][1] = q
         /\ \A h \in Generations, i \in Nat, t \in Starts : Asks(h, i, t)' =>
              /\ h # g => Asks(h, i, t) /\ outbox'[h][i] = outbox[h][i]
              /\ h = g => Asks(g, i + 1, t) /\ outbox'[g][i] = outbox[g][i + 1]
         /\ \A h \in Generations, i \in Nat, t \in Starts : Replied(h, i, t)' =>
              \/ Replied(h, i, t) /\ inbox'[h][i] = inbox[h][i]
              \/ /\ h = g /\ i = Len(inbox[g]) + 1 /\ t = q.from
                 /\ inbox'[g][i].says = says
         /\ \A h \in Generations : \A i \in 1..Len(inbox[h]) :
              i \in 1..Len(inbox'[h]) /\ inbox'[h][i] = inbox[h][i]
         /\ \A h \in Generations : \A i \in 1..Len(inbox'[h]) :
              inbox'[h][i].kind # "response" =>
                i \in 1..Len(inbox[h]) /\ inbox'[h][i] = inbox[h][i]
         /\ Len(inbox[g]) \in Nat
         /\ \A i \in Nat : i = Len(inbox[g]) + 1 => Replied(g, i, q.from)'
<1> DEFINE m == [kind |-> "response", to |-> q.from, says |-> says]
<1>1. /\ outbox[g] # <<>> /\ outbox[g] \in Seq(Request)
      /\ inbox[g] \in Seq(Message)
      /\ q = Head(outbox[g]) /\ q.from \in Starts
      /\ outbox'[g] = Tail(outbox[g])
      /\ \A h \in Generations \ {g} : outbox'[h] = outbox[h]
      /\ m \in Message
      /\ inbox'[g] = Append(inbox[g], m)
      /\ \A h \in Generations \ {g} : inbox'[h] = inbox[h]
  BY DEF Served
<1>2. m.kind = "response" /\ m.to = q.from /\ m.says = says
  OBVIOUS
<1> HIDE DEF m
<1>3. /\ Len(outbox[g]) \in Nat \ {0} /\ Len(outbox'[g]) = Len(outbox[g]) - 1
      /\ outbox[g][1] = q
      /\ \A i \in 1..Len(outbox'[g]) : outbox'[g][i] = outbox[g][i + 1]
  BY <1>1, TailAt
<1>4. /\ Len(inbox[g]) \in Nat /\ Len(inbox'[g]) = Len(inbox[g]) + 1
      /\ inbox'[g][Len(inbox[g]) + 1] = m
      /\ \A i \in 1..Len(inbox[g]) : inbox'[g][i] = inbox[g][i]
  BY <1>1, AppendAt
<1>5. Asks(g, 1, q.from) /\ outbox[g][1] = q
  BY <1>3 DEF Asks
<1>6. \A h \in Generations, i \in Nat, t \in Starts : Asks(h, i, t)' =>
        /\ h # g => Asks(h, i, t) /\ outbox'[h][i] = outbox[h][i]
        /\ h = g => Asks(g, i + 1, t) /\ outbox'[g][i] = outbox[g][i + 1]
  <2>1. \A i \in 1..Len(outbox'[g]) : i + 1 \in 1..Len(outbox[g])
    BY <1>3
  <2> QED BY <1>1, <1>3, <2>1 DEF Asks
<1>7. \A h \in Generations, i \in Nat, t \in Starts : Replied(h, i, t)' =>
        \/ Replied(h, i, t) /\ inbox'[h][i] = inbox[h][i]
        \/ /\ h = g /\ i = Len(inbox[g]) + 1 /\ t = q.from
           /\ inbox'[g][i].says = says
  <2>1. \A i \in 1..Len(inbox'[g]) : i \in 1..Len(inbox[g]) \/ i = Len(inbox[g]) + 1
    BY <1>4
  <2> QED BY <1>1, <1>2, <1>4, <2>1, SMTT(30) DEF Replied
<1>8. \A h \in Generations : \A i \in 1..Len(inbox[h]) :
        i \in 1..Len(inbox'[h]) /\ inbox'[h][i] = inbox[h][i]
  BY <1>1, <1>4
<1>9. \A h \in Generations : \A i \in 1..Len(inbox'[h]) :
        inbox'[h][i].kind # "response" => i \in 1..Len(inbox[h]) /\ inbox'[h][i] = inbox[h][i]
  BY <1>1, <1>2, <1>4
<1>10. ASSUME NEW i \in Nat, i = Len(inbox[g]) + 1
       PROVE  Replied(g, i, q.from)'
  <2>1. i \in 1..Len(inbox'[g])
    BY <1>4, <1>10
  <2>2. inbox'[g][i].kind = "response" /\ inbox'[g][i].to = q.from
    BY <1>2, <1>4, <1>10
  <2> QED BY <2>1, <2>2 DEF Replied
<1> QED BY <1>4, <1>5, <1>6, <1>7, <1>8, <1>9, <1>10

\* The first message leaves the inbox.
LEMMA PopsWire ==
  ASSUME NEW g \in Generations, NEW m, Pops(g, m)
  PROVE  /\ 1 \in 1..Len(inbox[g]) /\ inbox[g][1] = m /\ m \in Message
         /\ \A h \in Generations \ {g} : inbox'[h] = inbox[h]
         /\ \A i \in 1..Len(inbox'[g]) :
              i + 1 \in 1..Len(inbox[g]) /\ inbox'[g][i] = inbox[g][i + 1]
         /\ \A i \in 1..Len(inbox[g]) : i # 1 =>
              i - 1 \in 1..Len(inbox'[g]) /\ inbox'[g][i - 1] = inbox[g][i]
         /\ \A h \in Generations, i \in Nat, t \in Starts : Replied(h, i, t)' =>
              /\ h # g => Replied(h, i, t) /\ inbox'[h][i] = inbox[h][i]
              /\ h = g => Replied(g, i + 1, t) /\ inbox'[g][i] = inbox[g][i + 1]
<1>1. /\ inbox[g] # <<>> /\ inbox[g] \in Seq(Message)
      /\ m = Head(inbox[g]) /\ m \in Message
      /\ inbox'[g] = Tail(inbox[g])
      /\ \A h \in Generations \ {g} : inbox'[h] = inbox[h]
  BY DEF Pops
<1>2. /\ Len(inbox[g]) \in Nat \ {0} /\ Len(inbox'[g]) = Len(inbox[g]) - 1
      /\ inbox[g][1] = m
      /\ \A i \in 1..Len(inbox'[g]) : inbox'[g][i] = inbox[g][i + 1]
  BY <1>1, TailAt
<1>3. \A i \in 1..Len(inbox'[g]) :
        i + 1 \in 1..Len(inbox[g]) /\ inbox'[g][i] = inbox[g][i + 1]
  BY <1>2
<1>4. \A i \in 1..Len(inbox[g]) : i # 1 =>
        i - 1 \in 1..Len(inbox'[g]) /\ inbox'[g][i - 1] = inbox[g][i]
  BY <1>2
<1>5. \A h \in Generations, i \in Nat, t \in Starts : Replied(h, i, t)' =>
        /\ h # g => Replied(h, i, t) /\ inbox'[h][i] = inbox[h][i]
        /\ h = g => Replied(g, i + 1, t) /\ inbox'[g][i] = inbox[g][i + 1]
  BY <1>1, <1>3 DEF Replied
<1>6. 1 \in 1..Len(inbox[g])
  BY <1>2
<1> HIDE DEF Message
<1> QED BY <1>1, <1>2, <1>3, <1>4, <1>5, <1>6

\* The end of a turn goes to the end of the inboxes that hear of it.
LEMMA HeraldsWire ==
  ASSUME NEW s \in Starts, NEW first, Heralds(s, first),
         inbox \in [Generations -> Seq(Message)],
         Completed(s) \in Message, Idle(s) \in Message
  PROVE  /\ \A h \in Generations : \A i \in 1..Len(inbox[h]) :
              i \in 1..Len(inbox'[h]) /\ inbox'[h][i] = inbox[h][i]
         /\ \A h \in Generations : \A i \in 1..Len(inbox'[h]) :
              \/ i \in 1..Len(inbox[h]) /\ inbox'[h][i] = inbox[h][i]
              \/ Hears(h, s) /\ inbox'[h][i] \in {Completed(s), Idle(s)}
         /\ \A h \in Generations, i \in Nat, t \in Starts : Replied(h, i, t)' =>
              Replied(h, i, t) /\ inbox'[h][i] = inbox[h][i]
<1>1. /\ Completed(s).kind # "response" /\ Idle(s).kind # "response"
  BY DEF Completed, Idle
<1>2. ASSUME NEW h \in Generations, Hears(h, s)
      PROVE  /\ Len(inbox[h]) \in Nat /\ Len(inbox'[h]) = Len(inbox[h]) + 2
             /\ \A i \in 1..Len(inbox[h]) : inbox'[h][i] = inbox[h][i]
             /\ inbox'[h][Len(inbox[h]) + 1] \in {Completed(s), Idle(s)}
             /\ inbox'[h][Len(inbox[h]) + 2] \in {Completed(s), Idle(s)}
  <2> HIDE DEF Message
  <2>1. CASE first
    <3>1. inbox'[h] = inbox[h] \o <<Idle(s), Completed(s)>>
      BY <1>2, <2>1 DEF Heralds
    <3> QED BY <3>1, TwoAt
  <2>2. CASE ~first
    <3>1. inbox'[h] = inbox[h] \o <<Completed(s), Idle(s)>>
      BY <1>2, <2>2 DEF Heralds
    <3> QED BY <3>1, TwoAt
  <2> QED BY <2>1, <2>2
<1>3. \A h \in Generations : Hears(h, s) \/ inbox'[h] = inbox[h]
  BY DEF Heralds
<1>4. \A h \in Generations : \A i \in 1..Len(inbox[h]) :
        i \in 1..Len(inbox'[h]) /\ inbox'[h][i] = inbox[h][i]
  BY <1>2, <1>3
<1>5. \A h \in Generations : \A i \in 1..Len(inbox'[h]) :
        \/ i \in 1..Len(inbox[h]) /\ inbox'[h][i] = inbox[h][i]
        \/ Hears(h, s) /\ inbox'[h][i] \in {Completed(s), Idle(s)}
  BY <1>2, <1>3
<1>6. \A h \in Generations, i \in Nat, t \in Starts : Replied(h, i, t)' =>
        Replied(h, i, t) /\ inbox'[h][i] = inbox[h][i]
  BY <1>1, <1>5 DEF Replied
<1> QED BY <1>4, <1>5, <1>6

-----------------------------------------------------------------------------
(* A caller has one request open.                                          *)

\* Who has nothing on the wire has at most one request there.
LEMMA QuietIsOnce ==
  ASSUME NEW t \in Starts, Quiet(t)
  PROVE  AskedOnce(t) /\ RepliedOnce(t)
BY DEF Quiet, AskedOnce, RepliedOnce

\* The caller of the connection's oldest request has no other on the wire.
LEMMA ServeRequests ==
  ASSUME Authority, NEW t \in Starts, OneRequest(t),
         NEW g \in Generations, Serve(g)
  PROVE  OneRequest(t)'
<1>a. TypeOK /\ Askers /\ CallConsistent(t)
  BY DEF Authority, Calls
<1>1. PICK q \in Request, says \in Verdicts : Served(g, q, says)
  BY <1>a, ServeStep
<1>2. UNCHANGED <<call, slot, answer>>
  BY <1>a, ServeStep
<1>3. /\ q.from \in Starts
      /\ q.method = "start" /\ says = "idle" => turn'[q.from] = "running"
      /\ \/ turn'[q.from] = turn[q.from]
         \/ q.method = "start" /\ turn'[q.from] = "running"
      /\ \A x \in Starts \ {q.from} : turn'[x] = turn[x]
  BY <1>1 DEF Served
<1>4. /\ Asks(g, 1, q.from) /\ outbox[g][1] = q /\ Len(inbox[g]) \in Nat
      /\ \A h \in Generations, i \in Nat : Asks(h, i, t)' =>
           /\ h # g => Asks(h, i, t) /\ outbox'[h][i] = outbox[h][i]
           /\ h = g => Asks(g, i + 1, t) /\ outbox'[g][i] = outbox[g][i + 1]
      /\ \A h \in Generations, i \in Nat : Replied(h, i, t)' =>
           \/ Replied(h, i, t) /\ inbox'[h][i] = inbox[h][i]
           \/ /\ h = g /\ i = Len(inbox[g]) + 1 /\ t = q.from
              /\ inbox'[g][i].says = says
  <2>1. Asks(g, 1, q.from) /\ outbox[g][1] = q /\ Len(inbox[g]) \in Nat
    BY <1>1, ServeWire
  <2>2. \A h \in Generations, i \in Nat : Asks(h, i, t)' =>
          /\ h # g => Asks(h, i, t) /\ outbox'[h][i] = outbox[h][i]
          /\ h = g => Asks(g, i + 1, t) /\ outbox'[g][i] = outbox[g][i + 1]
    BY <1>1, ServeWire
  <2>3. \A h \in Generations, i \in Nat : Replied(h, i, t)' =>
          \/ Replied(h, i, t) /\ inbox'[h][i] = inbox[h][i]
          \/ /\ h = g /\ i = Len(inbox[g]) + 1 /\ t = q.from
             /\ inbox'[g][i].says = says
    BY <1>1, ServeWire
  <2> QED BY <2>1, <2>2, <2>3
<1>5. (Settled(t)' <=> Settled(t)) /\ (Registered(t)' <=> Registered(t))
  BY <1>2 DEF Settled, Registered
<1>6. CASE t = q.from
  <2>1. /\ g = call[t].on /\ ~Settled(t)
        /\ call[t].pc \in Methods => q.method = call[t].pc
        /\ q.method = "start" => turn[t] = "none" /\ call[t].pc \in {"start", "done"}
        /\ \A j \in Nat : ~Replied(g, j, t) /\ (Asks(g, j, t) => 1 = j)
    BY <1>4, <1>6 DEF OneRequest, AskedOnce, Quiet
  <2>2. \A h \in Generations, i \in Nat : ~Asks(h, i, t)'
    <3> SUFFICES ASSUME NEW h \in Generations, NEW i \in Nat, Asks(h, i, t)'
                 PROVE  FALSE
      OBVIOUS
    <3>1. CASE h # g
      BY <1>4, <2>1, <3>1 DEF OneRequest, AskedOnce
    <3>2. CASE h = g
      <4>1. Asks(g, i + 1, t) /\ i \in 1..Len(outbox'[h])
        BY <1>4, <3>2 DEF Asks
      <4> QED BY <2>1, <4>1
    <3> QED BY <3>1, <3>2
  <2>3. \A h \in Generations, i \in Nat : Replied(h, i, t)' =>
          h = g /\ i = Len(inbox[g]) + 1 /\ inbox'[g][i].says = says
    BY <1>4, <2>1 DEF OneRequest, RepliedOnce
  <2>4. says = "idle" /\ call[t].pc = "start" => turn'[t] # "none"
    BY <1>3, <1>6, <2>1 DEF Methods
  <2>5. AskedOnce(t)'
    BY <2>2 DEF AskedOnce
  <2>6. RepliedOnce(t)'
    BY <1>2, <2>1, <2>3, <2>4 DEF RepliedOnce
  <2>7. Placed(t)'
    BY <1>2, <1>3, <1>5, <1>6, <2>1 DEF OneRequest, Placed
  <2> QED BY <1>5, <2>1, <2>5, <2>6, <2>7 DEF OneRequest
<1>7. CASE t # q.from
  <2>1. turn'[t] = turn[t]
    BY <1>3, <1>7
  <2>2. \A h \in Generations, i \in Nat : Replied(h, i, t)' =>
          Replied(h, i, t) /\ inbox'[h][i] = inbox[h][i]
    BY <1>4, <1>7
  <2>3. \A h \in Generations, i \in Nat : Asks(h, i, t)' =>
          \E k \in {0, 1} : Asks(h, i + k, t) /\ outbox'[h][i] = outbox[h][i + k]
                            /\ (k = 1 <=> h = g)
    <3>1. \A i \in Nat : i + 0 = i
      OBVIOUS
    <3> QED BY <1>4, <3>1
  <2>4. Settled(t) => Quiet(t)'
    <3>1. \A i \in Nat, k \in {0, 1} : i + k \in Nat
      OBVIOUS
    <3> QED BY <2>2, <2>3, <3>1 DEF OneRequest, Quiet
  <2>5. AskedOnce(t)'
    <3> SUFFICES ASSUME NEW h \in Generations, NEW i \in Nat, Asks(h, i, t)'
                 PROVE  /\ h = call'[t].on
                        /\ call'[t].pc \in Methods => outbox'[h][i].method = call'[t].pc
                        /\ outbox'[h][i].method = "start" =>
                             turn'[t] = "none" /\ call'[t].pc \in {"start", "done"}
                        /\ \A j \in Nat : ~Replied(h, j, t)' /\ (Asks(h, j, t)' => i = j)
      BY DEF AskedOnce
    <3>1. PICK k \in {0, 1} : /\ Asks(h, i + k, t) /\ outbox'[h][i] = outbox[h][i + k]
                              /\ (k = 1 <=> h = g)
      BY <2>3
    <3>2. i + k \in Nat
      OBVIOUS
    <3>3. /\ h = call[t].on
          /\ call[t].pc \in Methods => outbox[h][i + k].method = call[t].pc
          /\ outbox[h][i + k].method = "start" =>
               turn[t] = "none" /\ call[t].pc \in {"start", "done"}
          /\ \A j \in Nat : ~Replied(h, j, t) /\ (Asks(h, j, t) => i + k = j)
      BY <3>1, <3>2 DEF OneRequest, AskedOnce
    <3>4. \A j \in Nat : ~Replied(h, j, t)'
      BY <2>2, <3>3
    <3>5. \A j \in Nat : Asks(h, j, t)' => i = j
      <4> SUFFICES ASSUME NEW j \in Nat, Asks(h, j, t)'
                   PROVE  i = j
        OBVIOUS
      <4>1. PICK l \in {0, 1} : Asks(h, j + l, t) /\ (l = 1 <=> h = g)
        BY <2>3
      <4>2. i + k = j + l /\ k = l
        BY <3>1, <3>3, <4>1
      <4> QED BY <4>2
    <3> QED BY <1>2, <2>1, <3>1, <3>3, <3>4, <3>5
  <2>6. RepliedOnce(t)'
    BY <1>2, <2>1, <2>2 DEF OneRequest, RepliedOnce
  <2>7. Placed(t)'
    BY <1>2, <1>5, <2>1 DEF OneRequest, Placed
  <2> QED BY <1>5, <2>4, <2>5, <2>6, <2>7 DEF OneRequest
<1> QED BY <1>6, <1>7

\* A message that leaves an inbox, responses aside, leaves the requests alone.
LEMMA PopsRequests ==
  ASSUME NEW t \in Starts, OneRequest(t),
         UNCHANGED <<call, answer, outbox, turn>>, slot'[t] = slot[t],
         NEW g \in Generations, NEW m, Pops(g, m)
  PROVE  OneRequest(t)'
<1>1. \A h \in Generations, i \in Nat : Replied(h, i, t)' =>
        \E k \in {0, 1} : /\ Replied(h, i + k, t) /\ inbox'[h][i] = inbox[h][i + k]
                          /\ (k = 1 <=> h = g)
  <2>1. \A i \in Nat : i + 0 = i
    OBVIOUS
  <2> QED BY <2>1, PopsWire
<1>2. \A i \in Nat, k \in {0, 1} : i + k \in Nat
  OBVIOUS
<1>3. \A h \in Generations, i \in Nat : Asks(h, i, t)' <=> Asks(h, i, t)
  BY DEF Asks
<1>4. (Settled(t)' <=> Settled(t)) /\ (Registered(t)' <=> Registered(t))
  BY DEF Settled, Registered
<1>5. Settled(t) => Quiet(t)'
  BY <1>1, <1>2, <1>3 DEF OneRequest, Quiet
<1>6. AskedOnce(t)'
  BY <1>1, <1>2, <1>3 DEF OneRequest, AskedOnce
<1>7. RepliedOnce(t)'
  <2> SUFFICES ASSUME NEW h \in Generations, NEW i \in Nat, Replied(h, i, t)'
               PROVE  /\ h = call'[t].on
                      /\ inbox'[h][i].says = "idle" /\ call'[t].pc = "start"
                           => turn'[t] # "none"
                      /\ \A j \in Nat : Replied(h, j, t)' => i = j
    BY DEF RepliedOnce
  <2>1. PICK k \in {0, 1} : /\ Replied(h, i + k, t) /\ inbox'[h][i] = inbox[h][i + k]
                            /\ (k = 1 <=> h = g)
    BY <1>1
  <2>2. /\ h = call[t].on
        /\ inbox[h][i + k].says = "idle" /\ call[t].pc = "start" => turn[t] # "none"
        /\ \A j \in Nat : Replied(h, j, t) => i + k = j
    BY <1>2, <2>1 DEF OneRequest, RepliedOnce
  <2>3. \A j \in Nat : Replied(h, j, t)' => i = j
    <3> SUFFICES ASSUME NEW j \in Nat, Replied(h, j, t)'
                 PROVE  i = j
      OBVIOUS
    <3>1. PICK l \in {0, 1} : Replied(h, j + l, t) /\ (l = 1 <=> h = g)
      BY <1>1
    <3>2. i + k = j + l /\ k = l
      BY <2>1, <2>2, <3>1, <1>2
    <3> QED BY <3>2
  <2> QED BY <2>1, <2>2, <2>3
<1>8. Placed(t)'
  BY <1>4 DEF OneRequest, Placed
<1> QED BY <1>4, <1>5, <1>6, <1>7, <1>8 DEF OneRequest

\* A response that is read settles its caller's request.
LEMMA ResponseRequests ==
  ASSUME Authority, NEW t \in Starts, OneRequest(t),
         NEW g \in Generations, ReadResponse(g)
  PROVE  OneRequest(t)'
<1>a. TypeOK /\ CallConsistent(t)
  BY DEF Authority, Calls
<1> DEFINE m == Head(inbox[g])
<1>1. /\ Pops(g, m) /\ m.kind = "response" /\ m.to \in Starts
      /\ SlotTo(m.to, IF slot[m.to] = "waiting" THEN m.says ELSE slot[m.to])
      /\ UNCHANGED <<call, answer, outbox, turn>>
  BY <1>a, ReadResponseStep
<1> HIDE DEF m
<1>2. CASE t # m.to
  <2>1. slot'[t] = slot[t]
    BY <1>1, <1>2 DEF SlotTo
  <2> QED BY <1>1, <2>1, PopsRequests
<1>3. CASE t = m.to
  <2>1. Replied(g, 1, t) /\ inbox[g][1] = m
    BY <1>1, <1>3, PopsWire DEF Replied
  <2>2. /\ g = call[t].on /\ ~Settled(t)
        /\ m.says = "idle" /\ call[t].pc = "start" => turn[t] # "none"
        /\ \A j \in Nat : Replied(g, j, t) => 1 = j
    BY <2>1 DEF OneRequest, RepliedOnce, Quiet
  <2>3. \A h \in Generations, i \in Nat : ~Asks(h, i, t)
    BY <2>1, <2>2 DEF OneRequest, AskedOnce
  <2>4. \A h \in Generations, i \in Nat : ~Asks(h, i, t)'
    BY <1>1, <2>3 DEF Asks
  <2>5. \A h \in Generations, i \in Nat : ~Replied(h, i, t)'
    <3> SUFFICES ASSUME NEW h \in Generations, NEW i \in Nat, Replied(h, i, t)'
                 PROVE  FALSE
      OBVIOUS
    <3>1. CASE h # g
      BY <1>1, <2>2, <3>1, PopsWire DEF OneRequest, RepliedOnce
    <3>2. CASE h = g
      <4>1. Replied(g, i + 1, t) /\ i \in 1..Len(inbox'[h])
        BY <1>1, <3>2, PopsWire DEF Replied
      <4>2. i + 1 = 1
        BY <2>2, <4>1
      <4> QED BY <4>1, <4>2
    <3> QED BY <3>1, <3>2
  <2>6. Quiet(t)'
    BY <2>4, <2>5 DEF Quiet
  <2>7. slot'[t] = IF slot[t] = "waiting" THEN m.says ELSE slot[t]
    BY <1>1, <1>3 DEF SlotTo
  <2>8. Placed(t)'
    BY <1>1, <2>2, <2>7 DEF OneRequest, Placed, Registered
  <2>9. AskedOnce(t)' /\ RepliedOnce(t)'
    BY <2>4, <2>5 DEF AskedOnce, RepliedOnce
  <2> QED BY <2>6, <2>8, <2>9 DEF OneRequest
<1> QED BY <1>2, <1>3

\* A request that is sent is its caller's only one.
LEMMA SendRequests ==
  ASSUME Authority, NEW t \in Starts, OneRequest(t),
         NEW s \in Starts, Send(s)
  PROVE  OneRequest(t)'
<1>a. TypeOK /\ Connections /\ CallConsistent(t)
  BY DEF Authority, Calls
<1>1. /\ Poised(s) /\ Due(s) \in Methods /\ generation \in Generations
      /\ CallTo(s, Due(s), generation) /\ SlotTo(s, "waiting")
      /\ UNCHANGED <<answer, turn, inbox>>
  BY <1>a, SendStep
<1>2. \A g \in Generations, i \in Nat, x \in Starts : Asks(g, i, x)' =>
        \/ Asks(g, i, x) /\ outbox'[g][i] = outbox[g][i]
        \/ /\ x = s /\ g = generation /\ i = Len(outbox[g]) + 1
           /\ outbox'[g][i].method = Due(s)
  BY SendWire
<1>3. \A g \in Generations, i \in Nat : Replied(g, i, t)' <=> Replied(g, i, t)
  BY <1>1 DEF Replied
<1>4. CASE t = s
  <2>1. Settled(t) /\ ~Registered(t) /\ call[t].pc \notin {"start", "done"}
    BY <1>1, <1>4 DEF Poised, Settled, Registered, Methods
  <2>2. turn[t] = "none" /\ \A g \in Generations, i \in Nat : ~Asks(g, i, t) /\ ~Replied(g, i, t)
    BY <2>1 DEF OneRequest, Placed, Quiet
  <2>3. call'[t].pc = Due(s) /\ call'[t].on = generation /\ slot'[t] = "waiting"
    BY <1>1, <1>4 DEF CallTo, SlotTo
  <2>4. ~Settled(t)' /\ ~Registered(t)'
    BY <1>1, <2>3 DEF Settled, Registered, Methods
  <2>5. AskedOnce(t)'
    <3> SUFFICES ASSUME NEW h \in Generations, NEW i \in Nat, Asks(h, i, t)'
                 PROVE  /\ h = call'[t].on
                        /\ call'[t].pc \in Methods => outbox'[h][i].method = call'[t].pc
                        /\ outbox'[h][i].method = "start" =>
                             turn'[t] = "none" /\ call'[t].pc \in {"start", "done"}
                        /\ \A j \in Nat : ~Replied(h, j, t)' /\ (Asks(h, j, t)' => i = j)
      BY DEF AskedOnce
    <3>1. h = generation /\ i = Len(outbox[h]) + 1 /\ outbox'[h][i].method = Due(s)
      BY <1>2, <2>2
    <3>2. \A j \in Nat : Asks(h, j, t)' => i = j
      BY <1>2, <2>2, <3>1
    <3> QED BY <1>1, <1>3, <2>2, <2>3, <3>1, <3>2
  <2>6. RepliedOnce(t)'
    BY <1>3, <2>2 DEF RepliedOnce
  <2>7. Placed(t)'
    BY <1>1, <2>2, <2>3, <2>4 DEF Placed
  <2> QED BY <2>4, <2>5, <2>6, <2>7 DEF OneRequest
<1>5. CASE t # s
  <2>1. call'[t] = call[t] /\ slot'[t] = slot[t]
    BY <1>1, <1>5 DEF CallTo, SlotTo
  <2>2. (Settled(t)' <=> Settled(t)) /\ (Registered(t)' <=> Registered(t))
    BY <1>1, <2>1 DEF Settled, Registered
  <2>3. \A g \in Generations, i \in Nat : Asks(g, i, t)' =>
          Asks(g, i, t) /\ outbox'[g][i] = outbox[g][i]
    BY <1>2, <1>5
  <2>4. Settled(t)' => Quiet(t)'
    BY <1>3, <2>2, <2>3 DEF OneRequest, Quiet
  <2>5. AskedOnce(t)'
    BY <1>1, <1>3, <2>1, <2>3 DEF OneRequest, AskedOnce
  <2>6. RepliedOnce(t)'
    BY <1>1, <1>3, <2>1 DEF OneRequest, RepliedOnce
  <2>7. Placed(t)'
    BY <1>1, <2>1, <2>2 DEF OneRequest, Placed
  <2> QED BY <2>4, <2>5, <2>6, <2>7 DEF OneRequest
<1> QED BY <1>4, <1>5

\* A turn that ends leaves the requests alone.
LEMMA EndTurnRequests ==
  ASSUME Authority, NEW t \in Starts, OneRequest(t),
         NEW s \in Starts, NEW outcome \in TurnOutcomes, EndTurn(s, outcome)
  PROVE  OneRequest(t)'
<1>a. TypeOK /\ Askers
  BY DEF Authority
<1>1. /\ turn[s] = "running" /\ turn'[s] = outcome
      /\ \A x \in Starts \ {s} : turn'[x] = turn[x]
      /\ UNCHANGED <<call, slot, answer, outbox>>
  BY <1>a, EndTurnStep
<1>2. \A g \in Generations, i \in Nat : Replied(g, i, t)' =>
        Replied(g, i, t) /\ inbox'[g][i] = inbox[g][i]
  BY <1>a, EndTurnStep, HeraldsWire
<1>3. turn'[t] # "none" <=> turn[t] # "none"
  BY <1>1, ConstantsAssumption DEF TerminalStatuses
<1>4. \A g \in Generations, i \in Nat : Asks(g, i, t)' <=> Asks(g, i, t)
  BY <1>1 DEF Asks
<1>5. (Settled(t)' <=> Settled(t)) /\ (Registered(t)' <=> Registered(t))
  BY <1>1 DEF Settled, Registered
<1>6. Settled(t)' => Quiet(t)'
  BY <1>2, <1>4, <1>5 DEF OneRequest, Quiet
<1>7. AskedOnce(t)'
  BY <1>1, <1>2, <1>3, <1>4 DEF OneRequest, AskedOnce
<1>8. RepliedOnce(t)'
  BY <1>1, <1>2, <1>3 DEF OneRequest, RepliedOnce
<1>9. Placed(t)'
  BY <1>1, <1>3, <1>5 DEF OneRequest, Placed
<1> QED BY <1>6, <1>7, <1>8, <1>9 DEF OneRequest

\* A caller that neither sends nor hears keeps its one request.
LEMMA MovesRequests ==
  ASSUME NEW t \in Starts, CallConsistent(t)', OneRequest(t), Moves(t),
         UNCHANGED <<outbox, inbox, turn>>
  PROVE  OneRequest(t)'
<1>1. \A g \in Generations, i \in Nat :
        (Asks(g, i, t)' <=> Asks(g, i, t)) /\ (Replied(g, i, t)' <=> Replied(g, i, t))
  BY DEF Asks, Replied
<1>2. Quiet(t)' <=> Quiet(t)
  BY <1>1 DEF Quiet
<1>3. CASE Settled(t) /\ Placed(t)'
  <2>1. Quiet(t)'
    BY <1>2, <1>3 DEF OneRequest
  <2>2. AskedOnce(t)' /\ RepliedOnce(t)'
    BY <2>1 DEF Quiet, AskedOnce, RepliedOnce
  <2> QED BY <1>3, <2>1, <2>2 DEF OneRequest
<1>4. CASE /\ call'[t] = call[t] /\ answer'[t] = answer[t]
           /\ slot'[t] = slot[t] \/ (slot[t] = "waiting" /\ slot'[t] = "lost")
  <2>1. (Registered(t)' <=> Registered(t)) /\ (Settled(t)' => Settled(t))
    BY <1>4 DEF Registered, Settled
  <2>2. AskedOnce(t)' /\ RepliedOnce(t)'
    BY <1>1, <1>4 DEF OneRequest, AskedOnce, RepliedOnce
  <2>3. Placed(t)'
    BY <1>4, <2>1 DEF OneRequest, Placed
  <2> QED BY <1>2, <2>1, <2>2, <2>3 DEF OneRequest
<1>5. CASE /\ call[t].pc \in Methods \cup {"begin", "connected"}
           /\ call'[t].pc = "done" /\ answer'[t] \in {"rejected", "unknown"}
           /\ call'[t].on = call[t].on
  <2>1. slot'[t] = "none"
    BY <1>5 DEF CallConsistent, Methods
  <2>2. ~Registered(t)' /\ ~Settled(t)' /\ call'[t].pc = "done"
    BY <1>5, <2>1 DEF Registered, Settled
  <2>3. AskedOnce(t)' /\ RepliedOnce(t)'
    BY <1>1, <1>5, <2>2 DEF OneRequest, AskedOnce, RepliedOnce, Methods
  <2>4. Placed(t)'
    BY <2>2 DEF Placed
  <2> QED BY <2>2, <2>3, <2>4 DEF OneRequest
<1>6. CASE call[t].pc = "none" /\ call'[t].pc = "begin"
  BY <1>3, <1>6 DEF OneRequest, Placed, Settled, Registered
<1>7. CASE Poised(t) /\ call'[t].pc = "connected"
  BY <1>3, <1>7 DEF OneRequest, Placed, Settled, Registered, Poised, Methods
<1>8. CASE call[t].pc = "start" /\ slot[t] = "idle" /\ Registered(t)'
  BY <1>3, <1>8 DEF OneRequest, Placed, Settled
<1>9. CASE Registered(t) /\ Registered(t)'
  BY <1>3, <1>9 DEF OneRequest, Placed, Settled
<1> QED BY <1>4, <1>5, <1>6, <1>7, <1>8, <1>9 DEF Moves

\* A probe's initialize comes and goes without touching the requests of the callers.
LEMMA GreetingRequests ==
  ASSUME Authority, NEW t \in Starts, OneRequest(t),
         (\E s \in Starts : ProbeInitialize(s)) \/ (\E g \in Generations : Greet(g))
  PROVE  OneRequest(t)'
<1>a. TypeOK /\ Connections /\ t # None
  BY ConstantsAssumption DEF Authority
<1>1. UNCHANGED <<slot, call, answer, inbox, turn>>
  BY <1>a, ProbeInitializeStep, GreetStep
<1>2. PICK d \in [Generations -> {0, 1}] :
        \A h \in Generations, i \in Nat : Asks(h, i, t)' =>
          i + d[h] \in Nat /\ Asks(h, i + d[h], t) /\ outbox'[h][i] = outbox[h][i + d[h]]
  <2>1. ASSUME NEW s \in Starts, ProbeInitialize(s)
        PROVE  \A h \in Generations, i \in Nat : Asks(h, i, t)' =>
                 Asks(h, i, t) /\ outbox'[h][i] = outbox[h][i]
    <3> DEFINE q == [from |-> None, method |-> "initialize"]
    <3>1. /\ generation \in Generations /\ q \in Request /\ outbox[generation] \in Seq(Request)
          /\ outbox'[generation] = Append(outbox[generation], q)
          /\ \A h \in Generations \ {generation} : outbox'[h] = outbox[h]
      BY <1>a, <2>1, ProbeInitializeStep
    <3>2. q.from = None
      OBVIOUS
    <3> HIDE DEF q
    <3>3. /\ Len(outbox[generation]) \in Nat
          /\ Len(outbox'[generation]) = Len(outbox[generation]) + 1
          /\ outbox'[generation][Len(outbox[generation]) + 1] = q
          /\ \A i \in 1..Len(outbox[generation]) :
               outbox'[generation][i] = outbox[generation][i]
      BY <3>1, AppendAt
    <3>4. \A i \in 1..Len(outbox'[generation]) :
            i \in 1..Len(outbox[generation]) \/ i = Len(outbox[generation]) + 1
      BY <3>3
    <3> QED BY <1>a, <3>1, <3>2, <3>3, <3>4 DEF Asks
  <2>2. ASSUME NEW g \in Generations, Greet(g)
        PROVE  \A h \in Generations, i \in Nat : Asks(h, i, t)' =>
                 /\ h # g => Asks(h, i, t) /\ outbox'[h][i] = outbox[h][i]
                 /\ h = g => Asks(g, i + 1, t) /\ outbox'[g][i] = outbox[g][i + 1]
    <3>1. /\ outbox[g] # <<>> /\ outbox[g] \in Seq(Request)
          /\ outbox'[g] = Tail(outbox[g])
          /\ \A h \in Generations \ {g} : outbox'[h] = outbox[h]
      BY <1>a, <2>2, GreetStep
    <3>2. /\ Len(outbox[g]) \in Nat \ {0} /\ Len(outbox'[g]) = Len(outbox[g]) - 1
          /\ \A i \in 1..Len(outbox'[g]) : outbox'[g][i] = outbox[g][i + 1]
      BY <3>1, TailAt
    <3>3. \A i \in 1..Len(outbox'[g]) : i + 1 \in 1..Len(outbox[g])
      BY <3>2
    <3> QED BY <3>1, <3>2, <3>3 DEF Asks
  <2>3. CASE \E s \in Starts : ProbeInitialize(s)
    <3> DEFINE d == [h \in Generations |-> 0]
    <3>1. /\ d \in [Generations -> {0, 1}]
          /\ \A h \in Generations, i \in Nat : d[h] = 0 /\ i + d[h] = i
      OBVIOUS
    <3> HIDE DEF d
    <3>2. \A h \in Generations, i \in Nat : Asks(h, i, t)' =>
            i + d[h] \in Nat /\ Asks(h, i + d[h], t) /\ outbox'[h][i] = outbox[h][i + d[h]]
      BY <2>1, <2>3, <3>1
    <3> QED BY <3>1, <3>2
  <2>4. ASSUME NEW g \in Generations, Greet(g)
        PROVE  \E d \in [Generations -> {0, 1}] :
                 \A h \in Generations, i \in Nat : Asks(h, i, t)' =>
                   /\ i + d[h] \in Nat
                   /\ Asks(h, i + d[h], t) /\ outbox'[h][i] = outbox[h][i + d[h]]
    <3> DEFINE d == [h \in Generations |-> IF h = g THEN 1 ELSE 0]
    <3>1. /\ d \in [Generations -> {0, 1}] /\ d[g] = 1
          /\ \A h \in Generations \ {g}, i \in Nat : d[h] = 0 /\ i + d[h] = i
          /\ \A i \in Nat : i + 1 \in Nat
      OBVIOUS
    <3> HIDE DEF d
    <3>2. ASSUME NEW h \in Generations, NEW i \in Nat, Asks(h, i, t)'
          PROVE  /\ i + d[h] \in Nat
                 /\ Asks(h, i + d[h], t) /\ outbox'[h][i] = outbox[h][i + d[h]]
      <4>1. CASE h = g
        BY <2>2, <2>4, <3>1, <3>2, <4>1
      <4>2. CASE h # g
        BY <2>2, <2>4, <3>1, <3>2, <4>2
      <4> QED BY <4>1, <4>2
    <3> QED BY <3>1, <3>2
  <2> QED BY <2>3, <2>4
<1>3. \A g \in Generations, i \in Nat : Replied(g, i, t)' <=> Replied(g, i, t)
  BY <1>1 DEF Replied
<1>4. (Settled(t)' <=> Settled(t)) /\ (Registered(t)' <=> Registered(t))
  BY <1>1 DEF Settled, Registered
<1>5. Settled(t)' => Quiet(t)'
  BY <1>2, <1>3, <1>4 DEF OneRequest, Quiet
<1>6. AskedOnce(t)'
  <2> SUFFICES ASSUME NEW h \in Generations, NEW i \in Nat, Asks(h, i, t)'
               PROVE  /\ h = call[t].on
                      /\ call[t].pc \in Methods => outbox'[h][i].method = call[t].pc
                      /\ outbox'[h][i].method = "start" =>
                           turn[t] = "none" /\ call[t].pc \in {"start", "done"}
                      /\ \A j \in Nat : ~Replied(h, j, t)' /\ (Asks(h, j, t)' => i = j)
    BY <1>1 DEF AskedOnce
  <2>1. i + d[h] \in Nat /\ Asks(h, i + d[h], t) /\ outbox'[h][i] = outbox[h][i + d[h]]
    BY <1>2
  <2>2. /\ h = call[t].on
        /\ call[t].pc \in Methods => outbox[h][i + d[h]].method = call[t].pc
        /\ outbox[h][i + d[h]].method = "start" =>
             turn[t] = "none" /\ call[t].pc \in {"start", "done"}
        /\ \A j \in Nat : ~Replied(h, j, t) /\ (Asks(h, j, t) => i + d[h] = j)
    BY <2>1 DEF OneRequest, AskedOnce
  <2>3. ASSUME NEW j \in Nat, Asks(h, j, t)'
        PROVE  i = j
    <3>1. i + d[h] = j + d[h]
      BY <1>2, <2>2, <2>3
    <3>2. d[h] \in {0, 1}
      BY <1>2
    <3> QED BY <3>1, <3>2
  <2> QED BY <1>3, <2>1, <2>2, <2>3
<1>7. RepliedOnce(t)'
  BY <1>1, <1>3 DEF OneRequest, RepliedOnce
<1>8. Placed(t)'
  BY <1>1, <1>4 DEF OneRequest, Placed
<1> QED BY <1>5, <1>6, <1>7, <1>8 DEF OneRequest

\* A caller has one request open.
LEMMA NextRequests ==
  ASSUME Authority, Authority', NEW t \in Starts, OneRequest(t), [Next]_vars
  PROVE  OneRequest(t)'
<1>a. TypeOK /\ CallConsistent(t)'
  BY DEF Authority, Calls
<1>1. ASSUME NEW s \in Starts, Send(s)
      PROVE  OneRequest(t)'
  BY <1>1, SendRequests
<1>2. ASSUME NEW g \in Generations, Serve(g)
      PROVE  OneRequest(t)'
  BY <1>2, ServeRequests
<1>3. ASSUME NEW g \in Generations, ReadResponse(g)
      PROVE  OneRequest(t)'
  BY <1>3, ResponseRequests
<1>4. ASSUME NEW g \in Generations, ReadCompleted(g)
      PROVE  OneRequest(t)'
  BY <1>a, <1>4, ReadCompletedStep, PopsRequests
<1>5. ASSUME NEW g \in Generations, ReadIdle(g)
      PROVE  OneRequest(t)'
  BY <1>a, <1>5, ReadIdleStep, PopsRequests
<1>6. ASSUME NEW s \in Starts, NEW outcome \in TurnOutcomes, EndTurn(s, outcome)
      PROVE  OneRequest(t)'
  BY <1>6, EndTurnRequests
<1>7. CASE /\ \A s \in Starts : ~Send(s)
           /\ \A g \in Generations :
                ~Serve(g) /\ ~ReadResponse(g) /\ ~ReadCompleted(g) /\ ~ReadIdle(g)
           /\ \A s \in Starts : \A outcome \in TurnOutcomes : ~EndTurn(s, outcome)
  <2>1. UNCHANGED outbox => OneRequest(t)'
    BY <1>a, <1>7, CallerMoves, WireMoves, MovesRequests
  <2> QED BY <1>7, <2>1, WireMoves, GreetingRequests
<1> QED BY <1>1, <1>2, <1>3, <1>4, <1>5, <1>6, <1>7

-----------------------------------------------------------------------------
(* What only goes one way.                                                 *)

\* Connections are numbered upwards; a link that is down and a fault stay.
LEMMA LinksAge ==
  ASSUME Authority, [Next]_vars
  PROVE  /\ generation <= generation' /\ faults \subseteq faults'
         /\ \A h \in Generations : link[h] = "down" => link'[h] = "down"
<1> DEFINE Ages == /\ generation <= generation' /\ faults \subseteq faults'
                   /\ \A h \in Generations : link[h] = "down" => link'[h] = "down"
<1> SUFFICES Ages
  OBVIOUS
<1>a. TypeOK /\ Connections /\ Askers
  BY DEF Authority
<1>b. /\ generation \in Nat
      /\ \A h \in Generations : h \in Nat /\ (h > generation => link[h] = "none")
  BY ConstantsAssumption DEF Authority, TypeOK, Connections, Generations
<1>1. ASSUME NEW s \in Starts, Connect(s)
      PROVE  Ages
  <2>1. /\ generation' = generation + 1 /\ generation' \in Generations
        /\ link'[generation'] = "up"
        /\ \A h \in Generations \ {generation'} : link'[h] = link[h]
        /\ ReaderTo(generation', "receive", None)
        /\ UNCHANGED <<faults>>
    BY <1>a, <1>1, ConnectStep
  <2> QED BY <2>1, <1>b
<1>2. ASSUME NEW s \in Starts, TimeOut(s)
      PROVE  Ages
  <2>1. /\ slot[s] = "waiting"
        /\ faults \subseteq faults'
        /\ UNCHANGED <<generation, link>>
    BY <1>a, <1>2, TimeOutStep
  <2> QED BY <2>1, <1>b
<1>3. ASSUME NEW s \in Starts, ProbeFails(s)
      PROVE  Ages
  <2>1. /\ faults \subseteq faults'
        /\ UNCHANGED <<generation, link>>
    BY <1>a, <1>3, ProbeFailsStep
  <2> QED BY <2>1, <1>b
<1>4. ASSUME NEW g \in Generations, Drop(g)
      PROVE  Ages
  <2>1. /\ link[g] = "up" /\ link'[g] = "down"
        /\ faults \subseteq faults'
        /\ \A h \in Generations \ {g} : link'[h] = link[h]
        /\ UNCHANGED <<generation>>
    BY <1>a, <1>4, DropStep
  <2> QED BY <2>1, <1>b
<1>5. ASSUME Close
      PROVE  Ages
  <2>1. /\ faults \subseteq faults'
        /\ link'[generation] = "down"
        /\ \A h \in Generations \ {generation} : link'[h] = link[h]
        /\ UNCHANGED <<generation>>
    BY <1>a, <1>5, CloseStep
  <2> QED BY <2>1, <1>b
<1>6. ASSUME NEW s \in Starts, NEW th \in Threads, Begin(s, th)
      PROVE  Ages
  <2>1. UNCHANGED <<generation, link, faults>>
    BY <1>a, <1>6, BeginStep
  <2> QED BY <2>1, <1>b
<1>7. ASSUME NEW s \in Starts,
          ConnectFails(s) \/ Send(s) \/ SendUnconnected(s) \/ SendFails(s) \/ Reject(s)
             \/ Register(s) \/ Merge(s) \/ MergeCallback(s) \/ Return(s) \/ TellUnknown(s)
             \/ ProbeCheck(s) \/ ProbeInitialize(s) \/ ProbeInitialized(s) \/ ProbeList(s)
             \/ ProbeRecheck(s) \/ ProbeFinish(s) \/ ProbeCallback(s)
      PROVE  Ages
  <2>1. UNCHANGED <<generation, link, faults>>
    BY <1>a, <1>7, ConnectFailsStep, SendStep, SendUnconnectedStep, SendFailsStep,
       RejectStep, RegisterStep, MergeStep, MergeCallbackStep, ReturnStep, TellUnknownStep,
       ProbeCheckStep, ProbeInitializeStep, ProbeInitializedStep, ProbeListStep,
       ProbeRecheckStep, ProbeFinishStep, ProbeCallbackStep
  <2> QED BY <2>1, <1>b
<1>8. ASSUME NEW g \in Generations,
          ReadResponse(g) \/ ReadCompleted(g) \/ ReaderFinish(g) \/ ReaderCallback(g)
             \/ ReaderOrphan(g) \/ ReadIdle(g) \/ ReaderFails(g) \/ ReaderLeaves(g)
             \/ Serve(g) \/ Greet(g)
      PROVE  Ages
  <2>1. UNCHANGED <<generation, link, faults>>
    BY <1>a, <1>8, ReadResponseStep, ReadCompletedStep, ReaderFinishStep,
       ReaderCallbackStep, ReaderOrphanStep, ReadIdleStep, ReaderFailsStep,
       ReaderLeavesStep, ServeStep, GreetStep
  <2> QED BY <2>1, <1>b
<1>9. ASSUME NEW s \in Starts, NEW outcome \in TurnOutcomes, EndTurn(s, outcome)
      PROVE  Ages
  <2>1. UNCHANGED <<generation, link, faults>>
    BY <1>a, <1>9, EndTurnStep
  <2> QED BY <2>1, <1>b
<1>10. CASE UNCHANGED vars
  <2>1. UNCHANGED <<generation, link, faults>>
    BY <1>10 DEF vars, conn, table, client, threads, results, wire, server, appServer
  <2> QED BY <2>1, <1>b
<1>11. ASSUME NEW s \in Starts, ProbeConnect(s)
      PROVE  Ages
  <2>1. /\ generation' = generation + 1 /\ generation' \in Generations
        /\ link'[generation'] = "up"
        /\ \A h \in Generations \ {generation'} : link'[h] = link[h]
        /\ UNCHANGED <<faults>>
    BY <1>a, <1>11, ProbeConnectStep
  <2> QED BY <2>1, <1>b
<1> QED
  BY <1>1, <1>2, <1>3, <1>4, <1>5, <1>6, <1>7, <1>8, <1>9, <1>10, <1>11
     DEF Next, CallerStep, ProbeStep, ReaderStep

\* The App Server starts the turn t.
Starting(t) ==
  /\ call[t].pc # "none" /\ turn[t] = "none" /\ turn'[t] = "running"
  /\ ~Running(call[t].thread)
  /\ \A x \in Starts \ {t} : turn'[x] = turn[x]

\* A turn begins once, when its turn/start is served, and ends once.
LEMMA TurnMoves ==
  ASSUME Authority, NEW t \in Starts, OneRequest(t), [Next]_vars
  PROVE  \/ turn'[t] = turn[t]
         \/ Starting(t)
         \/ turn[t] = "running" /\ Ended(t)'
<1>a. TypeOK /\ Connections /\ Askers
  BY DEF Authority
<1>1. ASSUME NEW g \in Generations, Serve(g)
      PROVE  turn'[t] = turn[t] \/ Starting(t)
  <2>1. PICK q \in Request, says \in Verdicts : Served(g, q, says)
    BY <1>a, <1>1, ServeStep
  <2>2. Asks(g, 1, q.from) /\ outbox[g][1] = q
    BY <2>1, ServeWire
  <2>3. \/ turn' = turn
        \/ /\ q.method = "start" /\ turn'[q.from] = "running"
           /\ ~Running(call[q.from].thread)
           /\ \A x \in Starts \ {q.from} : turn'[x] = turn[x]
    BY <2>1 DEF Served
  <2>4. t = q.from /\ q.method = "start" =>
          turn[t] = "none" /\ call[t].pc \in {"start", "done"}
    BY <2>2 DEF OneRequest, AskedOnce
  <2> QED BY <2>3, <2>4 DEF Starting
<1>2. ASSUME NEW s \in Starts, NEW outcome \in TurnOutcomes, EndTurn(s, outcome)
      PROVE  turn'[t] = turn[t] \/ (turn[t] = "running" /\ Ended(t)')
  <2>1. /\ turn[s] = "running" /\ turn'[s] = outcome
        /\ \A x \in Starts \ {s} : turn'[x] = turn[x]
    BY <1>a, <1>2, EndTurnStep
  <2> QED BY <2>1, ConstantsAssumption DEF Ended
<1>3. ASSUME NEW s \in Starts, Send(s)
      PROVE  turn'[t] = turn[t]
  BY <1>a, <1>3, SendStep
<1>4. ASSUME NEW g \in Generations, ReadResponse(g) \/ ReadCompleted(g) \/ ReadIdle(g)
      PROVE  turn'[t] = turn[t]
  BY <1>a, <1>4, ReadResponseStep, ReadCompletedStep, ReadIdleStep
<1>5. CASE /\ \A s \in Starts : ~Send(s)
           /\ \A g \in Generations :
                ~Serve(g) /\ ~ReadResponse(g) /\ ~ReadCompleted(g) /\ ~ReadIdle(g)
           /\ \A s \in Starts : \A outcome \in TurnOutcomes : ~EndTurn(s, outcome)
  BY <1>5, WireMoves
<1> QED BY <1>1, <1>2, <1>3, <1>4, <1>5

\* A turn that has ended stays as it is.
LEMMA EndedStays ==
  ASSUME Authority, NEW t \in Starts, OneRequest(t), Ended(t), [Next]_vars
  PROVE  turn'[t] = turn[t] /\ Ended(t)' /\ CallbackStatus(t)' = CallbackStatus(t)
<1>1. turn[t] \notin {"none", "running"}
  BY DEF Ended, TerminalStatuses
<1>2. turn'[t] = turn[t]
  BY <1>1, TurnMoves DEF Starting
<1> QED BY <1>2 DEF Ended, CallbackStatus

\* A caller whose turn exists keeps its thread and its connection.
LEMMA CallStays ==
  ASSUME Authority, NEW t \in Starts, OneRequest(t), turn[t] # "none", [Next]_vars
  PROVE  call'[t].on = call[t].on /\ call'[t].thread = call[t].thread
<1>a. /\ TypeOK /\ Connections /\ Askers /\ Calls
      /\ call[t].pc # "none"
      /\ call[t].pc \in {"start", "done"} \/ Registered(t)
  BY DEF Authority, Askers, OneRequest, Placed
<1>1. call'[t].thread = call[t].thread
  BY <1>a, ThreadStays
<1>2. ASSUME NEW s \in Starts, Send(s)
      PROVE  call'[t].on = call[t].on
  <2>1. Poised(s) /\ CallTo(s, Due(s), generation)
    BY <1>a, <1>2, SendStep
  <2>2. t # s
    BY <1>a, <2>1 DEF Poised, Registered, Methods
  <2> QED BY <2>1, <2>2 DEF CallTo
<1>3. ASSUME NEW g \in Generations, ReadResponse(g)
      PROVE  call'[t].on = call[t].on
  BY <1>a, <1>3, ReadResponseStep
<1>4. CASE /\ \A s \in Starts : ~Send(s)
           /\ \A g \in Generations : ~ReadResponse(g)
  <2>1. Moves(t)
    BY <1>4, CallerMoves
  <2> QED BY <1>a, <1>1, <2>1 DEF Moves
<1> QED BY <1>1, <1>2, <1>3, <1>4

-----------------------------------------------------------------------------
(* Idle threads.                                                           *)

\* A link that is up is the link of the connection in use.
LEMMA UpIsCurrent ==
  ASSUME Authority, NEW g \in Generations, link[g] = "up"
  PROVE  connected /\ g = generation
BY DEF Authority, Connections

\* A message joins an inbox only while its connection is up.
LEMMA NextFresh ==
  ASSUME Authority, Fresh, [Next]_vars
  PROVE  Fresh'
<1>a. TypeOK /\ Connections /\ Askers
  BY DEF Authority
<1>b. /\ generation \in Nat /\ generation' \in Nat /\ generation <= generation'
      /\ \A h \in Generations : h \in Nat
  <2>1. generation \in 0..MaxGeneration /\ generation' \in 0..MaxGeneration
    <3>1. TypeOK'
      BY <1>a, NextTypeOK
    <3> QED BY <1>a, <3>1 DEF TypeOK
  <2>2. generation <= generation'
    BY LinksAge
  <2> QED BY <2>1, <2>2, ConstantsAssumption DEF Generations
<1>c. ASSUME \A h \in Generations : inbox'[h] = inbox[h] \/ h = generation \/ inbox[h] # <<>>
      PROVE  Fresh'
  BY <1>b, <1>c DEF Fresh
<1>1. ASSUME NEW g \in Generations, Serve(g)
      PROVE  Fresh'
  <2>1. PICK q \in Request, says \in Verdicts : Served(g, q, says)
    BY <1>a, <1>1, ServeStep
  <2>2. link[g] = "up" /\ \A h \in Generations \ {g} : inbox'[h] = inbox[h]
    BY <2>1 DEF Served
  <2> QED BY <1>c, <2>2, UpIsCurrent
<1>2. ASSUME NEW s \in Starts, NEW outcome \in TurnOutcomes, EndTurn(s, outcome)
      PROVE  Fresh'
  <2>1. \A h \in Generations : Hears(h, s) \/ inbox'[h] = inbox[h]
    BY <1>a, <1>2, EndTurnStep DEF Heralds
  <2> QED BY <1>c, <2>1, UpIsCurrent DEF Hears
<1>3. ASSUME NEW g \in Generations, NEW m, Pops(g, m)
      PROVE  Fresh'
  BY <1>c, <1>3 DEF Pops
<1>4. ASSUME NEW g \in Generations, ReadResponse(g) \/ ReadCompleted(g) \/ ReadIdle(g)
      PROVE  Fresh'
  BY <1>a, <1>3, <1>4, ReadResponseStep, ReadCompletedStep, ReadIdleStep
<1>5. ASSUME NEW s \in Starts, Send(s)
      PROVE  Fresh'
  BY <1>a, <1>c, <1>5, SendStep
<1>6. CASE /\ \A s \in Starts : ~Send(s)
           /\ \A g \in Generations :
                ~Serve(g) /\ ~ReadResponse(g) /\ ~ReadCompleted(g) /\ ~ReadIdle(g)
           /\ \A s \in Starts : \A outcome \in TurnOutcomes : ~EndTurn(s, outcome)
  BY <1>c, <1>6, WireMoves
<1> QED BY <1>1, <1>2, <1>4, <1>5, <1>6

\* The App Server starts no turn beside a running one.
LEMMA NextAlone ==
  ASSUME Authority, \A x \in Starts : OneRequest(x), Alone, [Next]_vars
  PROVE  Alone'
<1> SUFFICES ASSUME NEW s \in Starts, NEW t \in Starts,
                    turn'[s] = "running", turn'[t] = "running",
                    call'[s].thread = call'[t].thread
             PROVE  s = t
  BY DEF Alone
<1>1. ASSUME NEW x \in Starts, turn'[x] = "running"
      PROVE  turn[x] = "running" \/ Starting(x)
  BY <1>1, TurnMoves DEF Ended, TerminalStatuses
<1>2. ASSUME NEW x \in Starts, turn'[x] = "running"
      PROVE  call'[x].thread = call[x].thread
  <2>1. call[x].pc # "none"
    BY <1>1, <1>2 DEF Starting, Authority, Askers
  <2> QED BY <2>1, ThreadStays DEF Authority
<1>3. call[s].thread = call[t].thread
  BY <1>2
<1>4. CASE turn[s] = "running" /\ turn[t] = "running"
  BY <1>3, <1>4 DEF Alone
<1>5. CASE Starting(s)
  BY <1>1, <1>3, <1>5 DEF Starting, Running
<1>6. CASE Starting(t)
  BY <1>1, <1>3, <1>6 DEF Starting, Running
<1> QED BY <1>1, <1>4, <1>5, <1>6

\* A thread whose turn runs is announced idle only before the turn's turn/start is answered.
LEMMA NextIdles ==
  ASSUME Authority, \A x \in Starts : OneRequest(x), Fresh, Alone,
         NEW t \in Starts, Idles(t), [Next]_vars
  PROVE  Idles(t)'
<1>a. TypeOK /\ Connections /\ Askers
  BY DEF Authority
<1>b. OneRequest(t)
  OBVIOUS
<1>c. ASSUME NEW g \in Generations, NEW i \in Nat,
             i \in 1..Len(inbox[g]), inbox[g][i] = Idle(t)', turn[t] = "running",
             \A j \in Nat : Replied(g, j, t) => Replied(g, j, t)'
      PROVE  \/ call'[t].on > g
             \/ call'[t].on = g /\ \E j \in Nat : j > i /\ Replied(g, j, t)'
  <2>1. call'[t].on = call[t].on /\ call'[t].thread = call[t].thread
    BY <1>b, <1>c, CallStays
  <2>2. Idle(t)' = Idle(t)
    BY <2>1 DEF Idle
  <2> QED BY <1>c, <2>1, <2>2 DEF Idles
<1>1. ASSUME NEW h \in Generations, Serve(h)
      PROVE  Idles(t)'
  <2> SUFFICES ASSUME NEW g \in Generations, NEW i \in Nat,
                      i \in 1..Len(inbox'[g]), inbox'[g][i] = Idle(t)', turn'[t] = "running"
               PROVE  \/ call'[t].on > g
                      \/ call'[t].on = g /\ \E j \in Nat : j > i /\ Replied(g, j, t)'
    BY DEF Idles
  <2>1. PICK q \in Request, says \in Verdicts : Served(h, q, says)
    BY <1>a, <1>1, ServeStep
  <2>2. inbox'[g][i].kind # "response"
    BY DEF Idle
  <2>3. i \in 1..Len(inbox[g]) /\ inbox[g][i] = Idle(t)'
    BY <2>1, <2>2, ServeWire
  <2>4. \A j \in Nat : Replied(g, j, t) => Replied(g, j, t)'
    BY <2>1, ServeWire DEF Replied
  <2>5. CASE turn[t] = "running"
    BY <1>c, <2>3, <2>4, <2>5
  <2>6. CASE turn[t] # "running"
    <3>1. t = q.from /\ link[h] = "up" /\ UNCHANGED call
      BY <1>a, <1>1, <2>1, <2>6, ServeStep DEF Served
    <3>2. Asks(h, 1, t)
      BY <2>1, <3>1, ServeWire
    <3>3. call'[t].on = h /\ h = generation
      BY <1>b, <3>1, <3>2, UpIsCurrent DEF OneRequest, AskedOnce
    <3>4. g \in Nat /\ h \in Nat /\ ~(g > h)
      BY <2>3, <3>3, ConstantsAssumption DEF Fresh, Generations
    <3>5. CASE g # h
      BY <3>3, <3>4, <3>5
    <3>6. CASE g = h
      <4>1. /\ Len(inbox[g]) \in Nat
            /\ \A j \in Nat : j = Len(inbox[g]) + 1 => Replied(g, j, t)'
        BY <2>1, <3>1, <3>6, ServeWire
      <4>2. Len(inbox[g]) + 1 \in Nat /\ Len(inbox[g]) + 1 > i
        BY <2>3, <4>1
      <4> QED BY <3>3, <3>6, <4>1, <4>2
    <3> QED BY <3>5, <3>6
  <2> QED BY <2>5, <2>6
<1>2. ASSUME NEW s \in Starts, NEW outcome \in TurnOutcomes, EndTurn(s, outcome)
      PROVE  Idles(t)'
  <2> SUFFICES ASSUME NEW g \in Generations, NEW i \in Nat,
                      i \in 1..Len(inbox'[g]), inbox'[g][i] = Idle(t)', turn'[t] = "running"
               PROVE  \/ call'[t].on > g
                      \/ call'[t].on = g /\ \E j \in Nat : j > i /\ Replied(g, j, t)'
    BY DEF Idles
  <2>1. /\ turn[s] = "running" /\ turn'[s] = outcome /\ UNCHANGED call
        /\ \A x \in Starts \ {s} : turn'[x] = turn[x]
    BY <1>a, <1>2, EndTurnStep
  <2>2. t # s /\ turn[t] = "running"
    BY <2>1, ConstantsAssumption DEF TerminalStatuses
  <2>3. PICK first \in IdleFirst : Heralds(s, first)
    BY <1>a, <1>2, EndTurnStep
  <2>4. /\ inbox \in [Generations -> Seq(Message)]
        /\ Completed(s) \in Message /\ Idle(s) \in Message
    BY <1>a, <1>2, EndTurnStep
  <2>5. /\ \A x \in 1..Len(inbox[g]) : x \in 1..Len(inbox'[g]) /\ inbox'[g][x] = inbox[g][x]
        /\ \/ i \in 1..Len(inbox[g]) /\ inbox'[g][i] = inbox[g][i]
           \/ inbox'[g][i] \in {Completed(s), Idle(s)}
    BY <2>3, <2>4, HeraldsWire
  <2>6. inbox'[g][i] # Completed(s)
    BY DEF Idle, Completed
  <2>7. inbox'[g][i] # Idle(s)
    <3> SUFFICES ASSUME Idle(t)' = Idle(s)
                 PROVE  FALSE
      OBVIOUS
    <3>1. call[t].thread = call[s].thread
      BY <2>1 DEF Idle
    <3> QED BY <2>1, <2>2, <3>1 DEF Alone
  <2>8. i \in 1..Len(inbox[g]) /\ inbox[g][i] = Idle(t)'
    BY <2>5, <2>6, <2>7
  <2>9. \A j \in Nat : Replied(g, j, t) => Replied(g, j, t)'
    BY <2>5 DEF Replied
  <2> QED BY <1>c, <2>2, <2>8, <2>9
<1>3. ASSUME NEW h \in Generations, NEW m, Pops(h, m), UNCHANGED <<call, turn>>
      PROVE  Idles(t)'
  <2> SUFFICES ASSUME NEW g \in Generations, NEW i \in Nat,
                      i \in 1..Len(inbox'[g]), inbox'[g][i] = Idle(t)', turn'[t] = "running"
               PROVE  \/ call'[t].on > g
                      \/ call'[t].on = g /\ \E j \in Nat : j > i /\ Replied(g, j, t)'
    BY DEF Idles
  <2>1. CASE g # h
    <3>1. inbox'[g] = inbox[g]
      BY <1>3, <2>1, PopsWire
    <3>2. \A j \in Nat : Replied(g, j, t) => Replied(g, j, t)'
      BY <3>1 DEF Replied
    <3> QED BY <1>c, <1>3, <3>1, <3>2
  <2>2. CASE g = h
    <3>1. i + 1 \in 1..Len(inbox[g]) /\ inbox[g][i + 1] = Idle(t) /\ turn[t] = "running"
      BY <1>3, <2>2, PopsWire DEF Idle
    <3>2. CASE call[t].on > g
      BY <1>3, <3>2
    <3>3. CASE call[t].on = g /\ \E j \in Nat : j > i + 1 /\ Replied(g, j, t)
      <4>1. PICK j \in Nat : j > i + 1 /\ Replied(g, j, t)
        BY <3>3
      <4>2. j - 1 \in Nat /\ j - 1 > i /\ j # 1
        BY <4>1
      <4>3. j \in 1..Len(inbox[g]) /\ inbox[g][j].kind = "response" /\ inbox[g][j].to = t
        BY <4>1 DEF Replied
      <4>4. j - 1 \in 1..Len(inbox'[g]) /\ inbox'[g][j - 1] = inbox[g][j]
        BY <1>3, <2>2, <4>2, <4>3, PopsWire
      <4> DEFINE k == j - 1
      <4>5. k \in Nat /\ k > i /\ k \in 1..Len(inbox'[g]) /\ inbox'[g][k] = inbox[g][j]
        BY <4>2, <4>4
      <4> HIDE DEF k
      <4>6. Replied(g, k, t)'
        BY <4>3, <4>5 DEF Replied
      <4> QED BY <1>3, <3>3, <4>5, <4>6
    <3>4. i + 1 \in Nat
      OBVIOUS
    <3> QED BY <3>1, <3>2, <3>3, <3>4 DEF Idles
  <2> QED BY <2>1, <2>2
<1>4. ASSUME NEW g \in Generations, ReadResponse(g) \/ ReadCompleted(g) \/ ReadIdle(g)
      PROVE  Idles(t)'
  BY <1>a, <1>3, <1>4, ReadResponseStep, ReadCompletedStep, ReadIdleStep
<1>5. CASE UNCHANGED <<inbox, turn>>
  <2> SUFFICES ASSUME NEW g \in Generations, NEW i \in Nat,
                      i \in 1..Len(inbox'[g]), inbox'[g][i] = Idle(t)', turn'[t] = "running"
               PROVE  \/ call'[t].on > g
                      \/ call'[t].on = g /\ \E j \in Nat : j > i /\ Replied(g, j, t)'
    BY DEF Idles
  <2>1. \A j \in Nat : Replied(g, j, t) => Replied(g, j, t)'
    BY <1>5 DEF Replied
  <2> QED BY <1>c, <1>5, <2>1
<1>6. ASSUME NEW s \in Starts, Send(s)
      PROVE  Idles(t)'
  BY <1>a, <1>5, <1>6, SendStep
<1>7. CASE /\ \A s \in Starts : ~Send(s)
           /\ \A g \in Generations :
                ~Serve(g) /\ ~ReadResponse(g) /\ ~ReadCompleted(g) /\ ~ReadIdle(g)
           /\ \A s \in Starts : \A outcome \in TurnOutcomes : ~EndTurn(s, outcome)
  BY <1>5, <1>7, WireMoves
<1> QED BY <1>1, <1>2, <1>4, <1>6, <1>7

-----------------------------------------------------------------------------
(* Ends of turns.                                                          *)

\* A turn/completed is posted when its turn ends.
LEMMA NextPosted ==
  ASSUME Authority, NEW t \in Starts, Posted(t)', [Next]_vars
  PROVE  Posted(t) \/ Ended(t)'
<1>a. TypeOK /\ Connections /\ Askers
  BY DEF Authority
<1>0. PICK g \in Generations : \E i \in 1..Len(inbox'[g]) : inbox'[g][i] = Completed(t)
  BY DEF Posted, Waiting, Completed
<1>b. PICK i \in 1..Len(inbox'[g]) : inbox'[g][i] = Completed(t)
  BY <1>0
<1>c. ASSUME NEW h \in Generations, NEW j \in 1..Len(inbox[h]), inbox[h][j] = Completed(t)
      PROVE  Posted(t)
  BY <1>c DEF Posted, Waiting, Completed
<1>1. ASSUME NEW h \in Generations, Serve(h)
      PROVE  Posted(t)
  <2>1. PICK q \in Request, says \in Verdicts : Served(h, q, says)
    BY <1>a, <1>1, ServeStep
  <2>2. inbox'[g][i].kind # "response"
    BY <1>b DEF Completed
  <2>3. i \in 1..Len(inbox[g]) /\ inbox[g][i] = Completed(t)
    BY <1>b, <2>1, <2>2, ServeWire
  <2> QED BY <1>c, <2>3
<1>2. ASSUME NEW s \in Starts, NEW outcome \in TurnOutcomes, EndTurn(s, outcome)
      PROVE  Posted(t) \/ Ended(t)'
  <2>1. turn'[s] = outcome
    BY <1>a, <1>2, EndTurnStep
  <2>2. PICK first \in IdleFirst : Heralds(s, first)
    BY <1>a, <1>2, EndTurnStep
  <2>3. /\ inbox \in [Generations -> Seq(Message)]
        /\ Completed(s) \in Message /\ Idle(s) \in Message
    BY <1>a, <1>2, EndTurnStep
  <2>4. \/ i \in 1..Len(inbox[g]) /\ inbox'[g][i] = inbox[g][i]
        \/ inbox'[g][i] \in {Completed(s), Idle(s)}
    BY <2>2, <2>3, HeraldsWire
  <2>5. CASE i \in 1..Len(inbox[g]) /\ inbox'[g][i] = inbox[g][i]
    BY <1>b, <1>c, <2>5
  <2>6. CASE Completed(t) \in {Completed(s), Idle(s)}
    <3>1. t = s
      BY <2>6 DEF Completed, Idle
    <3> QED BY <2>1, <3>1, ConstantsAssumption DEF Ended
  <2> QED BY <1>b, <2>4, <2>5, <2>6
<1>3. ASSUME NEW h \in Generations, NEW m, Pops(h, m)
      PROVE  Posted(t)
  <2>1. CASE g # h
    BY <1>b, <1>c, <1>3, <2>1, PopsWire
  <2>2. CASE g = h
    <3>1. i + 1 \in 1..Len(inbox[g]) /\ inbox[g][i + 1] = Completed(t)
      BY <1>b, <1>3, <2>2, PopsWire
    <3> QED BY <1>c, <3>1
  <2> QED BY <2>1, <2>2
<1>4. ASSUME NEW h \in Generations, ReadResponse(h) \/ ReadCompleted(h) \/ ReadIdle(h)
      PROVE  Posted(t)
  BY <1>a, <1>3, <1>4, ReadResponseStep, ReadCompletedStep, ReadIdleStep
<1>5. ASSUME UNCHANGED inbox
      PROVE  Posted(t)
  BY <1>b, <1>c, <1>5
<1>6. ASSUME NEW s \in Starts, Send(s)
      PROVE  Posted(t)
  BY <1>a, <1>5, <1>6, SendStep
<1>7. CASE /\ \A s \in Starts : ~Send(s)
           /\ \A h \in Generations :
                ~Serve(h) /\ ~ReadResponse(h) /\ ~ReadCompleted(h) /\ ~ReadIdle(h)
           /\ \A s \in Starts : \A outcome \in TurnOutcomes : ~EndTurn(s, outcome)
  BY <1>5, <1>7, WireMoves
<1> QED BY <1>1, <1>2, <1>4, <1>6, <1>7

\* A registered turn whose thread is announced idle has ended.
LEMMA IdleMeansEnded ==
  ASSUME Authority, NEW t \in Starts, OneRequest(t), Idles(t),
         NEW g \in Generations, g = generation, inbox[g] # <<>>, Head(inbox[g]) = Idle(t),
         Registered(t)
  PROVE  Ended(t)
<1>1. turn[t] # "none" /\ Quiet(t)
  BY DEF OneRequest, Placed, Settled
<1>2. 1 \in 1..Len(inbox[g]) /\ inbox[g][1] = Idle(t)
  <2>1. inbox[g] \in Seq(Message)
    BY DEF Authority, TypeOK
  <2> HIDE DEF Message
  <2> QED BY <2>1
<1>3. call[t].on \in 0..generation /\ generation \in Nat
  BY ConstantsAssumption DEF Authority, Calls, CallConsistent, TypeOK, Generations
<1>4. turn[t] # "running"
  BY <1>1, <1>2, <1>3 DEF Idles, Quiet
<1>5. turn[t] \in {"none", "running", "other"} \cup TerminalStatuses
  BY DEF Authority, TypeOK
<1> QED BY <1>1, <1>4, <1>5 DEF Ended

\* Who hears of an end hears of it from somebody.
LEMMA NextEndSeen ==
  ASSUME Authority, NEW t \in Starts, OneRequest(t), Idles(t), EndSeen(t) => Ended(t), [Next]_vars
  PROVE  EndSeen(t)' => EndSeen(t) \/ Ended(t)'
<1>a. /\ TypeOK /\ Connections /\ Askers /\ Calls
      /\ t # None
  BY ConstantsAssumption DEF Authority
<1>b. Posted(t)' => Posted(t) \/ Ended(t)'
  BY NextPosted
<1>c. \A x \in Starts : <<generation, x>> \in orphans => generation \in Generations
  BY DEF Authority, TypeOK
<1>1. ASSUME NEW s \in Starts, NEW th \in Threads, Begin(s, th)
      PROVE  EndSeen(t)' => EndSeen(t) \/ Ended(t)'
  <2>1. /\ call[s].pc = "none"
        /\ call'[s].pc = "begin" /\ call'[s].thread = th /\ call'[s].on = 0
        /\ \A x \in Starts \ {s} : call'[x] = call[x]
        /\ UNCHANGED <<orphans, reader, probe>>
    BY <1>a, <1>1, BeginStep
  <2> QED BY <2>1, <1>a, <1>b
     DEF EndSeen
<1>2. ASSUME NEW s \in Starts, Connect(s)
      PROVE  EndSeen(t)' => EndSeen(t) \/ Ended(t)'
  <2>1. /\ Poised(s)
        /\ ReaderTo(generation', "receive", None)
        /\ CallTo(s, "connected", call[s].on)
        /\ UNCHANGED <<orphans, probe>>
    BY <1>a, <1>2, ConnectStep
  <2> QED BY <2>1, <1>a, <1>b
     DEF EndSeen, ReaderTo, CallTo, Poised
<1>3. ASSUME NEW s \in Starts, ConnectFails(s)
      PROVE  EndSeen(t)' => EndSeen(t) \/ Ended(t)'
  <2>1. /\ Poised(s) /\ ~connected
        /\ CallTo(s, "done", call[s].on)
        /\ UNCHANGED <<orphans, reader, probe>>
    BY <1>a, <1>3, ConnectFailsStep
  <2> QED BY <2>1, <1>a, <1>b
     DEF EndSeen, CallTo, Poised
<1>4. ASSUME NEW s \in Starts, Send(s)
      PROVE  EndSeen(t)' => EndSeen(t) \/ Ended(t)'
  <2>1. /\ connected /\ generation \in Generations /\ Due(s) \in Methods /\ Poised(s)
        /\ CallTo(s, Due(s), generation) /\ SlotTo(s, "waiting")
        /\ UNCHANGED <<orphans, reader, probe>>
    BY <1>a, <1>4, SendStep
  <2> QED BY <2>1, <1>a, <1>b
     DEF EndSeen, CallTo, Poised, Methods
<1>5. ASSUME NEW s \in Starts, SendUnconnected(s)
      PROVE  EndSeen(t)' => EndSeen(t) \/ Ended(t)'
  <2>1. /\ Poised(s) /\ ~connected
        /\ CallTo(s, "done", call[s].on)
        /\ UNCHANGED <<orphans, reader, probe>>
    BY <1>a, <1>5, SendUnconnectedStep
  <2> QED BY <2>1, <1>a, <1>b
     DEF EndSeen, CallTo, Poised
<1>6. ASSUME NEW s \in Starts, SendFails(s)
      PROVE  EndSeen(t)' => EndSeen(t) \/ Ended(t)'
  <2>1. /\ Poised(s) /\ connected /\ link[generation] = "down"
        /\ Disconnects(s)
        /\ CallTo(s, "done", call[s].on)
        /\ UNCHANGED <<reader, probe>>
    BY <1>a, <1>6, SendFailsStep
  <2>2. CASE t = s
    BY <2>2, <2>1, <1>a, <1>b
       DEF EndSeen, Disconnects, CallTo, Poised
  <2>3. CASE t # s
    BY <2>3, <2>1, <1>a, <1>b
       DEF EndSeen, Disconnects, CallTo, Poised
  <2> QED BY <2>2, <2>3
<1>7. ASSUME NEW s \in Starts, TimeOut(s)
      PROVE  EndSeen(t)' => EndSeen(t) \/ Ended(t)'
  <2>1. /\ slot[s] = "waiting"
        /\ CallTo(s, "done", call[s].on)
        /\ UNCHANGED <<orphans, reader, probe>>
    BY <1>a, <1>7, TimeOutStep
  <2> QED BY <2>1, <1>a, <1>b
     DEF EndSeen, CallTo
<1>8. ASSUME NEW s \in Starts, Reject(s)
      PROVE  EndSeen(t)' => EndSeen(t) \/ Ended(t)'
  <2>1. /\ slot[s] \in {"active", "refused", "lost"}
        /\ CallTo(s, "done", call[s].on)
        /\ UNCHANGED <<orphans, reader, probe>>
    BY <1>a, <1>8, RejectStep
  <2> QED BY <2>1, <1>a, <1>b
     DEF EndSeen, CallTo
<1>9. ASSUME NEW s \in Starts, Register(s)
      PROVE  EndSeen(t)' => EndSeen(t) \/ Ended(t)'
  <2>1. /\ call[s].pc = "start" /\ slot[s] = "idle"
        /\ orphans' = orphans \ {<<generation, s>>}
        /\ \/ /\ <<generation, s>> \in orphans
              /\ CallTo(s, "merge", call[s].on) /\ answer' = answer
           \/ /\ <<generation, s>> \notin orphans
              /\ CallTo(s, "done", call[s].on) /\ AnswerTo(s, "returned")
        /\ UNCHANGED <<reader, probe>>
    BY <1>a, <1>9, RegisterStep
  <2> QED BY <2>1, <1>a, <1>b, <1>c
     DEF EndSeen, CallTo
<1>10. ASSUME NEW s \in Starts, Merge(s)
      PROVE  EndSeen(t)' => EndSeen(t) \/ Ended(t)'
  <2>1. /\ call[s].pc = "merge"
        /\ \/ /\ Takes(s)
              /\ CallTo(s, "callback", call[s].on) /\ answer' = answer
           \/ /\ Misses(s)
              /\ CallTo(s, "done", call[s].on) /\ AnswerTo(s, "returned")
        /\ UNCHANGED <<orphans, reader, probe>>
    BY <1>a, <1>10, MergeStep
  <2> QED BY <2>1, <1>a, <1>b
     DEF EndSeen, CallTo
<1>11. ASSUME NEW s \in Starts, MergeCallback(s)
      PROVE  EndSeen(t)' => EndSeen(t) \/ Ended(t)'
  <2>1. /\ call[s].pc = "callback"
        /\ CallTo(s, "return", call[s].on)
        /\ UNCHANGED <<orphans, reader, probe>>
    BY <1>a, <1>11, MergeCallbackStep
  <2> QED BY <2>1, <1>a, <1>b
     DEF EndSeen, CallTo
<1>12. ASSUME NEW s \in Starts, Return(s)
      PROVE  EndSeen(t)' => EndSeen(t) \/ Ended(t)'
  <2>1. /\ call[s].pc = "return"
        /\ CallTo(s, "done", call[s].on)
        /\ UNCHANGED <<orphans, reader, probe>>
    BY <1>a, <1>12, ReturnStep
  <2> QED BY <2>1, <1>a, <1>b
     DEF EndSeen, CallTo
<1>13. ASSUME NEW g \in Generations, ReadResponse(g)
      PROVE  EndSeen(t)' => EndSeen(t) \/ Ended(t)'
  <2>1. /\ reader[g].pc = "receive" /\ Pops(g, Head(inbox[g])) /\ ReaderLoops(g)
        /\ Head(inbox[g]).kind = "response" /\ Head(inbox[g]).to \in Starts
        /\ Head(inbox[g]).says \in Verdicts
        /\ UNCHANGED <<orphans, call, probe>>
    BY <1>a, <1>13, ReadResponseStep
  <2> QED BY <2>1, <1>a, <1>b
     DEF EndSeen, ReaderLoops, ReaderTo, Current
<1>14. ASSUME NEW g \in Generations, ReadCompleted(g)
      PROVE  EndSeen(t)' => EndSeen(t) \/ Ended(t)'
  <2>1. /\ inbox[g] # <<>>
        /\ \/ ReaderTo(g, "finish", Head(inbox[g]).turn)
           \/ ReaderLoops(g)
        /\ Pops(g, Completed(Head(inbox[g]).turn))
        /\ UNCHANGED <<orphans, call, probe>>
    BY <1>a, <1>14, ReadCompletedStep DEF Pops
  <2>2. \E i \in 1..Len(inbox[g]) : inbox[g][i] = Completed(Head(inbox[g]).turn)
    BY <2>1, PopsWire
  <2>3. Head(inbox[g]).turn = t => Posted(t)
    BY <2>2 DEF Posted, Waiting, Completed
  <2> QED BY <1>a, <1>b, <2>1, <2>3 DEF EndSeen, ReaderTo, ReaderLoops
<1>15. ASSUME NEW g \in Generations, ReaderFinish(g)
      PROVE  EndSeen(t)' => EndSeen(t) \/ Ended(t)'
  <2>1. /\ reader[g].pc = "finish" /\ reader[g].turn \in Starts
        /\ \/ Takes(reader[g].turn) /\ ReaderTo(g, "callback", reader[g].turn)
           \/ Misses(reader[g].turn) /\ ReaderTo(g, "orphan", reader[g].turn)
        /\ UNCHANGED <<orphans, call, probe>>
    BY <1>a, <1>15, ReaderFinishStep
  <2> QED BY <2>1, <1>a, <1>b
     DEF EndSeen, ReaderTo
<1>16. ASSUME NEW g \in Generations, ReaderCallback(g)
      PROVE  EndSeen(t)' => EndSeen(t) \/ Ended(t)'
  <2>1. /\ reader[g].pc = "callback" /\ reader[g].turn \in Starts
        /\ ReaderLoops(g) /\ ToldTo(reader[g].turn, CallbackStatus(reader[g].turn))
        /\ UNCHANGED <<orphans, call, probe>>
    BY <1>a, <1>16, ReaderCallbackStep
  <2> QED BY <2>1, <1>a, <1>b
     DEF EndSeen, ReaderLoops, ReaderTo, Current
<1>17. ASSUME NEW g \in Generations, ReaderOrphan(g)
      PROVE  EndSeen(t)' => EndSeen(t) \/ Ended(t)'
  <2>1. /\ reader[g].pc = "orphan" /\ reader[g].turn \in Starts /\ ReaderLoops(g)
        /\ \/ <<g, reader[g].turn>> \in tombstones /\ orphans' = orphans
           \/ orphans' = orphans \cup {<<g, reader[g].turn>>}
        /\ UNCHANGED <<call, probe>>
    BY <1>a, <1>17, ReaderOrphanStep
  <2> QED BY <2>1, <1>a, <1>b
     DEF EndSeen, ReaderLoops, ReaderTo, Current
<1>18. ASSUME NEW g \in Generations, ReadIdle(g)
      PROVE  EndSeen(t)' => EndSeen(t) \/ Ended(t)'
  <2>1. /\ ReaderLoops(g) /\ inbox[g] # <<>>
        /\ IF /\ g = generation /\ t \in watched /\ probe[t].pc = "none"
              /\ Head(inbox[g]) = Idle(t)
           THEN TRUE
           ELSE probe'[t] = probe[t]
        /\ UNCHANGED <<orphans, call>>
    BY <1>a, <1>18, ReadIdleStep DEF Pops
  <2>2. CASE t \in watched /\ g = generation /\ Head(inbox[g]) = Idle(t)
    <3>1. Registered(t)
      BY <2>2 DEF Authority, Holders, Involved
    <3>2. Ended(t)
      BY <2>1, <2>2, <3>1, IdleMeansEnded
    <3> QED BY <3>2, EndedStays
  <2>3. CASE probe'[t] = probe[t]
    BY <1>a, <1>b, <2>1, <2>3 DEF EndSeen, ReaderTo, ReaderLoops
  <2> QED BY <2>1, <2>2, <2>3
<1>19. ASSUME NEW g \in Generations, ReaderFails(g)
      PROVE  EndSeen(t)' => EndSeen(t) \/ Ended(t)'
  <2>1. /\ reader[g].pc = "receive" /\ link[g] = "down" /\ ReaderTo(g, "last", None)
        /\ \/ MayMark(g) /\ Disconnects(None)
           \/ /\ ~MayMark(g)
              /\ UNCHANGED <<connected, slot, watched, tombstones, orphans, untold>>
        /\ UNCHANGED <<call, probe>>
    BY <1>a, <1>19, ReaderFailsStep
  <2> QED BY <2>1, <1>a, <1>b
     DEF EndSeen, ReaderTo, Disconnects, MayMark
<1>20. ASSUME NEW g \in Generations, ReaderLeaves(g)
      PROVE  EndSeen(t)' => EndSeen(t) \/ Ended(t)'
  <2>1. /\ reader[g].pc = "last" /\ ReaderTo(g, "gone", None)
        /\ \/ MayMark(g) /\ Disconnects(None)
           \/ /\ ~MayMark(g)
              /\ UNCHANGED <<connected, slot, watched, tombstones, orphans, untold>>
        /\ UNCHANGED <<call, probe>>
    BY <1>a, <1>20, ReaderLeavesStep
  <2> QED BY <2>1, <1>a, <1>b
     DEF EndSeen, ReaderTo, Disconnects, MayMark
<1>21. ASSUME NEW s \in Starts, ProbeCheck(s)
      PROVE  EndSeen(t)' => EndSeen(t) \/ Ended(t)'
  <2>1. /\ probe[s].pc = "check"
        /\ \/ Fenced(s) /\ ProbeTo(s, "list", probe[s].says)
           \/ ~Fenced(s) /\ ProbeOff(s)
        /\ UNCHANGED <<orphans, call, reader>>
    BY <1>a, <1>21, ProbeCheckStep
  <2> QED BY <2>1, <1>a, <1>b
     DEF EndSeen, ProbeTo, ProbeOff
<1>22. ASSUME NEW s \in Starts, ProbeList(s)
      PROVE  EndSeen(t)' => EndSeen(t) \/ Ended(t)'
  <2>1. /\ probe[s].pc = "list"
        /\ ProbeTo(s, "recheck", CallbackStatus(s))
        /\ UNCHANGED <<orphans, call, reader>>
    BY <1>a, <1>22, ProbeListStep
  <2> QED BY <2>1, <1>a, <1>b
     DEF EndSeen, ProbeTo
<1>23. ASSUME NEW s \in Starts, ProbeFails(s)
      PROVE  EndSeen(t)' => EndSeen(t) \/ Ended(t)'
  <2>1. /\ probe[s].pc \in {"list", "connected", "initialize"}
        /\ ProbeTo(s, "finish", probe[s].says)
        /\ UNCHANGED <<orphans, call, reader>>
    BY <1>a, <1>23, ProbeFailsStep
  <2> QED BY <2>1, <1>a, <1>b
     DEF EndSeen, ProbeTo
<1>24. ASSUME NEW s \in Starts, ProbeRecheck(s)
      PROVE  EndSeen(t)' => EndSeen(t) \/ Ended(t)'
  <2>1. /\ probe[s].pc = "recheck"
        /\ \/ Fenced(s) /\ ProbeTo(s, "finish", probe[s].says)
           \/ ~Fenced(s) /\ ProbeOff(s)
        /\ UNCHANGED <<orphans, call, reader>>
    BY <1>a, <1>24, ProbeRecheckStep
  <2> QED BY <2>1, <1>a, <1>b
     DEF EndSeen, ProbeTo, ProbeOff
<1>25. ASSUME NEW s \in Starts, ProbeFinish(s)
      PROVE  EndSeen(t)' => EndSeen(t) \/ Ended(t)'
  <2>1. /\ probe[s].pc = "finish"
        /\ \/ Takes(s) /\ ProbeTo(s, "callback", probe[s].says)
           \/ Misses(s) /\ ProbeOff(s)
        /\ UNCHANGED <<orphans, call, reader>>
    BY <1>a, <1>25, ProbeFinishStep
  <2> QED BY <2>1, <1>a, <1>b
     DEF EndSeen, ProbeTo, ProbeOff
<1>26. ASSUME NEW s \in Starts, ProbeCallback(s)
      PROVE  EndSeen(t)' => EndSeen(t) \/ Ended(t)'
  <2>1. /\ probe[s].pc = "callback"
        /\ ProbeOff(s) /\ ToldTo(s, probe[s].says)
        /\ UNCHANGED <<orphans, call, reader>>
    BY <1>a, <1>26, ProbeCallbackStep
  <2> QED BY <2>1, <1>a, <1>b
     DEF EndSeen, ProbeOff
<1>27. ASSUME NEW s \in Starts, TellUnknown(s)
      PROVE  EndSeen(t)' => EndSeen(t) \/ Ended(t)'
  <2>1. UNCHANGED <<orphans, call, reader, probe>>
    BY <1>a, <1>27, TellUnknownStep
  <2> QED BY <2>1, <1>a, <1>b DEF EndSeen
<1>28. ASSUME NEW g \in Generations,
          Serve(g) \/ Greet(g) \/ Drop(g)
      PROVE  EndSeen(t)' => EndSeen(t) \/ Ended(t)'
  <2>1. UNCHANGED <<orphans, call, reader, probe>>
    BY <1>a, <1>28, ServeStep, GreetStep, DropStep
  <2> QED BY <2>1, <1>a, <1>b DEF EndSeen
<1>29. ASSUME NEW s \in Starts, NEW outcome \in TurnOutcomes, EndTurn(s, outcome)
      PROVE  EndSeen(t)' => EndSeen(t) \/ Ended(t)'
  <2>1. UNCHANGED <<orphans, call, reader, probe>>
    BY <1>a, <1>29, EndTurnStep
  <2> QED BY <2>1, <1>a, <1>b DEF EndSeen
<1>30. ASSUME Close
      PROVE  EndSeen(t)' => EndSeen(t) \/ Ended(t)'
  <2>1. UNCHANGED <<orphans, call, reader, probe>>
    BY <1>a, <1>30, CloseStep
  <2> QED BY <2>1, <1>a, <1>b DEF EndSeen
<1>31. CASE UNCHANGED vars
  <2>1. UNCHANGED <<orphans, call, reader, probe>>
    BY <1>31 DEF vars, conn, table, client, threads, results, wire, server, appServer
  <2> QED BY <2>1, <1>a, <1>b DEF EndSeen
<1>32. ASSUME NEW s \in Starts, ProbeConnect(s)
      PROVE  EndSeen(t)' => EndSeen(t) \/ Ended(t)'
  <2>1. /\ probe[s].pc = "list" /\ ProbeTo(s, "connected", probe[s].says)
        /\ ReaderTo(generation', "receive", None)
        /\ UNCHANGED <<orphans, call>>
    BY <1>a, <1>32, ProbeConnectStep
  <2> QED BY <2>1, <1>a, <1>b
     DEF EndSeen, ProbeTo, ReaderTo
<1>33. ASSUME NEW s \in Starts, ProbeInitialize(s) \/ ProbeInitialized(s)
      PROVE  EndSeen(t)' => EndSeen(t) \/ Ended(t)'
  <2>1. /\ probe[s].pc \in {"connected", "initialize"}
        /\ \/ ProbeTo(s, "initialize", probe[s].says)
           \/ ProbeTo(s, "list", probe[s].says)
        /\ UNCHANGED <<orphans, call, reader>>
    BY <1>a, <1>33, ProbeInitializeStep, ProbeInitializedStep
  <2> QED BY <2>1, <1>a, <1>b
     DEF EndSeen, ProbeTo
<1> QED
  BY <1>1, <1>2, <1>3, <1>4, <1>5, <1>6, <1>7, <1>8, <1>9, <1>10, <1>11, <1>12, <1>13, <1>14,
     <1>15, <1>16, <1>17, <1>18, <1>19, <1>20, <1>21, <1>22, <1>23, <1>24, <1>25, <1>26, <1>27,
     <1>28, <1>29, <1>30, <1>31, <1>32, <1>33
     DEF Next, CallerStep, ProbeStep, ReaderStep

-----------------------------------------------------------------------------
(* Outcomes and their reasons.                                             *)

\* A reason stays one.
LEMMA ReasonStays ==
  ASSUME Authority, NEW t \in Starts, OneRequest(t), Registered(t), Reason(t), [Next]_vars
  PROVE  Reason(t)'
<1>1. turn[t] # "none" /\ call[t].on \in Generations
  BY ConstantsAssumption
     DEF OneRequest, Placed, Authority, Calls, CallConsistent, TypeOK, Generations
<1>2. call'[t].on = call[t].on
  BY <1>1, CallStays
<1>3. /\ faults \subseteq faults'
      /\ \A h \in Generations : link[h] = "down" => link'[h] = "down"
  BY LinksAge
<1> QED BY <1>1, <1>2, <1>3 DEF Reason

\* A registered turn's connection is lost if the one in use is, or is another.
LEMMA LossIsReason ==
  ASSUME Authority, NEW t \in Starts, Registered(t),
         ~connected \/ link[generation] # "up" \/ call[t].on # generation
  PROVE  link[call[t].on] = "down"
<1>1. call[t].on \in Generations /\ ~(call[t].on > generation)
  BY ConstantsAssumption DEF Authority, Calls, CallConsistent, TypeOK, Generations
<1>2. link[call[t].on] \in {"none", "up", "down"}
  BY <1>1, LinkTypes DEF Authority
<1>3. link[call[t].on] # "none"
  BY <1>1 DEF Authority, Connections
<1>4. link[call[t].on] # "up"
  BY <1>1, UpIsCurrent
<1> QED BY <1>2, <1>3, <1>4

\* The probe of t keeps its connection, ends, or is made for the connection in use.
ProbeFollows(t) ==
  \/ probe'[t].pc = "none"
  \/ probe[t].pc # "none" /\ probe'[t].on = probe[t].on
  \/ t \in watched /\ probe'[t].on = generation

\* A probe is made for the connection in use, by an entry of the table.
LEMMA ProbeMoves ==
  ASSUME Authority, NEW t \in Starts, [Next]_vars
  PROVE  ProbeFollows(t)
<1>a. TypeOK /\ Connections /\ Askers /\ Calls
  BY DEF Authority
<1>1. ASSUME NEW g \in Generations, ReadIdle(g)
      PROVE  ProbeFollows(t)
  <2>1. /\ Head(inbox[g]).kind = "idle"
        /\ \A s \in Starts :
             IF /\ g = generation /\ s \in watched /\ probe[s].pc = "none"
                /\ Head(inbox[g]) = Idle(s)
             THEN /\ probe'[s].pc = "check" /\ probe'[s].on = generation
                  /\ probe'[s].says = "unknown"
             ELSE probe'[s] = probe[s]
    BY <1>a, <1>1, ReadIdleStep
  <2> QED BY <2>1
     DEF ProbeFollows
<1>2. ASSUME NEW s \in Starts, ProbeCheck(s)
      PROVE  ProbeFollows(t)
  <2>1. /\ probe[s].pc = "check"
        /\ \/ Fenced(s) /\ ProbeTo(s, "list", probe[s].says)
           \/ ~Fenced(s) /\ ProbeOff(s)
    BY <1>a, <1>2, ProbeCheckStep
  <2> QED BY <2>1
     DEF ProbeFollows, ProbeTo, ProbeOff
<1>3. ASSUME NEW s \in Starts, ProbeList(s)
      PROVE  ProbeFollows(t)
  <2>1. /\ probe[s].pc = "list"
        /\ ProbeTo(s, "recheck", CallbackStatus(s))
    BY <1>a, <1>3, ProbeListStep
  <2> QED BY <2>1
     DEF ProbeFollows, ProbeTo
<1>4. ASSUME NEW s \in Starts, ProbeFails(s)
      PROVE  ProbeFollows(t)
  <2>1. /\ probe[s].pc \in {"list", "connected", "initialize"}
        /\ ProbeTo(s, "finish", probe[s].says)
    BY <1>a, <1>4, ProbeFailsStep
  <2> QED BY <2>1
     DEF ProbeFollows, ProbeTo
<1>5. ASSUME NEW s \in Starts, ProbeRecheck(s)
      PROVE  ProbeFollows(t)
  <2>1. /\ probe[s].pc = "recheck"
        /\ \/ Fenced(s) /\ ProbeTo(s, "finish", probe[s].says)
           \/ ~Fenced(s) /\ ProbeOff(s)
    BY <1>a, <1>5, ProbeRecheckStep
  <2> QED BY <2>1
     DEF ProbeFollows, ProbeTo, ProbeOff
<1>6. ASSUME NEW s \in Starts, ProbeFinish(s)
      PROVE  ProbeFollows(t)
  <2>1. /\ probe[s].pc = "finish"
        /\ \/ Takes(s) /\ ProbeTo(s, "callback", probe[s].says)
           \/ Misses(s) /\ ProbeOff(s)
    BY <1>a, <1>6, ProbeFinishStep
  <2> QED BY <2>1
     DEF ProbeFollows, ProbeTo, ProbeOff
<1>7. ASSUME NEW s \in Starts, ProbeCallback(s)
      PROVE  ProbeFollows(t)
  <2>1. /\ probe[s].pc = "callback"
        /\ ProbeOff(s) /\ ToldTo(s, probe[s].says)
    BY <1>a, <1>7, ProbeCallbackStep
  <2> QED BY <2>1
     DEF ProbeFollows, ProbeOff
<1>8. ASSUME NEW s \in Starts, NEW th \in Threads, Begin(s, th)
      PROVE  ProbeFollows(t)
  <2>1. UNCHANGED <<probe>>
    BY <1>a, <1>8, BeginStep
  <2> QED BY <2>1 DEF ProbeFollows
<1>9. ASSUME NEW s \in Starts,
          Connect(s) \/ ConnectFails(s) \/ Send(s) \/ SendUnconnected(s) \/ SendFails(s)
             \/ TimeOut(s) \/ Reject(s) \/ Register(s) \/ Merge(s) \/ MergeCallback(s)
             \/ Return(s) \/ TellUnknown(s)
      PROVE  ProbeFollows(t)
  <2>1. UNCHANGED <<probe>>
    BY <1>a, <1>9, ConnectStep, ConnectFailsStep, SendStep, SendUnconnectedStep, SendFailsStep,
       TimeOutStep, RejectStep, RegisterStep, MergeStep, MergeCallbackStep, ReturnStep,
       TellUnknownStep
  <2> QED BY <2>1 DEF ProbeFollows
<1>10. ASSUME NEW g \in Generations,
          ReadResponse(g) \/ ReadCompleted(g) \/ ReaderFinish(g) \/ ReaderCallback(g)
             \/ ReaderOrphan(g) \/ ReaderFails(g) \/ ReaderLeaves(g) \/ Serve(g) \/ Greet(g)
             \/ Drop(g)
      PROVE  ProbeFollows(t)
  <2>1. UNCHANGED <<probe>>
    BY <1>a, <1>10, ReadResponseStep, ReadCompletedStep, ReaderFinishStep,
       ReaderCallbackStep, ReaderOrphanStep, ReaderFailsStep, ReaderLeavesStep, ServeStep,
       GreetStep, DropStep
  <2> QED BY <2>1 DEF ProbeFollows
<1>11. ASSUME NEW s \in Starts, NEW outcome \in TurnOutcomes, EndTurn(s, outcome)
      PROVE  ProbeFollows(t)
  <2>1. UNCHANGED <<probe>>
    BY <1>a, <1>11, EndTurnStep
  <2> QED BY <2>1 DEF ProbeFollows
<1>12. ASSUME Close
      PROVE  ProbeFollows(t)
  <2>1. UNCHANGED <<probe>>
    BY <1>a, <1>12, CloseStep
  <2> QED BY <2>1 DEF ProbeFollows
<1>13. CASE UNCHANGED vars
  <2>1. UNCHANGED <<probe>>
    BY <1>13 DEF vars, conn, table, client, threads, results, wire, server, appServer
  <2> QED BY <2>1 DEF ProbeFollows
<1>14. ASSUME NEW s \in Starts, ProbeConnect(s)
      PROVE  ProbeFollows(t)
  <2>1. /\ probe[s].pc = "list" /\ ProbeTo(s, "connected", probe[s].says)
    BY <1>a, <1>14, ProbeConnectStep
  <2> QED BY <2>1
     DEF ProbeFollows, ProbeTo
<1>15. ASSUME NEW s \in Starts, ProbeInitialize(s) \/ ProbeInitialized(s)
      PROVE  ProbeFollows(t)
  <2>1. /\ probe[s].pc \in {"connected", "initialize"}
        /\ \/ ProbeTo(s, "initialize", probe[s].says)
           \/ ProbeTo(s, "list", probe[s].says)
    BY <1>a, <1>15, ProbeInitializeStep, ProbeInitializedStep
  <2> QED BY <2>1
     DEF ProbeFollows, ProbeTo
<1> QED
  BY <1>1, <1>2, <1>3, <1>4, <1>5, <1>6, <1>7, <1>8, <1>9, <1>10, <1>11, <1>12, <1>13, <1>14, <1>15
     DEF Next, CallerStep, ProbeStep, ReaderStep

\* A probe goes on looking at the turn's connection or at a later one.
LEMMA NextAimed ==
  ASSUME Authority, NEW t \in Starts, OneRequest(t), Aimed(t), [Next]_vars
  PROVE  Aimed(t)'
<1>2. probe[t].pc # "none" \/ t \in watched => call'[t].on = call[t].on
  <2>1. probe[t].pc # "none" \/ t \in watched => Registered(t)
    BY DEF Authority, Holders, Involved
  <2> QED BY <2>1, CallStays DEF OneRequest, Placed
<1>3. generation <= generation'
  BY LinksAge
<1>4. /\ call[t].on \in Nat /\ call[t].on <= generation
      /\ generation \in Nat /\ generation' \in Nat /\ probe[t].on \in Nat
  <2>1. generation \in 0..MaxGeneration /\ generation' \in 0..MaxGeneration
    BY NextTypeOK DEF Authority, TypeOK
  <2>2. call[t].on \in 0..generation /\ probe[t].on \in 0..MaxGeneration
    BY ProbeTypes DEF Authority, Calls, CallConsistent
  <2> QED BY <2>1, <2>2, ConstantsAssumption
<1>5. ProbeFollows(t)
  BY ProbeMoves
<1>6. CASE probe'[t].pc = "none"
  BY <1>6 DEF Aimed
<1>7. CASE probe[t].pc # "none" /\ probe'[t].on = probe[t].on
  BY <1>2, <1>3, <1>4, <1>7 DEF Aimed
<1>8. CASE t \in watched /\ probe'[t].on = generation
  BY <1>2, <1>3, <1>4, <1>8 DEF Aimed
<1> QED BY <1>5, <1>6, <1>7, <1>8 DEF ProbeFollows

\* Every outcome keeps its reason.
LEMMA NextReasons ==
  ASSUME Authority, NEW t \in Starts, OneRequest(t),
         EndSeen(t) => Ended(t), Aimed(t), Reasons(t), [Next]_vars
  PROVE  Reasons(t)'
<1>a. /\ TypeOK /\ Connections /\ Askers /\ Calls
      /\ t # None
  BY ConstantsAssumption DEF Authority
<1>b. Reasons(t)
  OBVIOUS
<1>c. probe[t].pc # "none" \/ t \in untold \/ told[t] # <<>> => Registered(t)
  BY DEF Authority, Holders, Involved
<1>d. Registered(t) /\ Reason(t) => Reason(t)'
  BY ReasonStays
<1>e. Ended(t) => Ended(t)' /\ CallbackStatus(t)' = CallbackStatus(t)
  BY EndedStays
<1>1. ASSUME NEW s \in Starts, SendFails(s)
      PROVE  Reasons(t)'
  <2>1. UNCHANGED <<probe, told>>
    BY <1>a, <1>1, SendFailsStep
  <2>2. /\ link[generation] = "down"
        /\ untold' = untold \cup watched
    BY <1>a, <1>1, SendFailsStep DEF Disconnects
  <2>3. t \in watched => Registered(t) /\ Reason(t)
    <3> SUFFICES ASSUME t \in watched
                 PROVE  Registered(t) /\ Reason(t)
      OBVIOUS
    <3>1. Registered(t)
      BY DEF Authority, Holders, Involved
    <3> QED BY <2>2, <3>1, LossIsReason DEF Reason
  <2> QED BY <2>1, <2>2, <2>3, <1>b, <1>c, <1>d, <1>e DEF Reasons, Explained
<1>2. ASSUME NEW s \in Starts, MergeCallback(s)
      PROVE  Reasons(t)'
  <2>1. /\ call[s].pc = "callback"
        /\ ToldTo(s, CallbackStatus(s))
        /\ UNCHANGED <<probe, untold>>
    BY <1>a, <1>2, MergeCallbackStep
  <2>2. told[s] = <<>>
    BY <2>1, HolderMayTell DEF ReaderHas
  <2>3. CASE t # s
    <3>1. told'[t] = told[t]
      BY <2>1, <2>2, <2>3, ToldOnce
    <3> QED BY <2>1, <2>3, <3>1, <1>b, <1>c, <1>d, <1>e DEF Reasons, Explained
  <2>4. CASE t = s
    <3>1. told'[t][1] = CallbackStatus(s) /\ t \notin untold'
      BY <2>1, <2>2, <2>4, ToldOnce DEF Authority, Holders, OneHolder
    <3>2. Ended(t)
      BY <2>1, <2>4 DEF EndSeen
    <3> QED BY <2>1, <2>4, <3>1, <3>2, <1>b, <1>c, <1>d, <1>e DEF Reasons, Explained
  <2> QED BY <2>3, <2>4
<1>3. ASSUME NEW s \in Starts, TellUnknown(s)
      PROVE  Reasons(t)'
  <2>1. /\ s \in untold /\ untold' = untold \ {s}
        /\ ToldTo(s, "unknown")
        /\ UNCHANGED probe
    BY <1>a, <1>3, TellUnknownStep
  <2>2. told[s] = <<>>
    BY <2>1, HolderMayTell DEF ReaderHas
  <2>3. CASE t # s
    <3>1. told'[t] = told[t]
      BY <2>1, <2>2, <2>3, ToldOnce
    <3> QED BY <2>1, <2>3, <3>1, <1>b, <1>c, <1>d, <1>e DEF Reasons, Explained
  <2>4. CASE t = s
    <3>1. told'[t][1] = "unknown" /\ t \notin untold'
      BY <2>1, <2>2, <2>4, ToldOnce
    <3>2. Reason(t)
      BY <2>1, <2>4, <1>b DEF Reasons
    <3> QED BY <2>1, <2>4, <3>1, <3>2, <1>b, <1>c, <1>d, <1>e DEF Reasons, Explained
  <2> QED BY <2>3, <2>4
<1>4. ASSUME NEW g \in Generations, ReaderCallback(g)
      PROVE  Reasons(t)'
  <2>1. /\ reader[g].pc = "callback" /\ reader[g].turn \in Starts
        /\ ToldTo(reader[g].turn, CallbackStatus(reader[g].turn))
        /\ UNCHANGED <<probe, untold>>
    BY <1>a, <1>4, ReaderCallbackStep
  <2>2. told[reader[g].turn] = <<>>
    BY <2>1, HolderMayTell DEF ReaderHas
  <2>3. CASE t # reader[g].turn
    <3>1. told'[t] = told[t]
      BY <2>1, <2>2, <2>3, ToldOnce
    <3> QED BY <2>1, <2>3, <3>1, <1>b, <1>c, <1>d, <1>e DEF Reasons, Explained
  <2>4. CASE t = reader[g].turn
    <3>1. told'[t][1] = CallbackStatus(reader[g].turn) /\ t \notin untold'
      BY <2>1, <2>2, <2>4, ToldOnce DEF Authority, Holders, OneHolder, ReaderHas
    <3>2. Ended(t)
      BY <2>1, <2>4 DEF EndSeen
    <3> QED BY <2>1, <2>4, <3>1, <3>2, <1>b, <1>c, <1>d, <1>e DEF Reasons, Explained
  <2> QED BY <2>3, <2>4
<1>5. ASSUME NEW g \in Generations, ReadIdle(g)
      PROVE  Reasons(t)'
  <2>1. /\ Head(inbox[g]).kind = "idle"
        /\ \A s \in Starts :
             IF /\ g = generation /\ s \in watched /\ probe[s].pc = "none"
                /\ Head(inbox[g]) = Idle(s)
             THEN /\ probe'[s].pc = "check" /\ probe'[s].on = generation
                  /\ probe'[s].says = "unknown"
             ELSE probe'[s] = probe[s]
        /\ UNCHANGED <<untold, told>>
    BY <1>a, <1>5, ReadIdleStep
  <2> QED BY <2>1, <1>b, <1>c, <1>d, <1>e
     DEF Reasons, Explained
<1>6. ASSUME NEW g \in Generations, ReaderFails(g)
      PROVE  Reasons(t)'
  <2>1. UNCHANGED <<probe, told>>
    BY <1>a, <1>6, ReaderFailsStep
  <2>2. untold' = untold \/ (untold' = untold \cup watched /\ link[generation] = "down")
    <3>1. /\ link[g] = "down"
          /\ \/ MayMark(g) /\ Disconnects(None)
             \/ UNCHANGED untold
      BY <1>a, <1>6, ReaderFailsStep
    <3> QED BY <3>1 DEF MayMark, Disconnects
  <2>3. t \in watched /\ link[generation] = "down" => Registered(t) /\ Reason(t)
    <3> SUFFICES ASSUME t \in watched, link[generation] = "down"
                 PROVE  Registered(t) /\ Reason(t)
      OBVIOUS
    <3>1. Registered(t)
      BY DEF Authority, Holders, Involved
    <3> QED BY <3>1, LossIsReason DEF Reason
  <2> QED BY <2>1, <2>2, <2>3, <1>b, <1>c, <1>d, <1>e DEF Reasons, Explained
<1>7. ASSUME NEW g \in Generations, ReaderLeaves(g)
      PROVE  Reasons(t)'
  <2>1. UNCHANGED <<probe, told>>
    BY <1>a, <1>7, ReaderLeavesStep
  <2>2. untold' = untold \/ (untold' = untold \cup watched /\ link[generation] = "down")
    <3>1. /\ link[g] = "down"
          /\ \/ MayMark(g) /\ Disconnects(None)
             \/ UNCHANGED untold
      BY <1>a, <1>7, ReaderLeavesStep DEF Connections
    <3> QED BY <3>1 DEF MayMark, Disconnects
  <2>3. t \in watched /\ link[generation] = "down" => Registered(t) /\ Reason(t)
    <3> SUFFICES ASSUME t \in watched, link[generation] = "down"
                 PROVE  Registered(t) /\ Reason(t)
      OBVIOUS
    <3>1. Registered(t)
      BY DEF Authority, Holders, Involved
    <3> QED BY <3>1, LossIsReason DEF Reason
  <2> QED BY <2>1, <2>2, <2>3, <1>b, <1>c, <1>d, <1>e DEF Reasons, Explained
<1>8. ASSUME NEW s \in Starts, ProbeCheck(s)
      PROVE  Reasons(t)'
  <2>1. /\ probe[s].pc = "check"
        /\ \/ Fenced(s) /\ ProbeTo(s, "list", probe[s].says)
           \/ ~Fenced(s) /\ ProbeOff(s)
        /\ UNCHANGED <<untold, told>>
    BY <1>a, <1>8, ProbeCheckStep
  <2> QED BY <2>1, <1>b, <1>c, <1>d, <1>e
     DEF Reasons, Explained, ProbeTo, ProbeOff
<1>9. ASSUME NEW s \in Starts, ProbeList(s)
      PROVE  Reasons(t)'
  <2>1. /\ probe[s].pc = "list"
        /\ ProbeTo(s, "recheck", CallbackStatus(s))
        /\ UNCHANGED <<untold, told>>
    BY <1>a, <1>9, ProbeListStep
  <2>2. s = t => Ended(t)
    BY <2>1 DEF EndSeen
  <2> QED BY <2>1, <2>2, <1>b, <1>c, <1>d, <1>e DEF Reasons, Explained, ProbeTo
<1>10. ASSUME NEW s \in Starts, ProbeFails(s)
      PROVE  Reasons(t)'
  <2>1. /\ probe[s].pc \in {"list", "connected", "initialize"}
        /\ ProbeTo(s, "finish", probe[s].says)
        /\ UNCHANGED <<untold, told>>
    BY <1>a, <1>10, ProbeFailsStep
  <2>2. s = t => Reason(t)'
    <3>1. \/ "probe" \in faults'
          \/ ~connected \/ link[generation] # "up" \/ probe[s].on # generation
      BY <1>a, <1>10, ProbeFailsStep
    <3>2. CASE "probe" \in faults'
      BY <3>2 DEF Reason
    <3>3. CASE s = t /\ (~connected \/ link[generation] # "up" \/ probe[s].on # generation)
      <4>1. ~connected \/ link[generation] # "up" \/ call[t].on # generation
        <5>1. /\ call[t].on \in Nat /\ probe[t].on \in Nat /\ generation \in Nat
          <6>1. generation \in 0..MaxGeneration /\ call[t] \in CallRecord
            BY <1>a DEF TypeOK
          <6>2. probe[t].on \in 0..MaxGeneration
            BY <1>a, ProbeTypes
          <6> QED BY <6>1, <6>2, ConstantsAssumption DEF CallRecord
        <5>2. call[t].on <= probe[t].on /\ probe[t].on <= generation
          BY <2>1, <3>3 DEF Aimed
        <5> QED BY <3>3, <5>1, <5>2
      <4> QED BY <1>c, <1>d, <2>1, <3>3, <4>1, LossIsReason DEF Reason
    <3> QED BY <3>1, <3>2, <3>3
  <2> QED BY <2>1, <2>2, <1>b, <1>c, <1>d, <1>e DEF Reasons, Explained, ProbeTo
<1>11. ASSUME NEW s \in Starts, ProbeRecheck(s)
      PROVE  Reasons(t)'
  <2>1. /\ probe[s].pc = "recheck"
        /\ \/ Fenced(s) /\ ProbeTo(s, "finish", probe[s].says)
           \/ ~Fenced(s) /\ ProbeOff(s)
        /\ UNCHANGED <<untold, told>>
    BY <1>a, <1>11, ProbeRecheckStep
  <2> QED BY <2>1, <1>b, <1>c, <1>d, <1>e
     DEF Reasons, Explained, ProbeTo, ProbeOff
<1>12. ASSUME NEW s \in Starts, ProbeFinish(s)
      PROVE  Reasons(t)'
  <2>1. /\ probe[s].pc = "finish"
        /\ \/ Takes(s) /\ ProbeTo(s, "callback", probe[s].says)
           \/ Misses(s) /\ ProbeOff(s)
        /\ UNCHANGED <<untold, told>>
    BY <1>a, <1>12, ProbeFinishStep
  <2> QED BY <2>1, <1>b, <1>c, <1>d, <1>e
     DEF Reasons, Explained, ProbeTo, ProbeOff
<1>13. ASSUME NEW s \in Starts, ProbeCallback(s)
      PROVE  Reasons(t)'
  <2>1. /\ probe[s].pc = "callback" /\ ProbeOff(s)
        /\ ToldTo(s, probe[s].says)
        /\ UNCHANGED untold
    BY <1>a, <1>13, ProbeCallbackStep
  <2>2. told[s] = <<>>
    BY <2>1, HolderMayTell DEF ReaderHas
  <2>3. CASE t # s
    <3>1. told'[t] = told[t]
      BY <2>1, <2>2, <2>3, ToldOnce
    <3> QED BY <2>1, <2>3, <3>1, <1>b, <1>c, <1>d, <1>e DEF Reasons, Explained, ProbeOff
  <2>4. CASE t = s
    <3>1. told'[t][1] = probe[s].says /\ t \notin untold'
      BY <2>1, <2>2, <2>4, ToldOnce DEF Authority, Holders, OneHolder
    <3>2. Explained(t, probe[t].says)
      BY <2>1, <2>4, <1>b DEF Reasons
    <3> QED BY <2>1, <2>4, <3>1, <3>2, <1>b, <1>c, <1>d, <1>e DEF Reasons, Explained, ProbeOff
  <2> QED BY <2>3, <2>4
<1>14. ASSUME NEW s \in Starts, NEW th \in Threads, Begin(s, th)
      PROVE  Reasons(t)'
  <2>1. UNCHANGED <<probe, untold, told>>
    BY <1>a, <1>14, BeginStep
  <2> QED BY <2>1, <1>b, <1>c, <1>d, <1>e DEF Reasons, Explained
<1>15. ASSUME NEW s \in Starts,
          Connect(s) \/ ConnectFails(s) \/ Send(s) \/ SendUnconnected(s) \/ TimeOut(s)
             \/ Reject(s) \/ Register(s) \/ Merge(s) \/ Return(s)
      PROVE  Reasons(t)'
  <2>1. UNCHANGED <<probe, untold, told>>
    BY <1>a, <1>15, ConnectStep, ConnectFailsStep, SendStep, SendUnconnectedStep, TimeOutStep,
       RejectStep, RegisterStep, MergeStep, ReturnStep
  <2> QED BY <2>1, <1>b, <1>c, <1>d, <1>e DEF Reasons, Explained
<1>16. ASSUME NEW g \in Generations,
          ReadResponse(g) \/ ReadCompleted(g) \/ ReaderFinish(g) \/ ReaderOrphan(g)
             \/ Serve(g) \/ Greet(g) \/ Drop(g)
      PROVE  Reasons(t)'
  <2>1. UNCHANGED <<probe, untold, told>>
    BY <1>a, <1>16, ReadResponseStep, ReadCompletedStep, ReaderFinishStep, ReaderOrphanStep,
       ServeStep, GreetStep, DropStep
  <2> QED BY <2>1, <1>b, <1>c, <1>d, <1>e DEF Reasons, Explained
<1>17. ASSUME NEW s \in Starts, NEW outcome \in TurnOutcomes, EndTurn(s, outcome)
      PROVE  Reasons(t)'
  <2>1. UNCHANGED <<probe, untold, told>>
    BY <1>a, <1>17, EndTurnStep
  <2> QED BY <2>1, <1>b, <1>c, <1>d, <1>e DEF Reasons, Explained
<1>18. ASSUME Close
      PROVE  Reasons(t)'
  <2>1. UNCHANGED <<probe, untold, told>>
    BY <1>a, <1>18, CloseStep
  <2> QED BY <2>1, <1>b, <1>c, <1>d, <1>e DEF Reasons, Explained
<1>19. CASE UNCHANGED vars
  <2>1. UNCHANGED <<probe, untold, told>>
    BY <1>19 DEF vars, conn, table, client, threads, results, wire, server, appServer
  <2> QED BY <2>1, <1>b, <1>c, <1>d, <1>e DEF Reasons, Explained
<1>20. ASSUME NEW s \in Starts, ProbeConnect(s)
      PROVE  Reasons(t)'
  <2>1. /\ probe[s].pc = "list" /\ ProbeTo(s, "connected", probe[s].says)
        /\ UNCHANGED <<untold, told>>
    BY <1>a, <1>20, ProbeConnectStep
  <2> QED BY <2>1, <1>b, <1>c, <1>d, <1>e
     DEF Reasons, Explained, ProbeTo
<1>21. ASSUME NEW s \in Starts, ProbeInitialize(s) \/ ProbeInitialized(s)
      PROVE  Reasons(t)'
  <2>1. /\ probe[s].pc \in {"connected", "initialize"}
        /\ \/ ProbeTo(s, "initialize", probe[s].says)
           \/ ProbeTo(s, "list", probe[s].says)
        /\ UNCHANGED <<untold, told>>
    BY <1>a, <1>21, ProbeInitializeStep, ProbeInitializedStep
  <2> QED BY <2>1, <1>b, <1>c, <1>d, <1>e
     DEF Reasons, Explained, ProbeTo
<1> QED
  BY <1>1, <1>2, <1>3, <1>4, <1>5, <1>6, <1>7, <1>8, <1>9, <1>10, <1>11, <1>12, <1>13, <1>14,
     <1>15, <1>16, <1>17, <1>18, <1>19, <1>20, <1>21
     DEF Next, CallerStep, ProbeStep, ReaderStep

\* The inductive invariant of the transport: who holds a callback, one request per caller,
\* one running turn per thread, and a reason behind every outcome.
Accounted ==
  /\ Authority
  /\ Fresh /\ Alone
  /\ \A s \in Starts : OneRequest(s) /\ Idles(s) /\ (EndSeen(s) => Ended(s)) /\ Aimed(s)
                         /\ Reasons(s)

\* Every reachable state accounts for its outcomes.
THEOREM AlwaysAccounted == Spec => []Accounted
<1>1. Init => Fresh /\ Alone /\ \A s \in Starts :
        OneRequest(s) /\ Idles(s) /\ (EndSeen(s) => Ended(s)) /\ Aimed(s)
          /\ Reasons(s)
  <2> SUFFICES ASSUME Init
               PROVE  Fresh /\ Alone /\ \A s \in Starts :
                        OneRequest(s) /\ Idles(s) /\ (EndSeen(s) => Ended(s)) /\ Aimed(s)
                          /\ Reasons(s)
    OBVIOUS
  <2>1. \A g \in Generations : Len(inbox[g]) = 0 /\ Len(outbox[g]) = 0 /\ inbox[g] = <<>>
    BY DEF Init
  <2>2. Fresh /\ Alone
    BY <2>1 DEF Init, Fresh, Alone
  <2>3. ASSUME NEW s \in Starts
        PROVE  OneRequest(s) /\ Idles(s)
    <3>1. \A g \in Generations, i \in Nat : ~Asks(g, i, s) /\ ~Replied(g, i, s)
      BY <2>1 DEF Asks, Replied
    <3>2. turn[s] = "none" /\ call[s].pc = "none"
      BY DEF Init
    <3> QED BY <3>1, <3>2
               DEF OneRequest, Quiet, AskedOnce, RepliedOnce, Placed, Registered, Idles
  <2>4. ASSUME NEW s \in Starts
        PROVE  ~EndSeen(s) /\ Aimed(s) /\ Reasons(s)
    <3>1. ~Posted(s)
      BY <2>1 DEF Posted, Waiting
    <3>2. \A g \in Generations : reader[g].turn # s
      BY ConstantsAssumption DEF Init, NoReader
    <3> QED BY <3>1, <3>2 DEF Init, EndSeen, Aimed, Reasons, NoProbe
  <2> QED BY <2>2, <2>3, <2>4
<1>2. Accounted /\ Authority' /\ [Next]_vars => Accounted'
  <2> SUFFICES ASSUME Accounted, Authority', [Next]_vars
               PROVE  Accounted'
    OBVIOUS
  <2>1. /\ Authority /\ Fresh /\ Alone
        /\ \A s \in Starts : OneRequest(s) /\ Idles(s) /\ (EndSeen(s) => Ended(s)) /\ Aimed(s)
                               /\ Reasons(s)
    BY DEF Accounted
  <2>2. Fresh' /\ Alone'
    BY <2>1, NextFresh, NextAlone
  <2>3. ASSUME NEW s \in Starts
        PROVE  OneRequest(s)' /\ Idles(s)'
    BY <2>1, NextRequests, NextIdles
  <2>4. ASSUME NEW s \in Starts
        PROVE  (EndSeen(s)' => Ended(s)') /\ Aimed(s)' /\ Reasons(s)'
    BY <2>1, NextEndSeen, EndedStays, NextAimed, NextReasons
  <2> QED BY <2>2, <2>3, <2>4 DEF Accounted
<1> QED BY <1>1, <1>2, AlwaysAuthority, PTL DEF Spec, Accounted

\* An outcome is the turn's own, or unknown for a reason that is this turn's: its own
\* connection is lost, its probe failed, or the App Server named no terminal status
\* (transport.py:503-527, 556-598).
THEOREM OutcomesHaveReasons == Spec => []OutcomeHasReason
<1>1. Accounted => OutcomeHasReason
  <2> SUFFICES ASSUME Accounted, NEW s \in Starts, Heard(s) # "none"
               PROVE  \/ Heard(s) = turn[s]
                      \/ /\ Heard(s) = "unknown"
                         /\ \/ turn[s] = "other" \/ link[call[s].on] = "down"
                            \/ "probe" \in faults
    BY DEF OutcomeHasReason
  <2>1. Reasons(s) /\ OneHolder(s)
    BY DEF Accounted, Authority, Holders
  <2>2. told[s] # <<>> /\ Heard(s) = told[s][1]
    BY <2>1 DEF Heard, OneHolder
  <2>3. Explained(s, Heard(s))
    BY <2>1, <2>2 DEF Reasons
  <2> QED BY <2>3 DEF Explained, Ended, CallbackStatus, Reason
<1> QED BY <1>1, AlwaysAccounted, PTL

-----------------------------------------------------------------------------
(* Whether somebody still hears of an end.                                 *)

\* A message waits until the reader of its connection takes it.
LEMMA WaitingMoves ==
  ASSUME Authority, NEW g \in Generations, NEW m,
         \E i \in 1..Len(inbox[g]) : inbox[g][i] = m, [Next]_vars
  PROVE  \/ \E i \in 1..Len(inbox'[g]) : inbox'[g][i] = m
         \/ Pops(g, m) /\ (ReadResponse(g) \/ ReadCompleted(g) \/ ReadIdle(g))
<1>a. TypeOK /\ Connections /\ Askers
  BY DEF Authority
<1>b. PICK i \in 1..Len(inbox[g]) : inbox[g][i] = m
  OBVIOUS
<1> DEFINE Waits == \E j \in 1..Len(inbox'[g]) : inbox'[g][j] = m
<1>c. ASSUME i \in 1..Len(inbox'[g]), inbox'[g][i] = inbox[g][i]
      PROVE  Waits
  BY <1>b, <1>c
<1>1. ASSUME NEW h \in Generations, Serve(h)
      PROVE  Waits
  <2>1. PICK q \in Request, says \in Verdicts : Served(h, q, says)
    BY <1>a, <1>1, ServeStep
  <2>2. i \in 1..Len(inbox'[g]) /\ inbox'[g][i] = inbox[g][i]
    BY <2>1, ServeWire
  <2> HIDE DEF Waits
  <2> QED BY <1>c, <2>2
<1>2. ASSUME NEW s \in Starts, NEW outcome \in TurnOutcomes, EndTurn(s, outcome)
      PROVE  Waits
  <2>1. PICK first \in IdleFirst : Heralds(s, first)
    BY <1>a, <1>2, EndTurnStep
  <2>2. /\ inbox \in [Generations -> Seq(Message)]
        /\ Completed(s) \in Message /\ Idle(s) \in Message
    BY <1>a, <1>2, EndTurnStep
  <2>3. i \in 1..Len(inbox'[g]) /\ inbox'[g][i] = inbox[g][i]
    BY <2>1, <2>2, HeraldsWire
  <2> HIDE DEF Waits
  <2> QED BY <1>c, <2>3
<1>3. ASSUME NEW h \in Generations, NEW n, Pops(h, n)
      PROVE  Waits \/ (g = h /\ n = m)
  <2>1. CASE g # h
    <3>1. inbox'[g] = inbox[g]
      BY <1>3, <2>1, PopsWire
    <3> QED BY <1>b, <3>1
  <2>2. CASE g = h /\ i # 1
    <3>1. i - 1 \in 1..Len(inbox'[g]) /\ inbox'[g][i - 1] = inbox[g][i]
      BY <1>3, <2>2, PopsWire
    <3> QED BY <1>b, <3>1
  <2>3. CASE g = h /\ i = 1
    BY <1>b, <1>3, <2>3, PopsWire
  <2> QED BY <2>1, <2>2, <2>3
<1> HIDE DEF Waits
<1>4. ASSUME NEW h \in Generations, ReadResponse(h) \/ ReadCompleted(h) \/ ReadIdle(h)
      PROVE  Waits \/ (Pops(h, m) /\ h = g)
  <2>1. \E n : Pops(h, n)
    BY <1>a, <1>4, ReadResponseStep, ReadCompletedStep, ReadIdleStep
  <2> QED BY <1>3, <2>1
<1>5. ASSUME UNCHANGED inbox
      PROVE  Waits
  BY <1>b, <1>5 DEF Waits
<1>6. ASSUME NEW s \in Starts, Send(s)
      PROVE  Waits
  BY <1>a, <1>5, <1>6, SendStep
<1>7. CASE /\ \A s \in Starts : ~Send(s)
           /\ \A h \in Generations :
                ~Serve(h) /\ ~ReadResponse(h) /\ ~ReadCompleted(h) /\ ~ReadIdle(h)
           /\ \A s \in Starts : \A outcome \in TurnOutcomes : ~EndTurn(s, outcome)
  <2>1. UNCHANGED inbox
    BY <1>7, WireMoves
  <2> QED BY <1>5, <2>1
<1> QED BY <1>1, <1>2, <1>4, <1>6, <1>7 DEF Waits

\* An end is announced when it happens.
LEMMA AnnouncedMoves ==
  ASSUME Authority, NEW g, NEW t \in Starts, NEW first, <<g, t, first>> \in announced',
         [Next]_vars
  PROVE  \/ <<g, t, first>> \in announced
         \/ \E outcome \in TurnOutcomes : EndTurn(t, outcome)
<1>a. TypeOK /\ Connections /\ Askers
  BY DEF Authority
<1>1. ASSUME NEW h \in Generations,
             Serve(h) \/ ReadResponse(h) \/ ReadCompleted(h) \/ ReadIdle(h)
      PROVE  announced' = announced
  BY <1>a, <1>1, ServeStep, ReadResponseStep, ReadCompletedStep, ReadIdleStep
<1>2. ASSUME NEW s \in Starts, Send(s)
      PROVE  announced' = announced
  BY <1>a, <1>2, SendStep
<1>3. ASSUME NEW s \in Starts, NEW outcome \in TurnOutcomes, EndTurn(s, outcome), s # t
      PROVE  <<g, t, first>> \in announced
  <2>1. PICK f : Heralds(s, f)
    BY <1>a, <1>3, EndTurnStep
  <2>2. announced' = announced \cup {<<h, s, f>> : h \in {x \in Generations : Hears(x, s)}}
    BY <2>1 DEF Heralds
  <2> QED BY <1>3, <2>2
<1>4. CASE /\ \A s \in Starts : ~Send(s)
           /\ \A h \in Generations :
                ~Serve(h) /\ ~ReadResponse(h) /\ ~ReadCompleted(h) /\ ~ReadIdle(h)
           /\ \A s \in Starts : \A outcome \in TurnOutcomes : ~EndTurn(s, outcome)
  BY <1>4, WireMoves
<1> QED BY <1>1, <1>2, <1>3, <1>4

\* A reader lets go of a turn in three steps, and takes one in hand in another.
LEMMA ReaderKeeps ==
  ASSUME Authority, NEW g \in Generations, [Next]_vars,
         ~ReadCompleted(g), ~ReaderFinish(g), ~ReaderCallback(g), ~ReaderOrphan(g)
  PROVE  reader'[g] = reader[g] \/ (reader'[g].turn = None /\ reader[g].turn = None)
<1>a. TypeOK /\ Connections /\ Askers
  BY DEF Authority
<1>b. \A h \in Generations : reader[h].pc \in {"none", "receive", "last"} => reader[h].turn = None
  BY <1>a, ReaderTypes
<1>c. \A h \in Generations : h > generation => reader[h].pc = "none"
  BY <1>a DEF Connections
<1>d. generation \in Nat
  BY <1>a, ConstantsAssumption DEF TypeOK
<1>1. ASSUME NEW s \in Starts, Connect(s)
      PROVE  reader'[g] = reader[g] \/ (reader'[g].turn = None /\ reader[g].turn = None)
  <2>1. /\ generation' = generation + 1 /\ generation' \in Generations
        /\ ReaderTo(generation', "receive", None)
    BY <1>a, <1>1, ConnectStep
  <2> QED BY <2>1, <1>b, <1>c, <1>d
     DEF ReaderTo, Generations
<1>2. ASSUME NEW h \in Generations, ReadResponse(h)
      PROVE  reader'[g] = reader[g] \/ (reader'[g].turn = None /\ reader[g].turn = None)
  <2>1. /\ reader[h].pc = "receive" /\ Pops(h, Head(inbox[h])) /\ ReaderLoops(h)
        /\ Head(inbox[h]).kind = "response" /\ Head(inbox[h]).to \in Starts
        /\ Head(inbox[h]).says \in Verdicts
    BY <1>a, <1>2, ReadResponseStep
  <2> QED BY <2>1, <1>b
     DEF ReaderLoops, ReaderTo, Current
<1>3. ASSUME NEW h \in Generations, ReadCompleted(h)
      PROVE  reader'[g] = reader[g] \/ (reader'[g].turn = None /\ reader[g].turn = None)
  <2>1. /\ reader[h].pc = "receive" /\ Head(inbox[h]).turn \in Starts
        /\ \/ h = generation /\ ReaderTo(h, "finish", Head(inbox[h]).turn)
           \/ /\ h # generation \/ <<h, Head(inbox[h]).turn>> \in tombstones
              /\ ReaderLoops(h)
    BY <1>a, <1>3, ReadCompletedStep
  <2> QED BY <2>1, <1>3, <1>b
     DEF ReaderTo, ReaderLoops, Current
<1>4. ASSUME NEW h \in Generations, ReaderFinish(h)
      PROVE  reader'[g] = reader[g] \/ (reader'[g].turn = None /\ reader[g].turn = None)
  <2>1. /\ reader[h].pc = "finish" /\ reader[h].turn \in Starts
        /\ \/ Takes(reader[h].turn) /\ ReaderTo(h, "callback", reader[h].turn)
           \/ Misses(reader[h].turn) /\ ReaderTo(h, "orphan", reader[h].turn)
    BY <1>a, <1>4, ReaderFinishStep
  <2> QED BY <2>1, <1>4, <1>b
     DEF ReaderTo
<1>5. ASSUME NEW h \in Generations, ReaderCallback(h)
      PROVE  reader'[g] = reader[g] \/ (reader'[g].turn = None /\ reader[g].turn = None)
  <2>1. /\ reader[h].pc = "callback" /\ reader[h].turn \in Starts
        /\ ReaderLoops(h) /\ ToldTo(reader[h].turn, CallbackStatus(reader[h].turn))
    BY <1>a, <1>5, ReaderCallbackStep
  <2> QED BY <2>1, <1>5, <1>b
     DEF ReaderLoops, ReaderTo, Current
<1>6. ASSUME NEW h \in Generations, ReaderOrphan(h)
      PROVE  reader'[g] = reader[g] \/ (reader'[g].turn = None /\ reader[g].turn = None)
  <2>1. /\ reader[h].pc = "orphan" /\ reader[h].turn \in Starts /\ ReaderLoops(h)
    BY <1>a, <1>6, ReaderOrphanStep
  <2> QED BY <2>1, <1>6, <1>b
     DEF ReaderLoops, ReaderTo, Current
<1>7. ASSUME NEW h \in Generations, ReadIdle(h)
      PROVE  reader'[g] = reader[g] \/ (reader'[g].turn = None /\ reader[g].turn = None)
  <2>1. /\ reader[h].pc = "receive" /\ Pops(h, Head(inbox[h])) /\ ReaderLoops(h)
        /\ Head(inbox[h]).kind = "idle"
    BY <1>a, <1>7, ReadIdleStep
  <2> QED BY <2>1, <1>b
     DEF ReaderLoops, ReaderTo, Current
<1>8. ASSUME NEW h \in Generations, ReaderFails(h)
      PROVE  reader'[g] = reader[g] \/ (reader'[g].turn = None /\ reader[g].turn = None)
  <2>1. /\ reader[h].pc = "receive" /\ link[h] = "down" /\ ReaderTo(h, "last", None)
    BY <1>a, <1>8, ReaderFailsStep
  <2> QED BY <2>1, <1>b
     DEF ReaderTo
<1>9. ASSUME NEW h \in Generations, ReaderLeaves(h)
      PROVE  reader'[g] = reader[g] \/ (reader'[g].turn = None /\ reader[g].turn = None)
  <2>1. /\ reader[h].pc = "last" /\ ReaderTo(h, "gone", None)
    BY <1>a, <1>9, ReaderLeavesStep
  <2> QED BY <2>1, <1>b
     DEF ReaderTo
<1>10. ASSUME NEW s \in Starts, NEW th \in Threads, Begin(s, th)
      PROVE  reader'[g] = reader[g] \/ (reader'[g].turn = None /\ reader[g].turn = None)
  <2>1. UNCHANGED <<reader>>
    BY <1>a, <1>10, BeginStep
  <2> QED BY <2>1, <1>b
<1>11. ASSUME NEW s \in Starts,
          ConnectFails(s) \/ Send(s) \/ SendUnconnected(s) \/ SendFails(s) \/ TimeOut(s)
             \/ Reject(s) \/ Register(s) \/ Merge(s) \/ MergeCallback(s) \/ Return(s)
             \/ TellUnknown(s) \/ ProbeCheck(s) \/ ProbeInitialize(s) \/ ProbeInitialized(s)
             \/ ProbeList(s) \/ ProbeFails(s) \/ ProbeRecheck(s) \/ ProbeFinish(s)
             \/ ProbeCallback(s)
      PROVE  reader'[g] = reader[g] \/ (reader'[g].turn = None /\ reader[g].turn = None)
  <2>1. UNCHANGED <<reader>>
    BY <1>a, <1>11, ConnectFailsStep, SendStep, SendUnconnectedStep, SendFailsStep,
       TimeOutStep, RejectStep, RegisterStep, MergeStep, MergeCallbackStep, ReturnStep,
       TellUnknownStep, ProbeCheckStep, ProbeInitializeStep, ProbeInitializedStep,
       ProbeListStep, ProbeFailsStep, ProbeRecheckStep, ProbeFinishStep, ProbeCallbackStep
  <2> QED BY <2>1, <1>b
<1>12. ASSUME NEW h \in Generations,
          Serve(h) \/ Greet(h) \/ Drop(h)
      PROVE  reader'[g] = reader[g] \/ (reader'[g].turn = None /\ reader[g].turn = None)
  <2>1. UNCHANGED <<reader>>
    BY <1>a, <1>12, ServeStep, GreetStep, DropStep
  <2> QED BY <2>1, <1>b
<1>13. ASSUME NEW s \in Starts, NEW outcome \in TurnOutcomes, EndTurn(s, outcome)
      PROVE  reader'[g] = reader[g] \/ (reader'[g].turn = None /\ reader[g].turn = None)
  <2>1. UNCHANGED <<reader>>
    BY <1>a, <1>13, EndTurnStep
  <2> QED BY <2>1, <1>b
<1>14. ASSUME Close
      PROVE  reader'[g] = reader[g] \/ (reader'[g].turn = None /\ reader[g].turn = None)
  <2>1. UNCHANGED <<reader>>
    BY <1>a, <1>14, CloseStep
  <2> QED BY <2>1, <1>b
<1>15. CASE UNCHANGED vars
  <2>1. UNCHANGED <<reader>>
    BY <1>15 DEF vars, conn, table, client, threads, results, wire, server, appServer
  <2> QED BY <2>1, <1>b
<1>16. ASSUME NEW s \in Starts, ProbeConnect(s)
      PROVE  reader'[g] = reader[g] \/ (reader'[g].turn = None /\ reader[g].turn = None)
  <2>1. /\ generation' = generation + 1 /\ generation' \in Generations
        /\ ReaderTo(generation', "receive", None)
    BY <1>a, <1>16, ProbeConnectStep
  <2> QED BY <2>1, <1>b, <1>c, <1>d
     DEF ReaderTo, Generations
<1> QED
  BY <1>1, <1>2, <1>3, <1>4, <1>5, <1>6, <1>7, <1>8, <1>9, <1>10, <1>11, <1>12, <1>13, <1>14,
     <1>15, <1>16
     DEF Next, CallerStep, ProbeStep, ReaderStep

\* While its connection is up, an orphaned end is left for its caller.
LEMMA OrphanStays ==
  ASSUME Authority, NEW g \in Generations, NEW t \in Starts, <<g, t>> \in orphans,
         link[g] = "up", ~Register(t), [Next]_vars
  PROVE  <<g, t>> \in orphans'
<1>a. TypeOK /\ Connections /\ Askers /\ Calls
  BY DEF Authority
<1>b. g = generation /\ link[generation] # "down"
  BY UpIsCurrent
<1>1. ASSUME NEW s \in Starts, SendFails(s)
      PROVE  <<g, t>> \in orphans'
  <2>1. link[generation] = "down"
    BY <1>a, <1>1, SendFailsStep
  <2> QED BY <1>b, <2>1
<1>2. ASSUME NEW s \in Starts, Register(s)
      PROVE  <<g, t>> \in orphans'
  <2>1. orphans' = orphans \ {<<generation, s>>}
    BY <1>a, <1>2, RegisterStep
  <2>2. s # t
    BY <1>2
  <2> QED BY <2>1, <2>2
<1>3. ASSUME NEW h \in Generations, ReaderOrphan(h)
      PROVE  <<g, t>> \in orphans'
  <2>1. orphans \subseteq orphans'
    BY <1>a, <1>3, ReaderOrphanStep
  <2> QED BY <2>1
<1>4. ASSUME NEW h \in Generations, ReaderFails(h)
      PROVE  <<g, t>> \in orphans'
  <2>1. orphans' = orphans \/ (link[h] = "down" /\ h = generation)
    BY <1>a, <1>4, ReaderFailsStep DEF MayMark
  <2> QED BY <1>b, <2>1
<1>5. ASSUME NEW h \in Generations, ReaderLeaves(h)
      PROVE  <<g, t>> \in orphans'
  <2>1. reader[h].pc = "last" /\ (orphans' = orphans \/ h = generation)
    BY <1>a, <1>5, ReaderLeavesStep DEF MayMark
  <2>2. link[h] = "down"
    BY <1>a, <2>1 DEF Connections
  <2> QED BY <1>b, <2>1, <2>2
<1>6. ASSUME NEW s \in Starts, NEW th \in Threads, Begin(s, th)
      PROVE  <<g, t>> \in orphans'
  <2>1. UNCHANGED <<orphans>>
    BY <1>a, <1>6, BeginStep
  <2> QED BY <2>1
<1>7. ASSUME NEW s \in Starts,
          Connect(s) \/ ConnectFails(s) \/ Send(s) \/ SendUnconnected(s) \/ TimeOut(s)
             \/ Reject(s) \/ Merge(s) \/ MergeCallback(s) \/ Return(s) \/ TellUnknown(s)
             \/ ProbeCheck(s) \/ ProbeConnect(s) \/ ProbeInitialize(s)
             \/ ProbeInitialized(s) \/ ProbeList(s) \/ ProbeFails(s) \/ ProbeRecheck(s)
             \/ ProbeFinish(s) \/ ProbeCallback(s)
      PROVE  <<g, t>> \in orphans'
  <2>1. UNCHANGED <<orphans>>
    BY <1>a, <1>7, ConnectStep, ConnectFailsStep, SendStep, SendUnconnectedStep,
       TimeOutStep, RejectStep, MergeStep, MergeCallbackStep, ReturnStep, TellUnknownStep,
       ProbeCheckStep, ProbeConnectStep, ProbeInitializeStep, ProbeInitializedStep,
       ProbeListStep, ProbeFailsStep, ProbeRecheckStep, ProbeFinishStep, ProbeCallbackStep
  <2> QED BY <2>1
<1>8. ASSUME NEW h \in Generations,
          ReadResponse(h) \/ ReadCompleted(h) \/ ReaderFinish(h) \/ ReaderCallback(h)
             \/ ReadIdle(h) \/ Serve(h) \/ Greet(h) \/ Drop(h)
      PROVE  <<g, t>> \in orphans'
  <2>1. UNCHANGED <<orphans>>
    BY <1>a, <1>8, ReadResponseStep, ReadCompletedStep, ReaderFinishStep,
       ReaderCallbackStep, ReadIdleStep, ServeStep, GreetStep, DropStep
  <2> QED BY <2>1
<1>9. ASSUME NEW s \in Starts, NEW outcome \in TurnOutcomes, EndTurn(s, outcome)
      PROVE  <<g, t>> \in orphans'
  <2>1. UNCHANGED <<orphans>>
    BY <1>a, <1>9, EndTurnStep
  <2> QED BY <2>1
<1>10. ASSUME Close
      PROVE  <<g, t>> \in orphans'
  <2>1. UNCHANGED <<orphans>>
    BY <1>a, <1>10, CloseStep
  <2> QED BY <2>1
<1>11. CASE UNCHANGED vars
  <2>1. UNCHANGED <<orphans>>
    BY <1>11 DEF vars, conn, table, client, threads, results, wire, server, appServer
  <2> QED BY <2>1
<1> QED
  BY <1>1, <1>2, <1>3, <1>4, <1>5, <1>6, <1>7, <1>8, <1>9, <1>10, <1>11
     DEF Next, CallerStep, ProbeStep, ReaderStep

\* A caller that found an orphan looks for its entry before anything else.
LEMMA MergeStays ==
  ASSUME Authority, NEW t \in Starts, call[t].pc = "merge", ~Merge(t), [Next]_vars
  PROVE  call'[t].pc = "merge"
<1>a. TypeOK /\ Connections /\ Askers /\ Calls
  BY DEF Authority
<1>1. ASSUME NEW s \in Starts, NEW th \in Threads, Begin(s, th)
      PROVE  call'[t].pc = "merge"
  <2>1. /\ call[s].pc = "none"
        /\ call'[s].pc = "begin" /\ call'[s].thread = th /\ call'[s].on = 0
        /\ \A x \in Starts \ {s} : call'[x] = call[x]
    BY <1>a, <1>1, BeginStep
  <2> QED BY <2>1
     DEF Methods
<1>2. ASSUME NEW s \in Starts, Connect(s)
      PROVE  call'[t].pc = "merge"
  <2>1. /\ Poised(s)
        /\ CallTo(s, "connected", call[s].on)
    BY <1>a, <1>2, ConnectStep
  <2> QED BY <2>1
     DEF Methods, CallTo, Poised
<1>3. ASSUME NEW s \in Starts, ConnectFails(s)
      PROVE  call'[t].pc = "merge"
  <2>1. /\ Poised(s) /\ ~connected
        /\ CallTo(s, "done", call[s].on)
    BY <1>a, <1>3, ConnectFailsStep
  <2> QED BY <2>1
     DEF Methods, CallTo, Poised
<1>4. ASSUME NEW s \in Starts, Send(s)
      PROVE  call'[t].pc = "merge"
  <2>1. /\ connected /\ generation \in Generations /\ Due(s) \in Methods /\ Poised(s)
        /\ CallTo(s, Due(s), generation) /\ SlotTo(s, "waiting")
    BY <1>a, <1>4, SendStep
  <2> QED BY <2>1
     DEF Methods, CallTo, Poised
<1>5. ASSUME NEW s \in Starts, SendUnconnected(s)
      PROVE  call'[t].pc = "merge"
  <2>1. /\ Poised(s) /\ ~connected
        /\ CallTo(s, "done", call[s].on)
    BY <1>a, <1>5, SendUnconnectedStep
  <2> QED BY <2>1
     DEF Methods, CallTo, Poised
<1>6. ASSUME NEW s \in Starts, SendFails(s)
      PROVE  call'[t].pc = "merge"
  <2>1. /\ Poised(s) /\ connected /\ link[generation] = "down"
        /\ CallTo(s, "done", call[s].on)
    BY <1>a, <1>6, SendFailsStep
  <2> QED BY <2>1
     DEF Methods, CallTo, Poised
<1>7. ASSUME NEW s \in Starts, TimeOut(s)
      PROVE  call'[t].pc = "merge"
  <2>1. /\ slot[s] = "waiting"
        /\ CallTo(s, "done", call[s].on)
    BY <1>a, <1>7, TimeOutStep
  <2> QED BY <2>1, <1>a
     DEF Methods, CallTo, Calls, CallConsistent
<1>8. ASSUME NEW s \in Starts, Reject(s)
      PROVE  call'[t].pc = "merge"
  <2>1. /\ slot[s] \in {"active", "refused", "lost"}
        /\ CallTo(s, "done", call[s].on)
    BY <1>a, <1>8, RejectStep
  <2> QED BY <2>1, <1>a
     DEF Methods, CallTo, Calls, CallConsistent
<1>9. ASSUME NEW s \in Starts, Register(s)
      PROVE  call'[t].pc = "merge"
  <2>1. /\ call[s].pc = "start" /\ slot[s] = "idle"
        /\ \/ /\ <<generation, s>> \in orphans
              /\ CallTo(s, "merge", call[s].on) /\ answer' = answer
           \/ /\ <<generation, s>> \notin orphans
              /\ CallTo(s, "done", call[s].on) /\ AnswerTo(s, "returned")
    BY <1>a, <1>9, RegisterStep
  <2> QED BY <2>1
     DEF Methods, CallTo
<1>10. ASSUME NEW s \in Starts, Merge(s)
      PROVE  call'[t].pc = "merge"
  <2>1. /\ call[s].pc = "merge"
        /\ \/ /\ Takes(s)
              /\ CallTo(s, "callback", call[s].on) /\ answer' = answer
           \/ /\ Misses(s)
              /\ CallTo(s, "done", call[s].on) /\ AnswerTo(s, "returned")
    BY <1>a, <1>10, MergeStep
  <2> QED BY <2>1, <1>10
     DEF Methods, CallTo
<1>11. ASSUME NEW s \in Starts, MergeCallback(s)
      PROVE  call'[t].pc = "merge"
  <2>1. /\ call[s].pc = "callback"
        /\ CallTo(s, "return", call[s].on)
    BY <1>a, <1>11, MergeCallbackStep
  <2> QED BY <2>1
     DEF Methods, CallTo
<1>12. ASSUME NEW s \in Starts, Return(s)
      PROVE  call'[t].pc = "merge"
  <2>1. /\ call[s].pc = "return"
        /\ CallTo(s, "done", call[s].on)
    BY <1>a, <1>12, ReturnStep
  <2> QED BY <2>1
     DEF Methods, CallTo
<1>13. ASSUME NEW s \in Starts,
          TellUnknown(s) \/ ProbeCheck(s) \/ ProbeConnect(s) \/ ProbeInitialize(s)
             \/ ProbeInitialized(s) \/ ProbeList(s) \/ ProbeFails(s) \/ ProbeRecheck(s)
             \/ ProbeFinish(s) \/ ProbeCallback(s)
      PROVE  call'[t].pc = "merge"
  <2>1. UNCHANGED <<call>>
    BY <1>a, <1>13, TellUnknownStep, ProbeCheckStep, ProbeConnectStep, ProbeInitializeStep,
       ProbeInitializedStep, ProbeListStep, ProbeFailsStep, ProbeRecheckStep,
       ProbeFinishStep, ProbeCallbackStep
  <2> QED BY <2>1 DEF Methods
<1>14. ASSUME NEW g \in Generations,
          ReadResponse(g) \/ ReadCompleted(g) \/ ReaderFinish(g) \/ ReaderCallback(g)
             \/ ReaderOrphan(g) \/ ReadIdle(g) \/ ReaderFails(g) \/ ReaderLeaves(g)
             \/ Serve(g) \/ Greet(g) \/ Drop(g)
      PROVE  call'[t].pc = "merge"
  <2>1. UNCHANGED <<call>>
    BY <1>a, <1>14, ReadResponseStep, ReadCompletedStep, ReaderFinishStep,
       ReaderCallbackStep, ReaderOrphanStep, ReadIdleStep, ReaderFailsStep,
       ReaderLeavesStep, ServeStep, GreetStep, DropStep
  <2> QED BY <2>1 DEF Methods
<1>15. ASSUME NEW s \in Starts, NEW outcome \in TurnOutcomes, EndTurn(s, outcome)
      PROVE  call'[t].pc = "merge"
  <2>1. UNCHANGED <<call>>
    BY <1>a, <1>15, EndTurnStep
  <2> QED BY <2>1 DEF Methods
<1>16. ASSUME Close
      PROVE  call'[t].pc = "merge"
  <2>1. UNCHANGED <<call>>
    BY <1>a, <1>16, CloseStep
  <2> QED BY <2>1 DEF Methods
<1>17. CASE UNCHANGED vars
  <2>1. UNCHANGED <<call>>
    BY <1>17 DEF vars, conn, table, client, threads, results, wire, server, appServer
  <2> QED BY <2>1 DEF Methods
<1> QED
  BY <1>1, <1>2, <1>3, <1>4, <1>5, <1>6, <1>7, <1>8, <1>9, <1>10, <1>11, <1>12, <1>13, <1>14,
     <1>15, <1>16, <1>17
     DEF Next, CallerStep, ProbeStep, ReaderStep

\* A callback enters the table when its turn is registered.
LEMMA WatchedMoves ==
  ASSUME Authority, NEW t \in Starts, t \in watched', ~Register(t), [Next]_vars
  PROVE  t \in watched
<1>a. TypeOK /\ Connections /\ Askers /\ Calls
  BY DEF Authority
<1>1. ASSUME NEW s \in Starts, SendFails(s)
      PROVE  t \in watched
  <2>1. /\ Poised(s) /\ connected /\ link[generation] = "down"
        /\ Disconnects(s)
    BY <1>a, <1>1, SendFailsStep
  <2> QED BY <2>1
     DEF Disconnects
<1>2. ASSUME NEW s \in Starts, Register(s)
      PROVE  t \in watched
  <2>1. /\ call[s].pc = "start" /\ slot[s] = "idle"
        /\ watched' = watched \cup {s}
    BY <1>a, <1>2, RegisterStep
  <2> QED BY <2>1, <1>2
<1>3. ASSUME NEW s \in Starts, Merge(s)
      PROVE  t \in watched
  <2>1. /\ call[s].pc = "merge"
        /\ \/ /\ Takes(s)
              /\ CallTo(s, "callback", call[s].on) /\ answer' = answer
           \/ /\ Misses(s)
              /\ CallTo(s, "done", call[s].on) /\ AnswerTo(s, "returned")
    BY <1>a, <1>3, MergeStep
  <2> QED BY <2>1
     DEF Takes, Misses
<1>4. ASSUME NEW g \in Generations, ReaderFinish(g)
      PROVE  t \in watched
  <2>1. /\ reader[g].pc = "finish" /\ reader[g].turn \in Starts
        /\ \/ Takes(reader[g].turn) /\ ReaderTo(g, "callback", reader[g].turn)
           \/ Misses(reader[g].turn) /\ ReaderTo(g, "orphan", reader[g].turn)
    BY <1>a, <1>4, ReaderFinishStep
  <2> QED BY <2>1
     DEF Takes, Misses
<1>5. ASSUME NEW g \in Generations, ReaderFails(g)
      PROVE  t \in watched
  <2>1. /\ \/ MayMark(g) /\ Disconnects(None)
           \/ /\ ~MayMark(g)
              /\ UNCHANGED <<connected, slot, watched, tombstones, orphans, untold>>
    BY <1>a, <1>5, ReaderFailsStep
  <2> QED BY <2>1
     DEF Disconnects, MayMark
<1>6. ASSUME NEW g \in Generations, ReaderLeaves(g)
      PROVE  t \in watched
  <2>1. /\ \/ MayMark(g) /\ Disconnects(None)
           \/ /\ ~MayMark(g)
              /\ UNCHANGED <<connected, slot, watched, tombstones, orphans, untold>>
    BY <1>a, <1>6, ReaderLeavesStep
  <2> QED BY <2>1
     DEF Disconnects, MayMark
<1>7. ASSUME NEW s \in Starts, ProbeFinish(s)
      PROVE  t \in watched
  <2>1. /\ probe[s].pc = "finish"
        /\ \/ Takes(s) /\ ProbeTo(s, "callback", probe[s].says)
           \/ Misses(s) /\ ProbeOff(s)
    BY <1>a, <1>7, ProbeFinishStep
  <2> QED BY <2>1
     DEF Takes, Misses
<1>8. ASSUME NEW s \in Starts, NEW th \in Threads, Begin(s, th)
      PROVE  t \in watched
  <2>1. UNCHANGED <<watched>>
    BY <1>a, <1>8, BeginStep
  <2> QED BY <2>1
<1>9. ASSUME NEW s \in Starts,
          Connect(s) \/ ConnectFails(s) \/ Send(s) \/ SendUnconnected(s) \/ TimeOut(s)
             \/ Reject(s) \/ MergeCallback(s) \/ Return(s) \/ TellUnknown(s)
             \/ ProbeCheck(s) \/ ProbeConnect(s) \/ ProbeInitialize(s)
             \/ ProbeInitialized(s) \/ ProbeList(s) \/ ProbeFails(s) \/ ProbeRecheck(s)
             \/ ProbeCallback(s)
      PROVE  t \in watched
  <2>1. UNCHANGED <<watched>>
    BY <1>a, <1>9, ConnectStep, ConnectFailsStep, SendStep, SendUnconnectedStep,
       TimeOutStep, RejectStep, MergeCallbackStep, ReturnStep, TellUnknownStep,
       ProbeCheckStep, ProbeConnectStep, ProbeInitializeStep, ProbeInitializedStep,
       ProbeListStep, ProbeFailsStep, ProbeRecheckStep, ProbeCallbackStep
  <2> QED BY <2>1
<1>10. ASSUME NEW g \in Generations,
          ReadResponse(g) \/ ReadCompleted(g) \/ ReaderCallback(g) \/ ReaderOrphan(g)
             \/ ReadIdle(g) \/ Serve(g) \/ Greet(g) \/ Drop(g)
      PROVE  t \in watched
  <2>1. UNCHANGED <<watched>>
    BY <1>a, <1>10, ReadResponseStep, ReadCompletedStep, ReaderCallbackStep,
       ReaderOrphanStep, ReadIdleStep, ServeStep, GreetStep, DropStep
  <2> QED BY <2>1
<1>11. ASSUME NEW s \in Starts, NEW outcome \in TurnOutcomes, EndTurn(s, outcome)
      PROVE  t \in watched
  <2>1. UNCHANGED <<watched>>
    BY <1>a, <1>11, EndTurnStep
  <2> QED BY <2>1
<1>12. ASSUME Close
      PROVE  t \in watched
  <2>1. UNCHANGED <<watched>>
    BY <1>a, <1>12, CloseStep
  <2> QED BY <2>1
<1>13. CASE UNCHANGED vars
  <2>1. UNCHANGED <<watched>>
    BY <1>13 DEF vars, conn, table, client, threads, results, wire, server, appServer
  <2> QED BY <2>1
<1> QED
  BY <1>1, <1>2, <1>3, <1>4, <1>5, <1>6, <1>7, <1>8, <1>9, <1>10, <1>11, <1>12, <1>13
     DEF Next, CallerStep, ProbeStep, ReaderStep

\* A probe inside its fence goes on until somebody takes the entry.
LEMMA ProbeStays ==
  ASSUME Authority, NEW t \in Starts, t \in watched, t \in watched', Fenced(t),
         probe[t].pc # "none", probe[t].pc # "callback", [Next]_vars
  PROVE  probe'[t].pc # "none"
<1>a. TypeOK /\ Connections /\ Askers /\ Calls
  BY DEF Authority
<1>1. ASSUME NEW s \in Starts, SendFails(s)
      PROVE  probe'[t].pc # "none"
  <2>1. /\ Poised(s) /\ connected /\ link[generation] = "down"
        /\ Disconnects(s)
        /\ UNCHANGED <<probe>>
    BY <1>a, <1>1, SendFailsStep
  <2> QED BY <2>1
     DEF Disconnects
<1>2. ASSUME NEW s \in Starts, Register(s)
      PROVE  probe'[t].pc # "none"
  <2>1. /\ call[s].pc = "start" /\ slot[s] = "idle"
        /\ watched' = watched \cup {s}
        /\ UNCHANGED <<tombstones, probe>>
    BY <1>a, <1>2, RegisterStep
  <2> QED BY <2>1
<1>3. ASSUME NEW s \in Starts, Merge(s)
      PROVE  probe'[t].pc # "none"
  <2>1. /\ call[s].pc = "merge"
        /\ \/ /\ Takes(s)
              /\ CallTo(s, "callback", call[s].on) /\ answer' = answer
           \/ /\ Misses(s)
              /\ CallTo(s, "done", call[s].on) /\ AnswerTo(s, "returned")
        /\ UNCHANGED <<probe>>
    BY <1>a, <1>3, MergeStep
  <2> QED BY <2>1
     DEF Takes, Misses
<1>4. ASSUME NEW g \in Generations, ReaderFinish(g)
      PROVE  probe'[t].pc # "none"
  <2>1. /\ reader[g].pc = "finish" /\ reader[g].turn \in Starts
        /\ \/ Takes(reader[g].turn) /\ ReaderTo(g, "callback", reader[g].turn)
           \/ Misses(reader[g].turn) /\ ReaderTo(g, "orphan", reader[g].turn)
        /\ UNCHANGED <<probe>>
    BY <1>a, <1>4, ReaderFinishStep
  <2> QED BY <2>1
     DEF Takes, Misses
<1>5. ASSUME NEW g \in Generations, ReadIdle(g)
      PROVE  probe'[t].pc # "none"
  <2>1. /\ Head(inbox[g]).kind = "idle"
        /\ \A s \in Starts :
             IF /\ g = generation /\ s \in watched /\ probe[s].pc = "none"
                /\ Head(inbox[g]) = Idle(s)
             THEN /\ probe'[s].pc = "check" /\ probe'[s].on = generation
                  /\ probe'[s].says = "unknown"
             ELSE probe'[s] = probe[s]
        /\ UNCHANGED <<watched, tombstones>>
    BY <1>a, <1>5, ReadIdleStep
  <2> QED BY <2>1
<1>6. ASSUME NEW g \in Generations, ReaderFails(g)
      PROVE  probe'[t].pc # "none"
  <2>1. /\ \/ MayMark(g) /\ Disconnects(None)
           \/ /\ ~MayMark(g)
              /\ UNCHANGED <<connected, slot, watched, tombstones, orphans, untold>>
        /\ UNCHANGED <<probe>>
    BY <1>a, <1>6, ReaderFailsStep
  <2> QED BY <2>1
     DEF Disconnects, MayMark
<1>7. ASSUME NEW g \in Generations, ReaderLeaves(g)
      PROVE  probe'[t].pc # "none"
  <2>1. /\ \/ MayMark(g) /\ Disconnects(None)
           \/ /\ ~MayMark(g)
              /\ UNCHANGED <<connected, slot, watched, tombstones, orphans, untold>>
        /\ UNCHANGED <<probe>>
    BY <1>a, <1>7, ReaderLeavesStep
  <2> QED BY <2>1
     DEF Disconnects, MayMark
<1>8. ASSUME NEW s \in Starts, ProbeCheck(s)
      PROVE  probe'[t].pc # "none"
  <2>1. /\ probe[s].pc = "check"
        /\ \/ Fenced(s) /\ ProbeTo(s, "list", probe[s].says)
           \/ ~Fenced(s) /\ ProbeOff(s)
        /\ UNCHANGED <<watched, tombstones>>
    BY <1>a, <1>8, ProbeCheckStep
  <2> QED BY <2>1
     DEF ProbeTo, ProbeOff
<1>9. ASSUME NEW s \in Starts, ProbeList(s)
      PROVE  probe'[t].pc # "none"
  <2>1. /\ probe[s].pc = "list"
        /\ ProbeTo(s, "recheck", CallbackStatus(s))
        /\ UNCHANGED <<watched, tombstones>>
    BY <1>a, <1>9, ProbeListStep
  <2> QED BY <2>1
     DEF ProbeTo
<1>10. ASSUME NEW s \in Starts, ProbeFails(s)
      PROVE  probe'[t].pc # "none"
  <2>1. /\ probe[s].pc \in {"list", "connected", "initialize"}
        /\ ProbeTo(s, "finish", probe[s].says)
        /\ UNCHANGED <<watched, tombstones>>
    BY <1>a, <1>10, ProbeFailsStep
  <2> QED BY <2>1
     DEF ProbeTo
<1>11. ASSUME NEW s \in Starts, ProbeRecheck(s)
      PROVE  probe'[t].pc # "none"
  <2>1. /\ probe[s].pc = "recheck"
        /\ \/ Fenced(s) /\ ProbeTo(s, "finish", probe[s].says)
           \/ ~Fenced(s) /\ ProbeOff(s)
        /\ UNCHANGED <<watched, tombstones>>
    BY <1>a, <1>11, ProbeRecheckStep
  <2> QED BY <2>1
     DEF ProbeTo, ProbeOff
<1>12. ASSUME NEW s \in Starts, ProbeFinish(s)
      PROVE  probe'[t].pc # "none"
  <2>1. /\ probe[s].pc = "finish"
        /\ \/ Takes(s) /\ ProbeTo(s, "callback", probe[s].says)
           \/ Misses(s) /\ ProbeOff(s)
    BY <1>a, <1>12, ProbeFinishStep
  <2> QED BY <2>1
     DEF ProbeTo, ProbeOff, Takes, Misses
<1>13. ASSUME NEW s \in Starts, ProbeCallback(s)
      PROVE  probe'[t].pc # "none"
  <2>1. /\ probe[s].pc = "callback"
        /\ ProbeOff(s) /\ ToldTo(s, probe[s].says)
        /\ UNCHANGED <<watched, tombstones>>
    BY <1>a, <1>13, ProbeCallbackStep
  <2> QED BY <2>1
     DEF ProbeOff
<1>14. ASSUME NEW s \in Starts, NEW th \in Threads, Begin(s, th)
      PROVE  probe'[t].pc # "none"
  <2>1. UNCHANGED <<watched, tombstones, probe>>
    BY <1>a, <1>14, BeginStep
  <2> QED BY <2>1
<1>15. ASSUME NEW s \in Starts,
          Connect(s) \/ ConnectFails(s) \/ Send(s) \/ SendUnconnected(s) \/ TimeOut(s)
             \/ Reject(s) \/ MergeCallback(s) \/ Return(s) \/ TellUnknown(s)
      PROVE  probe'[t].pc # "none"
  <2>1. UNCHANGED <<watched, tombstones, probe>>
    BY <1>a, <1>15, ConnectStep, ConnectFailsStep, SendStep, SendUnconnectedStep, TimeOutStep,
       RejectStep, MergeCallbackStep, ReturnStep, TellUnknownStep
  <2> QED BY <2>1
<1>16. ASSUME NEW g \in Generations,
          ReadResponse(g) \/ ReadCompleted(g) \/ ReaderCallback(g) \/ ReaderOrphan(g)
             \/ Serve(g) \/ Greet(g) \/ Drop(g)
      PROVE  probe'[t].pc # "none"
  <2>1. UNCHANGED <<watched, tombstones, probe>>
    BY <1>a, <1>16, ReadResponseStep, ReadCompletedStep, ReaderCallbackStep,
       ReaderOrphanStep, ServeStep, GreetStep, DropStep
  <2> QED BY <2>1
<1>17. ASSUME NEW s \in Starts, NEW outcome \in TurnOutcomes, EndTurn(s, outcome)
      PROVE  probe'[t].pc # "none"
  <2>1. UNCHANGED <<watched, tombstones, probe>>
    BY <1>a, <1>17, EndTurnStep
  <2> QED BY <2>1
<1>18. ASSUME Close
      PROVE  probe'[t].pc # "none"
  <2>1. UNCHANGED <<watched, tombstones, probe>>
    BY <1>a, <1>18, CloseStep
  <2> QED BY <2>1
<1>19. CASE UNCHANGED vars
  <2>1. UNCHANGED <<watched, tombstones, probe>>
    BY <1>19 DEF vars, conn, table, client, threads, results, wire, server, appServer
  <2> QED BY <2>1
<1>20. ASSUME NEW s \in Starts, ProbeConnect(s)
      PROVE  probe'[t].pc # "none"
  <2>1. /\ probe[s].pc = "list" /\ ProbeTo(s, "connected", probe[s].says)
    BY <1>a, <1>20, ProbeConnectStep
  <2> QED BY <2>1
     DEF ProbeTo
<1>21. ASSUME NEW s \in Starts, ProbeInitialize(s) \/ ProbeInitialized(s)
      PROVE  probe'[t].pc # "none"
  <2>1. /\ probe[s].pc \in {"connected", "initialize"}
        /\ \/ ProbeTo(s, "initialize", probe[s].says)
           \/ ProbeTo(s, "list", probe[s].says)
    BY <1>a, <1>21, ProbeInitializeStep, ProbeInitializedStep
  <2> QED BY <2>1
     DEF ProbeTo
<1> QED
  BY <1>1, <1>2, <1>3, <1>4, <1>5, <1>6, <1>7, <1>8, <1>9, <1>10, <1>11, <1>12, <1>13, <1>14,
     <1>15, <1>16, <1>17, <1>18, <1>19, <1>20, <1>21
     DEF Next, CallerStep, ProbeStep, ReaderStep

\* A callback is taken with a tombstone, and a turn with one is not registered again.
LEMMA TombstonesMove ==
  ASSUME Authority, NEW t \in Starts, t \notin watched \/ ~Buried(t), [Next]_vars
  PROVE  t \notin watched' \/ ~Buried(t)'
<1>a. TypeOK /\ Connections /\ Askers /\ Calls
  BY DEF Authority
<1>1. ASSUME NEW s \in Starts, SendFails(s)
      PROVE  t \notin watched' \/ ~Buried(t)'
  <2>1. /\ Poised(s) /\ connected /\ link[generation] = "down"
        /\ Disconnects(s)
    BY <1>a, <1>1, SendFailsStep
  <2> QED BY <2>1 DEF Disconnects, Buried
<1>2. ASSUME NEW s \in Starts, Register(s)
      PROVE  t \notin watched' \/ ~Buried(t)'
  <2>1. /\ call[s].pc = "start"
        /\ watched' = watched \cup {s} /\ tombstones' = tombstones
    BY <1>a, <1>2, RegisterStep
  <2>2. ~Buried(s)
    BY <2>1 DEF Authority, Holders, Involved, Registered
  <2> QED BY <2>1, <2>2 DEF Buried
<1>3. ASSUME NEW s \in Starts, Merge(s)
      PROVE  t \notin watched' \/ ~Buried(t)'
  <2>1. /\ call[s].pc = "merge"
        /\ \/ /\ Takes(s)
              /\ CallTo(s, "callback", call[s].on) /\ answer' = answer
           \/ /\ Misses(s)
              /\ CallTo(s, "done", call[s].on) /\ AnswerTo(s, "returned")
    BY <1>a, <1>3, MergeStep
  <2> QED BY <2>1, TakingBuries, MissingBuries DEF Takes, Misses
<1>4. ASSUME NEW g \in Generations, ReaderFinish(g)
      PROVE  t \notin watched' \/ ~Buried(t)'
  <2>1. /\ reader[g].pc = "finish" /\ reader[g].turn \in Starts
        /\ \/ Takes(reader[g].turn) /\ ReaderTo(g, "callback", reader[g].turn)
           \/ Misses(reader[g].turn) /\ ReaderTo(g, "orphan", reader[g].turn)
    BY <1>a, <1>4, ReaderFinishStep
  <2> QED BY <2>1, TakingBuries, MissingBuries DEF Takes, Misses
<1>5. ASSUME NEW g \in Generations, ReaderFails(g)
      PROVE  t \notin watched' \/ ~Buried(t)'
  <2>1. /\ \/ MayMark(g) /\ Disconnects(None)
           \/ /\ ~MayMark(g)
              /\ UNCHANGED <<connected, slot, watched, tombstones, orphans, untold>>
    BY <1>a, <1>5, ReaderFailsStep
  <2> QED BY <2>1 DEF Disconnects, Buried
<1>6. ASSUME NEW g \in Generations, ReaderLeaves(g)
      PROVE  t \notin watched' \/ ~Buried(t)'
  <2>1. /\ \/ MayMark(g) /\ Disconnects(None)
           \/ /\ ~MayMark(g)
              /\ UNCHANGED <<connected, slot, watched, tombstones, orphans, untold>>
    BY <1>a, <1>6, ReaderLeavesStep
  <2> QED BY <2>1 DEF Disconnects, Buried
<1>7. ASSUME NEW s \in Starts, ProbeFinish(s)
      PROVE  t \notin watched' \/ ~Buried(t)'
  <2>1. /\ probe[s].pc = "finish"
        /\ \/ Takes(s) /\ ProbeTo(s, "callback", probe[s].says)
           \/ Misses(s) /\ ProbeOff(s)
    BY <1>a, <1>7, ProbeFinishStep
  <2> QED BY <2>1, TakingBuries, MissingBuries DEF Takes, Misses
<1>8. ASSUME NEW s \in Starts, NEW th \in Threads, Begin(s, th)
      PROVE  t \notin watched' \/ ~Buried(t)'
  <2>1. UNCHANGED <<watched, tombstones>>
    BY <1>a, <1>8, BeginStep
  <2> QED BY <2>1 DEF Buried
<1>9. ASSUME NEW s \in Starts,
          Connect(s) \/ ConnectFails(s) \/ Send(s) \/ SendUnconnected(s) \/ TimeOut(s)
             \/ Reject(s) \/ MergeCallback(s) \/ Return(s) \/ TellUnknown(s)
             \/ ProbeCheck(s) \/ ProbeConnect(s) \/ ProbeInitialize(s)
             \/ ProbeInitialized(s) \/ ProbeList(s) \/ ProbeFails(s) \/ ProbeRecheck(s)
             \/ ProbeCallback(s)
      PROVE  t \notin watched' \/ ~Buried(t)'
  <2>1. UNCHANGED <<watched, tombstones>>
    BY <1>a, <1>9, ConnectStep, ConnectFailsStep, SendStep, SendUnconnectedStep,
       TimeOutStep, RejectStep, MergeCallbackStep, ReturnStep, TellUnknownStep,
       ProbeCheckStep, ProbeConnectStep, ProbeInitializeStep, ProbeInitializedStep,
       ProbeListStep, ProbeFailsStep, ProbeRecheckStep, ProbeCallbackStep
  <2> QED BY <2>1 DEF Buried
<1>10. ASSUME NEW g \in Generations,
          ReadResponse(g) \/ ReadCompleted(g) \/ ReaderCallback(g) \/ ReaderOrphan(g)
             \/ ReadIdle(g) \/ Serve(g) \/ Greet(g) \/ Drop(g)
      PROVE  t \notin watched' \/ ~Buried(t)'
  <2>1. UNCHANGED <<watched, tombstones>>
    BY <1>a, <1>10, ReadResponseStep, ReadCompletedStep, ReaderCallbackStep,
       ReaderOrphanStep, ReadIdleStep, ServeStep, GreetStep, DropStep
  <2> QED BY <2>1 DEF Buried
<1>11. ASSUME NEW s \in Starts, NEW outcome \in TurnOutcomes, EndTurn(s, outcome)
      PROVE  t \notin watched' \/ ~Buried(t)'
  <2>1. UNCHANGED <<watched, tombstones>>
    BY <1>a, <1>11, EndTurnStep
  <2> QED BY <2>1 DEF Buried
<1>12. ASSUME Close
      PROVE  t \notin watched' \/ ~Buried(t)'
  <2>1. UNCHANGED <<watched, tombstones>>
    BY <1>a, <1>12, CloseStep
  <2> QED BY <2>1 DEF Buried
<1>13. CASE UNCHANGED vars
  <2>1. UNCHANGED <<watched, tombstones>>
    BY <1>13 DEF vars, conn, table, client, threads, results, wire, server, appServer
  <2> QED BY <2>1 DEF Buried
<1> QED
  BY <1>1, <1>2, <1>3, <1>4, <1>5, <1>6, <1>7, <1>8, <1>9, <1>10, <1>11, <1>12, <1>13
     DEF Next, CallerStep, ProbeStep, ReaderStep

\* A turn that has begun does not come back to turn/start.
LEMMA StartsOnce ==
  ASSUME Authority, NEW t \in Starts, OneRequest(t), turn[t] # "none",
         call'[t].pc = "start", [Next]_vars
  PROVE  call[t].pc = "start"
<1>a. /\ TypeOK /\ Connections /\ Askers /\ Calls
      /\ call[t].pc \in {"start", "done"} \/ Registered(t)
  BY DEF Authority, OneRequest, Placed
<1>1. ASSUME NEW s \in Starts, Send(s)
      PROVE  call[t].pc = "start"
  <2>1. Poised(s) /\ CallTo(s, Due(s), generation)
    BY <1>a, <1>1, SendStep
  <2>2. t # s
    BY <1>a, <2>1 DEF Poised, Registered, Methods
  <2> QED BY <2>1, <2>2 DEF CallTo
<1>2. ASSUME NEW g \in Generations, ReadResponse(g)
      PROVE  call[t].pc = "start"
  BY <1>a, <1>2, ReadResponseStep
<1>3. CASE /\ \A s \in Starts : ~Send(s)
           /\ \A g \in Generations : ~ReadResponse(g)
  <2>1. Moves(t)
    BY <1>3, CallerMoves
  <2> QED BY <2>1 DEF Moves, Registered
<1> QED BY <1>1, <1>2, <1>3

\* The fences of the lookups stay where they are.
LEMMA NextFences ==
  ASSUME Authority, NEW t \in Starts, OneRequest(t), Fences(t), [Next]_vars
  PROVE  Fences(t)'
BY TombstonesMove, NextAimed DEF Fences

-----------------------------------------------------------------------------
(* Completion, and idleness after it.                                      *)

\* What is behind stays behind while the wire only adds to its end.
LEMMA BehindStays ==
  ASSUME Authority, NEW g \in Generations, NEW t \in Starts, NEW d, turn[t] # "running",
         Behind(g, Completed(t), d), [Next]_vars
  PROVE  Behind(g, Completed(t), d)'
<1> DEFINE c == Completed(t)
<1>a. TypeOK /\ Connections /\ Askers
  BY DEF Authority
<1>b. c = Completed(t) /\ c.kind = "completed"
  BY DEF Completed
<1>c. Behind(g, c, d)
  OBVIOUS
<1> HIDE DEF c
<1> SUFFICES Behind(g, c, d)'
  BY <1>b
<1>d. ASSUME \A i \in 1..Len(inbox[g]) : i \in 1..Len(inbox'[g]) /\ inbox'[g][i] = inbox[g][i],
             \A i \in 1..Len(inbox'[g]) : inbox'[g][i] = c =>
               i \in 1..Len(inbox[g]) /\ inbox'[g][i] = inbox[g][i]
      PROVE  Behind(g, c, d)'
  <2> SUFFICES ASSUME NEW i \in Nat, i \in 1..Len(inbox'[g]), inbox'[g][i] = c
               PROVE  \E j \in Nat : j > i /\ j \in 1..Len(inbox'[g]) /\ inbox'[g][j] = d
    BY DEF Behind
  <2>1. i \in 1..Len(inbox[g]) /\ inbox[g][i] = c
    BY <1>d
  <2>2. PICK j \in Nat : j > i /\ j \in 1..Len(inbox[g]) /\ inbox[g][j] = d
    BY <1>c, <2>1 DEF Behind
  <2> QED BY <1>d, <2>2
<1>1. ASSUME NEW h \in Generations, Serve(h)
      PROVE  Behind(g, c, d)'
  <2>1. PICK q \in Request, says \in Verdicts : Served(h, q, says)
    BY <1>a, <1>1, ServeStep
  <2>2. \A i \in 1..Len(inbox'[g]) : inbox'[g][i] = c => inbox'[g][i].kind # "response"
    BY <1>b
  <2> QED BY <1>d, <2>1, <2>2, ServeWire
<1>2. ASSUME NEW s \in Starts, NEW outcome \in TurnOutcomes, EndTurn(s, outcome)
      PROVE  Behind(g, c, d)'
  <2>1. PICK first \in IdleFirst : Heralds(s, first)
    BY <1>a, <1>2, EndTurnStep
  <2>2. /\ inbox \in [Generations -> Seq(Message)] /\ s # t
        /\ Completed(s) \in Message /\ Idle(s) \in Message
    BY <1>a, <1>2, EndTurnStep
  <2>3. c \notin {Completed(s), Idle(s)}
    BY <1>b, <2>2 DEF Completed, Idle
  <2> QED BY <1>d, <2>1, <2>2, <2>3, HeraldsWire
<1>3. ASSUME NEW h \in Generations, NEW m, Pops(h, m)
      PROVE  Behind(g, c, d)'
  <2>1. CASE g # h
    BY <1>3, <1>d, <2>1, PopsWire
  <2>2. CASE g = h
    <3> SUFFICES ASSUME NEW i \in Nat, i \in 1..Len(inbox'[g]), inbox'[g][i] = c
                 PROVE  \E j \in Nat : j > i /\ j \in 1..Len(inbox'[g]) /\ inbox'[g][j] = d
      BY DEF Behind
    <3>1. i + 1 \in 1..Len(inbox[g]) /\ inbox[g][i + 1] = c
      BY <1>3, <2>2, PopsWire
    <3>2. PICK j \in Nat : j > i + 1 /\ j \in 1..Len(inbox[g]) /\ inbox[g][j] = d
      BY <1>c, <3>1 DEF Behind
    <3>3. j - 1 \in 1..Len(inbox'[g]) /\ inbox'[g][j - 1] = d
      BY <1>3, <2>2, <3>2, PopsWire
    <3>4. j - 1 \in Nat /\ j - 1 > i
      BY <3>2
    <3> QED BY <3>3, <3>4
  <2> QED BY <2>1, <2>2
<1>4. ASSUME NEW h \in Generations, ReadResponse(h) \/ ReadCompleted(h) \/ ReadIdle(h)
      PROVE  Behind(g, c, d)'
  <2>1. \E m : Pops(h, m)
    BY <1>a, <1>4, ReadResponseStep, ReadCompletedStep, ReadIdleStep
  <2> QED BY <1>3, <2>1
<1>5. ASSUME UNCHANGED inbox
      PROVE  Behind(g, c, d)'
  BY <1>c, <1>5 DEF Behind
<1>6. ASSUME NEW s \in Starts, Send(s)
      PROVE  Behind(g, c, d)'
  BY <1>a, <1>5, <1>6, SendStep
<1>7. CASE /\ \A s \in Starts : ~Send(s)
           /\ \A h \in Generations :
                ~Serve(h) /\ ~ReadResponse(h) /\ ~ReadCompleted(h) /\ ~ReadIdle(h)
           /\ \A s \in Starts : \A outcome \in TurnOutcomes : ~EndTurn(s, outcome)
  BY <1>5, <1>7, WireMoves
<1> QED BY <1>1, <1>2, <1>4, <1>6, <1>7

\* The idleness of a turn that ended still follows its completion.
LEMMA IdleStillFollows ==
  ASSUME Authority, NEW t \in Starts, OneRequest(t), Ended(t),
         NEW g \in Generations, IdleFollows(g, t), [Next]_vars
  PROVE  IdleFollows(g, t)'
<1>a. TypeOK /\ Connections /\ Askers /\ t # None
  BY ConstantsAssumption DEF Authority
<1>b. turn[t] # "running" /\ turn[t] # "none"
  BY DEF Ended, TerminalStatuses
<1>c. PICK d : d = Idle(t)
  OBVIOUS
<1>d. Idle(t)' = d
  BY <1>b, <1>c, CallStays DEF Idle
<1>e. Behind(g, Completed(t), d)
  BY <1>c DEF IdleFollows
<1>1. Behind(g, Completed(t), d)'
  BY <1>b, <1>e, BehindStays
<1>2. ASSUME reader'[g].turn = t, reader'[g].pc \in {"finish", "orphan"}
      PROVE  \E j \in 1..Len(inbox'[g]) : inbox'[g][j] = d
  <2>1. CASE reader'[g] = reader[g]
    <3>1. reader[g].pc # "receive"
      BY <1>2, <2>1
    <3>2. ~ReadResponse(g) /\ ~ReadCompleted(g) /\ ~ReadIdle(g)
      BY <1>a, <3>1, ReadResponseStep, ReadCompletedStep, ReadIdleStep
    <3>3. \E j \in 1..Len(inbox[g]) : inbox[g][j] = d
      BY <1>2, <1>c, <2>1 DEF IdleFollows, Waiting
    <3> QED BY <3>2, <3>3, WaitingMoves
  <2>2. CASE ReadCompleted(g)
    <3>1. /\ Pops(g, Completed(Head(inbox[g]).turn))
          /\ \/ ReaderTo(g, "finish", Head(inbox[g]).turn)
             \/ ReaderLoops(g)
      BY <1>a, <2>2, ReadCompletedStep
    <3>2. Head(inbox[g]).turn = t
      BY <1>2, <1>a, <3>1 DEF ReaderTo, ReaderLoops
    <3>3. Pops(g, Completed(t))
      BY <3>1, <3>2
    <3>4. 1 \in 1..Len(inbox[g]) /\ inbox[g][1] = Completed(t)
      BY <3>3, PopsWire
    <3>5. PICK j \in Nat : j > 1 /\ j \in 1..Len(inbox[g]) /\ inbox[g][j] = d
      BY <1>e, <3>4 DEF Behind
    <3>6. j - 1 \in 1..Len(inbox'[g]) /\ inbox'[g][j - 1] = inbox[g][j]
      BY <3>3, <3>5, PopsWire
    <3> QED BY <3>5, <3>6
  <2>3. CASE ReaderFinish(g)
    <3>1. /\ reader[g].pc = "finish" /\ inbox' = inbox
          /\ \/ ReaderTo(g, "callback", reader[g].turn)
             \/ ReaderTo(g, "orphan", reader[g].turn)
      BY <1>a, <2>3, ReaderFinishStep
    <3>2. reader[g].turn = t
      BY <1>2, <3>1 DEF ReaderTo
    <3> QED BY <1>c, <3>1, <3>2 DEF IdleFollows, Waiting
  <2>4. CASE ReaderCallback(g) \/ ReaderOrphan(g)
    <3>1. ReaderLoops(g)
      BY <1>a, <2>4, ReaderCallbackStep, ReaderOrphanStep
    <3> QED BY <1>2, <1>a, <3>1 DEF ReaderLoops, ReaderTo
  <2>5. CASE /\ ~ReadCompleted(g) /\ ~ReaderFinish(g)
             /\ ~ReaderCallback(g) /\ ~ReaderOrphan(g)
    <3>1. reader'[g] = reader[g] \/ reader'[g].turn = None
      BY <2>5, ReaderKeeps
    <3> QED BY <1>2, <1>a, <2>1, <3>1
  <2> QED BY <2>2, <2>3, <2>4, <2>5
<1> QED BY <1>1, <1>2, <1>d DEF IdleFollows, Waiting

\* When a turn ends, whoever hears of it has the message.
LEMMA EndIsPosted ==
  ASSUME Authority, NEW t \in Starts, NEW outcome \in TurnOutcomes, EndTurn(t, outcome),
         NEW g \in Generations, NEW first \in BOOLEAN,
         <<g, t, first>> \in announced', <<g, t, first>> \notin announced
  PROVE  /\ Len(inbox[g]) \in Nat /\ Len(inbox'[g]) = Len(inbox[g]) + 2
         /\ \A i \in 1..Len(inbox[g]) : inbox'[g][i] = inbox[g][i]
         /\ first => inbox'[g][Len(inbox[g]) + 2] = Completed(t)
         /\ ~first => /\ inbox'[g][Len(inbox[g]) + 1] = Completed(t)
                      /\ inbox'[g][Len(inbox[g]) + 2] = Idle(t)
         /\ UNCHANGED <<reader, call>>
<1>1. /\ \E f \in IdleFirst : Heralds(t, f)
      /\ inbox \in [Generations -> Seq(Message)]
      /\ Completed(t) \in Message /\ Idle(t) \in Message
      /\ UNCHANGED <<reader, call>>
  BY EndTurnStep DEF Authority
<1>2. PICK f \in IdleFirst : Heralds(t, f)
  BY <1>1
<1>3. f = first /\ Hears(g, t)
  BY <1>2 DEF Heralds
<1> HIDE DEF Message
<1>4. CASE first
  <2>1. inbox'[g] = inbox[g] \o <<Idle(t), Completed(t)>>
    BY <1>2, <1>3, <1>4 DEF Heralds
  <2> QED BY <1>1, <1>4, <2>1, TwoAt
<1>5. CASE ~first
  <2>1. inbox'[g] = inbox[g] \o <<Completed(t), Idle(t)>>
    BY <1>2, <1>3, <1>5 DEF Heralds
  <2> QED BY <1>1, <1>5, <2>1, TwoAt
<1> QED BY <1>4, <1>5

\* What is announced has happened, and idleness follows completion unless it came first.
LEMMA NextHeralded ==
  ASSUME Authority, NEW t \in Starts, OneRequest(t), EndSeen(t) => Ended(t), Heralded(t),
         [Next]_vars
  PROVE  Heralded(t)'
<1>a. TypeOK /\ Connections /\ Askers /\ t # None
  BY ConstantsAssumption DEF Authority
<1> SUFFICES ASSUME NEW g \in Generations, NEW first \in BOOLEAN, <<g, t, first>> \in announced'
             PROVE  Ended(t)' /\ (~first => IdleFollows(g, t)')
  BY DEF Heralded
<1>1. CASE <<g, t, first>> \in announced
  <2>1. Ended(t) /\ (~first => IdleFollows(g, t))
    BY <1>1 DEF Heralded
  <2>2. Ended(t)'
    BY <2>1, EndedStays
  <2>3. ~first => IdleFollows(g, t)'
    BY <2>1, IdleStillFollows
  <2> QED BY <2>2, <2>3
<1>2. ASSUME NEW outcome \in TurnOutcomes, EndTurn(t, outcome), <<g, t, first>> \notin announced
      PROVE  Ended(t)' /\ (~first => IdleFollows(g, t)')
  <2>1. turn[t] = "running" /\ turn'[t] = outcome
    BY <1>a, <1>2, EndTurnStep
  <2>2. Ended(t)'
    BY <2>1, ConstantsAssumption DEF Ended
  <2>3. ~EndSeen(t)
    BY <2>1 DEF Ended, TerminalStatuses
  <2>4. /\ Len(inbox[g]) \in Nat /\ Len(inbox'[g]) = Len(inbox[g]) + 2
        /\ \A i \in 1..Len(inbox[g]) : inbox'[g][i] = inbox[g][i]
        /\ ~first => /\ inbox'[g][Len(inbox[g]) + 1] = Completed(t)
                     /\ inbox'[g][Len(inbox[g]) + 2] = Idle(t)
        /\ UNCHANGED <<reader, call>>
    BY <1>2, EndIsPosted
  <2>5. reader'[g].turn # t
    BY <2>3, <2>4 DEF EndSeen
  <2>6. \A i \in 1..Len(inbox[g]) : inbox[g][i] # Completed(t)
    BY <2>3 DEF EndSeen, Posted, Waiting, Completed
  <2>7. Idle(t)' = Idle(t) /\ Idle(t) # Completed(t)
    BY <2>4 DEF Idle, Completed
  <2>8. ASSUME ~first, NEW i \in Nat, i \in 1..Len(inbox'[g]), inbox'[g][i] = Completed(t)
        PROVE  \E j \in Nat : j > i /\ j \in 1..Len(inbox'[g]) /\ inbox'[g][j] = Idle(t)
    <3>1. i = Len(inbox[g]) + 1
      <4>1. i \in 1..Len(inbox[g]) \/ i = Len(inbox[g]) + 1 \/ i = Len(inbox[g]) + 2
        BY <2>4, <2>8
      <4> QED BY <2>4, <2>6, <2>7, <2>8, <4>1
    <3>2. Len(inbox[g]) + 2 \in 1..Len(inbox'[g]) /\ Len(inbox[g]) + 2 > i
      BY <2>4, <3>1
    <3> QED BY <2>4, <2>8, <3>2
  <2>9. ~first => Behind(g, Completed(t), Idle(t))'
    BY <2>7, <2>8 DEF Behind
  <2> QED BY <2>2, <2>5, <2>9 DEF IdleFollows
<1> QED BY <1>1, <1>2, AnnouncedMoves

-----------------------------------------------------------------------------
(* Whoever looks for an end goes on looking.                               *)

\* A completion that has arrived is in the reader's hand if it was not dropped.
LEMMA CompletedIsHeld ==
  ASSUME Authority, NEW t \in Starts, NEW g \in Generations, link[g] = "up",
         ~Buried(t), Waiting(g, Completed(t)), [Next]_vars
  PROVE  Waiting(g, Completed(t))' \/ reader'[g].turn = t
<1>a. TypeOK /\ Connections /\ Askers /\ g = generation
  BY UpIsCurrent DEF Authority
<1>b. Completed(t).kind = "completed" /\ Completed(t).turn = t
  BY DEF Completed
<1>1. \E i \in 1..Len(inbox[g]) : inbox[g][i] = Completed(t)
  BY DEF Waiting
<1>2. CASE \E i \in 1..Len(inbox'[g]) : inbox'[g][i] = Completed(t)
  BY <1>2 DEF Waiting
<1>3. CASE Pops(g, Completed(t)) /\ (ReadResponse(g) \/ ReadCompleted(g) \/ ReadIdle(g))
  <2>1. Head(inbox[g]) = Completed(t)
    BY <1>3 DEF Pops
  <2>2. ReadCompleted(g)
    BY <1>a, <1>b, <1>3, <2>1, ReadResponseStep, ReadIdleStep
  <2>3. ReaderTo(g, "finish", t)
    BY <1>a, <1>b, <2>1, <2>2, ReadCompletedStep DEF Buried
  <2> QED BY <2>3 DEF ReaderTo
<1> QED BY <1>1, <1>2, <1>3, WaitingMoves

\* A reader keeps the turn it has in hand until it has called or stored it.
LEMMA HeldMoves ==
  ASSUME Authority, NEW t \in Starts, NEW g \in Generations, reader[g].turn = t,
         ~ReaderHas(g, t), [Next]_vars
  PROVE  reader'[g].turn = t \/ ReaderOrphan(g)
<1>a. TypeOK /\ Connections /\ Askers /\ t # None
  BY ConstantsAssumption DEF Authority
<1>1. ~ReadCompleted(g)
  BY <1>a, ReadCompletedStep, ReaderTypes
<1>2. ~ReaderCallback(g)
  BY <1>a, ReaderCallbackStep DEF ReaderHas
<1>3. CASE ReaderFinish(g)
  BY <1>a, <1>3, ReaderFinishStep DEF ReaderTo
<1>4. CASE ~ReaderFinish(g) /\ ~ReaderOrphan(g)
  BY <1>a, <1>1, <1>2, <1>4, ReaderKeeps
<1> QED BY <1>3, <1>4

\* The caller of a turn that has ended can find the end until it registers the turn.
LEMMA NextUnread ==
  ASSUME Authority, NEW t \in Starts, NEW g \in Generations, link[g] = "up",
         call[t].pc = "start", call'[t].pc = "start", Unread(g, t), [Next]_vars
  PROVE  Unread(g, t)'
<1>a. TypeOK /\ Connections /\ Askers
  BY DEF Authority
<1>1. ~Buried(t) /\ ~ReaderHas(g, t)
  BY DEF Authority, Holders, Involved, Registered
<1>2. ~Register(t)
  BY <1>a, RegisterStep DEF CallTo
<1>3. CASE Waiting(g, Completed(t))
  <2>1. Waiting(g, Completed(t))' \/ reader'[g].turn = t
    BY <1>1, <1>3, CompletedIsHeld
  <2> QED BY <2>1 DEF Unread, Waiting, Completed
<1>4. CASE reader[g].turn = t
  <2>1. CASE reader'[g].turn = t
    BY <2>1 DEF Unread
  <2>2. CASE ReaderOrphan(g)
    <3>1. <<g, t>> \in orphans'
      BY <1>a, <1>1, <1>4, <2>2, ReaderOrphanStep DEF Buried
    <3> QED BY <3>1 DEF Unread
  <2> QED BY <1>1, <1>4, <2>1, <2>2, HeldMoves
<1>5. CASE <<g, t>> \in orphans
  <2>1. <<g, t>> \in orphans'
    BY <1>2, <1>5, OrphanStays
  <2> QED BY <2>1 DEF Unread
<1> QED BY <1>3, <1>4, <1>5 DEF Unread

\* Somebody goes on looking for the end of a turn whose callback is registered.
LEMMA NextSought ==
  ASSUME Authority, NEW t \in Starts, OneRequest(t), Fences(t),
         NEW g \in Generations, link[g] = "up", call[t].on = g, NEW first \in BOOLEAN,
         ~first => IdleFollows(g, t), t \in watched, t \in watched',
         Sought(g, t, first), [Next]_vars
  PROVE  Sought(g, t, first)'
<1>a. TypeOK /\ Connections /\ Askers /\ g = generation /\ connected
  BY UpIsCurrent DEF Authority, Connections
<1>b. Registered(t) /\ OneHolder(t)
  BY DEF Authority, Holders, Involved
<1>c. ~Buried(t) /\ ~ReaderHas(g, t) /\ probe[t].pc # "callback"
  BY <1>b DEF Fences, OneHolder
<1>d. call[t].pc # "start" /\ ~Register(t)
  <2>1. call[t].pc # "start"
    BY <1>b DEF Registered
  <2> QED BY <1>a, <2>1, RegisterStep
<1>e. PICK d : d = Idle(t)
  OBVIOUS
<1>f. Idle(t)' = d /\ Idle(t) = d /\ d.kind = "idle"
  <2>1. turn[t] # "none"
    BY <1>b DEF OneRequest, Placed
  <2> QED BY <1>e, <2>1, CallStays DEF Idle
<1>g. (\E j \in 1..Len(inbox'[g]) : inbox'[g][j] = d) => Sought(g, t, first)'
  BY <1>f DEF Sought, Waiting
<1>1. CASE Waiting(g, Completed(t))
  <2>1. Waiting(g, Completed(t))' \/ reader'[g].turn = t
    BY <1>1, <1>c, CompletedIsHeld
  <2> QED BY <2>1 DEF Sought, Waiting, Completed
<1>2. CASE Waiting(g, Idle(t))
  <2>1. \E j \in 1..Len(inbox[g]) : inbox[g][j] = d
    BY <1>2, <1>f DEF Waiting
  <2>2. CASE Pops(g, d) /\ (ReadResponse(g) \/ ReadCompleted(g) \/ ReadIdle(g))
    <3>1. Head(inbox[g]) = d
      BY <2>2 DEF Pops
    <3>2. ReadIdle(g)
      <4>1. ~ReadResponse(g)
        BY <1>a, <1>f, <3>1, ReadResponseStep
      <4>2. ASSUME ReadCompleted(g)
            PROVE  FALSE
        <5>1. Pops(g, Completed(Head(inbox[g]).turn))
          BY <1>a, <4>2, ReadCompletedStep
        <5>2. d = Completed(Head(inbox[g]).turn)
          BY <3>1, <5>1 DEF Pops
        <5> QED BY <1>f, <5>2 DEF Completed
      <4> QED BY <2>2, <4>1, <4>2
    <3>3. probe'[t].pc # "none"
      BY <1>a, <1>f, <3>1, <3>2, ReadIdleStep
    <3> QED BY <3>3 DEF Sought
  <2> QED BY <1>g, <2>1, <2>2, WaitingMoves
<1>3. CASE reader[g].turn = t
  <2>1. CASE reader'[g].turn = t
    BY <2>1 DEF Sought
  <2>2. CASE ReaderOrphan(g)
    <3>1. reader[g].pc = "orphan" /\ inbox' = inbox /\ <<g, t>> \in orphans'
      BY <1>a, <1>c, <1>3, <2>2, ReaderOrphanStep DEF Buried
    <3>2. CASE first
      BY <3>1, <3>2 DEF Sought
    <3>3. CASE ~first
      <4>1. \E j \in 1..Len(inbox[g]) : inbox[g][j] = d
        BY <1>3, <1>f, <3>1, <3>3 DEF IdleFollows, Waiting
      <4> QED BY <1>g, <3>1, <4>1
    <3> QED BY <3>2, <3>3
  <2> QED BY <1>c, <1>3, <2>1, <2>2, HeldMoves
<1>4. CASE call[t].pc = "merge"
  <2>1. ~Merge(t)
    BY <1>a, MergeStep DEF Takes, Misses
  <2>2. call'[t].pc = "merge"
    BY <1>4, <2>1, MergeStays
  <2> QED BY <2>2 DEF Sought
<1>5. CASE probe[t].pc # "none"
  <2>1. probe[t].on = generation
    <3>1. probe[t].on \in 0..MaxGeneration /\ generation \in 0..MaxGeneration
      BY <1>a, ProbeTypes DEF TypeOK
    <3> QED BY <1>a, <1>5, <3>1, ConstantsAssumption DEF Fences, Aimed
  <2>2. probe'[t].pc # "none"
    BY <1>a, <1>c, <1>5, <2>1, ProbeStays DEF Fenced
  <2> QED BY <2>2 DEF Sought
<1>6. CASE first /\ <<g, t>> \in orphans
  <2>1. <<g, t>> \in orphans'
    BY <1>d, <1>6, OrphanStays
  <2> QED BY <1>6, <2>1 DEF Sought
<1> QED BY <1>1, <1>2, <1>3, <1>4, <1>5, <1>6 DEF Sought

\* The end of a turn that is announced over its living connection is not lost.
LEMMA NextFollowed ==
  ASSUME Authority, NEW t \in Starts, OneRequest(t), Fences(t), Heralded(t), Followed(t),
         EndSeen(t) => Ended(t), [Next]_vars
  PROVE  Followed(t)'
<1>a. TypeOK /\ Connections /\ Askers /\ Calls /\ generation \in Nat
  BY ConstantsAssumption DEF Authority, TypeOK
<1> SUFFICES ASSUME NEW g \in Generations, NEW first \in BOOLEAN, <<g, t, first>> \in announced',
                    g = call'[t].on, link'[g] = "up"
             PROVE  /\ call'[t].pc = "start" => Unread(g, t)'
                    /\ t \in watched' => Sought(g, t, first)'
  BY DEF Followed
<1>1. ASSUME NEW outcome \in TurnOutcomes, EndTurn(t, outcome), <<g, t, first>> \notin announced
      PROVE  Waiting(g, Completed(t))'
  <2>1. /\ Len(inbox[g]) \in Nat /\ Len(inbox'[g]) = Len(inbox[g]) + 2
        /\ first => inbox'[g][Len(inbox[g]) + 2] = Completed(t)
        /\ ~first => inbox'[g][Len(inbox[g]) + 1] = Completed(t)
    BY <1>1, EndIsPosted
  <2>2. Len(inbox[g]) + 1 \in 1..Len(inbox'[g]) /\ Len(inbox[g]) + 2 \in 1..Len(inbox'[g])
    BY <2>1
  <2>3. \E i \in 1..Len(inbox'[g]) : inbox'[g][i] = Completed(t)
    <3>1. PICK i \in 1..Len(inbox'[g]) : inbox'[g][i] = Completed(t)
      <4>1. CASE first
        BY <2>1, <2>2, <4>1
      <4>2. CASE ~first
        BY <2>1, <2>2, <4>2
      <4> QED BY <4>1, <4>2
    <3> QED BY <3>1
  <2> QED BY <2>3 DEF Waiting, Completed
<1>2. CASE Waiting(g, Completed(t))'
  BY <1>2 DEF Unread, Sought
<1>3. CASE <<g, t, first>> \in announced
  <2>1. Ended(t) /\ (~first => IdleFollows(g, t))
    BY <1>3 DEF Heralded
  <2>2. turn[t] # "none"
    BY <2>1 DEF Ended, TerminalStatuses
  <2>3. g = call[t].on
    BY <2>2, CallStays
  <2>4. link[g] = "up"
    <3>1. link[g] # "down"
      BY LinksAge
    <3>2. ~(g > generation)
      BY <1>a, <2>3 DEF Calls, CallConsistent
    <3>3. link[g] # "none"
      BY <1>a, <3>2 DEF Connections
    <3> QED BY <1>a, <3>1, <3>3, LinkTypes
  <2>5. /\ call[t].pc = "start" => Unread(g, t)
        /\ t \in watched => Sought(g, t, first)
    BY <1>3, <2>3, <2>4 DEF Followed
  <2>6. ASSUME call'[t].pc = "start"
        PROVE  Unread(g, t)'
    <3>1. call[t].pc = "start"
      BY <2>2, <2>6, StartsOnce
    <3> QED BY <2>4, <2>5, <2>6, <3>1, NextUnread
  <2>7. ASSUME Register(t)
        PROVE  Sought(g, t, first)'
    <3>1. /\ call[t].pc = "start" /\ UNCHANGED <<inbox, reader>>
          /\ <<generation, t>> \in orphans => CallTo(t, "merge", call[t].on)
      BY <1>a, <2>7, RegisterStep
    <3>2. Unread(g, t)
      BY <2>5, <3>1
    <3>3. CASE Waiting(g, Completed(t))
      BY <3>1, <3>3 DEF Sought, Waiting, Completed
    <3>4. CASE reader[g].turn = t
      BY <3>1, <3>4 DEF Sought
    <3>5. CASE <<g, t>> \in orphans
      <4>1. g = generation
        BY <2>4, UpIsCurrent
      <4>2. call'[t].pc = "merge"
        BY <3>1, <3>5, <4>1 DEF CallTo
      <4> QED BY <4>2 DEF Sought
    <3> QED BY <3>2, <3>3, <3>4, <3>5 DEF Unread
  <2>8. ASSUME t \in watched', ~Register(t)
        PROVE  Sought(g, t, first)'
    <3>1. t \in watched
      BY <2>8, WatchedMoves
    <3>2. Sought(g, t, first)
      BY <2>5, <3>1
    <3> QED BY <2>1, <2>3, <2>4, <2>8, <3>1, <3>2, NextSought
  <2> QED BY <2>6, <2>7, <2>8
<1> QED BY <1>1, <1>2, <1>3, AnnouncedMoves

\* Every turn's end is accounted for from its announcement to its callback.
Attentive ==
  /\ Accounted
  /\ \A s \in Starts : Fences(s) /\ Heralded(s) /\ Followed(s)

\* The invariant that EndIsAttended rests on holds at every step.
THEOREM AlwaysAttentive == Spec => []Attentive
<1>1. Init => \A s \in Starts : Fences(s) /\ Heralded(s) /\ Followed(s)
  BY DEF Init, Fences, Aimed, Heralded, Followed, NoProbe
<1>2. Attentive /\ Accounted' /\ [Next]_vars => Attentive'
  <2> SUFFICES ASSUME Attentive, Accounted', [Next]_vars
               PROVE  Attentive'
    OBVIOUS
  <2>1. /\ Authority
        /\ \A s \in Starts : OneRequest(s) /\ (EndSeen(s) => Ended(s))
        /\ \A s \in Starts : Fences(s) /\ Heralded(s) /\ Followed(s)
    BY DEF Attentive, Accounted
  <2>2. ASSUME NEW s \in Starts
        PROVE  Fences(s)' /\ Heralded(s)' /\ Followed(s)'
    <3>1. /\ OneRequest(s) /\ (EndSeen(s) => Ended(s))
          /\ Fences(s) /\ Heralded(s) /\ Followed(s)
      BY <2>1
    <3>2. Fences(s)'
      BY <2>1, <3>1, NextFences
    <3>3. Heralded(s)'
      BY <2>1, <3>1, NextHeralded
    <3>4. Followed(s)'
      BY <2>1, <3>1, NextFollowed
    <3> QED BY <3>2, <3>3, <3>4
  <2> QED BY <2>2 DEF Attentive
<1> QED BY <1>1, <1>2, AlwaysAccounted, PTL DEF Spec, Attentive

\* No end is lost on a living connection: if it was announced over the connection the
\* callback is registered on, the reader, the caller merging an orphan, or a probe is going
\* to call it, or the reader when it notices that the link is down; only an end announced
\* after its thread's idleness may stay with the orphans (transport.py:293-330, 556-640).
THEOREM EndsAreAttended == Spec => []EndIsAttended
<1>1. Attentive => EndIsAttended
  <2> SUFFICES ASSUME Attentive, NEW s \in watched, connected, call[s].on = generation,
                      NEW first \in BOOLEAN, <<generation, s, first>> \in announced
               PROVE  \/ Attended(generation, s)
                      \/ first /\ <<generation, s>> \in orphans
    BY DEF EndIsAttended
  <2>1. /\ Authority /\ TypeOK /\ s \in Starts
        /\ Fences(s) /\ Followed(s)
    BY DEF Attentive, Accounted, Authority, TypeOK
  <2>2. Registered(s) /\ generation \in Generations
    <3>1. Registered(s)
      BY <2>1 DEF Authority, Holders, Involved
    <3>2. generation # 0 /\ generation \in 0..MaxGeneration
      BY <2>1 DEF Authority, Connections, TypeOK
    <3> QED BY <3>1, <3>2, ConstantsAssumption DEF Generations
  <2>3. CASE link[generation] = "up"
    <3>1. Sought(generation, s, first)
      BY <2>1, <2>2, <2>3 DEF Followed
    <3>2. probe[s].pc # "none" => probe[s].on = generation
      <4>1. probe[s].on \in 0..MaxGeneration /\ generation \in 0..MaxGeneration
        BY <2>1, ProbeTypes DEF TypeOK
      <4> QED BY <2>1, <4>1, ConstantsAssumption DEF Fences, Aimed
    <3> QED BY <3>1, <3>2 DEF Sought, Attended, Completed, Idle
  <2>4. CASE link[generation] # "up"
    <3>1. link[generation] = "down"
      BY <2>1, <2>2, <2>4, LossIsReason
    <3> QED BY <3>1 DEF Attended
  <2> QED BY <2>3, <2>4
<1> QED BY <1>1, AlwaysAttentive, PTL

=============================================================================
