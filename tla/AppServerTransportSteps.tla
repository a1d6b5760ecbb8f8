----------------------- MODULE AppServerTransportSteps -----------------------
(***************************************************************************)
(* What each step of AppServerTransport does, variable by variable: the    *)
(* lemmas AppServerTransportProofs rests on, and type correctness of a     *)
(* step.                                                                   *)
(***************************************************************************)
EXTENDS AppServerTransportProperties, SequenceTheorems, TLAPS

-----------------------------------------------------------------------------
(* What the types of a step rest on.                                       *)

\* The connection in use is the only one that may be up.
Connections ==
  /\ connected => generation # 0
  /\ \A g \in Generations :
       /\ link[g] = "up" => connected /\ g = generation
       /\ link[g] = "none" <=> g > generation
       /\ reader[g].pc = "none" <=> g > generation
       /\ reader[g].pc \in {"last", "gone"} => link[g] = "down"

\* Whoever has a request on the wire, or a turn, has a thread.
Askers ==
  /\ \A g \in Generations : \A i \in 1..Len(outbox[g]) :
       outbox[g][i].from # None => call[outbox[g][i].from].pc # "none"
  /\ \A s \in Starts : turn[s] # "none" => call[s].pc # "none"
  /\ \A s \in Starts : call[s].pc # "none" => call[s].thread \in Threads

\* What the App Server announces when the turn s ends.
Completed(s) == [kind |-> "completed", turn |-> s]
Idle(s) == [kind |-> "idle", thread |-> call[s].thread]

-----------------------------------------------------------------------------
(* What the operators the actions are built from do.                       *)

\* A caller goes on; where it is bound for stays.
LEMMA GoesEffect ==
  ASSUME TypeOK, NEW s \in Starts, NEW pc \in {"merge", "callback", "return", "done"},
         Goes(s, pc)
  PROVE  /\ call' \in [Starts -> CallRecord]
         /\ call'[s].pc = pc /\ call'[s].thread = call[s].thread /\ call'[s].on = call[s].on
         /\ \A x \in Starts \ {s} : call'[x] = call[x]
<1> DEFINE w == [call[s] EXCEPT !.pc = pc]
<1>1. call' = [call EXCEPT ![s] = w]
  BY DEF Goes
<1>2. call \in [Starts -> CallRecord]
  BY DEF TypeOK
<1>3. /\ w \in CallRecord
      /\ w.pc = pc /\ w.thread = call[s].thread /\ w.on = call[s].on
  <2>1. call[s] \in CallRecord
    BY <1>2
  <2> QED BY <2>1 DEF CallRecord
<1> HIDE DEF w
<1> QED BY <1>1, <1>2, <1>3

\* A call ends with its answer.
LEMMA EndsEffect ==
  ASSUME TypeOK, NEW s \in Starts, NEW how \in {"returned", "rejected", "unknown"},
         Ends(s, how)
  PROVE  /\ call' \in [Starts -> CallRecord]
         /\ call'[s].pc = "done" /\ call'[s].thread = call[s].thread
         /\ call'[s].on = call[s].on
         /\ \A x \in Starts \ {s} : call'[x] = call[x]
         /\ answer' \in [Starts -> {"none", "waiting", "returned", "rejected", "unknown"}]
         /\ answer'[s] = how
         /\ \A x \in Starts \ {s} : answer'[x] = answer[x]
<1>1. Goes(s, "done") /\ answer' = [answer EXCEPT ![s] = how]
  BY DEF Ends
<1>2. answer \in [Starts -> {"none", "waiting", "returned", "rejected", "unknown"}]
  BY DEF TypeOK
<1> QED BY <1>1, <1>2, GoesEffect

\* A probe goes on with the connection and the verdict it has.
LEMMA ProbeAtEffect ==
  ASSUME TypeOK, NEW s \in Starts,
         NEW pc \in {"list", "connected", "initialize", "finish", "callback"},
         ProbeAt(s, pc)
  PROVE  /\ probe' \in [Starts -> ProbeRecord]
         /\ probe'[s].pc = pc /\ probe'[s].on = probe[s].on
         /\ probe'[s].says = probe[s].says
         /\ \A x \in Starts \ {s} : probe'[x] = probe[x]
<1> DEFINE w == [probe[s] EXCEPT !.pc = pc]
<1>1. probe' = [probe EXCEPT ![s] = w]
  BY DEF ProbeAt
<1>2. probe \in [Starts -> ProbeRecord]
  BY DEF TypeOK
<1>3. w \in ProbeRecord /\ w.pc = pc /\ w.on = probe[s].on /\ w.says = probe[s].says
  <2>1. probe[s] \in ProbeRecord
    BY <1>2
  <2> QED BY <2>1 DEF ProbeRecord
<1> HIDE DEF w
<1> QED BY <1>1, <1>2, <1>3

\* A probe that ends leaves its place free.
LEMMA ProbeEndsEffect ==
  ASSUME TypeOK, NEW s \in Starts, ProbeEnds(s)
  PROVE  /\ probe' \in [Starts -> ProbeRecord]
         /\ probe'[s].pc = "none"
         /\ \A x \in Starts \ {s} : probe'[x] = probe[x]
<1>1. NoProbe \in ProbeRecord /\ NoProbe.pc = "none"
  BY ConstantsAssumption DEF NoProbe, ProbeRecord
<1> HIDE DEF NoProbe
<1> QED BY <1>1 DEF ProbeEnds, TypeOK

\* A reader that takes a turn in hand.
LEMMA HoldsEffect ==
  ASSUME TypeOK, NEW g \in Generations, NEW pc, NEW s,
         [pc |-> pc, turn |-> s] \in Reader, Holds(g, pc, s)
  PROVE  /\ reader' \in [Generations -> Reader]
         /\ reader'[g].pc = pc /\ reader'[g].turn = s
         /\ \A h \in Generations \ {g} : reader'[h] = reader[h]
<1> HIDE DEF Reader
<1> QED BY DEF Holds, TypeOK

\* A reader back at its loop has no turn in hand.
LEMMA ResumeEffect ==
  ASSUME TypeOK, NEW g \in Generations, Resume(g)
  PROVE  /\ reader' \in [Generations -> Reader]
         /\ reader'[g].pc = IF Current(g) THEN "receive" ELSE "last"
         /\ reader'[g].turn = None
         /\ \A h \in Generations \ {g} : reader'[h] = reader[h]
<1> DEFINE w == [pc |-> IF Current(g) THEN "receive" ELSE "last", turn |-> None]
<1>1. w \in Reader /\ w.pc = (IF Current(g) THEN "receive" ELSE "last") /\ w.turn = None
  BY DEF Reader
<1>2. reader' = [reader EXCEPT ![g] = w]
  BY DEF Resume
<1> HIDE DEF w
<1> QED BY <1>1, <1>2 DEF TypeOK

\* A callback is called once more.
LEMMA TellEffect ==
  ASSUME TypeOK, NEW s \in Starts, NEW status \in TerminalStatuses \cup {"unknown"},
         Tell(s, status)
  PROVE  /\ told' \in [Starts -> Seq(TerminalStatuses \cup {"unknown"})]
         /\ told'[s] = Append(told[s], status)
         /\ \A x \in Starts \ {s} : told'[x] = told[x]
<1> DEFINE S == TerminalStatuses \cup {"unknown"}
<1>1. told \in [Starts -> Seq(S)]
  BY DEF TypeOK
<1>2. Append(told[s], status) \in Seq(S)
  BY <1>1
<1> HIDE DEF S
<1> QED BY <1>1, <1>2 DEF Tell, S

\* A lost connection answers every open request with an error.
LEMMA DroppedEffect ==
  ASSUME TypeOK, NEW by, slot' = Dropped(by)
  PROVE  /\ slot' \in [Starts -> Verdicts \cup {"none", "waiting", "lost"}]
         /\ \A x \in Starts : x = by => slot'[x] = "none"
         /\ \A x \in Starts : x # by =>
              slot'[x] = IF slot[x] = "waiting" THEN "lost" ELSE slot[x]
<1>1. slot \in [Starts -> Verdicts \cup {"none", "waiting", "lost"}]
  BY DEF TypeOK
<1>2. \A x \in Starts :
        /\ x = by => Dropped(by)[x] = "none"
        /\ x # by => Dropped(by)[x] = IF slot[x] = "waiting" THEN "lost" ELSE slot[x]
  BY <1>1 DEF Dropped
<1> QED BY <1>1, <1>2 DEF Dropped

\* The head of an inbox leaves it.
LEMMA ReceivesEffect ==
  ASSUME TypeOK, NEW g \in Generations, NEW kind, Receives(g, kind)
  PROVE  /\ reader[g].pc = "receive"
         /\ inbox[g] # <<>> /\ inbox[g] \in Seq(Message)
         /\ Head(inbox[g]) \in Message /\ Head(inbox[g]).kind = kind
         /\ inbox' \in [Generations -> Seq(Message)]
         /\ inbox'[g] = Tail(inbox[g])
         /\ \A h \in Generations \ {g} : inbox'[h] = inbox[h]
<1>1. inbox \in [Generations -> Seq(Message)] /\ inbox[g] # <<>>
  BY DEF TypeOK, Receives
<1>2. Head(inbox[g]) \in Message /\ Tail(inbox[g]) \in Seq(Message)
  BY <1>1
<1> HIDE DEF Message
<1> QED BY <1>1, <1>2 DEF Receives

\* The request sent, in its place.
LEMMA DueTypes ==
  ASSUME TypeOK, NEW s \in Starts
  PROVE  /\ Due(s) \in Methods \cup {"none", "register"}
         /\ Due(s) \in {"read", "reread"} => call[s].pc \in {"begin", "initialize", "resume"}
         /\ Due(s) = "register" <=> call[s].pc = "start" /\ slot[s] = "idle"
         /\ Due(s) = "start" <=> call[s].pc = "reread" /\ slot[s] = "idle"
         /\ Due(s) # "none" => \/ call[s].pc \in {"begin", "connected"}
                               \/ call[s].pc \in Methods /\ slot[s] = "idle"
<1>1. call[s] \in CallRecord
  BY DEF TypeOK
<1>2. CASE call[s].pc \in {"begin", "connected"}
  BY <1>1, <1>2 DEF Due, Methods
<1>3. CASE call[s].pc \in Methods /\ slot[s] = "idle"
  <2>1. Due(s) = After(s)
    BY <1>3 DEF Due, Methods
  <2> QED BY <1>1, <1>3, <2>1 DEF After, Methods, CallRecord
<1>4. CASE /\ ~(call[s].pc \in {"begin", "connected"})
           /\ ~(call[s].pc \in Methods /\ slot[s] = "idle")
  BY <1>1, <1>4 DEF Due, Methods
<1> QED BY <1>2, <1>3, <1>4

\* A turn's status, as handed to a callback.
LEMMA StatusTypes ==
  ASSUME TypeOK, NEW s \in Starts
  PROVE  CallbackStatus(s) \in TerminalStatuses \cup {"unknown"}
BY DEF CallbackStatus, TypeOK

\* A caller begins.
LEMMA BeginEffect ==
  ASSUME TypeOK, NEW s \in Starts, NEW th \in Threads, Begin(s, th)
  PROVE  /\ call[s].pc = "none"
         /\ call' \in [Starts -> CallRecord]
         /\ call'[s].pc = "begin" /\ call'[s].thread = th /\ call'[s].on = 0
         /\ \A x \in Starts \ {s} : call'[x] = call[x]
         /\ answer' \in [Starts -> {"none", "waiting", "returned", "rejected", "unknown"}]
         /\ answer'[s] = "waiting"
         /\ \A x \in Starts \ {s} : answer'[x] = answer[x]
<1> DEFINE w == [pc |-> "begin", thread |-> th, next |-> "none", on |-> 0]
<1>1. /\ w \in CallRecord
      /\ w.pc = "begin" /\ w.thread = th /\ w.on = 0
  BY ConstantsAssumption DEF CallRecord
<1>2. call' = [call EXCEPT ![s] = w] /\ answer' = [answer EXCEPT ![s] = "waiting"]
  BY DEF Begin
<1> HIDE DEF w
<1>3. /\ call' \in [Starts -> CallRecord] /\ call'[s] = w
      /\ \A x \in Starts \ {s} : call'[x] = call[x]
  BY <1>1, <1>2 DEF TypeOK
<1>4. /\ answer' \in [Starts -> {"none", "waiting", "returned", "rejected", "unknown"}]
      /\ answer'[s] = "waiting" /\ \A x \in Starts \ {s} : answer'[x] = answer[x]
  BY <1>2 DEF TypeOK
<1> QED BY <1>1, <1>3, <1>4 DEF Begin

\* A new connection, and its reader.
LEMMA OpensEffect ==
  ASSUME TypeOK, Opens
  PROVE  /\ connected' = TRUE /\ stopping' = FALSE
         /\ generation' = generation + 1 /\ generation' \in Generations
         /\ generation' \in 0..MaxGeneration
         /\ link' \in [Generations -> {"none", "up", "down"}]
         /\ link'[generation'] = "up"
         /\ \A h \in Generations \ {generation'} : link'[h] = link[h]
         /\ reader' \in [Generations -> Reader]
         /\ reader'[generation'].pc = "receive" /\ reader'[generation'].turn = None
         /\ \A h \in Generations \ {generation'} : reader'[h] = reader[h]
<1> DEFINE r == [pc |-> "receive", turn |-> None]
<1>1. /\ generation' = generation + 1 /\ generation' \in Generations
      /\ generation' \in 0..MaxGeneration
  BY ConstantsAssumption DEF Opens, TypeOK, Generations
<1>2. /\ connected' = TRUE /\ stopping' = FALSE
      /\ link' = [link EXCEPT ![generation'] = "up"]
      /\ reader' = [reader EXCEPT ![generation'] = r]
  BY DEF Opens
<1>3. r \in Reader /\ r.pc = "receive" /\ r.turn = None
  BY DEF Reader
<1> HIDE DEF r
<1>4. /\ link' \in [Generations -> {"none", "up", "down"}]
      /\ link'[generation'] = "up"
      /\ \A h \in Generations \ {generation'} : link'[h] = link[h]
  BY <1>1, <1>2 DEF TypeOK
<1>5. /\ reader' \in [Generations -> Reader]
      /\ reader'[generation'] = r
      /\ \A h \in Generations \ {generation'} : reader'[h] = reader[h]
  BY <1>1, <1>2, <1>3 DEF TypeOK
<1> QED BY <1>1, <1>2, <1>3, <1>4, <1>5

\* A caller makes the connection.
LEMMA ConnectEffect ==
  ASSUME TypeOK, NEW s \in Starts, Connect(s)
  PROVE  /\ Connecting(s) /\ ~connected /\ Due(s) \in {"read", "reread"}
         /\ generation' = generation + 1 /\ generation' \in Generations
         /\ link' \in [Generations -> {"none", "up", "down"}]
         /\ link'[generation'] = "up"
         /\ \A h \in Generations \ {generation'} : link'[h] = link[h]
         /\ reader' \in [Generations -> Reader]
         /\ reader'[generation'].pc = "receive" /\ reader'[generation'].turn = None
         /\ \A h \in Generations \ {generation'} : reader'[h] = reader[h]
         /\ call' \in [Starts -> CallRecord]
         /\ call'[s].pc = "connected" /\ call'[s].thread = call[s].thread
         /\ call'[s].on = call[s].on
         /\ \A x \in Starts \ {s} : call'[x] = call[x]
         /\ slot' \in [Starts -> Verdicts \cup {"none", "waiting", "lost"}]
         /\ slot'[s] = "none"
         /\ \A x \in Starts \ {s} : slot'[x] = slot[x]
<1> DEFINE w == [call[s] EXCEPT !.pc = "connected", !.next = Due(s)]
<1>1. Connecting(s) /\ ~connected /\ Due(s) \in {"read", "reread"} /\ Opens
  BY DEF Connect, Connecting
<1>2. call' = [call EXCEPT ![s] = w] /\ slot' = [slot EXCEPT ![s] = "none"]
  BY DEF Connect
<1>3. /\ w \in CallRecord
      /\ w.pc = "connected" /\ w.thread = call[s].thread /\ w.on = call[s].on
  <2>1. call[s] \in CallRecord
    BY DEF TypeOK
  <2> QED BY <1>1, <2>1 DEF CallRecord
<1> HIDE DEF w
<1>4. /\ call' \in [Starts -> CallRecord] /\ call'[s] = w
      /\ \A x \in Starts \ {s} : call'[x] = call[x]
  BY <1>2, <1>3 DEF TypeOK
<1>5. /\ slot' \in [Starts -> Verdicts \cup {"none", "waiting", "lost"}]
      /\ slot'[s] = "none"
      /\ \A x \in Starts \ {s} : slot'[x] = slot[x]
  BY <1>2 DEF TypeOK
<1> QED BY <1>1, <1>3, <1>4, <1>5, OpensEffect

\* A request goes out.
LEMMA SendEffect ==
  ASSUME TypeOK, Connections, NEW s \in Starts, Send(s)
  PROVE  /\ connected /\ generation \in Generations /\ Due(s) \in Methods
         /\ call' \in [Starts -> CallRecord]
         /\ call'[s].pc = Due(s) /\ call'[s].thread = call[s].thread
         /\ call'[s].on = generation
         /\ \A x \in Starts \ {s} : call'[x] = call[x]
         /\ slot' \in [Starts -> Verdicts \cup {"none", "waiting", "lost"}]
         /\ slot'[s] = "waiting"
         /\ \A x \in Starts \ {s} : slot'[x] = slot[x]
         /\ [from |-> s, method |-> Due(s)] \in Request
         /\ outbox[generation] \in Seq(Request)
         /\ outbox' \in [Generations -> Seq(Request)]
         /\ outbox'[generation] = Append(outbox[generation], [from |-> s, method |-> Due(s)])
         /\ \A h \in Generations \ {generation} : outbox'[h] = outbox[h]
<1> DEFINE w == [call[s] EXCEPT !.pc = Due(s), !.on = generation]
           m == [from |-> s, method |-> Due(s)]
<1>1. connected /\ generation \in Generations /\ Due(s) \in Methods
  BY ConstantsAssumption DEF Send, Sending, Connections, TypeOK, Generations
<1>2. /\ call' = [call EXCEPT ![s] = w]
      /\ slot' = [slot EXCEPT ![s] = "waiting"]
      /\ outbox' = [outbox EXCEPT ![generation] = Append(outbox[generation], m)]
  BY <1>1 DEF Send, TypeOK
<1>3. m \in Request /\ outbox[generation] \in Seq(Request)
  BY <1>1 DEF Request, TypeOK
<1>4. Append(outbox[generation], m) \in Seq(Request)
  BY <1>3
<1>5. w \in CallRecord /\ w.pc = Due(s) /\ w.thread = call[s].thread /\ w.on = generation
  <2>1. call[s] \in CallRecord /\ generation \in 0..MaxGeneration
    BY DEF TypeOK
  <2> QED BY <1>1, <2>1 DEF CallRecord
<1> HIDE DEF w, m
<1>6. /\ outbox' \in [Generations -> Seq(Request)]
      /\ outbox'[generation] = Append(outbox[generation], m)
      /\ \A h \in Generations \ {generation} : outbox'[h] = outbox[h]
  BY <1>1, <1>2, <1>4 DEF TypeOK
<1>7. /\ call' \in [Starts -> CallRecord] /\ call'[s] = w
      /\ \A x \in Starts \ {s} : call'[x] = call[x]
  BY <1>2, <1>5 DEF TypeOK
<1>8. /\ slot' \in [Starts -> Verdicts \cup {"none", "waiting", "lost"}]
      /\ slot'[s] = "waiting"
      /\ \A x \in Starts \ {s} : slot'[x] = slot[x]
  BY <1>2 DEF TypeOK
<1> QED BY <1>1, <1>3, <1>5, <1>6, <1>7, <1>8 DEF m

\* A response reaches the caller that waits for it.
LEMMA ResponseEffect ==
  ASSUME TypeOK, NEW g \in Generations, ReadResponse(g)
  PROVE  LET m == Head(inbox[g]) IN
         /\ m.to \in Starts /\ m.says \in Verdicts
         /\ slot' \in [Starts -> Verdicts \cup {"none", "waiting", "lost"}]
         /\ slot'[m.to] = IF slot[m.to] = "waiting" THEN m.says ELSE slot[m.to]
         /\ \A x \in Starts \ {m.to} : slot'[x] = slot[x]
<1> DEFINE m == Head(inbox[g])
<1>1. Receives(g, "response") /\ m \in Message /\ m.kind = "response"
  BY ReceivesEffect DEF ReadResponse
<1>2. m.to \in Starts /\ m.says \in Verdicts
  BY <1>1 DEF Message
<1>3. slot' = [slot EXCEPT ![m.to] = IF slot[m.to] = "waiting" THEN m.says ELSE slot[m.to]]
  BY <1>2 DEF ReadResponse, TypeOK
<1> HIDE DEF m
<1> QED BY <1>2, <1>3 DEF TypeOK, m

\* The entry of a turn is taken, or missed.
LEMMA EntryEffect ==
  ASSUME TypeOK, NEW s \in Starts, TakesEntry(s) \/ FindsNoEntry(s)
  PROVE  watched' \subseteq Starts /\ tombstones' \subseteq (0..MaxGeneration) \X Starts
<1>1. /\ watched \subseteq Starts /\ tombstones \subseteq (0..MaxGeneration) \X Starts
      /\ <<generation, s>> \in (0..MaxGeneration) \X Starts
  BY DEF TypeOK
<1> QED BY <1>1 DEF TakesEntry, FindsNoEntry

\* What a message of either other kind carries.
LEMMA MessageTypes ==
  ASSUME NEW m \in Message
  PROVE  /\ m.kind \in {"response", "completed", "idle"}
         /\ m.kind = "response" => m.to \in Starts /\ m.says \in Verdicts
         /\ m.kind = "completed" => m.turn \in Starts /\ m = Completed(m.turn)
         /\ m.kind = "idle" => m.thread \in Threads
BY DEF Message, Completed

\* A reader with a turn in hand.
LEMMA ReaderTypes ==
  ASSUME TypeOK, NEW g \in Generations
  PROVE  /\ reader[g].pc \in {"finish", "callback", "orphan"} => reader[g].turn \in Starts
         /\ reader[g].pc \notin {"finish", "callback", "orphan"} => reader[g].turn = None
         /\ \A s \in Starts, pc \in {"finish", "callback", "orphan"} :
              [pc |-> pc, turn |-> s] \in Reader
         /\ [pc |-> "last", turn |-> None] \in Reader /\ [pc |-> "gone", turn |-> None] \in Reader
<1>1. reader[g] \in Reader
  BY DEF TypeOK
<1> QED BY <1>1 DEF Reader

\* The lookup of a probe answers.
LEMMA ProbeListEffect ==
  ASSUME TypeOK, NEW s \in Starts, ProbeList(s)
  PROVE  /\ probe[s].pc = "list"
         /\ probe' \in [Starts -> ProbeRecord]
         /\ probe'[s].pc = "recheck" /\ probe'[s].on = probe[s].on
         /\ probe'[s].says = CallbackStatus(s)
         /\ \A x \in Starts \ {s} : probe'[x] = probe[x]
<1> DEFINE w == [probe[s] EXCEPT !.pc = "recheck", !.says = CallbackStatus(s)]
<1>1. probe' = [probe EXCEPT ![s] = w] /\ probe[s].pc = "list"
  BY DEF ProbeList
<1>2. /\ w \in ProbeRecord
      /\ w.pc = "recheck" /\ w.on = probe[s].on /\ w.says = CallbackStatus(s)
  <2>1. probe[s] \in ProbeRecord
    BY DEF TypeOK
  <2> QED BY <2>1, StatusTypes DEF ProbeRecord
<1> HIDE DEF w
<1> QED BY <1>1, <1>2 DEF TypeOK

\* A probe sends initialize.
LEMMA ProbeInitializeEffect ==
  ASSUME TypeOK, Connections, NEW s \in Starts, ProbeInitialize(s)
  PROVE  LET q == [from |-> None, method |-> "initialize"] IN
         /\ connected /\ generation \in Generations /\ q \in Request
         /\ outbox[generation] \in Seq(Request)
         /\ outbox' \in [Generations -> Seq(Request)]
         /\ outbox'[generation] = Append(outbox[generation], q)
         /\ \A h \in Generations \ {generation} : outbox'[h] = outbox[h]
<1> DEFINE q == [from |-> None, method |-> "initialize"]
<1>1. connected /\ generation \in Generations
  BY ConstantsAssumption DEF ProbeInitialize, Connections, TypeOK, Generations
<1>2. q \in Request /\ outbox[generation] \in Seq(Request)
  BY <1>1 DEF Request, TypeOK
<1>3. outbox' = [outbox EXCEPT ![generation] = Append(outbox[generation], q)]
  BY <1>1 DEF ProbeInitialize, TypeOK
<1> HIDE DEF q
<1>4. Append(outbox[generation], q) \in Seq(Request)
  BY <1>2
<1>5. /\ outbox' \in [Generations -> Seq(Request)]
      /\ outbox'[generation] = Append(outbox[generation], q)
      /\ \A h \in Generations \ {generation} : outbox'[h] = outbox[h]
  BY <1>1, <1>3, <1>4 DEF TypeOK
<1> QED BY <1>1, <1>2, <1>5 DEF q

\* The App Server serves a probe's initialize.
LEMMA GreetEffect ==
  ASSUME TypeOK, NEW g \in Generations, Greet(g)
  PROVE  /\ link[g] = "up" /\ outbox[g] # <<>> /\ outbox[g] \in Seq(Request)
         /\ Head(outbox[g]).from = None
         /\ outbox' \in [Generations -> Seq(Request)]
         /\ outbox'[g] = Tail(outbox[g])
         /\ \A h \in Generations \ {g} : outbox'[h] = outbox[h]
         /\ ready' = ready \cup {g} /\ ready' \subseteq Generations
<1>1. /\ link[g] = "up" /\ outbox[g] # <<>> /\ outbox[g] \in Seq(Request)
      /\ Head(outbox[g]).from = None
      /\ ready' = ready \cup {g} /\ ready' \subseteq Generations
      /\ Tail(outbox[g]) \in Seq(Request)
      /\ outbox' = [outbox EXCEPT ![g] = Tail(outbox[g])]
  BY DEF Greet, TypeOK
<1>2. /\ outbox' \in [Generations -> Seq(Request)]
      /\ outbox'[g] = Tail(outbox[g])
      /\ \A h \in Generations \ {g} : outbox'[h] = outbox[h]
  BY <1>1 DEF TypeOK
<1> QED BY <1>1, <1>2

\* Probes of the turns registered on a thread.
LEMMA ScheduledEffect ==
  ASSUME TypeOK, NEW th
  PROVE  /\ Scheduled(th) \in [Starts -> ProbeRecord]
         /\ \A s \in Starts :
              IF s \in watched /\ call[s].thread = th /\ probe[s].pc = "none"
              THEN /\ Scheduled(th)[s].pc = "check" /\ Scheduled(th)[s].on = generation
                   /\ Scheduled(th)[s].says = "unknown"
              ELSE Scheduled(th)[s] = probe[s]
<1> DEFINE w == [pc |-> "check", on |-> generation, says |-> "unknown"]
<1>1. w \in ProbeRecord /\ w.pc = "check" /\ w.on = generation /\ w.says = "unknown"
  BY DEF ProbeRecord, TypeOK
<1>2. Scheduled(th) = [s \in Starts |->
        IF s \in watched /\ call[s].thread = th /\ probe[s].pc = "none" THEN w ELSE probe[s]]
  BY DEF Scheduled
<1> HIDE DEF w
<1> QED BY <1>1, <1>2 DEF TypeOK

\* The App Server takes the request q from connection g and answers it so.
Served(g, q, says) ==
  /\ link[g] = "up" /\ outbox[g] # <<>> /\ outbox[g] \in Seq(Request)
  /\ inbox[g] \in Seq(Message)
  /\ q = Head(outbox[g]) /\ q.from \in Starts
  /\ outbox'[g] = Tail(outbox[g])
  /\ \A h \in Generations \ {g} : outbox'[h] = outbox[h]
  /\ [kind |-> "response", to |-> q.from, says |-> says] \in Message
  /\ inbox'[g] = Append(inbox[g], [kind |-> "response", to |-> q.from, says |-> says])
  /\ \A h \in Generations \ {g} : inbox'[h] = inbox[h]
  /\ q.method = "start" /\ says = "idle" => turn'[q.from] = "running"
  /\ \/ turn' = turn
     \/ /\ q.method = "start" /\ ~Running(call[q.from].thread)
        /\ turn'[q.from] = "running"
        /\ \A x \in Starts \ {q.from} : turn'[x] = turn[x]

\* The App Server serves a request.
LEMMA ServeEffect ==
  ASSUME TypeOK, Askers, NEW g \in Generations, Serve(g)
  PROVE  /\ \E q \in Request, says \in Verdicts : Served(g, q, says)
         /\ outbox' \in [Generations -> Seq(Request)]
         /\ inbox' \in [Generations -> Seq(Message)]
         /\ turn' \in [Starts -> {"none", "running", "other"} \cup TerminalStatuses]
         /\ ready' \subseteq Generations
         /\ attached' \in [Generations -> SUBSET Threads]
<1> DEFINE q == Head(outbox[g])
           th == call[q.from].thread
           M(says) == [kind |-> "response", to |-> q.from, says |-> says]
<1>1. /\ link[g] = "up" /\ outbox[g] # <<>> /\ outbox[g] \in Seq(Request)
      /\ inbox[g] \in Seq(Message)
      /\ q \in Request /\ q.from # None /\ Tail(outbox[g]) \in Seq(Request)
      /\ outbox' = [outbox EXCEPT ![g] = Tail(outbox[g])]
  BY DEF Serve, TypeOK
<1>2. q.from \in Starts /\ q.method \in Methods /\ th \in Threads
  <2>1. q.from \in Starts /\ q.method \in Methods /\ q.from # None
    BY <1>1 DEF Request
  <2>2. q = outbox[g][1] /\ 1 \in 1..Len(outbox[g])
    BY <1>1
  <2> HIDE DEF q
  <2> QED BY <2>1, <2>2 DEF Askers
<1>3. /\ outbox' \in [Generations -> Seq(Request)]
      /\ outbox'[g] = Tail(outbox[g])
      /\ \A h \in Generations \ {g} : outbox'[h] = outbox[h]
  <2> HIDE DEF q
  <2> QED BY <1>1 DEF TypeOK
<1>4. ASSUME NEW says \in Verdicts, Responds(g, q.from, says)
      PROVE  /\ M(says) \in Message
             /\ inbox' \in [Generations -> Seq(Message)]
             /\ inbox'[g] = Append(inbox[g], M(says))
             /\ \A h \in Generations \ {g} : inbox'[h] = inbox[h]
  <2>1. M(says) \in Message
    BY <1>2 DEF Message
  <2>2. inbox' = [inbox EXCEPT ![g] = Append(inbox[g], M(says))]
    BY <1>4 DEF Responds, TypeOK
  <2> HIDE DEF M
  <2>3. Append(inbox[g], M(says)) \in Seq(Message)
    BY <1>1, <2>1
  <2> QED BY <2>1, <2>2, <2>3 DEF TypeOK
<1>5. PICK says \in Verdicts :
        /\ Responds(g, q.from, says)
        /\ ready' \subseteq Generations
        /\ attached' = attached \/ attached' = [attached EXCEPT ![g] = attached[g] \cup {th}]
        /\ \/ turn' = turn /\ (q.method = "start" => says = "refused")
           \/ /\ q.method = "start" /\ ~Running(th)
              /\ turn' = [turn EXCEPT ![q.from] = "running"]
  <2> DEFINE P(says) ==
        /\ Responds(g, q.from, says)
        /\ ready' \subseteq Generations
        /\ attached' = attached \/ attached' = [attached EXCEPT ![g] = attached[g] \cup {th}]
        /\ \/ turn' = turn /\ (q.method = "start" => says = "refused")
           \/ /\ q.method = "start" /\ ~Running(th)
              /\ turn' = [turn EXCEPT ![q.from] = "running"]
  <2>1. /\ "idle" \in Verdicts /\ "active" \in Verdicts /\ "refused" \in Verdicts
        /\ ready \subseteq Generations
        /\ attached = [attached EXCEPT ![g] = attached[g]]
    BY DEF Verdicts, TypeOK
  <2>2. P("idle") \/ P("refused") \/ P("active")
    BY <2>1 DEF Serve
  <2> HIDE DEF P
  <2>3. \E says \in Verdicts : P(says)
    BY <2>1, <2>2
  <2> QED BY <2>3 DEF P
<1>6. /\ turn' \in [Starts -> {"none", "running", "other"} \cup TerminalStatuses]
      /\ q.method = "start" /\ says = "idle" => turn'[q.from] = "running"
      /\ \/ turn' = turn
         \/ /\ q.method = "start" /\ ~Running(th)
            /\ turn'[q.from] = "running"
            /\ \A x \in Starts \ {q.from} : turn'[x] = turn[x]
  <2> HIDE DEF q, th
  <2> QED BY <1>2, <1>5 DEF TypeOK
<1>7. attached' \in [Generations -> SUBSET Threads]
  <2> HIDE DEF q, th
  <2>1. attached \in [Generations -> SUBSET Threads]
    BY DEF TypeOK
  <2>2. attached[g] \cup {th} \in SUBSET Threads
    BY <1>2, <2>1
  <2> QED BY <1>5, <2>1, <2>2
<1>8. M(says) \in Message
  BY <1>4, <1>5
<1>9. Served(g, q, says)
  <2> HIDE DEF q, M
  <2>1. th = call[q.from].thread /\ M(says) = [kind |-> "response", to |-> q.from, says |-> says]
    BY DEF M
  <2> HIDE DEF th
  <2> QED BY <1>1, <1>2, <1>3, <1>4, <1>5, <1>6, <1>8, <2>1 DEF q, Served
<1>10. /\ inbox' \in [Generations -> Seq(Message)]
       /\ ready' \subseteq Generations
  BY <1>4, <1>5
<1> HIDE DEF q, th
<1> QED BY <1>1, <1>3, <1>6, <1>7, <1>9, <1>10

\* Who hears that the turn s ended, and in which order.
Hears(g, s) == link[g] = "up" /\ call[s].thread \in attached[g]

Heralds(s, first) ==
  /\ \A g \in Generations : ~Hears(g, s) => inbox'[g] = inbox[g]
  /\ \A g \in Generations : Hears(g, s) =>
       inbox'[g] = inbox[g] \o (IF first THEN <<Idle(s), Completed(s)>>
                                ELSE <<Completed(s), Idle(s)>>)
  /\ announced' = announced \cup {<<g, s, first>> : g \in {h \in Generations : Hears(h, s)}}

\* A turn ends, and the connections joined to its thread hear of it.
LEMMA EndTurnEffect ==
  ASSUME TypeOK, Askers, NEW s \in Starts, NEW outcome \in TurnOutcomes, EndTurn(s, outcome)
  PROVE  /\ turn[s] = "running" /\ Completed(s) \in Message /\ Idle(s) \in Message
         /\ turn' \in [Starts -> {"none", "running", "other"} \cup TerminalStatuses]
         /\ turn'[s] = outcome
         /\ \A x \in Starts \ {s} : turn'[x] = turn[x]
         /\ inbox' \in [Generations -> Seq(Message)]
         /\ announced' \subseteq Generations \X Starts \X IdleFirst
         /\ \E first \in IdleFirst : Heralds(s, first)
<1> DEFINE more(first) == IF first THEN <<Idle(s), Completed(s)>> ELSE <<Completed(s), Idle(s)>>
<1>1. PICK first \in IdleFirst :
        /\ announced' = announced \cup {<<g, s, first>> : g \in {h \in Generations : Hears(h, s)}}
        /\ inbox' = [g \in Generations |->
             IF ~Hears(g, s) THEN inbox[g] ELSE inbox[g] \o more(first)]
  BY DEF EndTurn, Idle, Completed, Hears
<1>2. turn[s] = "running" /\ turn' = [turn EXCEPT ![s] = outcome]
  BY DEF EndTurn
<1>3. /\ Completed(s) \in Message
      /\ call[s].thread \in Threads => Idle(s) \in Message
  BY DEF Completed, Idle, Message
<1>4. outcome \in {"none", "running", "other"} \cup TerminalStatuses
  BY ConstantsAssumption
<1>5. /\ turn' \in [Starts -> {"none", "running", "other"} \cup TerminalStatuses]
      /\ turn'[s] = outcome
      /\ \A x \in Starts \ {s} : turn'[x] = turn[x]
  BY <1>2, <1>4 DEF TypeOK
<1>6. call[s].thread \in Threads
  BY <1>2 DEF Askers
<1>7. /\ <<Idle(s), Completed(s)>> \in Seq(Message)
      /\ <<Completed(s), Idle(s)>> \in Seq(Message)
  <2> HIDE DEF Message, Completed, Idle
  <2> QED BY <1>3, <1>6
<1>8. inbox \in [Generations -> Seq(Message)] /\ more(first) \in Seq(Message)
  BY <1>7 DEF TypeOK
<1> HIDE DEF more
<1>9. \A g \in Generations : inbox[g] \o more(first) \in Seq(Message)
  BY <1>8, ConcatProperties
<1>10. /\ inbox' \in [Generations -> Seq(Message)]
       /\ \A g \in Generations : ~Hears(g, s) => inbox'[g] = inbox[g]
       /\ \A g \in Generations : Hears(g, s) => inbox'[g] = inbox[g] \o more(first)
  BY <1>1, <1>8, <1>9
<1>11. announced' \subseteq Generations \X Starts \X IdleFirst
  BY <1>1 DEF TypeOK
<1>12. Heralds(s, first)
  BY <1>1, <1>10 DEF Heralds, more
<1> QED BY <1>2, <1>3, <1>5, <1>6, <1>10, <1>11, <1>12

\* The verdict a probe holds.
LEMMA ProbeTypes ==
  ASSUME TypeOK, NEW s \in Starts
  PROVE  probe[s].says \in TerminalStatuses \cup {"unknown"} /\ probe[s].on \in 0..MaxGeneration
<1>1. probe[s] \in ProbeRecord
  BY DEF TypeOK
<1> QED BY <1>1 DEF ProbeRecord

\* Every step keeps the types.
LEMMA NextTypeOK ==
  ASSUME TypeOK, Connections, Askers, [Next]_vars
  PROVE  TypeOK'
<1> USE DEF TypeOK, conn, table, client, threads, results, wire, server, appServer
<1>1. ASSUME NEW s \in Starts, NEW th \in Threads, Begin(s, th)
      PROVE  TypeOK'
  BY <1>1, BeginEffect DEF Begin
<1>2. ASSUME NEW s \in Starts, Connect(s)
      PROVE  TypeOK'
  <2>1. /\ generation' \in Generations /\ generation' = generation + 1
        /\ link' \in [Generations -> {"none", "up", "down"}]
        /\ reader' \in [Generations -> Reader]
        /\ call' \in [Starts -> CallRecord]
        /\ slot' \in [Starts -> Verdicts \cup {"none", "waiting", "lost"}]
    BY <1>2, ConnectEffect
  <2>2. generation' \in 0..MaxGeneration /\ connected' = TRUE /\ stopping' = FALSE
    <3>1. Opens
      BY <1>2 DEF Connect
    <3> HIDE DEF TypeOK
    <3> QED BY <3>1, OpensEffect
  <2> QED BY <1>2, <2>1, <2>2 DEF Connect
<1>3. ASSUME NEW s \in Starts, ConnectFails(s)
      PROVE  TypeOK'
  BY <1>3, EndsEffect DEF ConnectFails
<1>4. ASSUME NEW s \in Starts, Send(s)
      PROVE  TypeOK'
  <2>1. /\ call' \in [Starts -> CallRecord]
        /\ slot' \in [Starts -> Verdicts \cup {"none", "waiting", "lost"}]
        /\ outbox' \in [Generations -> Seq(Request)]
    BY <1>4, SendEffect
  <2> QED BY <1>4, <2>1 DEF Send
<1>5. ASSUME NEW s \in Starts, SendUnconnected(s)
      PROVE  TypeOK'
  BY <1>5, EndsEffect DEF SendUnconnected
<1>6. ASSUME NEW s \in Starts, SendFails(s)
      PROVE  TypeOK'
  BY <1>6, EndsEffect, DroppedEffect DEF SendFails, MarkDisconnected
<1>7. ASSUME NEW s \in Starts, TimeOut(s)
      PROVE  TypeOK'
  BY <1>7, EndsEffect DEF TimeOut, Fault
<1>8. ASSUME NEW s \in Starts, Reject(s)
      PROVE  TypeOK'
  BY <1>8, EndsEffect, SMTT(30) DEF Reject
<1>9. ASSUME NEW s \in Starts, Register(s)
      PROVE  TypeOK'
  BY <1>9, EndsEffect, GoesEffect, SMTT(30) DEF Register
<1>10. ASSUME NEW s \in Starts, Merge(s)
      PROVE  TypeOK'
  <2>1. TakesEntry(s) \/ FindsNoEntry(s)
    BY <1>10 DEF Merge
  <2>2. watched' \subseteq Starts /\ tombstones' \subseteq (0..MaxGeneration) \X Starts
    <3> HIDE DEF TypeOK
    <3> QED BY <2>1, EntryEffect
  <2> QED BY <1>10, <2>2, EndsEffect, GoesEffect DEF Merge
<1>11. ASSUME NEW s \in Starts, MergeCallback(s)
      PROVE  TypeOK'
  BY <1>11, GoesEffect, TellEffect, StatusTypes DEF MergeCallback
<1>12. ASSUME NEW s \in Starts, Return(s)
      PROVE  TypeOK'
  BY <1>12, EndsEffect DEF Return
<1>13. ASSUME NEW s \in Starts, TellUnknown(s)
      PROVE  TypeOK'
  BY <1>13, TellEffect DEF TellUnknown
<1>14. ASSUME NEW g \in Generations, ReadResponse(g)
      PROVE  TypeOK'
  BY <1>14, ReceivesEffect, ResumeEffect, ResponseEffect DEF ReadResponse
<1>15. ASSUME NEW g \in Generations, ReadCompleted(g)
      PROVE  TypeOK'
  <2> DEFINE s == Head(inbox[g]).turn
  <2>1. /\ inbox' \in [Generations -> Seq(Message)] /\ Receives(g, "completed")
        /\ Head(inbox[g]) \in Message /\ Head(inbox[g]).kind = "completed"
    BY <1>15, ReceivesEffect DEF ReadCompleted
  <2>2. s \in Starts
    BY <2>1, MessageTypes
  <2>3. Resume(g) \/ Holds(g, "finish", s)
    BY <1>15 DEF ReadCompleted
  <2> HIDE DEF s
  <2>4. reader' \in [Generations -> Reader]
    BY <2>2, <2>3, ResumeEffect, HoldsEffect, ReaderTypes
  <2> QED BY <1>15, <2>1, <2>4 DEF ReadCompleted
<1>16. ASSUME NEW g \in Generations, ReaderFinish(g)
      PROVE  TypeOK'
  <2> DEFINE s == reader[g].turn
  <2>1. s \in Starts /\ (Holds(g, "callback", s) \/ Holds(g, "orphan", s))
    BY <1>16, ReaderTypes DEF ReaderFinish
  <2> HIDE DEF s
  <2>2. reader' \in [Generations -> Reader]
    BY <2>1, HoldsEffect, ReaderTypes
  <2> QED BY <1>16, <2>1, <2>2 DEF ReaderFinish, TakesEntry, FindsNoEntry, s
<1>17. ASSUME NEW g \in Generations, ReaderCallback(g)
      PROVE  TypeOK'
  BY <1>17, TellEffect, ResumeEffect, StatusTypes, ReaderTypes DEF ReaderCallback
<1>18. ASSUME NEW g \in Generations, ReaderOrphan(g)
      PROVE  TypeOK'
  <2>1. reader' \in [Generations -> Reader]
    BY <1>18, ResumeEffect DEF ReaderOrphan
  <2>2. reader[g].turn \in Starts
    BY <1>18, ReaderTypes DEF ReaderOrphan
  <2>3. orphans' \subseteq Generations \X Starts
    BY <1>18, <2>2 DEF ReaderOrphan
  <2> QED BY <1>18, <2>1, <2>3 DEF ReaderOrphan
<1>19. ASSUME NEW g \in Generations, ReadIdle(g)
      PROVE  TypeOK'
  BY <1>19, ReceivesEffect, ResumeEffect, ScheduledEffect DEF ReadIdle
<1>20. ASSUME NEW g \in Generations, ReaderFails(g)
      PROVE  TypeOK'
  <2>1. reader' \in [Generations -> Reader]
    BY <1>20, HoldsEffect, ReaderTypes DEF ReaderFails
  <2>2. slot' \in [Starts -> Verdicts \cup {"none", "waiting", "lost"}]
    BY <1>20, DroppedEffect DEF ReaderFails, MarkDisconnected
  <2> QED BY <1>20, <2>1, <2>2 DEF ReaderFails, MarkDisconnected
<1>21. ASSUME NEW g \in Generations, ReaderLeaves(g)
      PROVE  TypeOK'
  <2>1. reader' \in [Generations -> Reader]
    BY <1>21, HoldsEffect, ReaderTypes DEF ReaderLeaves
  <2>2. slot' \in [Starts -> Verdicts \cup {"none", "waiting", "lost"}]
    BY <1>21, DroppedEffect DEF ReaderLeaves, MarkDisconnected
  <2> QED BY <1>21, <2>1, <2>2 DEF ReaderLeaves, MarkDisconnected
<1>22. ASSUME NEW s \in Starts, ProbeCheck(s)
      PROVE  TypeOK'
  BY <1>22, ProbeAtEffect, ProbeEndsEffect DEF ProbeCheck
<1>23. ASSUME NEW s \in Starts, ProbeList(s)
      PROVE  TypeOK'
  <2>1. probe' \in [Starts -> ProbeRecord]
    BY <1>23, ProbeListEffect
  <2> QED BY <1>23, <2>1 DEF ProbeList
<1>24. ASSUME NEW s \in Starts, ProbeFails(s)
      PROVE  TypeOK'
  <2>1. ProbeAt(s, "finish") /\ faults' \subseteq Faults
    BY <1>24 DEF ProbeFails, Fault
  <2>2. probe' \in [Starts -> ProbeRecord]
    <3> HIDE DEF TypeOK
    <3> QED BY <2>1, ProbeAtEffect
  <2> QED BY <1>24, <2>1, <2>2 DEF ProbeFails
<1>25. ASSUME NEW s \in Starts, ProbeRecheck(s)
      PROVE  TypeOK'
  BY <1>25, ProbeAtEffect, ProbeEndsEffect, SMTT(30) DEF ProbeRecheck
<1>26. ASSUME NEW s \in Starts, ProbeFinish(s)
      PROVE  TypeOK'
  <2>1. TakesEntry(s) \/ FindsNoEntry(s)
    BY <1>26 DEF ProbeFinish
  <2>2. watched' \subseteq Starts /\ tombstones' \subseteq (0..MaxGeneration) \X Starts
    <3> HIDE DEF TypeOK
    <3> QED BY <2>1, EntryEffect
  <2> QED BY <1>26, <2>2, ProbeAtEffect, ProbeEndsEffect DEF ProbeFinish
<1>27. ASSUME NEW s \in Starts, ProbeCallback(s)
      PROVE  TypeOK'
  BY <1>27, ProbeEndsEffect, TellEffect, ProbeTypes DEF ProbeCallback
<1>28. ASSUME NEW g \in Generations, Serve(g)
      PROVE  TypeOK'
  <2>1. /\ outbox' \in [Generations -> Seq(Request)]
        /\ inbox' \in [Generations -> Seq(Message)]
        /\ turn' \in [Starts -> {"none", "running", "other"} \cup TerminalStatuses]
        /\ ready' \subseteq Generations
        /\ attached' \in [Generations -> SUBSET Threads]
    BY <1>28, ServeEffect
  <2> QED BY <1>28, <2>1 DEF Serve
<1>29. ASSUME NEW s \in Starts, NEW outcome \in TurnOutcomes, EndTurn(s, outcome)
      PROVE  TypeOK'
  BY <1>29, EndTurnEffect DEF EndTurn
<1>30. ASSUME NEW g \in Generations, Drop(g)
      PROVE  TypeOK'
  BY <1>30 DEF Drop, Fault
<1>31. ASSUME Close
      PROVE  TypeOK'
  BY <1>31 DEF Close, Fault
<1>32. CASE UNCHANGED vars
  BY <1>32 DEF vars
<1>33. ASSUME NEW s \in Starts, ProbeConnect(s)
       PROVE  TypeOK'
  <2>1. probe' \in [Starts -> ProbeRecord]
    BY <1>33, ProbeAtEffect DEF ProbeConnect
  <2>2. /\ generation' \in 0..MaxGeneration /\ connected' = TRUE /\ stopping' = FALSE
        /\ link' \in [Generations -> {"none", "up", "down"}]
        /\ reader' \in [Generations -> Reader]
    <3>1. Opens
      BY <1>33 DEF ProbeConnect
    <3> HIDE DEF TypeOK
    <3> QED BY <3>1, OpensEffect
  <2> QED BY <1>33, <2>1, <2>2 DEF ProbeConnect
<1>34. ASSUME NEW s \in Starts, ProbeInitialize(s)
       PROVE  TypeOK'
  <2>1. probe' \in [Starts -> ProbeRecord]
    BY <1>34, ProbeAtEffect DEF ProbeInitialize
  <2>2. outbox' \in [Generations -> Seq(Request)]
    BY <1>34, ProbeInitializeEffect
  <2> QED BY <1>34, <2>1, <2>2 DEF ProbeInitialize
<1>35. ASSUME NEW s \in Starts, ProbeInitialized(s)
       PROVE  TypeOK'
  <2>1. probe' \in [Starts -> ProbeRecord]
    BY <1>35, ProbeAtEffect DEF ProbeInitialized
  <2> QED BY <1>35, <2>1 DEF ProbeInitialized
<1>36. ASSUME NEW g \in Generations, Greet(g)
       PROVE  TypeOK'
  <2>1. outbox' \in [Generations -> Seq(Request)] /\ ready' \subseteq Generations
    <3> HIDE DEF TypeOK
    <3> QED BY <1>36, GreetEffect
  <2> QED BY <1>36, <2>1 DEF Greet
<1> QED
  BY <1>1, <1>2, <1>3, <1>4, <1>5, <1>6, <1>7, <1>8, <1>9, <1>10, <1>11, <1>12, <1>13, <1>14,
     <1>15, <1>16, <1>17, <1>18, <1>19, <1>20, <1>21, <1>22, <1>23, <1>24, <1>25, <1>26,
     <1>27, <1>28, <1>29, <1>30, <1>31, <1>32, <1>33, <1>34, <1>35, <1>36
     DEF Next, CallerStep, ProbeStep, ReaderStep

-----------------------------------------------------------------------------
(* What each action does, variable by variable.                          *)

\* A caller between two requests.
Poised(s) ==
  \/ call[s].pc \in {"begin", "connected"}
  \/ call[s].pc \in Methods \ {"start"} /\ slot[s] = "idle"

SlotTo(s, v) == slot'[s] = v /\ \A x \in Starts \ {s} : slot'[x] = slot[x]

CallTo(s, pc, on) ==
  /\ call'[s].pc = pc /\ call'[s].thread = call[s].thread /\ call'[s].on = on
  /\ \A x \in Starts \ {s} : call'[x] = call[x]

AnswerTo(s, v) == answer'[s] = v /\ \A x \in Starts \ {s} : answer'[x] = answer[x]

ToldTo(s, v) == told'[s] = Append(told[s], v) /\ \A x \in Starts \ {s} : told'[x] = told[x]

ProbeTo(s, pc, says) ==
  /\ probe'[s].pc = pc /\ probe'[s].on = probe[s].on /\ probe'[s].says = says
  /\ \A x \in Starts \ {s} : probe'[x] = probe[x]

ProbeOff(s) == probe'[s].pc = "none" /\ \A x \in Starts \ {s} : probe'[x] = probe[x]

ReaderTo(g, pc, t) ==
  /\ reader'[g].pc = pc /\ reader'[g].turn = t
  /\ \A h \in Generations \ {g} : reader'[h] = reader[h]

\* The reader of g is back at its loop's guard.
ReaderLoops(g) == ReaderTo(g, IF Current(g) THEN "receive" ELSE "last", None)

\* The reader of g takes m out of its inbox.
Pops(g, m) ==
  /\ inbox[g] # <<>> /\ inbox[g] \in Seq(Message)
  /\ m = Head(inbox[g]) /\ m \in Message
  /\ inbox'[g] = Tail(inbox[g])
  /\ \A h \in Generations \ {g} : inbox'[h] = inbox[h]

\* The callback of s is taken out of the table.
Takes(s) ==
  /\ s \in watched /\ watched' = watched \ {s}
  /\ tombstones' = tombstones \cup {<<generation, s>>}
Misses(s) == s \notin watched /\ watched' = watched /\ tombstones' = tombstones

\* The loss of the connection, noticed while by was sending.
Disconnects(by) ==
  /\ connected' = FALSE
  /\ \A x \in Starts : x = by => slot'[x] = "none"
  /\ \A x \in Starts : x # by =>
       slot'[x] = IF slot[x] = "waiting" THEN "lost" ELSE slot[x]
  /\ untold' = untold \cup watched
  /\ watched' = {} /\ tombstones' = {} /\ orphans' = {}

\* The App Server cannot be reached.
LEMMA ConnectFailsStep ==
  ASSUME TypeOK, NEW s \in Starts, ConnectFails(s)
  PROVE  /\ Poised(s) /\ ~connected
         /\ SlotTo(s, "none")
         /\ CallTo(s, "done", call[s].on)
         /\ AnswerTo(s, "rejected")
         /\ UNCHANGED <<generation, connected, stopping, watched, tombstones, orphans,
                       reader, probe, untold, told, link, outbox, inbox, ready, attached,
                       turn, announced, faults>>
<1>1. /\ Poised(s) /\ ~connected
      /\ SlotTo(s, "none")
      /\ CallTo(s, "done", call[s].on)
      /\ AnswerTo(s, "rejected")
  BY EndsEffect, DueTypes, SMTT(30)
     DEF ConnectFails, Connecting, Poised, SlotTo, CallTo, AnswerTo, TypeOK
<1>2. UNCHANGED <<generation, connected, stopping, watched, tombstones, orphans,
                       reader, probe, untold, told, link, outbox, inbox, ready, attached,
                       turn, announced, faults>>
  BY DEF ConnectFails, Ends, Goes, conn, table, client, threads, results, wire, server,
         appServer
<1> QED BY <1>1, <1>2

\* A request finds no connection.
LEMMA SendUnconnectedStep ==
  ASSUME TypeOK, NEW s \in Starts, SendUnconnected(s)
  PROVE  /\ Poised(s) /\ ~connected
         /\ SlotTo(s, "none")
         /\ CallTo(s, "done", call[s].on)
         /\ AnswerTo(s, "unknown")
         /\ UNCHANGED <<generation, connected, stopping, watched, tombstones, orphans,
                       reader, probe, untold, told, link, outbox, inbox, ready, attached,
                       turn, announced, faults>>
<1>1. /\ Poised(s) /\ ~connected
      /\ SlotTo(s, "none")
      /\ CallTo(s, "done", call[s].on)
      /\ AnswerTo(s, "unknown")
  BY EndsEffect, DueTypes, SMTT(30)
     DEF SendUnconnected, Sending, Poised, Methods, SlotTo, CallTo, AnswerTo, TypeOK
<1>2. UNCHANGED <<generation, connected, stopping, watched, tombstones, orphans,
                       reader, probe, untold, told, link, outbox, inbox, ready, attached,
                       turn, announced, faults>>
  BY DEF SendUnconnected, Ends, Goes, conn, table, client, threads, results, wire, server,
         appServer
<1> QED BY <1>1, <1>2

\* A request finds the connection lost.
LEMMA SendFailsStep ==
  ASSUME TypeOK, NEW s \in Starts, SendFails(s)
  PROVE  /\ Poised(s) /\ connected /\ link[generation] = "down"
         /\ Disconnects(s)
         /\ CallTo(s, "done", call[s].on)
         /\ AnswerTo(s, "unknown")
         /\ UNCHANGED <<generation, stopping, reader, probe, told, link, outbox, inbox,
                       ready, attached, turn, announced, faults>>
<1>1. /\ Poised(s) /\ connected /\ link[generation] = "down"
      /\ Disconnects(s)
      /\ CallTo(s, "done", call[s].on)
      /\ AnswerTo(s, "unknown")
  BY EndsEffect, DroppedEffect, DueTypes
     DEF SendFails, Sending, Poised, Methods, MarkDisconnected, Disconnects, CallTo, AnswerTo
<1>2. UNCHANGED <<generation, stopping, reader, probe, told, link, outbox, inbox,
                       ready, attached, turn, announced, faults>>
  BY DEF SendFails, Ends, Goes, MarkDisconnected, conn, table, client, threads, results, wire,
         server, appServer
<1> QED BY <1>1, <1>2

\* A caller gives up.
LEMMA TimeOutStep ==
  ASSUME TypeOK, NEW s \in Starts, TimeOut(s)
  PROVE  /\ slot[s] = "waiting"
         /\ faults \subseteq faults'
         /\ SlotTo(s, "none")
         /\ CallTo(s, "done", call[s].on)
         /\ AnswerTo(s, "unknown")
         /\ UNCHANGED <<generation, connected, stopping, watched, tombstones, orphans,
                       reader, probe, untold, told, link, outbox, inbox, ready, attached,
                       turn, announced>>
<1>1. /\ slot[s] = "waiting"
      /\ faults \subseteq faults'
      /\ SlotTo(s, "none")
      /\ CallTo(s, "done", call[s].on)
      /\ AnswerTo(s, "unknown")
  BY EndsEffect DEF TimeOut, Fault, SlotTo, CallTo, AnswerTo, TypeOK
<1>2. UNCHANGED <<generation, connected, stopping, watched, tombstones, orphans,
                       reader, probe, untold, told, link, outbox, inbox, ready, attached,
                       turn, announced>>
  BY DEF TimeOut, Ends, Goes, Fault, conn, table, client, threads, results, wire, server,
         appServer
<1> QED BY <1>1, <1>2

\* A caller reads an error or a busy thread.
LEMMA RejectStep ==
  ASSUME TypeOK, NEW s \in Starts, Reject(s)
  PROVE  /\ slot[s] \in {"active", "refused", "lost"}
         /\ SlotTo(s, "none")
         /\ CallTo(s, "done", call[s].on)
         /\ AnswerTo(s, "rejected")
         /\ UNCHANGED <<generation, connected, stopping, watched, tombstones, orphans,
                       reader, probe, untold, told, link, outbox, inbox, ready, attached,
                       turn, announced, faults>>
<1>1. /\ slot[s] \in {"active", "refused", "lost"}
      /\ SlotTo(s, "none")
      /\ CallTo(s, "done", call[s].on)
      /\ AnswerTo(s, "rejected")
  BY EndsEffect DEF Reject, SlotTo, CallTo, AnswerTo, TypeOK
<1>2. UNCHANGED <<generation, connected, stopping, watched, tombstones, orphans,
                       reader, probe, untold, told, link, outbox, inbox, ready, attached,
                       turn, announced, faults>>
  BY DEF Reject, Ends, Goes, conn, table, client, threads, results, wire, server, appServer
<1> QED BY <1>1, <1>2

\* A caller registers its turn.
LEMMA RegisterStep ==
  ASSUME TypeOK, NEW s \in Starts, Register(s)
  PROVE  /\ call[s].pc = "start" /\ slot[s] = "idle"
         /\ watched' = watched \cup {s}
         /\ SlotTo(s, "none")
         /\ orphans' = orphans \ {<<generation, s>>}
         /\ \/ /\ <<generation, s>> \in orphans
               /\ CallTo(s, "merge", call[s].on) /\ answer' = answer
            \/ /\ <<generation, s>> \notin orphans
               /\ CallTo(s, "done", call[s].on) /\ AnswerTo(s, "returned")
         /\ UNCHANGED <<generation, connected, stopping, tombstones, reader, probe, untold,
                       told, link, outbox, inbox, ready, attached, turn, announced, faults>>
<1>1. /\ call[s].pc = "start" /\ slot[s] = "idle"
      /\ watched' = watched \cup {s}
      /\ SlotTo(s, "none")
      /\ orphans' = orphans \ {<<generation, s>>}
      /\ \/ /\ <<generation, s>> \in orphans
               /\ CallTo(s, "merge", call[s].on) /\ answer' = answer
            \/ /\ <<generation, s>> \notin orphans
               /\ CallTo(s, "done", call[s].on) /\ AnswerTo(s, "returned")
  BY EndsEffect, GoesEffect, DueTypes, SMTT(30) DEF Register, SlotTo, CallTo, AnswerTo, TypeOK
<1>2. UNCHANGED <<generation, connected, stopping, tombstones, reader, probe, untold,
                       told, link, outbox, inbox, ready, attached, turn, announced, faults>>
  BY DEF Register, conn, table, client, threads, results, wire, server, appServer
<1> QED BY <1>1, <1>2

\* A caller that found an orphan looks for its entry.
LEMMA MergeStep ==
  ASSUME TypeOK, NEW s \in Starts, Merge(s)
  PROVE  /\ call[s].pc = "merge"
         /\ \/ /\ Takes(s)
               /\ CallTo(s, "callback", call[s].on) /\ answer' = answer
            \/ /\ Misses(s)
               /\ CallTo(s, "done", call[s].on) /\ AnswerTo(s, "returned")
         /\ UNCHANGED <<generation, connected, stopping, slot, orphans, reader, probe,
                       untold, told, link, outbox, inbox, ready, attached, turn, announced,
                       faults>>
<1>1. /\ call[s].pc = "merge"
      /\ \/ /\ Takes(s)
               /\ CallTo(s, "callback", call[s].on) /\ answer' = answer
            \/ /\ Misses(s)
               /\ CallTo(s, "done", call[s].on) /\ AnswerTo(s, "returned")
  BY EndsEffect, GoesEffect DEF Merge, TakesEntry, FindsNoEntry, Takes, Misses, CallTo, AnswerTo
<1>2. UNCHANGED <<generation, connected, stopping, slot, orphans, reader, probe,
                       untold, told, link, outbox, inbox, ready, attached, turn, announced,
                       faults>>
  BY DEF Merge, TakesEntry, FindsNoEntry, Ends, Goes, conn, table, client, threads, results,
         wire, server, appServer
<1> QED BY <1>1, <1>2

\* A caller calls the callback.
LEMMA MergeCallbackStep ==
  ASSUME TypeOK, NEW s \in Starts, MergeCallback(s)
  PROVE  /\ call[s].pc = "callback"
         /\ CallTo(s, "return", call[s].on)
         /\ ToldTo(s, CallbackStatus(s))
         /\ UNCHANGED <<generation, connected, stopping, slot, watched, tombstones, orphans,
                       reader, probe, untold, answer, link, outbox, inbox, ready, attached,
                       turn, announced, faults>>
<1>1. /\ call[s].pc = "callback"
      /\ CallTo(s, "return", call[s].on)
      /\ ToldTo(s, CallbackStatus(s))
  BY GoesEffect, TellEffect, StatusTypes DEF MergeCallback, CallTo, ToldTo
<1>2. UNCHANGED <<generation, connected, stopping, slot, watched, tombstones, orphans,
                       reader, probe, untold, answer, link, outbox, inbox, ready, attached,
                       turn, announced, faults>>
  BY DEF MergeCallback, Tell, Goes, conn, table, client, threads, results, wire, server,
         appServer
<1> QED BY <1>1, <1>2

\* A caller that called the callback returns.
LEMMA ReturnStep ==
  ASSUME TypeOK, NEW s \in Starts, Return(s)
  PROVE  /\ call[s].pc = "return"
         /\ CallTo(s, "done", call[s].on)
         /\ AnswerTo(s, "returned")
         /\ UNCHANGED <<generation, connected, stopping, slot, watched, tombstones, orphans,
                       reader, probe, untold, told, link, outbox, inbox, ready, attached,
                       turn, announced, faults>>
<1>1. /\ call[s].pc = "return"
      /\ CallTo(s, "done", call[s].on)
      /\ AnswerTo(s, "returned")
  BY EndsEffect DEF Return, CallTo, AnswerTo
<1>2. UNCHANGED <<generation, connected, stopping, slot, watched, tombstones, orphans,
                       reader, probe, untold, told, link, outbox, inbox, ready, attached,
                       turn, announced, faults>>
  BY DEF Return, Ends, Goes, conn, table, client, threads, results, wire, server, appServer
<1> QED BY <1>1, <1>2

\* A lost connection calls a callback.
LEMMA TellUnknownStep ==
  ASSUME TypeOK, NEW s \in Starts, TellUnknown(s)
  PROVE  /\ s \in untold /\ untold' = untold \ {s}
         /\ ToldTo(s, "unknown")
         /\ UNCHANGED <<generation, connected, stopping, slot, watched, tombstones, orphans,
                       call, reader, probe, answer, link, outbox, inbox, ready, attached,
                       turn, announced, faults>>
<1>1. /\ s \in untold /\ untold' = untold \ {s}
      /\ ToldTo(s, "unknown")
  BY TellEffect DEF TellUnknown, ToldTo
<1>2. UNCHANGED <<generation, connected, stopping, slot, watched, tombstones, orphans,
                       call, reader, probe, answer, link, outbox, inbox, ready, attached,
                       turn, announced, faults>>
  BY DEF TellUnknown, Tell, conn, table, client, threads, results, wire, server, appServer
<1> QED BY <1>1, <1>2

\* The reader hands over a response.
LEMMA ReadResponseStep ==
  ASSUME TypeOK, NEW g \in Generations, ReadResponse(g)
  PROVE  /\ reader[g].pc = "receive" /\ Pops(g, Head(inbox[g])) /\ ReaderLoops(g)
         /\ Head(inbox[g]).kind = "response" /\ Head(inbox[g]).to \in Starts
         /\ Head(inbox[g]).says \in Verdicts
         /\ SlotTo(Head(inbox[g]).to,
                   IF slot[Head(inbox[g]).to] = "waiting" THEN Head(inbox[g]).says
                   ELSE slot[Head(inbox[g]).to])
         /\ UNCHANGED <<generation, connected, stopping, watched, tombstones, orphans, call,
                       probe, untold, answer, told, link, outbox, ready, attached, turn,
                       announced, faults>>
<1> DEFINE m == Head(inbox[g])
<1>1. Receives(g, "response") /\ Resume(g)
  BY DEF ReadResponse
<1>2. reader[g].pc = "receive" /\ Pops(g, m) /\ m.kind = "response"
  BY <1>1, ReceivesEffect DEF Pops
<1>3. ReaderLoops(g)
  BY <1>1, ResumeEffect DEF ReaderLoops, ReaderTo
<1>4. /\ m.to \in Starts /\ m.says \in Verdicts
      /\ SlotTo(m.to, IF slot[m.to] = "waiting" THEN m.says ELSE slot[m.to])
  BY ResponseEffect DEF SlotTo
<1>5. UNCHANGED <<generation, connected, stopping, watched, tombstones, orphans, call,
                      probe, untold, answer, told, link, outbox, ready, attached, turn,
                      announced, faults>>
  BY DEF ReadResponse, conn, table, client, threads, results, wire, server, appServer
<1> QED BY <1>2, <1>3, <1>4, <1>5

\* The reader takes a terminal in hand, or drops it.
LEMMA ReadCompletedStep ==
  ASSUME TypeOK, NEW g \in Generations, ReadCompleted(g)
  PROVE  /\ reader[g].pc = "receive" /\ Head(inbox[g]).turn \in Starts
         /\ Pops(g, Completed(Head(inbox[g]).turn))
         /\ \/ g = generation /\ ReaderTo(g, "finish", Head(inbox[g]).turn)
            \/ /\ g # generation \/ <<g, Head(inbox[g]).turn>> \in tombstones
               /\ ReaderLoops(g)
         /\ UNCHANGED <<generation, connected, stopping, slot, watched, tombstones, orphans,
                       call, probe, untold, answer, told, link, outbox, ready, attached,
                       turn, announced, faults>>
<1> DEFINE s == Head(inbox[g]).turn
<1>1. Receives(g, "completed")
  BY DEF ReadCompleted
<1>2. /\ reader[g].pc = "receive" /\ Pops(g, Head(inbox[g]))
      /\ Head(inbox[g]) = Completed(s) /\ s \in Starts
  BY <1>1, ReceivesEffect, MessageTypes DEF Pops
<1>3. \/ g = generation /\ Holds(g, "finish", s)
      \/ (g # generation \/ <<g, s>> \in tombstones) /\ Resume(g)
  BY DEF ReadCompleted
<1>4. UNCHANGED <<generation, connected, stopping, slot, watched, tombstones, orphans,
                      call, probe, untold, answer, told, link, outbox, ready, attached,
                      turn, announced, faults>>
  BY DEF ReadCompleted, conn, table, client, threads, results, wire, server, appServer
<1>5. Resume(g) => ReaderLoops(g)
  BY ResumeEffect DEF ReaderLoops, ReaderTo
<1> HIDE DEF s
<1>6. Holds(g, "finish", s) => ReaderTo(g, "finish", s)
  BY <1>2, HoldsEffect, ReaderTypes DEF ReaderTo
<1> QED BY <1>2, <1>3, <1>4, <1>5, <1>6 DEF s

\* The reader looks for the entry of its turn.
LEMMA ReaderFinishStep ==
  ASSUME TypeOK, NEW g \in Generations, ReaderFinish(g)
  PROVE  /\ reader[g].pc = "finish" /\ reader[g].turn \in Starts
         /\ \/ Takes(reader[g].turn) /\ ReaderTo(g, "callback", reader[g].turn)
            \/ Misses(reader[g].turn) /\ ReaderTo(g, "orphan", reader[g].turn)
         /\ UNCHANGED <<generation, connected, stopping, slot, orphans, call, probe, untold,
                       answer, told, link, outbox, inbox, ready, attached, turn, announced,
                       faults>>
<1> DEFINE s == reader[g].turn
<1>1. reader[g].pc = "finish" /\ s \in Starts
  BY ReaderTypes DEF ReaderFinish
<1>2. UNCHANGED <<generation, connected, stopping, slot, orphans, call, probe, untold,
                      answer, told, link, outbox, inbox, ready, attached, turn, announced,
                      faults>>
  BY DEF ReaderFinish, conn, table, client, threads, results, wire, server, appServer
<1>3. \/ Takes(s) /\ Holds(g, "callback", s)
      \/ Misses(s) /\ Holds(g, "orphan", s)
  BY DEF ReaderFinish, TakesEntry, FindsNoEntry, Takes, Misses
<1> HIDE DEF s
<1>4. /\ Holds(g, "callback", s) => ReaderTo(g, "callback", s)
      /\ Holds(g, "orphan", s) => ReaderTo(g, "orphan", s)
  BY <1>1, HoldsEffect, ReaderTypes DEF ReaderTo
<1> QED BY <1>1, <1>2, <1>3, <1>4 DEF s

\* The reader calls a callback.
LEMMA ReaderCallbackStep ==
  ASSUME TypeOK, NEW g \in Generations, ReaderCallback(g)
  PROVE  /\ reader[g].pc = "callback" /\ reader[g].turn \in Starts
         /\ ReaderLoops(g) /\ ToldTo(reader[g].turn, CallbackStatus(reader[g].turn))
         /\ UNCHANGED <<generation, connected, stopping, slot, watched, tombstones, orphans,
                       call, probe, untold, answer, link, outbox, inbox, ready, attached,
                       turn, announced, faults>>
<1> DEFINE s == reader[g].turn
<1>1. reader[g].pc = "callback" /\ s \in Starts /\ Resume(g) /\ Tell(s, CallbackStatus(s))
  BY ReaderTypes DEF ReaderCallback
<1>2. UNCHANGED <<generation, connected, stopping, slot, watched, tombstones, orphans,
                      call, probe, untold, answer, link, outbox, inbox, ready, attached,
                      turn, announced, faults>>
  BY DEF ReaderCallback, conn, table, client, threads, results, wire, server, appServer
<1>3. ReaderLoops(g)
  BY <1>1, ResumeEffect DEF ReaderLoops, ReaderTo
<1> HIDE DEF s
<1>4. ToldTo(s, CallbackStatus(s))
  BY <1>1, TellEffect, StatusTypes DEF ToldTo
<1> QED BY <1>1, <1>2, <1>3, <1>4 DEF s

\* The reader stores a terminal nobody waits for.
LEMMA ReaderOrphanStep ==
  ASSUME TypeOK, NEW g \in Generations, ReaderOrphan(g)
  PROVE  /\ reader[g].pc = "orphan" /\ reader[g].turn \in Starts /\ ReaderLoops(g)
         /\ \/ <<g, reader[g].turn>> \in tombstones /\ orphans' = orphans
            \/ orphans' = orphans \cup {<<g, reader[g].turn>>}
         /\ UNCHANGED <<generation, connected, stopping, slot, watched, tombstones, call,
                       probe, untold, answer, told, link, outbox, inbox, ready, attached,
                       turn, announced, faults>>
<1>1. reader[g].pc = "orphan" /\ reader[g].turn \in Starts /\ Resume(g)
  BY ReaderTypes DEF ReaderOrphan
<1>2. ReaderLoops(g)
  BY <1>1, ResumeEffect DEF ReaderLoops, ReaderTo
<1>3. \/ <<g, reader[g].turn>> \in tombstones /\ orphans' = orphans
      \/ orphans' = orphans \cup {<<g, reader[g].turn>>}
  BY DEF ReaderOrphan
<1>4. UNCHANGED <<generation, connected, stopping, slot, watched, tombstones, call,
                      probe, untold, answer, told, link, outbox, inbox, ready, attached,
                      turn, announced, faults>>
  BY DEF ReaderOrphan, conn, table, client, threads, results, wire, server, appServer
<1> QED BY <1>1, <1>2, <1>3, <1>4

\* The reader schedules probes for an idle thread.
LEMMA ReadIdleStep ==
  ASSUME TypeOK, NEW g \in Generations, ReadIdle(g)
  PROVE  /\ reader[g].pc = "receive" /\ Pops(g, Head(inbox[g])) /\ ReaderLoops(g)
         /\ Head(inbox[g]).kind = "idle"
         /\ \A s \in Starts :
              IF /\ g = generation /\ s \in watched /\ probe[s].pc = "none"
                 /\ Head(inbox[g]) = Idle(s)
              THEN /\ probe'[s].pc = "check" /\ probe'[s].on = generation
                   /\ probe'[s].says = "unknown"
              ELSE probe'[s] = probe[s]
         /\ UNCHANGED <<generation, connected, stopping, slot, watched, tombstones, orphans,
                       call, untold, answer, told, link, outbox, ready, attached, turn,
                       announced, faults>>
<1> DEFINE m == Head(inbox[g])
<1>1. /\ Receives(g, "idle") /\ Resume(g)
      /\ probe' = IF g = generation THEN Scheduled(m.thread) ELSE probe
  BY DEF ReadIdle
<1>2. reader[g].pc = "receive" /\ Pops(g, m) /\ m.kind = "idle"
  BY <1>1, ReceivesEffect DEF Pops
<1>3. ReaderLoops(g)
  BY <1>1, ResumeEffect DEF ReaderLoops, ReaderTo
<1>4. \A s \in Starts : m = Idle(s) <=> call[s].thread = m.thread
  BY <1>2 DEF Pops, Message, Idle
<1>5. UNCHANGED <<generation, connected, stopping, slot, watched, tombstones, orphans,
                      call, untold, answer, told, link, outbox, ready, attached, turn,
                      announced, faults>>
  BY DEF ReadIdle, conn, table, client, threads, results, wire, server, appServer
<1> HIDE DEF m
<1>6. \A s \in Starts :
        IF g = generation /\ s \in watched /\ probe[s].pc = "none" /\ m = Idle(s)
        THEN probe'[s].pc = "check" /\ probe'[s].on = generation /\ probe'[s].says = "unknown"
        ELSE probe'[s] = probe[s]
  BY <1>1, <1>4, ScheduledEffect
<1> QED BY <1>2, <1>3, <1>5, <1>6 DEF m

\* The reader notices a lost connection.
LEMMA ReaderFailsStep ==
  ASSUME TypeOK, NEW g \in Generations, ReaderFails(g)
  PROVE  /\ reader[g].pc = "receive" /\ link[g] = "down" /\ ReaderTo(g, "last", None)
         /\ \/ MayMark(g) /\ Disconnects(None)
            \/ /\ ~MayMark(g)
               /\ UNCHANGED <<connected, slot, watched, tombstones, orphans, untold>>
         /\ UNCHANGED <<generation, stopping, call, probe, answer, told, link, outbox, inbox,
                       ready, attached, turn, announced, faults>>
<1>1. reader[g].pc = "receive" /\ link[g] = "down" /\ ReaderTo(g, "last", None)
  BY HoldsEffect, ReaderTypes DEF ReaderFails, ReaderTo
<1>2. UNCHANGED <<generation, stopping, call, probe, answer, told, link, outbox, inbox,
                      ready, attached, turn, announced, faults>>
  BY DEF ReaderFails, conn, table, client, threads, results, wire, server, appServer
<1>3. \/ MayMark(g) /\ Disconnects(None)
      \/ /\ ~MayMark(g)
         /\ UNCHANGED <<connected, slot, watched, tombstones, orphans, untold>>
  BY DroppedEffect DEF ReaderFails, MarkDisconnected, Disconnects, table
<1> QED BY <1>1, <1>2, <1>3

\* The reader leaves, and marks once more.
LEMMA ReaderLeavesStep ==
  ASSUME TypeOK, NEW g \in Generations, ReaderLeaves(g)
  PROVE  /\ reader[g].pc = "last" /\ ReaderTo(g, "gone", None)
         /\ \/ MayMark(g) /\ Disconnects(None)
            \/ /\ ~MayMark(g)
               /\ UNCHANGED <<connected, slot, watched, tombstones, orphans, untold>>
         /\ UNCHANGED <<generation, stopping, call, probe, answer, told, link, outbox, inbox,
                       ready, attached, turn, announced, faults>>
<1>1. reader[g].pc = "last" /\ ReaderTo(g, "gone", None)
  BY HoldsEffect, ReaderTypes DEF ReaderLeaves, ReaderTo
<1>2. UNCHANGED <<generation, stopping, call, probe, answer, told, link, outbox, inbox,
                      ready, attached, turn, announced, faults>>
  BY DEF ReaderLeaves, conn, table, client, threads, results, wire, server, appServer
<1>3. \/ MayMark(g) /\ Disconnects(None)
      \/ /\ ~MayMark(g)
         /\ UNCHANGED <<connected, slot, watched, tombstones, orphans, untold>>
  BY DroppedEffect DEF ReaderLeaves, MarkDisconnected, Disconnects, table
<1> QED BY <1>1, <1>2, <1>3

\* A probe looks at its fence.
LEMMA ProbeCheckStep ==
  ASSUME TypeOK, NEW s \in Starts, ProbeCheck(s)
  PROVE  /\ probe[s].pc = "check"
         /\ \/ Fenced(s) /\ ProbeTo(s, "list", probe[s].says)
            \/ ~Fenced(s) /\ ProbeOff(s)
         /\ UNCHANGED <<generation, connected, stopping, slot, watched, tombstones, orphans,
                       call, reader, untold, answer, told, link, outbox, inbox, ready,
                       attached, turn, announced, faults>>
<1>1. probe[s].pc = "check" /\ IF Fenced(s) THEN ProbeAt(s, "list") ELSE ProbeEnds(s)
  BY DEF ProbeCheck
<1>2. UNCHANGED <<generation, connected, stopping, slot, watched, tombstones, orphans,
                      call, reader, untold, answer, told, link, outbox, inbox, ready,
                      attached, turn, announced, faults>>
  BY DEF ProbeCheck, conn, table, client, threads, results, wire, server, appServer
<1>3. CASE Fenced(s)
  <2>1. ProbeTo(s, "list", probe[s].says)
    BY <1>1, <1>3, ProbeAtEffect DEF ProbeTo
  <2> QED BY <1>1, <1>2, <1>3, <2>1
<1>4. CASE ~Fenced(s)
  <2>1. ProbeOff(s)
    BY <1>1, <1>4, ProbeEndsEffect DEF ProbeOff
  <2> QED BY <1>1, <1>2, <1>4, <2>1
<1> QED BY <1>1, <1>2, <1>3, <1>4

\* A probe's lookup is answered.
LEMMA ProbeListStep ==
  ASSUME TypeOK, NEW s \in Starts, ProbeList(s)
  PROVE  /\ probe[s].pc = "list"
         /\ ProbeTo(s, "recheck", CallbackStatus(s))
         /\ UNCHANGED <<generation, connected, stopping, slot, watched, tombstones, orphans,
                       call, reader, untold, answer, told, link, outbox, inbox, ready,
                       attached, turn, announced, faults>>
<1>1. probe[s].pc = "list" /\ ProbeTo(s, "recheck", CallbackStatus(s))
  BY ProbeListEffect DEF ProbeTo
<1>2. UNCHANGED <<generation, connected, stopping, slot, watched, tombstones, orphans,
                      call, reader, untold, answer, told, link, outbox, inbox, ready,
                      attached, turn, announced, faults>>
  BY DEF ProbeList, conn, table, client, threads, results, wire, server, appServer
<1> QED BY <1>1, <1>2

\* A probe's lookup makes a new connection.
LEMMA ProbeConnectStep ==
  ASSUME TypeOK, NEW s \in Starts, ProbeConnect(s)
  PROVE  /\ probe[s].pc = "list" /\ ~connected /\ connected'
         /\ ~stopping'
         /\ generation' = generation + 1 /\ generation' \in Generations
         /\ link'[generation'] = "up"
         /\ \A h \in Generations \ {generation'} : link'[h] = link[h]
         /\ ReaderTo(generation', "receive", None)
         /\ ProbeTo(s, "connected", probe[s].says)
         /\ UNCHANGED <<slot, watched, tombstones, orphans, call, untold, answer, told,
                       outbox, inbox, ready, attached, turn, announced, faults>>
<1>1. /\ connected' /\ ~stopping'
      /\ generation' = generation + 1 /\ generation' \in Generations
      /\ link'[generation'] = "up"
      /\ \A h \in Generations \ {generation'} : link'[h] = link[h]
      /\ ReaderTo(generation', "receive", None)
  BY OpensEffect DEF ProbeConnect, ReaderTo
<1>2. probe[s].pc = "list" /\ ~connected /\ ProbeTo(s, "connected", probe[s].says)
  BY ProbeAtEffect DEF ProbeConnect, ProbeTo
<1>3. UNCHANGED <<slot, watched, tombstones, orphans, call, untold, answer, told,
                      outbox, inbox, ready, attached, turn, announced, faults>>
  BY DEF ProbeConnect, conn, table, client, threads, results, wire, server, appServer
<1> QED BY <1>1, <1>2, <1>3

\* The probe initializes its connection.
LEMMA ProbeInitializeStep ==
  ASSUME TypeOK, Connections, NEW s \in Starts, ProbeInitialize(s)
  PROVE  LET q == [from |-> None, method |-> "initialize"] IN
         /\ probe[s].pc = "connected" /\ connected /\ generation \in Generations
         /\ q \in Request /\ outbox[generation] \in Seq(Request)
         /\ outbox'[generation] = Append(outbox[generation], q)
         /\ \A h \in Generations \ {generation} : outbox'[h] = outbox[h]
         /\ ProbeTo(s, "initialize", probe[s].says)
         /\ UNCHANGED <<generation, connected, stopping, slot, watched, tombstones, orphans,
                       call, reader, untold, answer, told, link, inbox, ready, attached,
                       turn, announced, faults>>
<1>1. probe[s].pc = "connected" /\ ProbeTo(s, "initialize", probe[s].says)
  BY ProbeAtEffect DEF ProbeInitialize, ProbeTo
<1>2. UNCHANGED <<generation, connected, stopping, slot, watched, tombstones, orphans,
                      call, reader, untold, answer, told, link, inbox, ready, attached,
                      turn, announced, faults>>
  BY DEF ProbeInitialize, conn, table, client, threads, results, wire, server, appServer
<1> QED BY <1>1, <1>2, ProbeInitializeEffect

\* The connection of the probe is initialized.
LEMMA ProbeInitializedStep ==
  ASSUME TypeOK, NEW s \in Starts, ProbeInitialized(s)
  PROVE  /\ probe[s].pc = "initialize" /\ ProbeTo(s, "list", probe[s].says)
         /\ UNCHANGED <<generation, connected, stopping, slot, watched, tombstones, orphans,
                       call, reader, untold, answer, told, link, outbox, inbox, ready,
                       attached, turn, announced, faults>>
<1>1. probe[s].pc = "initialize" /\ ProbeTo(s, "list", probe[s].says)
  BY ProbeAtEffect DEF ProbeInitialized, ProbeTo
<1>2. UNCHANGED <<generation, connected, stopping, slot, watched, tombstones, orphans,
                      call, reader, untold, answer, told, link, outbox, inbox, ready,
                      attached, turn, announced, faults>>
  BY DEF ProbeInitialized, conn, table, client, threads, results, wire, server, appServer
<1> QED BY <1>1, <1>2

\* A probe's lookup fails.
LEMMA ProbeFailsStep ==
  ASSUME TypeOK, NEW s \in Starts, ProbeFails(s)
  PROVE  /\ probe[s].pc \in {"list", "connected", "initialize"}
         /\ ProbeTo(s, "finish", probe[s].says)
         /\ faults \subseteq faults'
         /\ \/ "probe" \in faults'
            \/ ~connected \/ link[generation] # "up" \/ probe[s].on # generation
         /\ UNCHANGED <<generation, connected, stopping, slot, watched, tombstones, orphans,
                       call, reader, untold, answer, told, link, outbox, inbox, ready,
                       attached, turn, announced>>
<1>1. /\ probe[s].pc \in {"list", "connected", "initialize"}
      /\ ProbeTo(s, "finish", probe[s].says)
      /\ faults \subseteq faults'
      /\ \/ "probe" \in faults'
         \/ ~connected \/ link[generation] # "up" \/ probe[s].on # generation
  BY ProbeAtEffect DEF ProbeFails, ProbeTo, Fault
<1>2. UNCHANGED <<generation, connected, stopping, slot, watched, tombstones, orphans,
                       call, reader, untold, answer, told, link, outbox, inbox, ready,
                       attached, turn, announced>>
  BY DEF ProbeFails, conn, table, client, threads, results, wire, server, appServer
<1> QED BY <1>1, <1>2

\* A probe looks at its fence again.
LEMMA ProbeRecheckStep ==
  ASSUME TypeOK, NEW s \in Starts, ProbeRecheck(s)
  PROVE  /\ probe[s].pc = "recheck"
         /\ \/ Fenced(s) /\ ProbeTo(s, "finish", probe[s].says)
            \/ ~Fenced(s) /\ ProbeOff(s)
         /\ UNCHANGED <<generation, connected, stopping, slot, watched, tombstones, orphans,
                       call, reader, untold, answer, told, link, outbox, inbox, ready,
                       attached, turn, announced, faults>>
<1>1. probe[s].pc = "recheck" /\ IF Fenced(s) THEN ProbeAt(s, "finish") ELSE ProbeEnds(s)
  BY DEF ProbeRecheck
<1>2. UNCHANGED <<generation, connected, stopping, slot, watched, tombstones, orphans,
                      call, reader, untold, answer, told, link, outbox, inbox, ready,
                      attached, turn, announced, faults>>
  BY DEF ProbeRecheck, conn, table, client, threads, results, wire, server, appServer
<1>3. CASE Fenced(s)
  <2>1. ProbeTo(s, "finish", probe[s].says)
    BY <1>1, <1>3, ProbeAtEffect DEF ProbeTo
  <2> QED BY <1>1, <1>2, <1>3, <2>1
<1>4. CASE ~Fenced(s)
  <2>1. ProbeOff(s)
    BY <1>1, <1>4, ProbeEndsEffect DEF ProbeOff
  <2> QED BY <1>1, <1>2, <1>4, <2>1
<1> QED BY <1>1, <1>2, <1>3, <1>4

\* A probe looks for the entry of its turn.
LEMMA ProbeFinishStep ==
  ASSUME TypeOK, NEW s \in Starts, ProbeFinish(s)
  PROVE  /\ probe[s].pc = "finish"
         /\ \/ Takes(s) /\ ProbeTo(s, "callback", probe[s].says)
            \/ Misses(s) /\ ProbeOff(s)
         /\ UNCHANGED <<generation, connected, stopping, slot, orphans, call, reader, untold,
                       answer, told, link, outbox, inbox, ready, attached, turn, announced,
                       faults>>
<1>1. probe[s].pc = "finish"
  BY DEF ProbeFinish
<1>2. \/ Takes(s) /\ ProbeAt(s, "callback")
      \/ Misses(s) /\ ProbeEnds(s)
  BY DEF ProbeFinish, TakesEntry, FindsNoEntry, Takes, Misses
<1>3. UNCHANGED <<generation, connected, stopping, slot, orphans, call, reader, untold,
                      answer, told, link, outbox, inbox, ready, attached, turn, announced,
                      faults>>
  BY DEF ProbeFinish, conn, table, client, threads, results, wire, server, appServer
<1>4. /\ ProbeAt(s, "callback") => ProbeTo(s, "callback", probe[s].says)
      /\ ProbeEnds(s) => ProbeOff(s)
  BY ProbeAtEffect, ProbeEndsEffect DEF ProbeTo, ProbeOff
<1> QED BY <1>1, <1>2, <1>3, <1>4

\* A probe calls the callback.
LEMMA ProbeCallbackStep ==
  ASSUME TypeOK, NEW s \in Starts, ProbeCallback(s)
  PROVE  /\ probe[s].pc = "callback"
         /\ ProbeOff(s) /\ ToldTo(s, probe[s].says)
         /\ UNCHANGED <<generation, connected, stopping, slot, watched, tombstones, orphans,
                       call, reader, untold, answer, link, outbox, inbox, ready, attached,
                       turn, announced, faults>>
<1>1. /\ probe[s].pc = "callback"
      /\ ProbeOff(s) /\ ToldTo(s, probe[s].says)
  BY ProbeEndsEffect, TellEffect, ProbeTypes DEF ProbeCallback, ProbeOff, ToldTo
<1>2. UNCHANGED <<generation, connected, stopping, slot, watched, tombstones, orphans,
                       call, reader, untold, answer, link, outbox, inbox, ready, attached,
                       turn, announced, faults>>
  BY DEF ProbeCallback, conn, table, client, threads, results, wire, server, appServer
<1> QED BY <1>1, <1>2

\* The link breaks.
LEMMA DropStep ==
  ASSUME TypeOK, NEW g \in Generations, Drop(g)
  PROVE  /\ link[g] = "up" /\ link'[g] = "down"
         /\ faults \subseteq faults'
         /\ \A h \in Generations \ {g} : link'[h] = link[h]
         /\ UNCHANGED <<generation, connected, stopping, slot, watched, tombstones, orphans,
                       call, reader, probe, untold, answer, told, outbox, inbox, ready,
                       attached, turn, announced>>
<1>1. /\ link[g] = "up" /\ link'[g] = "down"
      /\ faults \subseteq faults'
      /\ \A h \in Generations \ {g} : link'[h] = link[h]
  BY DEF Drop, Fault, TypeOK
<1>2. UNCHANGED <<generation, connected, stopping, slot, watched, tombstones, orphans,
                       call, reader, probe, untold, answer, told, outbox, inbox, ready,
                       attached, turn, announced>>
  BY DEF Drop, conn, table, client, threads, results, wire, server, appServer
<1> QED BY <1>1, <1>2

\* The client is closed.
LEMMA CloseStep ==
  ASSUME TypeOK, Connections, Close
  PROVE  /\ connected /\ ~connected' /\ generation \in Generations
         /\ faults \subseteq faults'
         /\ link'[generation] = "down"
         /\ \A h \in Generations \ {generation} : link'[h] = link[h]
         /\ UNCHANGED <<generation, slot, watched, tombstones, orphans, call, reader, probe,
                       untold, answer, told, outbox, inbox, ready, attached, turn,
                       announced>>
<1>1. /\ connected /\ ~connected' /\ generation \in Generations
      /\ faults \subseteq faults'
      /\ link'[generation] = "down"
      /\ \A h \in Generations \ {generation} : link'[h] = link[h]
  BY ConstantsAssumption DEF Close, Fault, TypeOK, Connections, Generations
<1>2. UNCHANGED <<generation, slot, watched, tombstones, orphans, call, reader, probe,
                       untold, answer, told, outbox, inbox, ready, attached, turn,
                       announced>>
  BY DEF Close, conn, table, client, threads, results, wire, server, appServer
<1> QED BY <1>1, <1>2

\* A caller begins.
LEMMA BeginStep ==
  ASSUME TypeOK, NEW s \in Starts, NEW th \in Threads, Begin(s, th)
  PROVE  /\ call[s].pc = "none"
         /\ call'[s].pc = "begin" /\ call'[s].thread = th /\ call'[s].on = 0
         /\ \A x \in Starts \ {s} : call'[x] = call[x]
         /\ AnswerTo(s, "waiting")
         /\ UNCHANGED <<generation, connected, stopping, slot, watched, tombstones, orphans,
                       reader, probe, untold, told, link, outbox, inbox, ready, attached,
                       turn, announced, faults>>
<1>1. /\ call[s].pc = "none"
      /\ call'[s].pc = "begin" /\ call'[s].thread = th /\ call'[s].on = 0
      /\ \A x \in Starts \ {s} : call'[x] = call[x]
      /\ AnswerTo(s, "waiting")
  BY BeginEffect DEF AnswerTo
<1>2. UNCHANGED <<generation, connected, stopping, slot, watched, tombstones, orphans,
                      reader, probe, untold, told, link, outbox, inbox, ready, attached,
                      turn, announced, faults>>
  BY DEF Begin, conn, table, client, threads, results, wire, server, appServer
<1> QED BY <1>1, <1>2

\* A caller connects.
LEMMA ConnectStep ==
  ASSUME TypeOK, NEW s \in Starts, Connect(s)
  PROVE  /\ ~connected /\ connected'
         /\ ~stopping'
         /\ Poised(s)
         /\ generation' = generation + 1 /\ generation' \in Generations
         /\ link'[generation'] = "up"
         /\ \A h \in Generations \ {generation'} : link'[h] = link[h]
         /\ ReaderTo(generation', "receive", None)
         /\ CallTo(s, "connected", call[s].on)
         /\ SlotTo(s, "none")
         /\ UNCHANGED <<watched, tombstones, orphans, probe, untold, answer, told, outbox,
                       inbox, ready, attached, turn, announced, faults>>
<1>1. /\ link'[generation'] = "up" /\ ~connected /\ Due(s) \in {"read", "reread"}
      /\ generation' = generation + 1 /\ generation' \in Generations
      /\ \A h \in Generations \ {generation'} : link'[h] = link[h]
      /\ ReaderTo(generation', "receive", None)
      /\ CallTo(s, "connected", call[s].on)
      /\ SlotTo(s, "none")
  BY ConnectEffect DEF ReaderTo, CallTo, SlotTo
<1>2. connected' /\ ~stopping' /\ Poised(s)
  BY <1>1, DueTypes, OpensEffect DEF Connect, Poised, Methods
<1>3. UNCHANGED <<watched, tombstones, orphans, probe, untold, answer, told, outbox,
                      inbox, ready, attached, turn, announced, faults>>
  BY DEF Connect, conn, table, client, threads, results, wire, server, appServer
<1> QED BY <1>1, <1>2, <1>3

\* A caller sends its next request.
LEMMA SendStep ==
  ASSUME TypeOK, Connections, NEW s \in Starts, Send(s)
  PROVE  /\ connected /\ generation \in Generations /\ Due(s) \in Methods /\ Poised(s)
         /\ CallTo(s, Due(s), generation) /\ SlotTo(s, "waiting")
         /\ [from |-> s, method |-> Due(s)] \in Request
         /\ outbox[generation] \in Seq(Request)
         /\ outbox'[generation] = Append(outbox[generation], [from |-> s, method |-> Due(s)])
         /\ \A h \in Generations \ {generation} : outbox'[h] = outbox[h]
         /\ UNCHANGED <<generation, connected, stopping, watched, tombstones, orphans,
                       reader, probe, untold, answer, told, link, inbox, ready, attached,
                       turn, announced, faults>>
<1>1. /\ connected /\ generation \in Generations /\ Due(s) \in Methods /\ Poised(s)
      /\ CallTo(s, Due(s), generation) /\ SlotTo(s, "waiting")
      /\ [from |-> s, method |-> Due(s)] \in Request
      /\ outbox[generation] \in Seq(Request)
      /\ outbox'[generation] = Append(outbox[generation], [from |-> s, method |-> Due(s)])
      /\ \A h \in Generations \ {generation} : outbox'[h] = outbox[h]
  BY SendEffect, DueTypes DEF CallTo, SlotTo, Poised, Methods
<1>2. UNCHANGED <<generation, connected, stopping, watched, tombstones, orphans,
                      reader, probe, untold, answer, told, link, inbox, ready, attached,
                      turn, announced, faults>>
  BY DEF Send, conn, table, client, threads, results, wire, server, appServer
<1> QED BY <1>1, <1>2

\* The App Server serves a request.
LEMMA ServeStep ==
  ASSUME TypeOK, Askers, NEW g \in Generations, Serve(g)
  PROVE  /\ \E q \in Request, says \in Verdicts : Served(g, q, says)
         /\ UNCHANGED <<generation, connected, stopping, slot, watched, tombstones, orphans,
                       call, reader, probe, untold, answer, told, link, announced, faults>>
<1>1. UNCHANGED <<generation, connected, stopping, slot, watched, tombstones, orphans,
                      call, reader, probe, untold, answer, told, link, announced, faults>>
  BY DEF Serve, conn, table, client, threads, results, wire, server, appServer
<1> QED BY <1>1, ServeEffect

\* The App Server serves a probe's initialize.
LEMMA GreetStep ==
  ASSUME TypeOK, NEW g \in Generations, Greet(g)
  PROVE  /\ link[g] = "up" /\ outbox[g] # <<>> /\ outbox[g] \in Seq(Request)
         /\ Head(outbox[g]).from = None
         /\ outbox'[g] = Tail(outbox[g])
         /\ \A h \in Generations \ {g} : outbox'[h] = outbox[h]
         /\ ready' = ready \cup {g}
         /\ UNCHANGED <<generation, connected, stopping, slot, watched, tombstones, orphans,
                       call, reader, probe, untold, answer, told, link, inbox, attached,
                       turn, announced, faults>>
<1>1. UNCHANGED <<generation, connected, stopping, slot, watched, tombstones, orphans,
                      call, reader, probe, untold, answer, told, link, inbox, attached,
                      turn, announced, faults>>
  BY DEF Greet, conn, table, client, threads, results, wire, server, appServer
<1> QED BY <1>1, GreetEffect

\* A turn ends.
LEMMA EndTurnStep ==
  ASSUME TypeOK, Askers, NEW s \in Starts, NEW outcome \in TurnOutcomes, EndTurn(s, outcome)
  PROVE  /\ turn[s] = "running" /\ Completed(s) \in Message /\ Idle(s) \in Message
         /\ turn'[s] = outcome /\ \A x \in Starts \ {s} : turn'[x] = turn[x]
         /\ inbox \in [Generations -> Seq(Message)]
         /\ \E first \in IdleFirst : Heralds(s, first)
         /\ UNCHANGED <<generation, connected, stopping, slot, watched, tombstones, orphans,
                       call, reader, probe, untold, answer, told, link, outbox, ready,
                       attached, faults>>
<1>1. UNCHANGED <<generation, connected, stopping, slot, watched, tombstones, orphans,
                      call, reader, probe, untold, answer, told, link, outbox, ready,
                      attached, faults>>
  BY DEF EndTurn, conn, table, client, threads, results, wire, server, appServer
<1>2. inbox \in [Generations -> Seq(Message)]
  BY DEF TypeOK
<1> QED BY <1>1, <1>2, EndTurnEffect

=============================================================================
