--------------------------- MODULE ApprovalsProofs ---------------------------
(***************************************************************************)
(* The safety of approvals for every number of requests, Threads, callers  *)
(* and faults.                                                             *)
(***************************************************************************)
EXTENDS ApprovalsProperties, SequenceTheorems, FiniteSetTheorems, TLAPS

-----------------------------------------------------------------------------
(* The inductive invariant                                                 *)

\* Call c is past its admission and about r.
On(c, r) == caller[c] # Idle /\ caller[c].of = r

\* The App Server's note that r is closed is on its way.
Closing(r) == Resolved(r) \in Range(inbound)

\* An answer d to r is on its way.
Answered(r, d) == [of |-> r, decision |-> d] \in Range(outbound)

\* Nobody has decided r, nor is about to.
Untouched(r) ==
  /\ ~Underway(r) /\ effect[r] = "none"
  /\ \A d \in Decisions : ~Answered(r, d)

\* Nobody knows of a request before it is made, and what ends it closes it.
Known(r) ==
  /\ asked[r] = "no" => Untouched(r) /\ ~Arriving(r) /\ pending[r] = NoPending
  /\ effect[r] # "none" => asked[r] = "closed"
  /\ Closing(r) => asked[r] = "closed"

\* A lost connection carries nothing; finitely many requests were made.
LinkSound ==
  /\ socket # "up" => inbound = <<>> /\ outbound = <<>>
  /\ IsFiniteSet({r \in Requests : asked[r] # "no"})

\* Unless a reconnection overtook a call on it, a request is one call's: it is
\* untouched until it is admitted, and then everybody has the decision the board has.
OneDecision(r) ==
  r \notin overtaken =>
    /\ Arriving(r) \/ pending[r].status = "pending" => Untouched(r)
    /\ Underway(r) => r \in tried
    /\ pending[r] # NoPending =>
         /\ \A d \in Decisions : Answered(r, d) => pending[r].decision = d
         /\ \A c \in Callers : On(c, r) => pending[r].decision = caller[c].decision
         /\ effect[r] # "none" => pending[r].decision = effect[r]

\* A request that has arrived and that nobody tried to answer is pending.
Offered(r) ==
  r \notin overtaken /\ asked[r] = "open" /\ socket = "up" /\ ~Arriving(r) /\ r \notin tried
    => pending[r].status = "pending"

\* What the transport takes for answered has been sent.
AnswersSent ==
  /\ responses \subseteq sent
  /\ \A c \in Callers : caller[c].pc \in {"mark", "interrupt"} => caller[c].of \in sent

\* No message is there twice, and a request arrives before it is closed.
Ordered(messages) ==
  /\ \A i, j \in 1..Len(messages) : messages[i] = messages[j] => i = j
  /\ \A r \in Requests, i, j \in 1..Len(messages) :
       messages[i] = Ask(r) /\ messages[j] = Resolved(r) => i < j

\* Somebody's answer to r is on its way, or r is closed.
Heard(r) == asked[r] = "closed" \/ \E d \in Decisions : Answered(r, d)

\* Without a fault the board has a request from its arrival until the note that it
\* is closed, and responding means that an answer is on its way or will be.
Settling(r) ==
  /\ pending[r] # NoPending <=>
       asked[r] # "no" /\ ~Arriving(r) /\ (asked[r] = "open" \/ Closing(r))
  /\ asked[r] = "closed" /\ Arriving(r) => Closing(r)
  /\ pending[r].status = "responding" => Underway(r) \/ Heard(r)
  /\ \A c \in Callers : On(c, r) /\ caller[c].pc \in {"mark", "interrupt"} => Heard(r)

\* A Gateway without faults stays connected and settles.
Faultless ==
  faults = <<>> => socket = "up" /\ Ordered(inbound) /\ \A r \in Requests : Settling(r)

ApprovalsInvariant ==
  /\ TypeOK /\ LinkSound /\ AnswersSent /\ Faultless
  /\ \A r \in Requests : Known(r) /\ OneDecision(r) /\ Offered(r)

-----------------------------------------------------------------------------
(* Sequences                                                               *)

\* The head of a queue and the rest are what is in it.
LEMMA Queue ==
  ASSUME NEW S, NEW q \in Seq(S), q # <<>>
  PROVE  /\ Head(q) \in S /\ Tail(q) \in Seq(S)
         /\ \A x : x \in Range(q) <=> x = Head(q) \/ x \in Range(Tail(q))
<1>1. /\ Head(q) \in S /\ Tail(q) \in Seq(S) /\ Len(q) \in Nat /\ Len(q) # 0
      /\ Len(Tail(q)) = Len(q) - 1
      /\ \A i \in 1..Len(Tail(q)) : Tail(q)[i] = q[i + 1]
  BY HeadTailProperties, LenProperties, EmptySeq
<1>2. Head(q) = q[1]
  OBVIOUS
<1>3. Range(q) = {q[i] : i \in 1..Len(q)} /\ Range(Tail(q)) = {Tail(q)[i] : i \in 1..Len(Tail(q))}
  BY <1>1, RangeEquality
<1>4. ASSUME NEW x, x \in Range(q)
      PROVE  x = Head(q) \/ x \in Range(Tail(q))
  <2>1. PICK i \in 1..Len(q) : x = q[i]
    BY <1>3, <1>4
  <2>2. CASE i = 1
    BY <2>1, <2>2, <1>2
  <2>3. CASE i # 1
    <3>1. i - 1 \in 1..Len(Tail(q)) /\ i = (i - 1) + 1
      BY <1>1, <2>1, <2>3
    <3> QED BY <2>1, <3>1, <1>1, <1>3
  <2> QED BY <2>2, <2>3
<1>5. ASSUME NEW x, x = Head(q) \/ x \in Range(Tail(q))
      PROVE  x \in Range(q)
  <2>1. CASE x = Head(q)
    <3>1. 1 \in 1..Len(q)
      BY <1>1
    <3> QED BY <2>1, <3>1, <1>2, <1>3
  <2>2. CASE x \in Range(Tail(q))
    <3>1. PICK i \in 1..Len(Tail(q)) : x = Tail(q)[i]
      BY <2>2, <1>3
    <3>2. x = q[i + 1] /\ i + 1 \in 1..Len(q)
      BY <1>1, <3>1
    <3> QED BY <3>2, <1>3
  <2> QED BY <1>5, <2>1, <2>2
<1> QED BY <1>1, <1>4, <1>5

\* What is put at the end of a queue is in it with the rest.
LEMMA Enqueued ==
  ASSUME NEW S, NEW q \in Seq(S), NEW e \in S
  PROVE  /\ Append(q, e) \in Seq(S)
         /\ \A x : x \in Range(Append(q, e)) <=> x = e \/ x \in Range(q)
<1>1. /\ Append(q, e) \in Seq(S) /\ Len(Append(q, e)) = Len(q) + 1 /\ Len(q) \in Nat
      /\ \A i \in 1..Len(q) : Append(q, e)[i] = q[i]
      /\ Append(q, e)[Len(q) + 1] = e
  BY AppendProperties, LenProperties
<1>2. /\ Range(q) = {q[i] : i \in 1..Len(q)}
      /\ Range(Append(q, e)) = {Append(q, e)[i] : i \in 1..Len(Append(q, e))}
  BY <1>1, RangeEquality
<1> HIDE DEF Range
<1>3. ASSUME NEW x, x \in Range(Append(q, e))
      PROVE  x = e \/ x \in Range(q)
  <2>1. PICK i \in 1..Len(q) + 1 : x = Append(q, e)[i]
    BY <1>1, <1>2, <1>3
  <2>2. i \in 1..Len(q) \/ i = Len(q) + 1
    BY <1>1
  <2> QED BY <1>1, <1>2, <2>1, <2>2
<1>4. ASSUME NEW x, x = e \/ x \in Range(q)
      PROVE  x \in Range(Append(q, e))
  <2>1. Len(q) + 1 \in 1..Len(Append(q, e)) /\ 1..Len(q) \subseteq 1..Len(Append(q, e))
    BY <1>1
  <2> QED BY <1>1, <1>2, <1>4, <2>1
<1> QED BY <1>1, <1>3, <1>4

\* A finite set has a sequence of its elements, each once.
LEMMA Enumerated ==
  ASSUME NEW S, IsFiniteSet(S)
  PROVE  /\ SetToSeq(S) \in Seq(S)
         /\ Range(SetToSeq(S)) = S
         /\ \A i, j \in 1..Len(SetToSeq(S)) : SetToSeq(S)[i] = SetToSeq(S)[j] => i = j
<1> DEFINE n == Cardinality(S)
<1>1. n \in Nat /\ ExistsBijection(1..n, S)
  BY FS_CardinalityType
<1>2. \E f \in [1..n -> S] : IsInjective(f)
  BY <1>1 DEF ExistsBijection, Bijection, Injection, IsInjective
<1>3. SetToSeq(S) \in [1..n -> S] /\ IsInjective(SetToSeq(S))
  BY <1>2 DEF SetToSeq
<1> DEFINE f == SetToSeq(S)
<1> HIDE DEF f, n
<1>4. f \in [1..n -> S] /\ IsInjective(f)
  BY <1>3 DEF f, n
<1>5. f \in Injection(1..n, S)
  BY <1>4 DEF Injection, IsInjective
<1>6. IsFiniteSet(1..n) /\ Cardinality(1..n) = n
  BY <1>1, FS_CountingElements, FS_Interval
<1>7. f \in Surjection(1..n, S)
  BY <1>5, <1>6, FS_Injection DEF n
<1>8. f \in Seq(S) /\ Len(f) = n
  BY <1>1, <1>4
<1>9. Range(f) = S
  BY <1>4, <1>7 DEF Surjection, Range
<1>10. \A i, j \in 1..Len(f) : f[i] = f[j] => i = j
  BY <1>4, <1>8 DEF IsInjective
<1> QED BY <1>8, <1>9, <1>10 DEF f

-----------------------------------------------------------------------------
(* Messages                                                                *)

\* A message asks about or resolves one request.
LEMMA MessageFacts ==
  /\ \A r \in Requests : Ask(r) \in Messages /\ Resolved(r) \in Messages
  /\ \A r, q : (Ask(r) = Ask(q) <=> r = q) /\ (Resolved(r) = Resolved(q) <=> r = q)
  /\ \A r, q : Ask(r) # Resolved(q)
  /\ \A m \in Messages : /\ m.of \in Requests
                         /\ m.what = "ask" => m = Ask(m.of)
                         /\ m.what = "resolved" => m = Resolved(m.of)
                         /\ m.what \in {"ask", "resolved"}
  /\ \A r : Ask(r).of = r /\ Resolved(r).of = r
  /\ \A r : Ask(r).what = "ask" /\ Resolved(r).what = "resolved"
BY DEF Ask, Resolved, Messages

\* The notes that finitely many requests are closed are finitely many, and so are
\* the requests themselves when they are delivered again.
LEMMA FiniteNotes ==
  ASSUME NEW R, IsFiniteSet(R)
  PROVE  IsFiniteSet({Resolved(r) : r \in R}) /\ IsFiniteSet({Ask(r) : r \in R})
<1>1. [r \in R |-> Resolved(r)] \in Bijection(R, {Resolved(r) : r \in R})
  BY MessageFacts DEF Bijection, Injection, Surjection, IsInjective
<1>2. [r \in R |-> Ask(r)] \in Bijection(R, {Ask(r) : r \in R})
  BY MessageFacts DEF Bijection, Injection, Surjection, IsInjective
<1> QED BY <1>1, <1>2, FS_Bijection DEF ExistsBijection

-----------------------------------------------------------------------------
(* What the helpers do                                                     *)

\* The records behind the variables.
LEMMA Fields ==
  ASSUME TypeOK
  PROVE  /\ \A r \in Requests :
              /\ pending[r] \in [status : {"none", "pending", "responding", "responseUnknown"},
                                 decision : Decisions \cup {"none"}]
              /\ asked[r] \in {"no", "open", "closed"}
              /\ effect[r] \in Decisions \cup {"none"}
         /\ \A c \in Callers : caller[c] # Idle => caller[c] \in Calls
         /\ \A c \in Callers : caller[c].pc # "idle" <=> caller[c] # Idle
         /\ \A c \in Callers :
              caller[c] # Idle =>
                /\ caller[c].of \in Requests /\ caller[c].decision \in Decisions
                /\ caller[c].pc \in {"check", "send", "mark", "interrupt", "fail"}
<1>1. \A c \in Callers : caller[c] # Idle => caller[c] \in Calls
  BY DEF TypeOK
<1>2. \A call \in Calls : call.pc # "idle" /\ call # Idle
  BY DEF Calls, Idle
<1>3. Idle.pc = "idle"
  BY DEF Idle
<1>4. \A call \in Calls : /\ call.of \in Requests /\ call.decision \in Decisions
                          /\ call.pc \in {"check", "send", "mark", "interrupt", "fail"}
  BY DEF Calls
<1>5. \A c \in Callers : caller[c].pc # "idle" <=> caller[c] # Idle
  BY <1>1, <1>2, <1>3
<1> QED BY <1>1, <1>4, <1>5 DEF TypeOK

\* A call moves on with its request and decision; the other calls stand.
LEMMA CallGoes ==
  ASSUME TypeOK, NEW c \in Callers, caller[c] # Idle,
         NEW pc \in {"check", "send", "mark", "interrupt", "fail"}, Goto(c, pc)
  PROVE  /\ caller' \in [Callers -> Calls \cup {Idle}]
         /\ caller'[c] # Idle /\ caller'[c].pc = pc
         /\ caller'[c].of = caller[c].of /\ caller'[c].decision = caller[c].decision
         /\ \A d \in Callers \ {c} : caller'[d] = caller[d]
<1>1. caller[c] \in Calls
  BY Fields
<1> DEFINE new == [caller[c] EXCEPT !.pc = pc]
<1>2. /\ new \in Calls /\ new.pc = pc /\ new.of = caller[c].of
      /\ new.decision = caller[c].decision /\ new # Idle
  BY <1>1 DEF Calls, Idle
<1>3. caller' = [caller EXCEPT ![c] = new]
  BY DEF Goto
<1> HIDE DEF new
<1> QED BY <1>2, <1>3 DEF TypeOK

\* A call ends; the other calls stand.
LEMMA Leaves ==
  ASSUME TypeOK, NEW c \in Callers, Leave(c)
  PROVE  /\ caller' \in [Callers -> Calls \cup {Idle}]
         /\ caller'[c] = Idle
         /\ \A d \in Callers \ {c} : caller'[d] = caller[d]
BY DEF TypeOK, Leave

\* The requests of R end, the other requests stand, and who is connected is told.
LEMMA Closes ==
  ASSUME TypeOK, LinkSound, NEW R, R \subseteq {r \in Requests : asked[r] = "open"}, Close(R)
  PROVE  /\ asked' \in [Requests -> {"no", "open", "closed"}]
         /\ inbound' \in Seq(Messages)
         /\ \A r \in Requests : asked'[r] = IF r \in R THEN "closed" ELSE asked[r]
         /\ {r \in Requests : asked'[r] # "no"} = {r \in Requests : asked[r] # "no"}
         /\ \A r \in Requests : Arriving(r)' <=> Arriving(r)
         /\ \A r \in Requests : Closing(r)' <=> Closing(r) \/ (socket = "up" /\ r \in R)
         /\ socket # "up" => inbound' = inbound
<1> DEFINE Notes == {Resolved(r) : r \in R}
<1>1. IsFiniteSet(R)
  <2>1. R \subseteq {r \in Requests : asked[r] # "no"}
    OBVIOUS
  <2> QED BY <2>1, FS_Subset DEF LinkSound
<1>2. IsFiniteSet(Notes)
  BY <1>1, FiniteNotes
<1>3. SetToSeq(Notes) \in Seq(Notes) /\ Range(SetToSeq(Notes)) = Notes
  BY <1>2, Enumerated
<1>4. Notes \subseteq Messages
  BY MessageFacts
<1>5. SetToSeq(Notes) \in Seq(Messages)
  BY <1>3, <1>4, SeqMonotonic
<1>6. inbound \in Seq(Messages)
  BY DEF TypeOK
<1>7. inbound' = IF socket = "up" THEN inbound \o SetToSeq(Notes) ELSE inbound
  BY DEF Close
<1>8. \A r : Ask(r) \notin Notes /\ (Resolved(r) \in Notes <=> r \in R)
  BY MessageFacts
<1> HIDE DEF Notes
<1>9. /\ inbound' \in Seq(Messages)
      /\ Range(inbound') = IF socket = "up" THEN Range(inbound) \cup Notes ELSE Range(inbound)
  <2>1. /\ inbound \o SetToSeq(Notes) \in Seq(Messages)
        /\ Range(inbound \o SetToSeq(Notes)) = Range(inbound) \cup Range(SetToSeq(Notes))
    BY <1>5, <1>6, ConcatProperties, RangeConcatenation
  <2> QED BY <2>1, <1>3, <1>6, <1>7
<1>10. \A r \in Requests : asked'[r] = IF r \in R THEN "closed" ELSE asked[r]
  BY DEF Close
<1>11. asked' \in [Requests -> {"no", "open", "closed"}]
  BY DEF Close, TypeOK
<1>12. {r \in Requests : asked'[r] # "no"} = {r \in Requests : asked[r] # "no"}
  BY <1>10
<1>13. /\ \A r \in Requests : Arriving(r)' <=> Arriving(r)
       /\ \A r \in Requests : Closing(r)' <=> Closing(r) \/ (socket = "up" /\ r \in R)
  <2>1. ASSUME NEW r \in Requests
        PROVE  /\ Arriving(r)' <=> Arriving(r)
               /\ Closing(r)' <=> Closing(r) \/ (socket = "up" /\ r \in R)
    <3>1. Arriving(r)' <=> Ask(r) \in Range(inbound')
      BY DEF Arriving, Ask
    <3>2. Closing(r)' <=> Resolved(r) \in Range(inbound')
      BY DEF Closing, Resolved
    <3> QED BY <3>1, <3>2, <1>8, <1>9 DEF Arriving, Closing
  <2> QED BY <2>1
<1> QED BY <1>7, <1>9, <1>10, <1>11, <1>12, <1>13

\* A closed request of a faultless Gateway is noted after everything about it.
LEMMA ClosesInOrder ==
  ASSUME TypeOK, LinkSound, NEW R, R \subseteq {r \in Requests : asked[r] = "open"}, Close(R),
         Ordered(inbound), \A r \in Requests : Closing(r) => asked[r] = "closed"
  PROVE  Ordered(inbound')
<1> DEFINE Notes == {Resolved(r) : r \in R}
           t == SetToSeq(Notes)
           n == Len(inbound)
<1>1. IsFiniteSet(R)
  <2>1. R \subseteq {r \in Requests : asked[r] # "no"}
    OBVIOUS
  <2> QED BY <2>1, FS_Subset DEF LinkSound
<1>2. /\ t \in Seq(Notes) /\ Range(t) = Notes
      /\ \A i, j \in 1..Len(t) : t[i] = t[j] => i = j
  BY <1>1, FiniteNotes, Enumerated
<1>3. t \in Seq(Messages) /\ inbound \in Seq(Messages)
  BY <1>2, MessageFacts, SeqMonotonic DEF TypeOK
<1>4. inbound' = IF socket = "up" THEN inbound \o t ELSE inbound
  BY DEF Close
<1>5. \A r : Ask(r) \notin Notes
  BY MessageFacts
<1>6. ASSUME NEW m \in Notes
      PROVE  m \notin Range(inbound)
  BY MessageFacts DEF Closing
<1>7. Range(inbound) = {inbound[i] : i \in 1..n} /\ Range(t) = {t[i] : i \in 1..Len(t)}
  BY <1>3, RangeEquality
<1> HIDE DEF Notes, t
<1>8. CASE socket = "up"
  <2> DEFINE all == inbound \o t
  <2>1. /\ n \in Nat /\ Len(t) \in Nat /\ Len(all) = n + Len(t)
        /\ \A i \in 1..n + Len(t) : all[i] = IF i <= n THEN inbound[i] ELSE t[i - n]
    BY <1>3, ConcatProperties, LenProperties
  <2>2. \A i \in 1..n + Len(t) : i <= n => i \in 1..n /\ all[i] = inbound[i]
    BY <2>1
  <2>3. \A i \in 1..n + Len(t) :
          ~(i <= n) => i - n \in 1..Len(t) /\ all[i] = t[i - n] /\ all[i] \in Notes
    BY <2>1, <1>2, <1>7
  <2> HIDE DEF all, n
  <2>4. ASSUME NEW i \in 1..Len(all), NEW j \in 1..Len(all), all[i] = all[j]
        PROVE  i = j
    <3>1. CASE i <= n /\ j <= n
      BY <2>1, <2>2, <2>4, <3>1 DEF Ordered, n
    <3>2. CASE ~(i <= n) /\ ~(j <= n)
      <4>1. i - n = j - n
        BY <1>2, <2>1, <2>3, <2>4, <3>2, SMTT(30)
      <4> QED BY <4>1, <2>1
    <3>3. CASE (i <= n) # (j <= n)
      BY <1>6, <1>7, <2>1, <2>2, <2>3, <2>4, <3>3
    <3> QED BY <3>1, <3>2, <3>3
  <2>5. ASSUME NEW r \in Requests, NEW i \in 1..Len(all), NEW j \in 1..Len(all),
               all[i] = Ask(r), all[j] = Resolved(r)
        PROVE  i < j
    <3>1. i <= n
      BY <2>1, <2>3, <2>5, <1>5
    <3>2. CASE j <= n
      BY <2>1, <2>2, <2>5, <3>1, <3>2 DEF Ordered, n
    <3>3. CASE ~(j <= n)
      BY <2>1, <3>1, <3>3
    <3> QED BY <3>2, <3>3
  <2>6. Ordered(all)
    BY <2>4, <2>5 DEF Ordered
  <2> QED BY <1>4, <1>8, <2>6 DEF all
<1> QED BY <1>4, <1>8

\* The reader takes one message; the others stay in order.
LEMMA Reads ==
  ASSUME TypeOK, inbound # <<>>, inbound' = Tail(inbound)
  PROVE  /\ inbound' \in Seq(Messages) /\ Head(inbound) \in Messages
         /\ \A r : Ask(r) = Head(inbound) => Arriving(r)
         /\ \A r : Resolved(r) = Head(inbound) => Closing(r)
         /\ \A r : Ask(r) # Head(inbound) => (Arriving(r)' <=> Arriving(r))
         /\ \A r : Resolved(r) # Head(inbound) => (Closing(r)' <=> Closing(r))
         /\ \A r : Arriving(r)' => Arriving(r)
         /\ \A r : Closing(r)' => Closing(r)
<1>1. inbound \in Seq(Messages)
  BY DEF TypeOK
<1>2. /\ Head(inbound) \in Messages /\ inbound' \in Seq(Messages)
      /\ \A x : x \in Range(inbound) <=> x = Head(inbound) \/ x \in Range(inbound')
  BY <1>1, Queue
<1>3. \A r : /\ Arriving(r)' <=> Ask(r) \in Range(inbound')
             /\ Closing(r)' <=> Resolved(r) \in Range(inbound')
  BY DEF Arriving, Closing, Ask, Resolved
<1> QED BY <1>2, <1>3 DEF Arriving, Closing

\* What is read of ordered messages does not come again, nor a request after the
\* note that it is closed.
LEMMA ReadsInOrder ==
  ASSUME NEW q \in Seq(Messages), q # <<>>, Ordered(q)
  PROVE  /\ Ordered(Tail(q))
         /\ Head(q) \notin Range(Tail(q))
         /\ \A r \in Requests : Resolved(r) = Head(q) => Ask(r) \notin Range(q)
<1> DEFINE rest == Tail(q)
<1>2. /\ rest \in Seq(Messages) /\ Len(q) \in Nat /\ Len(q) # 0
      /\ Len(rest) = Len(q) - 1
      /\ \A i \in 1..Len(rest) : rest[i] = q[i + 1]
  BY HeadTailProperties, LenProperties, EmptySeq
<1>3. Head(q) = q[1]
  OBVIOUS
<1>4. Range(q) = {q[i] : i \in 1..Len(q)}
  BY RangeEquality
<1>5. Range(rest) = {rest[i] : i \in 1..Len(rest)}
  BY <1>2, RangeEquality DEF rest
<1> HIDE DEF rest
<1>6. \A i \in 1..Len(rest) : i + 1 \in 1..Len(q) /\ i + 1 # 1
  BY <1>2
<1>7. 1 \in 1..Len(q)
  BY <1>2
<1>8. ASSUME NEW i \in 1..Len(rest), NEW j \in 1..Len(rest), rest[i] = rest[j]
      PROVE  i = j
  <2>1. i + 1 = j + 1
    BY <1>2, <1>6, <1>8 DEF Ordered
  <2> QED BY <2>1
<1>9. ASSUME NEW r \in Requests, NEW i \in 1..Len(rest), NEW j \in 1..Len(rest),
             rest[i] = Ask(r), rest[j] = Resolved(r)
      PROVE  i < j
  <2>1. i + 1 < j + 1
    BY <1>2, <1>6, <1>9 DEF Ordered
  <2> QED BY <2>1
<1>10. ASSUME Head(q) \in Range(rest)
       PROVE  FALSE
  <2>1. PICK i \in 1..Len(rest) : q[1] = rest[i]
    BY <1>3, <1>5, <1>10
  <2> QED BY <2>1, <1>2, <1>6, <1>7 DEF Ordered
<1>11. ASSUME NEW r \in Requests, Resolved(r) = Head(q), Ask(r) \in Range(q)
       PROVE  FALSE
  <2>1. PICK i \in 1..Len(q) : q[i] = Ask(r)
    BY <1>4, <1>11
  <2>2. i < 1
    BY <1>3, <1>7, <1>11, <2>1 DEF Ordered
  <2> QED BY <2>1, <2>2
<1> QED BY <1>8, <1>9, <1>10, <1>11 DEF Ordered, rest

-----------------------------------------------------------------------------
(* How a request moves                                                     *)

\* Parts of what is known of r that a step leaves alone.
ServerKept(r) == asked'[r] = asked[r] /\ effect'[r] = effect[r]
QueueKept(r)  == (Arriving(r)' <=> Arriving(r)) /\ (Closing(r)' <=> Closing(r))
AnswersKept(r) == \A d \in Decisions : Answered(r, d)' <=> Answered(r, d)
BoardKept(r)  == pending'[r] = pending[r]
HistoryKept(r) == (r \in tried' <=> r \in tried) /\ (r \in overtaken' <=> r \in overtaken)
CallKept(c, r) == (On(c, r)' <=> On(c, r)) /\ (On(c, r) => caller'[c] = caller[c])
CallsKept(r)  == \A c \in Callers : CallKept(c, r)
OthersKept(c, r) == \A e \in Callers \ {c} : CallKept(e, r)

\* Nothing about r changes.
Stands(r) ==
  /\ ServerKept(r) /\ QueueKept(r) /\ AnswersKept(r) /\ BoardKept(r) /\ HistoryKept(r)
  /\ CallsKept(r) /\ (socket' = "up" <=> socket = "up")

\* Request
Opened(r) ==
  /\ asked[r] = "no" /\ asked'[r] = "open" /\ socket = "up" /\ Arriving(r)'
  /\ effect'[r] = effect[r] /\ (Closing(r)' <=> Closing(r))
  /\ AnswersKept(r) /\ BoardKept(r) /\ HistoryKept(r) /\ CallsKept(r) /\ (socket' = "up" <=> socket = "up")

\* EndElsewhere, or the interrupt of a turn, whose call may leave.
Ended(r) ==
  /\ asked[r] = "open" /\ asked'[r] = "closed" /\ (Closing(r)' <=> Closing(r) \/ socket = "up")
  /\ effect'[r] = effect[r] /\ (Arriving(r)' <=> Arriving(r))
  /\ AnswersKept(r) /\ BoardKept(r) /\ HistoryKept(r) /\ (socket' = "up" <=> socket = "up")
  /\ \A c \in Callers : CallKept(c, r) \/ (caller[c].pc = "interrupt" /\ On(c, r) /\ ~On(c, r)')

\* Hear, of a request that is open.
Decided(r) ==
  /\ asked[r] = "open" /\ asked'[r] = "closed" /\ (Closing(r)' <=> Closing(r) \/ socket = "up")
  /\ effect'[r] \in Decisions /\ Answered(r, effect'[r])
  /\ \A d \in Decisions : Answered(r, d)' => Answered(r, d)
  /\ (Arriving(r)' <=> Arriving(r)) /\ BoardKept(r) /\ HistoryKept(r) /\ CallsKept(r)
  /\ (socket' = "up" <=> socket = "up")

\* Hear, of a request that is not.
Ignored(r) ==
  /\ asked[r] # "open" /\ \E d \in Decisions : Answered(r, d)
  /\ \A d \in Decisions : Answered(r, d)' => Answered(r, d)
  /\ ServerKept(r) /\ QueueKept(r) /\ BoardKept(r) /\ HistoryKept(r) /\ CallsKept(r)
  /\ (socket' = "up" <=> socket = "up")

\* Drop, Crash
Lost(r) ==
  /\ socket' # "up" /\ faults' # <<>> /\ ~Arriving(r)' /\ ~Closing(r)'
  /\ \A d \in Decisions : ~Answered(r, d)'
  /\ ServerKept(r) /\ BoardKept(r) /\ HistoryKept(r)
  /\ \A c \in Callers : On(c, r)' => CallKept(c, r)

\* Resume
Resumed(r) ==
  /\ socket # "up" /\ socket' = "up" /\ (Arriving(r)' <=> asked[r] = "open") /\ ~Closing(r)'
  /\ ServerKept(r) /\ AnswersKept(r) /\ BoardKept(r) /\ CallsKept(r)
  /\ (r \in tried' <=> r \in tried) /\ (r \in overtaken' <=> r \in overtaken \/ Underway(r))

\* Read, of a request
Arrived(r) ==
  /\ Arriving(r) /\ (Ordered(inbound) => ~Arriving(r)')
  /\ pending'[r] = [status |-> "pending", decision |-> "none"] /\ r \notin tried'
  /\ ServerKept(r) /\ (Closing(r)' <=> Closing(r)) /\ AnswersKept(r) /\ CallsKept(r)
  /\ (r \in overtaken' <=> r \in overtaken) /\ (socket' = "up" <=> socket = "up")

\* Read, of the note that a request is closed
Noted(r) ==
  /\ Closing(r) /\ (Ordered(inbound) => ~Closing(r)' /\ ~Arriving(r))
  /\ pending'[r] = NoPending
  /\ ServerKept(r) /\ (Arriving(r)' <=> Arriving(r)) /\ AnswersKept(r) /\ CallsKept(r)
  /\ HistoryKept(r) /\ (socket' = "up" <=> socket = "up")

\* Admit
Admitted(r, c, d) ==
  /\ pending[r].status = "pending" /\ pending'[r] = [status |-> "responding", decision |-> d]
  /\ ~On(c, r) /\ On(c, r)' /\ caller'[c] = [pc |-> "check", of |-> r, decision |-> d]
  /\ r \in tried' /\ (r \in overtaken' <=> r \in overtaken \/ Arriving(r))
  /\ ServerKept(r) /\ QueueKept(r) /\ AnswersKept(r) /\ OthersKept(c, r)
  /\ (socket' = "up" <=> socket = "up")

\* A call on r that goes on.
Goes(r, c, from, to) ==
  /\ On(c, r) /\ On(c, r)' /\ caller[c].pc = from /\ caller'[c].pc = to
  /\ caller'[c].decision = caller[c].decision
  /\ OthersKept(c, r) /\ ServerKept(r) /\ QueueKept(r) /\ BoardKept(r) /\ HistoryKept(r)
  /\ (socket' = "up" <=> socket = "up")

\* A call on r that ends.
Left(r, c, from) ==
  /\ On(c, r) /\ ~On(c, r)' /\ caller[c].pc = from
  /\ OthersKept(c, r) /\ ServerKept(r) /\ QueueKept(r) /\ AnswersKept(r) /\ HistoryKept(r)
  /\ (socket' = "up" <=> socket = "up")

\* Check, Send, Mark, Interrupt and Fail
Called(r, c) ==
  \/ AnswersKept(r) /\ (Goes(r, c, "check", "send") \/ Goes(r, c, "check", "fail"))
  \/ /\ AnswersKept(r) /\ socket # "up"
     /\ Goes(r, c, "send", "fail") \/ Goes(r, c, "send", "mark")
  \/ /\ Goes(r, c, "send", "mark") /\ socket = "up"
     /\ \A d \in Decisions :
          Answered(r, d)' <=> Answered(r, d) \/ d = caller[c].decision
  \/ AnswersKept(r) /\ Goes(r, c, "mark", "interrupt")
  \/ BoardKept(r) /\ Left(r, c, "mark")
  \/ AnswersKept(r) /\ Goes(r, c, "interrupt", "fail") /\ (socket = "up" => faults' # <<>>)
  \/ BoardKept(r) /\ Left(r, c, "interrupt")
  \/ /\ Left(r, c, "fail")
     /\ pending'[r] = IF pending[r] = NoPending THEN NoPending
                      ELSE [status |-> "responseUnknown", decision |-> pending[r].decision]

\* What a step may do to r.
RequestMoves(r) ==
  \/ Stands(r) \/ Opened(r) \/ Ended(r) \/ Decided(r) \/ Ignored(r) \/ Lost(r) \/ Resumed(r)
  \/ Arrived(r) \/ Noted(r)
  \/ \E c \in Callers, d \in Decisions : Admitted(r, c, d)
  \/ \E c \in Callers : Called(r, c)

\* Calls that stand still are about what they were about.
LEMMA CallsStand ==
  ASSUME UNCHANGED caller
  PROVE  \A r : CallsKept(r)
BY DEF CallsKept, CallKept, On

\* Messages that nobody sends or reads stay.
LEMMA QueueStands ==
  ASSUME UNCHANGED inbound
  PROVE  \A r : QueueKept(r)
BY DEF QueueKept, Arriving, Closing, Ask, Resolved

\* Answers that nobody sends or hears stay.
LEMMA AnswersStand ==
  ASSUME UNCHANGED outbound
  PROVE  \A r : AnswersKept(r)
BY DEF AnswersKept, Answered

\* A call that moves on changes no other call, and stays on its request.
LEMMA GoesKeeps ==
  ASSUME TypeOK, NEW c \in Callers, caller[c] # Idle,
         NEW pc \in {"check", "send", "mark", "interrupt", "fail"}, Goto(c, pc)
  PROVE  /\ \A r : OthersKept(c, r)
         /\ \A r : On(c, r)' <=> On(c, r)
         /\ caller'[c].pc = pc /\ caller'[c].decision = caller[c].decision
         /\ \A r : ~On(c, r) => CallsKept(r)
<1>1. /\ caller'[c] # Idle /\ caller'[c].pc = pc
      /\ caller'[c].of = caller[c].of /\ caller'[c].decision = caller[c].decision
      /\ \A d \in Callers \ {c} : caller'[d] = caller[d]
  BY CallGoes
<1> QED BY <1>1 DEF OthersKept, CallsKept, CallKept, On

\* A call that ends is on no request, and changes no other call.
LEMMA LeavesKeeps ==
  ASSUME TypeOK, NEW c \in Callers, Leave(c)
  PROVE  /\ \A r : OthersKept(c, r)
         /\ \A r : ~On(c, r)'
         /\ \A r : ~On(c, r) => CallsKept(r)
<1>1. caller'[c] = Idle /\ \A d \in Callers \ {c} : caller'[d] = caller[d]
  BY Leaves
<1> QED BY <1>1 DEF OthersKept, CallsKept, CallKept, On

\* What is heard was answered, and is answered no more often than before.
LEMMA Hears ==
  ASSUME TypeOK, outbound # <<>>, outbound' = Tail(outbound)
  PROVE  /\ Head(outbound) \in Answers /\ outbound' \in Seq(Answers)
         /\ Answered(Head(outbound).of, Head(outbound).decision)
         /\ \A r, d : Answered(r, d)' => Answered(r, d)
         /\ \A r : r # Head(outbound).of => AnswersKept(r)
<1>1. /\ Head(outbound) \in Answers /\ outbound' \in Seq(Answers)
      /\ \A x : x \in Range(outbound) <=> x = Head(outbound) \/ x \in Range(outbound')
  BY Queue DEF TypeOK
<1>2. Head(outbound) = [of |-> Head(outbound).of, decision |-> Head(outbound).decision]
  BY <1>1 DEF Answers
<1>3. \A r, d : Answered(r, d)' <=> [of |-> r, decision |-> d] \in Range(outbound')
  BY DEF Answered
<1>4. \A r, d : [of |-> r, decision |-> d] = Head(outbound) => r = Head(outbound).of
  BY <1>2
<1> QED BY <1>1, <1>2, <1>3, <1>4 DEF Answered, AnswersKept

\* A request is made; the others stand.
LEMMA RequestMakes ==
  ASSUME TypeOK, NEW q \in Requests, Request(q), NEW r \in Requests
  PROVE  RequestMoves(r)
<1>1. /\ asked[q] = "no" /\ socket = "up" /\ asked' = [asked EXCEPT ![q] = "open"]
      /\ inbound' = Append(inbound, Ask(q))
      /\ UNCHANGED <<effect, socket, reports, outbound, pending, caller, tried, overtaken>>
  BY DEF Request, gateway, history
<1>2. CallsKept(r) /\ AnswersKept(r) /\ BoardKept(r) /\ HistoryKept(r)
  BY <1>1, CallsStand, AnswersStand DEF BoardKept, HistoryKept
<1>3. \A x : x \in Range(inbound') <=> x = Ask(q) \/ x \in Range(inbound)
  BY <1>1, Enqueued, MessageFacts DEF TypeOK
<1>4. /\ Arriving(r)' <=> r = q \/ Arriving(r)
      /\ Closing(r)' <=> Closing(r)
  <2>1. /\ Arriving(r)' <=> Ask(r) \in Range(inbound')
        /\ Closing(r)' <=> Resolved(r) \in Range(inbound')
    BY DEF Arriving, Closing, Ask, Resolved
  <2> QED BY <1>3, <2>1, MessageFacts DEF Arriving, Closing
<1>5. CASE r = q
  <2>1. asked'[r] = "open" /\ effect'[r] = effect[r]
    BY <1>1, <1>5 DEF TypeOK
  <2> QED BY <1>1, <1>2, <1>4, <1>5, <2>1 DEF RequestMoves, Opened
<1>6. CASE r # q
  <2>1. ServerKept(r)
    BY <1>1, <1>6 DEF TypeOK, ServerKept
  <2> QED BY <1>1, <1>2, <1>4, <1>6, <2>1 DEF RequestMoves, Stands, QueueKept
<1> QED BY <1>5, <1>6

\* A request is closed by somebody else.
LEMMA EndElsewhereMakes ==
  ASSUME TypeOK, LinkSound, NEW q \in Requests, EndElsewhere(q), NEW r \in Requests
  PROVE  RequestMoves(r)
<1>1. /\ asked[q] = "open" /\ Close({q})
      /\ UNCHANGED <<effect, socket, reports, outbound, pending, caller, tried, overtaken>>
  BY DEF EndElsewhere, gateway, history
<1>2. CallsKept(r) /\ AnswersKept(r) /\ BoardKept(r) /\ HistoryKept(r)
  BY <1>1, CallsStand, AnswersStand DEF BoardKept, HistoryKept
<1>3. /\ asked'[r] = IF r \in {q} THEN "closed" ELSE asked[r]
      /\ Arriving(r)' <=> Arriving(r)
      /\ Closing(r)' <=> Closing(r) \/ (socket = "up" /\ r \in {q})
  <2>1. {q} \subseteq {x \in Requests : asked[x] = "open"}
    BY <1>1
  <2> QED BY <1>1, <2>1, Closes
<1>4. CASE r = q
  BY <1>1, <1>2, <1>3, <1>4 DEF RequestMoves, Ended, CallsKept
<1>5. CASE r # q
  BY <1>1, <1>2, <1>3, <1>5 DEF RequestMoves, Stands, ServerKept, QueueKept
<1> QED BY <1>4, <1>5

\* The App Server hears an answer.
LEMMA HearMakes ==
  ASSUME TypeOK, LinkSound, Hear, NEW r \in Requests
  PROVE  RequestMoves(r)
<1> DEFINE q == Head(outbound).of
           d == Head(outbound).decision
<1>1. /\ outbound # <<>> /\ outbound' = Tail(outbound)
      /\ \/ /\ asked[q] = "open" /\ Close({q})
            /\ effect' = [effect EXCEPT ![q] = d]
         \/ asked[q] # "open" /\ UNCHANGED <<asked, inbound, effect>>
      /\ UNCHANGED <<socket, reports, pending, caller, tried, overtaken>>
  BY DEF Hear, gateway, history
<1>2. CallsKept(r) /\ BoardKept(r) /\ HistoryKept(r)
  BY <1>1, CallsStand DEF BoardKept, HistoryKept
<1>3. q \in Requests /\ d \in Decisions /\ Answered(q, d)
  BY <1>1, Hears DEF Answers
<1>4. /\ \A e \in Decisions : Answered(r, e)' => Answered(r, e)
      /\ r # q => AnswersKept(r)
  BY <1>1, Hears
<1> HIDE DEF q, d
<1>5. CASE asked[q] = "open"
  <2>1. /\ asked'[r] = IF r \in {q} THEN "closed" ELSE asked[r]
        /\ Arriving(r)' <=> Arriving(r)
        /\ Closing(r)' <=> Closing(r) \/ (socket = "up" /\ r \in {q})
    <3>1. {q} \subseteq {x \in Requests : asked[x] = "open"} /\ Close({q})
      BY <1>1, <1>3, <1>5
    <3> QED BY <3>1, Closes
  <2>2. effect'[r] = IF r = q THEN d ELSE effect[r]
    BY <1>1, <1>5 DEF TypeOK
  <2>3. CASE r = q
    BY <1>1, <1>2, <1>3, <1>4, <1>5, <2>1, <2>2, <2>3 DEF RequestMoves, Decided
  <2>4. CASE r # q
    BY <1>1, <1>2, <1>4, <2>1, <2>2, <2>4 DEF RequestMoves, Stands, ServerKept, QueueKept
  <2> QED BY <2>3, <2>4
<1>6. CASE asked[q] # "open"
  <2>1. ServerKept(r) /\ QueueKept(r)
    BY <1>1, <1>6, QueueStands DEF ServerKept
  <2>2. CASE r = q
    BY <1>1, <1>2, <1>3, <1>4, <1>6, <2>1, <2>2 DEF RequestMoves, Ignored
  <2>3. CASE r # q
    BY <1>1, <1>2, <1>4, <2>1, <2>3 DEF RequestMoves, Stands
  <2> QED BY <2>2, <2>3
<1> QED BY <1>5, <1>6

\* A fault is remembered.
LEMMA FaultCounts ==
  ASSUME TypeOK, NEW kind, Fault(kind)
  PROVE  faults' # <<>> /\ faults' \in Seq(Faults) /\ Len(faults') <= MaxFaults
BY AppendProperties, ConstantsAssumption DEF Fault, TypeOK

\* A connection without messages carries nothing about any request.
LEMMA Empties ==
  ASSUME inbound' = <<>>, outbound' = <<>>
  PROVE  \A r : /\ ~Arriving(r)' /\ ~Closing(r)'
                /\ \A d : ~Answered(r, d)'
BY DEF Arriving, Closing, Answered, Range

\* The connection is lost.
LEMMA DropMakes ==
  ASSUME TypeOK, Drop, NEW r \in Requests
  PROVE  RequestMoves(r)
<1>1. /\ socket' # "up" /\ inbound' = <<>> /\ outbound' = <<>> /\ Fault("drop")
      /\ UNCHANGED <<asked, effect, pending, caller, tried, overtaken>>
  BY DEF Drop, server, gateway, history
<1>2. /\ CallsKept(r) /\ BoardKept(r) /\ HistoryKept(r) /\ ServerKept(r) /\ faults' # <<>>
      /\ ~Arriving(r)' /\ ~Closing(r)' /\ \A d \in Decisions : ~Answered(r, d)'
  BY <1>1, CallsStand, FaultCounts, Empties DEF BoardKept, HistoryKept, ServerKept
<1> QED BY <1>1, <1>2 DEF RequestMoves, Lost, CallsKept

\* The loss is noticed, or told to the board: neither is about a request.
LEMMA NoticeMakes ==
  ASSUME TypeOK, Notice \/ Report, NEW r \in Requests
  PROVE  RequestMoves(r)
<1>1. /\ UNCHANGED <<asked, effect, inbound, outbound, pending, caller, tried, overtaken>>
      /\ socket' = "up" <=> socket = "up"
  BY DEF Notice, Report, server, gateway, history
<1>2. Stands(r)
  BY <1>1, CallsStand, QueueStands, AnswersStand DEF Stands, ServerKept, BoardKept, HistoryKept
<1> QED BY <1>2 DEF RequestMoves

\* The Gateway dies.
LEMMA CrashMakes ==
  ASSUME TypeOK, Crash, NEW r \in Requests
  PROVE  RequestMoves(r)
<1>1. /\ socket' # "up" /\ inbound' = <<>> /\ outbound' = <<>> /\ Fault("crash")
      /\ caller' = [c \in Callers |-> Idle]
      /\ UNCHANGED <<asked, effect, pending, tried, overtaken>>
  BY DEF Crash, server, history, gateway
<1>2. /\ BoardKept(r) /\ HistoryKept(r) /\ ServerKept(r) /\ faults' # <<>>
      /\ ~Arriving(r)' /\ ~Closing(r)' /\ \A d \in Decisions : ~Answered(r, d)'
  BY <1>1, FaultCounts, Empties DEF BoardKept, HistoryKept, ServerKept
<1>3. \A c \in Callers : ~On(c, r)'
  BY <1>1 DEF On
<1> QED BY <1>1, <1>2, <1>3 DEF RequestMoves, Lost

\* The App Server delivers again what is open.
LEMMA Redelivers ==
  ASSUME TypeOK, LinkSound, Resume
  PROVE  /\ inbound' \in Seq(Messages)
         /\ \A r \in Requests : (Arriving(r)' <=> asked[r] = "open") /\ ~Closing(r)'
<1> DEFINE R == {q \in Requests : asked[q] = "open"}
           Asks == {Ask(r) : r \in R}
<1>1. IsFiniteSet(R)
  <2>1. R \subseteq {r \in Requests : asked[r] # "no"}
    OBVIOUS
  <2> QED BY <2>1, FS_Subset DEF LinkSound
<1>2. IsFiniteSet(Asks)
  BY <1>1, FiniteNotes
<1>3. inbound' = SetToSeq(Asks)
  BY DEF Resume
<1>4. SetToSeq(Asks) \in Seq(Asks) /\ Range(SetToSeq(Asks)) = Asks
  BY <1>2, Enumerated
<1>5. Asks \subseteq Messages
  BY MessageFacts
<1>6. \A r \in Requests : (Ask(r) \in Asks <=> asked[r] = "open") /\ Resolved(r) \notin Asks
  BY MessageFacts
<1> HIDE DEF Asks
<1>7. inbound' \in Seq(Messages)
  BY <1>3, <1>4, <1>5, SeqMonotonic
<1>8. \A r : /\ Arriving(r)' <=> Ask(r) \in Range(inbound')
             /\ Closing(r)' <=> Resolved(r) \in Range(inbound')
  BY DEF Arriving, Closing, Ask, Resolved
<1> QED BY <1>3, <1>4, <1>6, <1>7, <1>8

\* The Gateway connects again.
LEMMA ResumeMakes ==
  ASSUME TypeOK, LinkSound, Resume, NEW r \in Requests
  PROVE  RequestMoves(r)
<1>1. /\ socket # "up" /\ socket' = "up" /\ overtaken' = overtaken \cup {q \in Requests : Underway(q)}
      /\ UNCHANGED <<asked, effect, pending, caller, outbound, tried>>
  BY DEF Resume, server, gateway
<1>2. CallsKept(r) /\ BoardKept(r) /\ ServerKept(r) /\ AnswersKept(r)
  BY <1>1, CallsStand, AnswersStand DEF BoardKept, ServerKept
<1>3. (Arriving(r)' <=> asked[r] = "open") /\ ~Closing(r)'
  BY Redelivers
<1> QED BY <1>1, <1>2, <1>3 DEF RequestMoves, Resumed

\* The reader takes a request or a note from the queue.
LEMMA ReadMakes ==
  ASSUME TypeOK, Read, NEW r \in Requests
  PROVE  RequestMoves(r)
<1> DEFINE message == Head(inbound)
           q == message.of
<1>1. /\ inbound # <<>> /\ inbound' = Tail(inbound)
      /\ \/ message.what = "ask" /\ Arrives(q)
         \/ message.what = "resolved" /\ IsResolved(q) /\ UNCHANGED tried
      /\ UNCHANGED <<asked, effect, socket, reports, outbound, caller, overtaken>>
  BY DEF Read, server
<1>2. CallsKept(r) /\ ServerKept(r) /\ AnswersKept(r) /\ (r \in overtaken' <=> r \in overtaken)
  BY <1>1, CallsStand, AnswersStand DEF ServerKept
<1>3. inbound \in Seq(Messages) /\ message \in Messages
  BY <1>1, Queue DEF TypeOK
<1>4. q \in Requests
  BY <1>3, MessageFacts
<1>5. /\ \A x : Ask(x) = message => Arriving(x)
      /\ \A x : Resolved(x) = message => Closing(x)
      /\ \A x : Ask(x) # message => (Arriving(x)' <=> Arriving(x))
      /\ \A x : Resolved(x) # message => (Closing(x)' <=> Closing(x))
  BY <1>1, Reads
<1>6. Ordered(inbound) => /\ message \notin Range(inbound')
                          /\ \A x \in Requests : Resolved(x) = message =>
                                 Ask(x) \notin Range(inbound)
  BY <1>1, <1>3, ReadsInOrder
<1>7. /\ Arriving(r)' <=> Ask(r) \in Range(inbound')
      /\ Closing(r)' <=> Resolved(r) \in Range(inbound')
  BY DEF Arriving, Closing, Ask, Resolved
<1>8. CASE message.what = "ask"
  <2>1. message = Ask(q) /\ Arrives(q)
    BY <1>1, <1>3, <1>8, MessageFacts
  <2> HIDE DEF q, message
  <2>2. \A x : Resolved(x) # message
    BY <2>1, MessageFacts
  <2>3. pending' = [pending EXCEPT ![q] = Recorded(q)] /\ tried' = tried \ {q}
    BY <2>1 DEF Arrives
  <2>4. CASE r = q
    <3>1. pending'[r] = Recorded(r) /\ r \notin tried'
      BY <1>4, <2>3, <2>4 DEF TypeOK
    <3>2. Arriving(r) /\ (Closing(r)' <=> Closing(r)) /\ (Ordered(inbound) => ~Arriving(r)')
      BY <1>5, <1>6, <1>7, <2>1, <2>2, <2>4
    <3> QED BY <1>1, <1>2, <3>1, <3>2 DEF RequestMoves, Arrived, Recorded
  <2>5. CASE r # q
    <3>1. BoardKept(r) /\ HistoryKept(r)
      BY <1>2, <2>3, <2>5 DEF TypeOK, BoardKept, HistoryKept
    <3>2. QueueKept(r)
      BY <1>5, <2>1, <2>2, <2>5, MessageFacts DEF QueueKept
    <3> QED BY <1>1, <1>2, <3>1, <3>2 DEF RequestMoves, Stands
  <2> QED BY <2>4, <2>5
<1>9. CASE message.what = "resolved"
  <2>1. message = Resolved(q) /\ IsResolved(q) /\ tried' = tried
    BY <1>1, <1>3, <1>9, MessageFacts
  <2> HIDE DEF q, message
  <2>2. \A x : Ask(x) # message
    BY <2>1, MessageFacts
  <2>3. \/ pending[q] = NoPending /\ pending' = pending
        \/ pending' = [pending EXCEPT ![q] = NoPending]
    BY <2>1 DEF IsResolved, Cleared, gateway
  <2>4. HistoryKept(r)
    BY <1>2, <2>1 DEF HistoryKept
  <2>5. CASE r = q
    <3>1. pending'[r] = NoPending
      BY <1>4, <2>3, <2>5 DEF TypeOK
    <3>2. /\ Closing(r) /\ (Arriving(r)' <=> Arriving(r))
          /\ Ordered(inbound) => ~Closing(r)' /\ ~Arriving(r)
      BY <1>5, <1>6, <1>7, <2>1, <2>2, <2>5 DEF Arriving
    <3> QED BY <1>1, <1>2, <2>4, <3>1, <3>2 DEF RequestMoves, Noted
  <2>6. CASE r # q
    <3>1. BoardKept(r)
      BY <2>3, <2>6 DEF TypeOK, BoardKept
    <3>2. QueueKept(r)
      BY <1>5, <2>1, <2>2, <2>6, MessageFacts DEF QueueKept
    <3> QED BY <1>1, <1>2, <2>4, <3>1, <3>2 DEF RequestMoves, Stands
  <2> QED BY <2>5, <2>6
<1> QED BY <1>3, <1>8, <1>9, MessageFacts

\* A decision is admitted.
LEMMA AdmitMakes ==
  ASSUME TypeOK, NEW c \in Callers, NEW q \in Requests, NEW d \in Decisions, Admit(c, q, d),
         NEW r \in Requests
  PROVE  RequestMoves(r)
<1>1. /\ caller[c] = Idle /\ pending[q].status = "pending"
      /\ pending' = [pending EXCEPT ![q] = [status |-> "responding", decision |-> d]]
      /\ caller' = [caller EXCEPT ![c] = [pc |-> "check", of |-> q, decision |-> d]]
      /\ tried' = tried \cup {q}
      /\ overtaken' = IF Arriving(q) THEN overtaken \cup {q} ELSE overtaken
      /\ UNCHANGED <<asked, effect, socket, reports, inbound, outbound>>
  BY DEF Admit, Admissible, server, link
<1>2. ServerKept(r) /\ QueueKept(r) /\ AnswersKept(r)
  BY <1>1, QueueStands, AnswersStand DEF ServerKept
<1>3. /\ caller'[c] = [pc |-> "check", of |-> q, decision |-> d]
      /\ \A e \in Callers \ {c} : caller'[e] = caller[e]
  BY <1>1 DEF TypeOK
<1>4. caller'[c] # Idle /\ caller'[c].of = q
  BY <1>3, Fields DEF Idle
<1>5. OthersKept(c, r) /\ ~On(c, r) /\ (On(c, r)' <=> r = q)
  BY <1>1, <1>3, <1>4 DEF OthersKept, CallKept, On
<1>6. CASE r = q
  <2>1. pending'[r] = [status |-> "responding", decision |-> d] /\ pending[r].status = "pending"
    BY <1>1, <1>6 DEF TypeOK
  <2>2. r \in tried' /\ (r \in overtaken' <=> r \in overtaken \/ Arriving(r))
    BY <1>1, <1>6
  <2>3. Admitted(r, c, d)
    BY <1>1, <1>2, <1>3, <1>5, <1>6, <2>1, <2>2 DEF Admitted
  <2> QED BY <2>3 DEF RequestMoves
<1>7. CASE r # q
  <2>1. BoardKept(r) /\ HistoryKept(r)
    BY <1>1, <1>7 DEF TypeOK, BoardKept, HistoryKept
  <2>2. CallsKept(r)
    BY <1>5, <1>7 DEF OthersKept, CallsKept, CallKept
  <2> QED BY <1>1, <1>2, <2>1, <2>2 DEF RequestMoves, Stands
<1> QED BY <1>6, <1>7

\* Whether a call changes r or not, it is on one request alone.
LEMMA CallChanges ==
  ASSUME NEW r \in Requests, NEW c \in Callers,
         On(c, r) => Called(r, c),
         ~On(c, r) => Stands(r)
  PROVE  RequestMoves(r)
BY DEF RequestMoves

\* _approval_responses is looked up.
LEMMA CheckMakes ==
  ASSUME TypeOK, NEW c \in Callers, Check(c), NEW r \in Requests
  PROVE  RequestMoves(r)
<1>1. /\ caller[c].pc = "check" /\ caller[c] # Idle
      /\ Goto(c, "send") \/ Goto(c, "fail")
      /\ UNCHANGED <<asked, effect, socket, reports, inbound, outbound, pending, tried, overtaken>>
  BY Fields DEF Check, server, link, gateway, history
<1>2. ServerKept(r) /\ QueueKept(r) /\ AnswersKept(r) /\ BoardKept(r) /\ HistoryKept(r)
  BY <1>1, QueueStands, AnswersStand DEF ServerKept, BoardKept, HistoryKept
<1>3. /\ OthersKept(c, r) /\ (On(c, r)' <=> On(c, r)) /\ caller'[c].pc \in {"send", "fail"}
      /\ caller'[c].decision = caller[c].decision /\ (~On(c, r) => CallsKept(r))
  BY <1>1, GoesKeeps
<1>4. On(c, r) => Called(r, c)
  BY <1>1, <1>2, <1>3 DEF Called, Goes
<1>5. ~On(c, r) => Stands(r)
  BY <1>1, <1>2, <1>3 DEF Stands
<1> QED BY <1>4, <1>5, CallChanges

\* An answer leaves, or the connection is gone.
LEMMA SendMakes ==
  ASSUME TypeOK, NEW c \in Callers, Send(c), NEW r \in Requests
  PROVE  RequestMoves(r)
<1>1. /\ caller[c].pc = "send" /\ caller[c] # Idle
      /\ UNCHANGED <<asked, effect, socket, reports, inbound, pending, tried, overtaken>>
  BY Fields DEF Send, server, gateway
<1>2. ServerKept(r) /\ QueueKept(r) /\ BoardKept(r) /\ HistoryKept(r)
  BY <1>1, QueueStands DEF ServerKept, BoardKept, HistoryKept
<1>3. CASE socket = "up" /\ Goto(c, "mark")
  <2> DEFINE answer == [of |-> caller[c].of, decision |-> caller[c].decision]
  <2>1. outbound' = Append(outbound, answer) /\ Goto(c, "mark")
    BY <1>3 DEF Send
  <2>2. /\ OthersKept(c, r) /\ (On(c, r)' <=> On(c, r)) /\ caller'[c].pc = "mark"
        /\ caller'[c].decision = caller[c].decision /\ (~On(c, r) => CallsKept(r))
    BY <1>1, <2>1, GoesKeeps
  <2>3. answer \in Answers
    BY <1>1, Fields DEF Answers
  <2> HIDE DEF answer
  <2>4. \A x : x \in Range(outbound') <=> x = answer \/ x \in Range(outbound)
    BY <2>1, <2>3, Enqueued DEF TypeOK
  <2>5. \A d : [of |-> r, decision |-> d] = answer
               <=> r = caller[c].of /\ d = caller[c].decision
    BY DEF answer
  <2>6. \A d : Answered(r, d)' <=> [of |-> r, decision |-> d] \in Range(outbound')
    BY DEF Answered
  <2>7. On(c, r) => \A d : Answered(r, d)' <=> Answered(r, d) \/ d = caller[c].decision
    BY <2>4, <2>5, <2>6 DEF Answered, On
  <2>8. ~On(c, r) => AnswersKept(r)
    BY <1>1, <2>4, <2>5, <2>6 DEF Answered, On, AnswersKept
  <2>9. On(c, r) => Called(r, c)
    BY <1>1, <1>2, <1>3, <2>2, <2>7 DEF Called, Goes
  <2>10. ~On(c, r) => Stands(r)
    BY <1>1, <1>2, <2>2, <2>8 DEF Stands
  <2> QED BY <2>9, <2>10, CallChanges
<1>4. ASSUME NEW pc \in {"mark", "fail"}, Goto(c, pc), socket # "up", UNCHANGED outbound
      PROVE  RequestMoves(r)
  <2>2. /\ OthersKept(c, r) /\ (On(c, r)' <=> On(c, r)) /\ caller'[c].pc = pc
        /\ caller'[c].decision = caller[c].decision /\ (~On(c, r) => CallsKept(r))
    BY <1>1, <1>4, GoesKeeps
  <2>3. AnswersKept(r)
    BY <1>4, AnswersStand
  <2>4. On(c, r) => Called(r, c)
    BY <1>1, <1>2, <1>4, <2>2, <2>3 DEF Called, Goes
  <2>5. ~On(c, r) => Stands(r)
    BY <1>1, <1>2, <2>2, <2>3 DEF Stands
  <2> QED BY <2>4, <2>5, CallChanges
<1>5. \/ socket = "up" /\ Goto(c, "mark")
      \/ /\ socket # "up" /\ UNCHANGED outbound
         /\ Goto(c, "mark") \/ Goto(c, "fail")
  BY DEF Send
<1> QED BY <1>3, <1>4, <1>5

\* An answer that left is remembered.
LEMMA MarkMakes ==
  ASSUME TypeOK, NEW c \in Callers, Mark(c), NEW r \in Requests
  PROVE  RequestMoves(r)
<1>1. /\ caller[c].pc = "mark" /\ caller[c] # Idle
      /\ Goto(c, "interrupt") \/ Leave(c)
      /\ UNCHANGED <<asked, effect, socket, reports, inbound, outbound, pending, tried, overtaken>>
  BY Fields DEF Mark, server, link, gateway, history
<1>2. ServerKept(r) /\ QueueKept(r) /\ AnswersKept(r) /\ BoardKept(r) /\ HistoryKept(r)
  BY <1>1, QueueStands, AnswersStand DEF ServerKept, BoardKept, HistoryKept
<1>3. CASE Goto(c, "interrupt")
  <2>1. /\ OthersKept(c, r) /\ (On(c, r)' <=> On(c, r)) /\ caller'[c].pc = "interrupt"
        /\ caller'[c].decision = caller[c].decision /\ (~On(c, r) => CallsKept(r))
    BY <1>1, <1>3, GoesKeeps
  <2>2. On(c, r) => Called(r, c)
    BY <1>1, <1>2, <2>1 DEF Called, Goes
  <2>3. ~On(c, r) => Stands(r)
    BY <1>1, <1>2, <2>1 DEF Stands
  <2> QED BY <2>2, <2>3, CallChanges
<1>4. CASE Leave(c)
  <2>1. OthersKept(c, r) /\ ~On(c, r)' /\ (~On(c, r) => CallsKept(r))
    BY <1>4, LeavesKeeps
  <2>2. On(c, r) => Called(r, c)
    BY <1>1, <1>2, <2>1 DEF Called, Left
  <2>3. ~On(c, r) => Stands(r)
    BY <1>1, <1>2, <2>1 DEF Stands
  <2> QED BY <2>2, <2>3, CallChanges
<1> QED BY <1>1, <1>3, <1>4

\* A cancel interrupts the turn, which ends the requests of its Thread; or fails.
LEMMA InterruptMakes ==
  ASSUME TypeOK, LinkSound, NEW c \in Callers, Interrupt(c), NEW r \in Requests
  PROVE  RequestMoves(r)
<1> DEFINE R == {q \in Requests : ThreadOf[q] = ThreadOf[caller[c].of] /\ asked[q] = "open"}
<1>1. /\ caller[c].pc = "interrupt" /\ caller[c] # Idle
      /\ \/ socket = "up" /\ Close(R) /\ Leave(c)
         \/ /\ Goto(c, "fail") /\ UNCHANGED <<asked, inbound>>
            /\ socket = "up" => Fault("interrupt")
      /\ UNCHANGED <<effect, socket, reports, outbound, pending, tried, overtaken>>
  BY Fields DEF Interrupt, gateway, history
<1>2. effect'[r] = effect[r] /\ AnswersKept(r) /\ BoardKept(r) /\ HistoryKept(r)
  BY <1>1, AnswersStand DEF BoardKept, HistoryKept
<1>3. CASE socket = "up" /\ Close(R) /\ Leave(c)
  <2>1. OthersKept(c, r) /\ ~On(c, r)' /\ (~On(c, r) => CallsKept(r))
    BY <1>3, LeavesKeeps
  <2>2. R \subseteq {q \in Requests : asked[q] = "open"}
    OBVIOUS
  <2> HIDE DEF R
  <2>3. /\ asked'[r] = IF r \in R THEN "closed" ELSE asked[r]
        /\ Arriving(r)' <=> Arriving(r)
        /\ Closing(r)' <=> Closing(r) \/ (socket = "up" /\ r \in R)
    BY <1>3, <2>2, Closes
  <2>4. CASE r \in R
    <3>1. \A e \in Callers :
              CallKept(e, r) \/ (caller[e].pc = "interrupt" /\ On(e, r) /\ ~On(e, r)')
      <4>1. CallKept(c, r) \/ On(c, r)
        BY <2>1 DEF CallsKept
      <4> QED BY <1>1, <2>1, <4>1 DEF OthersKept
    <3>2. asked[r] = "open"
      BY <2>2, <2>4
    <3> QED BY <1>1, <1>2, <1>3, <2>3, <2>4, <3>1, <3>2 DEF RequestMoves, Ended
  <2>5. CASE r \notin R
    <3>1. ServerKept(r) /\ QueueKept(r)
      BY <1>2, <2>3, <2>5 DEF ServerKept, QueueKept
    <3>2. On(c, r) => Called(r, c)
      BY <1>1, <1>2, <2>1, <3>1 DEF Called, Left
    <3>3. ~On(c, r) => Stands(r)
      BY <1>1, <1>2, <2>1, <3>1 DEF Stands
    <3> QED BY <3>2, <3>3, CallChanges
  <2> QED BY <2>4, <2>5
<1>4. CASE Goto(c, "fail") /\ UNCHANGED <<asked, inbound>> /\ (socket = "up" => Fault("interrupt"))
  <2>1. /\ OthersKept(c, r) /\ (On(c, r)' <=> On(c, r)) /\ caller'[c].pc = "fail"
        /\ caller'[c].decision = caller[c].decision /\ (~On(c, r) => CallsKept(r))
    BY <1>1, <1>4, GoesKeeps
  <2>2. ServerKept(r) /\ QueueKept(r) /\ (socket = "up" => faults' # <<>>)
    BY <1>2, <1>4, QueueStands, FaultCounts DEF ServerKept
  <2>3. On(c, r) => Called(r, c)
    BY <1>1, <1>2, <2>1, <2>2 DEF Called, Goes
  <2>4. ~On(c, r) => Stands(r)
    BY <1>1, <1>2, <2>1, <2>2 DEF Stands
  <2> QED BY <2>3, <2>4, CallChanges
<1> QED BY <1>1, <1>3, <1>4

\* An answer that failed is recorded as unknown.
LEMMA FailMakes ==
  ASSUME TypeOK, NEW c \in Callers, Fail(c), NEW r \in Requests
  PROVE  RequestMoves(r)
<1> DEFINE q == caller[c].of
<1>1. /\ caller[c].pc = "fail" /\ caller[c] # Idle /\ Leave(c)
      /\ pending' = IF pending[q] = NoPending THEN pending
                    ELSE [pending EXCEPT ![q].status = "responseUnknown"]
      /\ UNCHANGED <<asked, effect, socket, reports, inbound, outbound, tried, overtaken>>
  BY Fields DEF Fail, server, link, history
<1>2. ServerKept(r) /\ QueueKept(r) /\ AnswersKept(r) /\ HistoryKept(r)
  BY <1>1, QueueStands, AnswersStand DEF ServerKept, HistoryKept
<1>3. OthersKept(c, r) /\ ~On(c, r)' /\ (~On(c, r) => CallsKept(r))
  BY <1>1, LeavesKeeps
<1>4. On(c, r) <=> r = q
  BY <1>1 DEF On
<1>5. q \in Requests
  BY <1>1, Fields
<1> HIDE DEF q
<1>6. pending[r] \in [status : {"none", "pending", "responding", "responseUnknown"},
                      decision : Decisions \cup {"none"}]
  BY Fields
<1>7. pending'[r] = IF r # q \/ pending[q] = NoPending THEN pending[r]
                    ELSE [pending[r] EXCEPT !.status = "responseUnknown"]
  BY <1>1, <1>5 DEF TypeOK
<1>8. [pending[r] EXCEPT !.status = "responseUnknown"]
        = [status |-> "responseUnknown", decision |-> pending[r].decision]
  BY <1>6
<1>9. On(c, r) => Called(r, c)
  <2>1. On(c, r) => pending'[r] = IF pending[r] = NoPending THEN NoPending
                      ELSE [status |-> "responseUnknown", decision |-> pending[r].decision]
    BY <1>4, <1>7, <1>8
  <2> QED BY <1>1, <1>2, <1>3, <2>1 DEF Called, Left
<1>10. ~On(c, r) => Stands(r)
  BY <1>1, <1>2, <1>3, <1>4, <1>7 DEF Stands, BoardKept
<1> QED BY <1>9, <1>10, CallChanges

\* Whatever happens, a request moves as RequestMoves says.
LEMMA RequestsMove ==
  ASSUME TypeOK, LinkSound, [Next]_vars, NEW r \in Requests
  PROVE  RequestMoves(r)
<1>1. CASE UNCHANGED vars
  <2>1. UNCHANGED <<asked, effect, socket, reports, inbound, outbound,
                    pending, caller, tried, overtaken>>
    BY <1>1 DEF vars, server, link, gateway, history
  <2> QED BY <2>1, CallsStand, QueueStands, AnswersStand
          DEF RequestMoves, Stands, ServerKept, BoardKept, HistoryKept
<1>2. CASE Next
  BY <1>2, RequestMakes, EndElsewhereMakes, HearMakes, DropMakes, NoticeMakes, ResumeMakes, CrashMakes,
     ReadMakes, AdmitMakes, CheckMakes, SendMakes, MarkMakes, InterruptMakes, FailMakes
     DEF Next, Deciding
<1> QED BY <1>1, <1>2

-----------------------------------------------------------------------------
(* Types                                                                   *)

\* The App Server's steps and the connection's keep every type.
LEMMA ServerType ==
  ASSUME TypeOK, LinkSound,
         \/ \E r \in Requests : Request(r) \/ EndElsewhere(r)
         \/ Hear \/ Drop \/ Notice \/ Report \/ Resume \/ Crash
  PROVE  TypeOK'
<1>1. ASSUME NEW r \in Requests, Request(r)
      PROVE  TypeOK'
  <2>1. inbound' \in Seq(Messages)
    BY <1>1, Enqueued, MessageFacts DEF Request, TypeOK
  <2>2. asked' \in [Requests -> {"no", "open", "closed"}]
    BY <1>1 DEF Request, TypeOK
  <2> QED BY <1>1, <2>1, <2>2 DEF Request, TypeOK, transport, gateway, history
<1>2. ASSUME NEW r \in Requests, EndElsewhere(r)
      PROVE  TypeOK'
  <2>1. asked[r] = "open" /\ Close({r}) /\ {r} \subseteq {q \in Requests : asked[q] = "open"}
    BY <1>2 DEF EndElsewhere
  <2>2. asked' \in [Requests -> {"no", "open", "closed"}] /\ inbound' \in Seq(Messages)
    BY <2>1, Closes
  <2> QED BY <1>2, <2>2 DEF EndElsewhere, TypeOK, transport, gateway, history
<1>3. CASE Hear
  <2> DEFINE q == Head(outbound).of
             d == Head(outbound).decision
  <2>1. outbound' \in Seq(Answers) /\ q \in Requests /\ d \in Decisions
    BY <1>3, Hears DEF Hear, Answers
  <2>2. \/ asked[q] = "open" /\ Close({q}) /\ effect' = [effect EXCEPT ![q] = d]
        \/ UNCHANGED <<asked, inbound, effect>>
    BY <1>3 DEF Hear
  <2> HIDE DEF q, d
  <2>3. /\ asked' \in [Requests -> {"no", "open", "closed"}] /\ inbound' \in Seq(Messages)
        /\ effect' \in [Requests -> Decisions \cup {"none"}]
    <3>1. CASE asked[q] = "open" /\ Close({q}) /\ effect' = [effect EXCEPT ![q] = d]
      <4>1. {q} \subseteq {x \in Requests : asked[x] = "open"}
        BY <2>1, <3>1
      <4>2. asked' \in [Requests -> {"no", "open", "closed"}] /\ inbound' \in Seq(Messages)
        BY <3>1, <4>1, Closes
      <4> QED BY <2>1, <3>1, <4>2 DEF TypeOK
    <3> QED BY <2>2, <3>1 DEF TypeOK
  <2> QED BY <1>3, <2>1, <2>3 DEF Hear, TypeOK, transport, gateway, history
<1>4. CASE Drop
  <2>1. faults' \in Seq(Faults) /\ Len(faults') <= MaxFaults
    BY <1>4, FaultCounts DEF Drop
  <2>3. inbound' \in Seq(Messages) /\ outbound' \in Seq(Answers)
    BY <1>4, EmptySeq DEF Drop
  <2> QED BY <1>4, <2>1, <2>3 DEF Drop, TypeOK, server, transport, gateway, history
<1>5. CASE Resume
  <2>1. inbound' \in Seq(Messages)
    BY <1>5, Redelivers
  <2> QED BY <1>5, <2>1 DEF Resume, TypeOK, server, transport, gateway
<1>6. CASE Crash
  <2>1. faults' \in Seq(Faults) /\ Len(faults') <= MaxFaults
    BY <1>6, FaultCounts DEF Crash
  <2>2. caller' \in [Callers -> Calls \cup {Idle}]
    BY <1>6 DEF Crash
  <2>3. inbound' \in Seq(Messages) /\ outbound' \in Seq(Answers)
    BY <1>6, EmptySeq DEF Crash
  <2> QED BY <1>6, <2>1, <2>2, <2>3 DEF Crash, TypeOK, server, gateway, history
<1>7. CASE Notice
  BY <1>7 DEF Notice, TypeOK, server, transport, gateway, history
<1>8. CASE Report
  <2>1. reports' \in Nat
    BY <1>8 DEF Report, TypeOK
  <2>2. runtime' \in [Threads -> {"active", "waitingOnApproval", "unknown"}]
    BY <1>8 DEF Report
  <2> QED BY <1>8, <2>1, <2>2 DEF Report, TypeOK, server, transport, history
<1> QED BY <1>1, <1>2, <1>3, <1>4, <1>5, <1>6, <1>7, <1>8

\* The reader keeps every type.
LEMMA ReadType ==
  ASSUME TypeOK, Read
  PROVE  TypeOK'
<1> DEFINE message == Head(inbound)
           q == message.of
<1>1. /\ inbound # <<>> /\ inbound' = Tail(inbound)
      /\ \/ message.what = "ask" /\ Arrives(q)
         \/ message.what = "resolved" /\ IsResolved(q) /\ UNCHANGED tried
      /\ UNCHANGED <<asked, effect, socket, reports, outbound, caller, sent, overtaken, faults>>
  BY DEF Read, server
<1>2. inbound' \in Seq(Messages) /\ message \in Messages
  BY <1>1, Queue DEF TypeOK
<1>3. q \in Requests /\ ThreadOf[q] \in Threads
  BY <1>2, MessageFacts, ConstantsAssumption
<1> HIDE DEF message, q
<1>4. /\ held' \subseteq Requests /\ responses' \subseteq Requests /\ tried' \subseteq Requests
  BY <1>1, <1>3 DEF Arrives, IsResolved, ReadResolved, TypeOK
<1>5. pending' \in [Requests -> [status : {"none", "pending", "responding", "responseUnknown"},
                                 decision : Decisions \cup {"none"}]]
  <2>1. \/ pending' = pending
        \/ pending' = [pending EXCEPT ![q] = Recorded(q)]
        \/ pending' = [pending EXCEPT ![q] = NoPending]
    BY <1>1 DEF Arrives, IsResolved, Cleared, gateway
  <2>2. /\ Recorded(q) \in [status : {"pending"}, decision : {"none"}]
        /\ NoPending \in [status : {"none"}, decision : {"none"}]
    BY DEF Recorded, NoPending
  <2> QED BY <1>3, <2>1, <2>2 DEF TypeOK
<1>6. runtime' \in [Threads -> {"active", "waitingOnApproval", "unknown"}]
  <2>1. \/ runtime' = runtime
        \/ runtime' = [runtime EXCEPT ![ThreadOf[q]] = "waitingOnApproval"]
        \/ runtime' = [runtime EXCEPT ![ThreadOf[q]] = Resumes(ThreadOf[q])]
    BY <1>1 DEF Arrives, IsResolved, gateway
  <2>2. Resumes(ThreadOf[q]) \in {"active", "waitingOnApproval", "unknown"}
    BY <1>3 DEF Resumes, TypeOK
  <2> QED BY <1>3, <2>1, <2>2 DEF TypeOK
<1> QED BY <1>1, <1>2, <1>4, <1>5, <1>6 DEF TypeOK

\* A call of approval_decision keeps every type.
LEMMA CallType ==
  ASSUME TypeOK, LinkSound, NEW c \in Callers,
         Deciding(c) \/ \E r \in Requests, d \in Decisions : Admit(c, r, d)
  PROVE  TypeOK'
<1>1. ASSUME NEW r \in Requests, NEW d \in Decisions, Admit(c, r, d)
      PROVE  TypeOK'
  <2>1. pending' \in [Requests -> [status : {"none", "pending", "responding", "responseUnknown"},
                                   decision : Decisions \cup {"none"}]]
    BY <1>1 DEF Admit, TypeOK
  <2>2. caller' \in [Callers -> Calls \cup {Idle}]
    <3>1. [pc |-> "check", of |-> r, decision |-> d] \in Calls
      BY DEF Calls
    <3> QED BY <1>1, <3>1 DEF Admit, TypeOK
  <2>3. tried' \subseteq Requests /\ overtaken' \subseteq Requests
    BY <1>1 DEF Admit, TypeOK
  <2> QED BY <1>1, <2>1, <2>2, <2>3 DEF Admit, TypeOK, server, link, transport
<1>2. CASE Check(c)
  <2>1. caller' \in [Callers -> Calls \cup {Idle}]
    BY <1>2, CallGoes, Fields DEF Check
  <2> QED BY <1>2, <2>1 DEF Check, TypeOK, server, link, transport, gateway, history
<1>3. CASE Send(c)
  <2>1. caller[c] # Idle /\ caller[c].of \in Requests /\ caller[c].decision \in Decisions
    BY <1>3, Fields DEF Send
  <2>2. caller' \in [Callers -> Calls \cup {Idle}]
    BY <1>3, <2>1, CallGoes DEF Send
  <2>3. outbound' \in Seq(Answers)
    <3>1. [of |-> caller[c].of, decision |-> caller[c].decision] \in Answers
      BY <2>1 DEF Answers
    <3>2. outbound \in Seq(Answers)
      BY DEF TypeOK
    <3>3. \/ outbound' = outbound
          \/ outbound' = Append(outbound, [of |-> caller[c].of,
                                           decision |-> caller[c].decision])
      BY <1>3 DEF Send
    <3> QED BY <3>1, <3>2, <3>3, Enqueued
  <2>4. sent' \subseteq Requests
    BY <1>3, <2>1 DEF Send, TypeOK
  <2> QED BY <1>3, <2>2, <2>3, <2>4 DEF Send, TypeOK, server, transport, gateway
<1>4. CASE Mark(c)
  <2>1. caller[c] # Idle /\ caller[c].of \in Requests
    BY <1>4, Fields DEF Mark
  <2>2. caller' \in [Callers -> Calls \cup {Idle}]
    BY <1>4, <2>1, CallGoes, Leaves DEF Mark
  <2>3. responses' \subseteq Requests
    BY <1>4, <2>1 DEF Mark, TypeOK
  <2> QED BY <1>4, <2>2, <2>3 DEF Mark, TypeOK, server, link, gateway, history
<1>5. CASE Interrupt(c)
  <2> DEFINE R == {q \in Requests : ThreadOf[q] = ThreadOf[caller[c].of] /\ asked[q] = "open"}
  <2>1. /\ caller[c] # Idle
        /\ \/ Close(R) /\ Leave(c) /\ UNCHANGED faults
           \/ /\ Goto(c, "fail") /\ UNCHANGED <<asked, inbound>>
              /\ Fault("interrupt") \/ UNCHANGED faults
    BY <1>5, Fields DEF Interrupt
  <2>2. R \subseteq {q \in Requests : asked[q] = "open"}
    OBVIOUS
  <2> HIDE DEF R
  <2>3. caller' \in [Callers -> Calls \cup {Idle}]
    BY <2>1, CallGoes, Leaves
  <2>4. asked' \in [Requests -> {"no", "open", "closed"}] /\ inbound' \in Seq(Messages)
    <3>1. CASE Close(R)
      BY <2>2, <3>1, Closes
    <3>2. CASE UNCHANGED <<asked, inbound>>
      BY <3>2 DEF TypeOK
    <3> QED BY <2>1, <3>1, <3>2
  <2>5. faults' \in Seq(Faults) /\ Len(faults') <= MaxFaults
    BY <2>1, FaultCounts DEF TypeOK
  <2> QED BY <1>5, <2>3, <2>4, <2>5 DEF Interrupt, TypeOK, transport, gateway, history
<1>6. CASE Fail(c)
  <2> DEFINE q == caller[c].of
  <2>1. q \in Requests
    BY <1>6, Fields DEF Fail
  <2>2. caller' \in [Callers -> Calls \cup {Idle}]
    BY <1>6, Leaves DEF Fail
  <2>3. pending' \in {pending,
                    [pending EXCEPT ![q] = [pending[q] EXCEPT !.status = "responseUnknown"]]}
    BY <1>6 DEF Fail
  <2> HIDE DEF q
  <2>4. pending' \in [Requests -> [status : {"none", "pending", "responding", "responseUnknown"},
                                   decision : Decisions \cup {"none"}]]
    <3>1. [pending[q] EXCEPT !.status = "responseUnknown"]
            \in [status : {"none", "pending", "responding", "responseUnknown"},
                 decision : Decisions \cup {"none"}]
      BY <2>1 DEF TypeOK
    <3> QED BY <2>1, <2>3, <3>1 DEF TypeOK
  <2> QED BY <1>6, <2>2, <2>4 DEF Fail, TypeOK, server, link, transport, history
<1> QED BY <1>1, <1>2, <1>3, <1>4, <1>5, <1>6 DEF Deciding

\* Every step keeps every type.
LEMMA NextType ==
  ASSUME TypeOK, LinkSound, [Next]_vars
  PROVE  TypeOK'
<1>1. CASE UNCHANGED vars
  BY <1>1 DEF vars, server, link, transport, gateway, history, TypeOK
<1>2. CASE Next
  BY <1>2, ServerType, ReadType, CallType DEF Next
<1> QED BY <1>1, <1>2

\* One request at a time is made, and only a Gateway that is connected sends or is
\* sent anything.
LEMMA NextLinkSound ==
  ASSUME TypeOK, LinkSound, [Next]_vars
  PROVE  LinkSound'
<1> DEFINE Made == {r \in Requests : asked[r] # "no"}
<1>1. IsFiniteSet(Made) /\ (socket # "up" => inbound = <<>> /\ outbound = <<>>)
  BY DEF LinkSound
<1>2. CASE \E q \in Requests : Request(q)
  <2>1. PICK q \in Requests : Request(q)
    BY <1>2
  <2>2. IsFiniteSet(Made \cup {q})
    BY <1>1, FS_AddElement
  <2>3. {r \in Requests : asked'[r] # "no"} \subseteq Made \cup {q}
    BY <2>1 DEF Request, TypeOK
  <2>4. IsFiniteSet({r \in Requests : asked'[r] # "no"})
    BY <2>2, <2>3, FS_Subset
  <2> QED BY <2>1, <2>4 DEF Request, LinkSound
<1>3. ASSUME {r \in Requests : asked'[r] # "no"} = Made,
             socket' # "up" => inbound' = <<>> /\ outbound' = <<>>
      PROVE  LinkSound'
  BY <1>1, <1>3 DEF LinkSound
<1>4. ASSUME NEW q \in Requests, EndElsewhere(q)
      PROVE  LinkSound'
  <2>1. {q} \subseteq {x \in Requests : asked[x] = "open"} /\ Close({q})
    BY <1>4 DEF EndElsewhere
  <2>2. {r \in Requests : asked'[r] # "no"} = Made /\ (socket # "up" => inbound' = inbound)
    BY <2>1, Closes
  <2> QED BY <1>1, <1>3, <1>4, <2>2 DEF EndElsewhere
<1>5. CASE Hear
  <2> DEFINE q == Head(outbound).of
  <2>1. q \in Requests /\ socket = "up" /\ socket' = socket
    BY <1>1, <1>5, Hears DEF Hear, Answers
  <2>2. {r \in Requests : asked'[r] # "no"} = Made
    <3>1. CASE asked[q] = "open"
      <4>1. {q} \subseteq {x \in Requests : asked[x] = "open"} /\ Close({q})
        BY <1>5, <2>1, <3>1 DEF Hear
      <4> QED BY <4>1, Closes
    <3>2. CASE asked[q] # "open"
      BY <1>5, <3>2 DEF Hear
    <3> QED BY <3>1, <3>2
  <2> QED BY <1>3, <2>1, <2>2
<1>6. CASE Drop \/ Crash \/ Resume \/ Notice \/ Report
  BY <1>1, <1>3, <1>6 DEF Drop, Crash, Resume, Notice, Report, server
<1>7. CASE Read
  BY <1>1, <1>3, <1>7 DEF Read, server
<1>8. ASSUME NEW c \in Callers, NEW q \in Requests, NEW d \in Decisions, Admit(c, q, d)
      PROVE  LinkSound'
  BY <1>1, <1>3, <1>8 DEF Admit, server, link
<1>9. ASSUME NEW c \in Callers, Deciding(c)
      PROVE  LinkSound'
  <2> DEFINE R == {q \in Requests : ThreadOf[q] = ThreadOf[caller[c].of] /\ asked[q] = "open"}
  <2>1. CASE Check(c) \/ Send(c) \/ Mark(c) \/ Fail(c)
    BY <1>1, <1>3, <2>1 DEF Check, Send, Mark, Fail, server, link
  <2>2. CASE Interrupt(c)
    <3>1. \/ socket = "up" /\ Close(R)
          \/ UNCHANGED <<asked, inbound>>
      BY <2>2 DEF Interrupt
    <3>2. UNCHANGED <<socket, reports, outbound>>
      BY <2>2 DEF Interrupt
    <3>3. CASE socket = "up" /\ Close(R)
      <4>1. R \subseteq {q \in Requests : asked[q] = "open"}
        OBVIOUS
      <4> HIDE DEF R
      <4>2. {r \in Requests : asked'[r] # "no"} = Made
        BY <3>3, <4>1, Closes
      <4> QED BY <1>3, <3>2, <3>3, <4>2
    <3>4. CASE UNCHANGED <<asked, inbound>>
      BY <1>1, <1>3, <3>2, <3>4
    <3> QED BY <3>1, <3>3, <3>4
  <2> QED BY <1>9, <2>1, <2>2 DEF Deciding
<1>10. CASE UNCHANGED vars
  BY <1>1, <1>3, <1>10 DEF vars, server, link
<1> QED BY <1>2, <1>4, <1>5, <1>6, <1>7, <1>8, <1>9, <1>10 DEF Next

-----------------------------------------------------------------------------
(* One decision per request                                                *)

\* A request nobody made stays unknown; what decides or notes it closes it.
LEMMA NextKnown ==
  ASSUME TypeOK, LinkSound, NEW r \in Requests, Known(r), [Next]_vars
  PROVE  Known(r)'
<1>1. RequestMoves(r)
  BY RequestsMove
<1>2. /\ Underway(r) <=> \E c \in Callers : On(c, r)
      /\ Underway(r)' <=> \E c \in Callers : On(c, r)'
  BY DEF Underway, On
<1>3. NoPending.status = "none"
  BY DEF NoPending
<1>4. CASE Stands(r)
  BY <1>2, <1>3, <1>4
     DEF Stands, ServerKept, QueueKept, AnswersKept, BoardKept, HistoryKept,
         CallsKept, CallKept, Known, Untouched
<1>5. CASE Opened(r)
  BY <1>2, <1>3, <1>5
     DEF Opened, ServerKept, QueueKept, AnswersKept, BoardKept, HistoryKept,
         CallsKept, CallKept, Known, Untouched
<1>6. CASE Ended(r)
  BY <1>2, <1>3, <1>6
     DEF Ended, ServerKept, QueueKept, AnswersKept, BoardKept, HistoryKept,
         CallsKept, CallKept, Known, Untouched
<1>7. CASE Decided(r)
  BY <1>2, <1>3, <1>7
     DEF Decided, ServerKept, QueueKept, AnswersKept, BoardKept, HistoryKept,
         CallsKept, CallKept, Known, Untouched
<1>8. CASE Ignored(r)
  BY <1>2, <1>3, <1>8
     DEF Ignored, ServerKept, QueueKept, AnswersKept, BoardKept, HistoryKept,
         CallsKept, CallKept, Known, Untouched
<1>9. CASE Lost(r)
  BY <1>2, <1>3, <1>9
     DEF Lost, ServerKept, QueueKept, AnswersKept, BoardKept, HistoryKept,
         CallsKept, CallKept, Known, Untouched
<1>10. CASE Resumed(r)
  BY <1>2, <1>3, <1>10
     DEF Resumed, ServerKept, QueueKept, AnswersKept, BoardKept, HistoryKept,
         CallsKept, CallKept, Known, Untouched
<1>11. CASE Arrived(r)
  BY <1>2, <1>3, <1>11
     DEF Arrived, ServerKept, QueueKept, AnswersKept, BoardKept, HistoryKept,
         CallsKept, CallKept, Known, Untouched
<1>12. CASE Noted(r)
  BY <1>2, <1>3, <1>12
     DEF Noted, ServerKept, QueueKept, AnswersKept, BoardKept, HistoryKept,
         CallsKept, CallKept, Known, Untouched
<1>13. ASSUME NEW c \in Callers, NEW d \in Decisions, Admitted(r, c, d)
      PROVE  Known(r)'
  BY <1>2, <1>3, <1>13
     DEF Admitted, ServerKept, QueueKept, AnswersKept, BoardKept, HistoryKept,
         OthersKept, CallKept, Known, Untouched
<1>14. ASSUME NEW c \in Callers, Called(r, c)
      PROVE  Known(r)'
  BY <1>2, <1>3, <1>14
     DEF Called, Goes, Left, ServerKept, QueueKept, AnswersKept, BoardKept, HistoryKept,
         OthersKept, CallKept, Known, Untouched
<1> QED BY <1>1, <1>4, <1>5, <1>6, <1>7, <1>8, <1>9, <1>10, <1>11, <1>12, <1>13, <1>14
        DEF RequestMoves

\* A decision admitted is the decision sent and the one acted on, and no request that
\* is yet to be decided is being decided.
LEMMA NextOneDecision ==
  ASSUME TypeOK, LinkSound, NEW r \in Requests, Known(r), OneDecision(r), [Next]_vars
  PROVE  OneDecision(r)'
<1>1. RequestMoves(r)
  BY RequestsMove
<1>2. /\ Underway(r) <=> \E c \in Callers : On(c, r)
      /\ Underway(r)' <=> \E c \in Callers : On(c, r)'
  BY DEF Underway, On
<1>3. NoPending.status = "none" /\ NoPending.decision = "none"
  BY DEF NoPending
<1>4. effect[r] \in Decisions \cup {"none"} /\ "none" \notin Decisions
  BY Fields DEF Decisions
<1>5. \A c \in Callers : On(c, r) => caller[c].decision \in Decisions
  BY Fields DEF On
<1>6. socket # "up" => \A d \in Decisions : ~Answered(r, d)
  BY DEF LinkSound, Answered, Range
<1>7. CASE Stands(r)
  BY <1>2, <1>3, <1>4, <1>5, <1>6, <1>7
     DEF Stands, ServerKept, QueueKept, AnswersKept, BoardKept, HistoryKept,
         CallsKept, CallKept, Known, OneDecision, Untouched
<1>8. CASE Opened(r)
  BY <1>2, <1>3, <1>4, <1>5, <1>6, <1>8
     DEF Opened, ServerKept, QueueKept, AnswersKept, BoardKept, HistoryKept,
         CallsKept, CallKept, Known, OneDecision, Untouched
<1>9. CASE Ended(r)
  BY <1>2, <1>3, <1>4, <1>5, <1>6, <1>9
     DEF Ended, ServerKept, QueueKept, AnswersKept, BoardKept, HistoryKept,
         CallsKept, CallKept, Known, OneDecision, Untouched
<1>10. CASE Decided(r)
  BY <1>2, <1>3, <1>4, <1>5, <1>6, <1>10
     DEF Decided, ServerKept, QueueKept, AnswersKept, BoardKept, HistoryKept,
         CallsKept, CallKept, Known, OneDecision, Untouched
<1>11. CASE Ignored(r)
  BY <1>2, <1>3, <1>4, <1>5, <1>6, <1>11
     DEF Ignored, ServerKept, QueueKept, AnswersKept, BoardKept, HistoryKept,
         CallsKept, CallKept, Known, OneDecision, Untouched
<1>12. CASE Lost(r)
  BY <1>2, <1>3, <1>4, <1>5, <1>6, <1>12
     DEF Lost, ServerKept, QueueKept, AnswersKept, BoardKept, HistoryKept,
         CallsKept, CallKept, Known, OneDecision, Untouched
<1>13. CASE Resumed(r)
  BY <1>2, <1>3, <1>4, <1>5, <1>6, <1>13
     DEF Resumed, ServerKept, QueueKept, AnswersKept, BoardKept, HistoryKept,
         CallsKept, CallKept, Known, OneDecision, Untouched
<1>14. CASE Arrived(r)
  BY <1>2, <1>3, <1>4, <1>5, <1>6, <1>14
     DEF Arrived, ServerKept, QueueKept, AnswersKept, BoardKept, HistoryKept,
         CallsKept, CallKept, Known, OneDecision, Untouched
<1>15. CASE Noted(r)
  BY <1>2, <1>3, <1>4, <1>5, <1>6, <1>15
     DEF Noted, ServerKept, QueueKept, AnswersKept, BoardKept, HistoryKept,
         CallsKept, CallKept, Known, OneDecision, Untouched
<1>16. ASSUME NEW c \in Callers, NEW d \in Decisions, Admitted(r, c, d)
      PROVE  OneDecision(r)'
  BY <1>2, <1>3, <1>4, <1>5, <1>6, <1>16
     DEF Admitted, ServerKept, QueueKept, AnswersKept, BoardKept, HistoryKept,
         OthersKept, CallKept, Known, OneDecision, Untouched
<1>17. ASSUME NEW c \in Callers, Called(r, c)
      PROVE  OneDecision(r)'
  BY <1>2, <1>3, <1>4, <1>5, <1>6, <1>17
     DEF Called, Goes, Left, ServerKept, QueueKept, AnswersKept, BoardKept, HistoryKept,
         OthersKept, CallKept, Known, OneDecision, Untouched
<1> QED BY <1>1, <1>7, <1>8, <1>9, <1>10, <1>11, <1>12, <1>13, <1>14, <1>15, <1>16, <1>17
        DEF RequestMoves

\* A request that was delivered is pending until somebody tries to answer it.
LEMMA NextOffered ==
  ASSUME TypeOK, LinkSound, NEW r \in Requests, Known(r), OneDecision(r), Offered(r),
         [Next]_vars
  PROVE  Offered(r)'
<1>1. RequestMoves(r)
  BY RequestsMove
<1>2. /\ Underway(r) <=> \E c \in Callers : On(c, r)
      /\ Underway(r)' <=> \E c \in Callers : On(c, r)'
  BY DEF Underway, On
<1>3. NoPending.status = "none"
  BY DEF NoPending
<1>4. CASE Stands(r)
  BY <1>2, <1>3, <1>4
     DEF Stands, ServerKept, QueueKept, AnswersKept, BoardKept, HistoryKept,
         CallsKept, CallKept, Known, OneDecision, Offered, Untouched
<1>5. CASE Opened(r)
  BY <1>2, <1>3, <1>5
     DEF Opened, ServerKept, QueueKept, AnswersKept, BoardKept, HistoryKept,
         CallsKept, CallKept, Known, OneDecision, Offered, Untouched
<1>6. CASE Ended(r)
  BY <1>2, <1>3, <1>6
     DEF Ended, ServerKept, QueueKept, AnswersKept, BoardKept, HistoryKept,
         CallsKept, CallKept, Known, OneDecision, Offered, Untouched
<1>7. CASE Decided(r)
  BY <1>2, <1>3, <1>7
     DEF Decided, ServerKept, QueueKept, AnswersKept, BoardKept, HistoryKept,
         CallsKept, CallKept, Known, OneDecision, Offered, Untouched
<1>8. CASE Ignored(r)
  BY <1>2, <1>3, <1>8
     DEF Ignored, ServerKept, QueueKept, AnswersKept, BoardKept, HistoryKept,
         CallsKept, CallKept, Known, OneDecision, Offered, Untouched
<1>9. CASE Lost(r)
  BY <1>2, <1>3, <1>9
     DEF Lost, ServerKept, QueueKept, AnswersKept, BoardKept, HistoryKept,
         CallsKept, CallKept, Known, OneDecision, Offered, Untouched
<1>10. CASE Resumed(r)
  BY <1>2, <1>3, <1>10
     DEF Resumed, ServerKept, QueueKept, AnswersKept, BoardKept, HistoryKept,
         CallsKept, CallKept, Known, OneDecision, Offered, Untouched
<1>11. CASE Arrived(r)
  BY <1>2, <1>3, <1>11
     DEF Arrived, ServerKept, QueueKept, AnswersKept, BoardKept, HistoryKept,
         CallsKept, CallKept, Known, OneDecision, Offered, Untouched
<1>12. CASE Noted(r)
  BY <1>2, <1>3, <1>12
     DEF Noted, ServerKept, QueueKept, AnswersKept, BoardKept, HistoryKept,
         CallsKept, CallKept, Known, OneDecision, Offered, Untouched
<1>13. ASSUME NEW c \in Callers, NEW d \in Decisions, Admitted(r, c, d)
      PROVE  Offered(r)'
  BY <1>2, <1>3, <1>13
     DEF Admitted, ServerKept, QueueKept, AnswersKept, BoardKept, HistoryKept,
         OthersKept, CallKept, Known, OneDecision, Offered, Untouched
<1>14. ASSUME NEW c \in Callers, Called(r, c)
      PROVE  Offered(r)'
  BY <1>2, <1>3, <1>14
     DEF Called, Goes, Left, ServerKept, QueueKept, AnswersKept, BoardKept, HistoryKept,
         OthersKept, CallKept, Known, OneDecision, Offered, Untouched
<1> QED BY <1>1, <1>4, <1>5, <1>6, <1>7, <1>8, <1>9, <1>10, <1>11, <1>12, <1>13, <1>14
        DEF RequestMoves

\* An answer in _approval_responses was sent, on whatever connection.
LEMMA NextAnswersSent ==
  ASSUME TypeOK, AnswersSent, [Next]_vars
  PROVE  AnswersSent'
<1>1. CASE UNCHANGED <<responses, sent, caller>>
  BY <1>1 DEF AnswersSent
<1>2. CASE Resume
  BY <1>1, <1>2 DEF Resume, transport
<1>3. CASE Crash
  <2>1. responses' = {} /\ \A c \in Callers : caller'[c].pc = "idle"
    BY <1>3 DEF Crash, Idle
  <2> QED BY <2>1 DEF AnswersSent
<1>4. CASE Read
  BY <1>4 DEF Read, Arrives, IsResolved, ReadResolved, AnswersSent
<1>5. ASSUME NEW c \in Callers, NEW r \in Requests, NEW d \in Decisions, Admit(c, r, d)
      PROVE  AnswersSent'
  <2>1. /\ caller'[c].pc = "check" /\ \A e \in Callers \ {c} : caller'[e] = caller[e]
        /\ responses' = responses /\ sent' = sent
    BY <1>5 DEF Admit, transport, TypeOK
  <2> QED BY <2>1 DEF AnswersSent
<1>6. ASSUME NEW c \in Callers, Deciding(c)
      PROVE  AnswersSent'
  <2>1. caller[c] # Idle
    BY <1>6, Fields DEF Deciding, Check, Send, Mark, Interrupt, Fail
  <2>2. ASSUME NEW pc \in {"check", "send", "mark", "interrupt", "fail"}, Goto(c, pc),
               responses' \subseteq sent', sent \subseteq sent',
               pc \in {"mark", "interrupt"} => caller[c].of \in sent'
        PROVE  AnswersSent'
    <3>1. /\ caller'[c].pc = pc /\ caller'[c].of = caller[c].of
          /\ \A e \in Callers \ {c} : caller'[e] = caller[e]
      BY <2>1, <2>2, CallGoes
    <3> QED BY <2>2, <3>1 DEF AnswersSent
  <2>3. ASSUME Leave(c), responses' \subseteq sent', sent \subseteq sent'
        PROVE  AnswersSent'
    <3>1. caller'[c].pc = "idle" /\ \A e \in Callers \ {c} : caller'[e] = caller[e]
      BY <2>3, Leaves DEF Idle
    <3> QED BY <2>3, <3>1 DEF AnswersSent
  <2>4. CASE Check(c)
    BY <2>2, <2>4 DEF Check, transport, history, AnswersSent
  <2>5. CASE Send(c)
    BY <2>2, <2>5 DEF Send, transport, AnswersSent
  <2>6. CASE Mark(c)
    BY <2>2, <2>3, <2>6 DEF Mark, history, AnswersSent
  <2>7. CASE Interrupt(c)
    BY <2>2, <2>3, <2>7 DEF Interrupt, transport, history, AnswersSent
  <2>8. CASE Fail(c)
    BY <2>3, <2>8 DEF Fail, transport, history, AnswersSent
  <2> QED BY <1>6, <2>4, <2>5, <2>6, <2>7, <2>8 DEF Deciding
<1>7. ASSUME NEW r \in Requests, Request(r) \/ EndElsewhere(r)
      PROVE  AnswersSent'
  BY <1>1, <1>7 DEF Request, EndElsewhere, transport, history
<1>8. CASE Hear \/ Drop \/ Notice \/ Report
  BY <1>1, <1>8 DEF Hear, Drop, Notice, Report, transport, history
<1>9. CASE UNCHANGED vars
  BY <1>1, <1>9 DEF vars, transport, history
<1> QED BY <1>2, <1>3, <1>4, <1>5, <1>6, <1>7, <1>8, <1>9 DEF Next

-----------------------------------------------------------------------------
(* A Gateway without faults                                                *)

\* Faults are not forgotten.
LEMMA FaultsStay ==
  ASSUME TypeOK, [Next]_vars, faults' = <<>>
  PROVE  /\ faults = <<>> /\ ~Drop /\ ~Crash
         /\ \A c \in Callers : Interrupt(c) => UNCHANGED faults
<1>1. \A kind : ~Fault(kind)
  BY FaultCounts
<1>2. /\ ~Drop /\ ~Crash
      /\ \A c \in Callers : Interrupt(c) => UNCHANGED faults
  BY <1>1 DEF Drop, Crash, Interrupt
<1>3. UNCHANGED faults
  BY <1>2 DEF Next, Request, EndElsewhere, Hear, Notice, Report, Resume, Read, Admit, Deciding, Check, Send,
     Mark, Fail, vars
<1> QED BY <1>2, <1>3

\* A request that is made is asked once, and before it is closed.
LEMMA AsksInOrder ==
  ASSUME NEW q \in Seq(Messages), NEW r \in Requests, Ordered(q),
         Ask(r) \notin Range(q), Resolved(r) \notin Range(q)
  PROVE  Ordered(Append(q, Ask(r)))
<1> DEFINE n == Len(q)
           all == Append(q, Ask(r))
<1>1. /\ Len(all) = n + 1 /\ n \in Nat /\ all[n + 1] = Ask(r)
      /\ \A i \in 1..n : all[i] = q[i]
  BY AppendProperties, LenProperties, MessageFacts
<1>2. Range(q) = {q[i] : i \in 1..n}
  BY RangeEquality
<1> HIDE DEF all, n
<1>3. \A i \in 1..Len(all) : i \in 1..n \/ i = n + 1
  BY <1>1
<1>4. \A i \in 1..n : all[i] # Ask(r) /\ all[i] # Resolved(r)
  BY <1>1, <1>2
<1>5. ASSUME NEW i \in 1..Len(all), NEW j \in 1..Len(all), all[i] = all[j]
      PROVE  i = j
  <2>1. CASE i \in 1..n /\ j \in 1..n
    BY <1>1, <1>5, <2>1 DEF Ordered, n
  <2> QED BY <1>1, <1>3, <1>4, <1>5, <2>1
<1>6. ASSUME NEW x \in Requests, NEW i \in 1..Len(all), NEW j \in 1..Len(all),
             all[i] = Ask(x), all[j] = Resolved(x)
      PROVE  i < j
  <2>1. j # n + 1
    BY <1>1, <1>6, MessageFacts
  <2>2. j \in 1..n
    BY <1>3, <2>1
  <2>3. i # n + 1
    <3>1. i = n + 1 => x = r
      BY <1>1, <1>6, MessageFacts
    <3> QED BY <3>1, <1>4, <1>6, <2>2
  <2>4. i \in 1..n
    BY <1>3, <2>3
  <2> QED BY <1>1, <1>6, <2>2, <2>4 DEF Ordered, n
<1> QED BY <1>5, <1>6 DEF Ordered, all

\* Without faults the connection stays and its messages stay in order.
LEMMA NextOrdered ==
  ASSUME TypeOK, LinkSound, \A r \in Requests : Known(r), Faultless, [Next]_vars, faults' = <<>>
  PROVE  socket' = "up" /\ Ordered(inbound')
<1>1. faults = <<>> /\ socket = "up" /\ Ordered(inbound)
  BY FaultsStay DEF Faultless
<1>2. \A r \in Requests : Closing(r) => asked[r] = "closed"
  BY DEF Known
<1>3. ASSUME NEW R, R \subseteq {r \in Requests : asked[r] = "open"}, Close(R)
      PROVE  Ordered(inbound')
  BY <1>1, <1>2, <1>3, ClosesInOrder
<1>4. CASE UNCHANGED <<socket, inbound>>
  BY <1>1, <1>4
<1>5. ASSUME NEW r \in Requests, Request(r)
      PROVE  socket' = "up" /\ Ordered(inbound')
  <2>1. Ask(r) \notin Range(inbound) /\ Resolved(r) \notin Range(inbound)
    BY <1>2, <1>5 DEF Known, Arriving, Closing, Request
  <2>2. /\ inbound' = Append(inbound, Ask(r))
        /\ inbound \in Seq(Messages) /\ socket' = socket
    BY <1>5 DEF Request, TypeOK
  <2> QED BY <1>1, <2>1, <2>2, AsksInOrder
<1>6. ASSUME NEW r \in Requests, EndElsewhere(r)
      PROVE  socket' = "up" /\ Ordered(inbound')
  <2>1. /\ Close({r}) /\ {r} \subseteq {q \in Requests : asked[q] = "open"}
        /\ socket' = socket
    BY <1>6 DEF EndElsewhere
  <2> QED BY <1>1, <1>3, <2>1
<1>7. CASE Hear
  <2> DEFINE q == Head(outbound).of
  <2>1. /\ q \in Requests
        /\ UNCHANGED inbound \/ (asked[q] = "open" /\ Close({q}))
        /\ socket' = socket
    BY <1>7, Hears DEF Hear, Answers
  <2> HIDE DEF q
  <2>2. asked[q] = "open" => {q} \subseteq {x \in Requests : asked[x] = "open"}
    BY <2>1
  <2> QED BY <1>1, <1>3, <2>1, <2>2
<1>8. CASE Read
  <2>1. /\ inbound' = Tail(inbound) /\ inbound # <<>> /\ socket' = socket
        /\ inbound \in Seq(Messages)
    BY <1>8 DEF Read, TypeOK
  <2>2. Ordered(Tail(inbound))
    BY <1>1, <2>1, ReadsInOrder
  <2> QED BY <1>1, <2>1, <2>2
<1>9. ASSUME NEW c \in Callers, Interrupt(c)
      PROVE  socket' = "up" /\ Ordered(inbound')
  <2> DEFINE R == {q \in Requests : ThreadOf[q] = ThreadOf[caller[c].of] /\ asked[q] = "open"}
  <2>1. (Close(R) \/ UNCHANGED inbound) /\ socket' = socket
    BY <1>9 DEF Interrupt
  <2>2. R \subseteq {q \in Requests : asked[q] = "open"}
    OBVIOUS
  <2> HIDE DEF R
  <2> QED BY <1>1, <1>3, <2>1, <2>2
<1>10. ASSUME NEW c \in Callers, Check(c) \/ Send(c) \/ Mark(c) \/ Fail(c)
       PROVE  socket' = "up" /\ Ordered(inbound')
  BY <1>4, <1>10 DEF Check, Send, Mark, Fail, link
<1>11. ASSUME NEW c \in Callers, NEW r \in Requests, NEW d \in Decisions, Admit(c, r, d)
       PROVE  socket' = "up" /\ Ordered(inbound')
  BY <1>4, <1>11 DEF Admit, link
<1>12. ~Drop /\ ~Crash /\ ~Resume /\ ~Notice
  BY <1>1, FaultsStay DEF Resume, Notice
<1>13. CASE UNCHANGED vars
  BY <1>4, <1>13 DEF vars, link
<1>14. CASE Report
  BY <1>4, <1>14 DEF Report
<1> QED BY <1>5, <1>6, <1>7, <1>8, <1>9, <1>10, <1>11, <1>12, <1>13, <1>14 DEF Next, Deciding

\* Without faults the board has a request until the note that it is closed, and who
\* responds is heard.
LEMMA NextSettling ==
  ASSUME TypeOK, LinkSound, NEW r \in Requests, Known(r), socket = "up", Ordered(inbound),
         Settling(r), socket' = "up", faults' = <<>>, [Next]_vars
  PROVE  Settling(r)'
<1>1. RequestMoves(r)
  BY RequestsMove
<1>2. /\ Underway(r) <=> \E c \in Callers : On(c, r)
      /\ Underway(r)' <=> \E c \in Callers : On(c, r)'
  BY DEF Underway, On
<1>3. NoPending.status = "none"
  BY DEF NoPending
<1>4. asked[r] \in {"no", "open", "closed"}
  BY Fields
<1>5. \A c \in Callers : On(c, r) => caller[c].decision \in Decisions
  BY Fields DEF On
<1>6. CASE Stands(r)
  BY <1>2, <1>3, <1>4, <1>5, <1>6
     DEF Stands, ServerKept, QueueKept, AnswersKept, BoardKept, HistoryKept,
         CallsKept, CallKept, Known, Untouched, Settling, Heard
<1>7. CASE Opened(r)
  BY <1>2, <1>3, <1>4, <1>5, <1>7
     DEF Opened, ServerKept, QueueKept, AnswersKept, BoardKept, HistoryKept,
         CallsKept, CallKept, Known, Untouched, Settling, Heard
<1>8. CASE Ended(r)
  BY <1>2, <1>3, <1>4, <1>5, <1>8
     DEF Ended, ServerKept, QueueKept, AnswersKept, BoardKept, HistoryKept,
         CallsKept, CallKept, Known, Untouched, Settling, Heard
<1>9. CASE Decided(r)
  BY <1>2, <1>3, <1>4, <1>5, <1>9
     DEF Decided, ServerKept, QueueKept, AnswersKept, BoardKept, HistoryKept,
         CallsKept, CallKept, Known, Untouched, Settling, Heard
<1>10. CASE Ignored(r)
  BY <1>2, <1>3, <1>4, <1>5, <1>10
     DEF Ignored, ServerKept, QueueKept, AnswersKept, BoardKept, HistoryKept,
         CallsKept, CallKept, Known, Untouched, Settling, Heard
<1>11. CASE Lost(r)
  BY <1>2, <1>3, <1>4, <1>5, <1>11
     DEF Lost, ServerKept, QueueKept, AnswersKept, BoardKept, HistoryKept,
         CallsKept, CallKept, Known, Untouched, Settling, Heard
<1>12. CASE Resumed(r)
  BY <1>2, <1>3, <1>4, <1>5, <1>12
     DEF Resumed, ServerKept, QueueKept, AnswersKept, BoardKept, HistoryKept,
         CallsKept, CallKept, Known, Untouched, Settling, Heard
<1>13. CASE Arrived(r)
  BY <1>2, <1>3, <1>4, <1>5, <1>13
     DEF Arrived, ServerKept, QueueKept, AnswersKept, BoardKept, HistoryKept,
         CallsKept, CallKept, Known, Untouched, Settling, Heard
<1>14. CASE Noted(r)
  BY <1>2, <1>3, <1>4, <1>5, <1>14
     DEF Noted, ServerKept, QueueKept, AnswersKept, BoardKept, HistoryKept,
         CallsKept, CallKept, Known, Untouched, Settling, Heard
<1>15. ASSUME NEW c \in Callers, NEW d \in Decisions, Admitted(r, c, d)
      PROVE  Settling(r)'
  BY <1>2, <1>3, <1>4, <1>5, <1>15
     DEF Admitted, ServerKept, QueueKept, AnswersKept, BoardKept, HistoryKept,
         OthersKept, CallKept, Known, Untouched, Settling, Heard
<1>16. ASSUME NEW c \in Callers, Called(r, c)
      PROVE  Settling(r)'
  BY <1>2, <1>3, <1>4, <1>5, <1>16
     DEF Called, Goes, Left, ServerKept, QueueKept, AnswersKept, BoardKept, HistoryKept,
         OthersKept, CallKept, Known, Untouched, Settling, Heard
<1> QED BY <1>1, <1>6, <1>7, <1>8, <1>9, <1>10, <1>11, <1>12, <1>13, <1>14, <1>15, <1>16
        DEF RequestMoves

-----------------------------------------------------------------------------
(* The theorems                                                            *)

\* The Gateway starts with nothing asked and nobody calling.
LEMMA InitInvariant ==
  ASSUME Init
  PROVE  ApprovalsInvariant
<1>1. /\ TypeOK
  <2>1. inbound \in Seq(Messages) /\ outbound \in Seq(Answers) /\ faults \in Seq(Faults)
    BY EmptySeq DEF Init
  <2>2. Len(faults) <= MaxFaults
    BY ConstantsAssumption DEF Init
  <2>3. pending \in [Requests -> [status : {"none", "pending", "responding", "responseUnknown"},
                                  decision : Decisions \cup {"none"}]]
    BY DEF Init, NoPending
  <2> QED BY <2>1, <2>2, <2>3 DEF Init, TypeOK
<1>2. LinkSound
  <2>1. {r \in Requests : asked[r] # "no"} = {}
    BY DEF Init
  <2> QED BY <2>1, FS_EmptySet DEF Init, LinkSound
<1>3. \A c \in Callers : caller[c] = Idle /\ caller[c].pc = "idle"
  BY DEF Init, Idle
<1>4. \A r \in Requests : /\ ~Underway(r) /\ pending[r] = NoPending /\ NoPending.status = "none"
                          /\ asked[r] = "no" /\ effect[r] = "none" /\ overtaken = {}
  BY <1>3 DEF Init, Underway, NoPending
<1>5. \A r \in Requests : ~Arriving(r) /\ ~Closing(r) /\ \A d \in Decisions : ~Answered(r, d)
  BY DEF Init, Arriving, Closing, Answered, Range
<1>6. AnswersSent
  BY <1>3 DEF Init, AnswersSent
<1>7. \A r \in Requests : Known(r) /\ OneDecision(r) /\ Offered(r)
  BY <1>4, <1>5 DEF Known, OneDecision, Offered, Untouched
<1>8. \A r \in Requests : Settling(r)
  BY <1>3, <1>4, <1>5 DEF Settling, On
<1>9. socket = "up" /\ Ordered(inbound)
  BY DEF Init, Ordered
<1> QED BY <1>1, <1>2, <1>6, <1>7, <1>8, <1>9 DEF ApprovalsInvariant, Faultless

\* Every step preserves the invariant.
LEMMA NextInvariant ==
  ASSUME ApprovalsInvariant, [Next]_vars
  PROVE  ApprovalsInvariant'
<1>1. TypeOK /\ LinkSound /\ AnswersSent /\ Faultless
  BY DEF ApprovalsInvariant
<1>2. \A r \in Requests : Known(r) /\ OneDecision(r) /\ Offered(r)
  BY DEF ApprovalsInvariant
<1>3. TypeOK' /\ LinkSound' /\ AnswersSent'
  BY <1>1, NextType, NextLinkSound, NextAnswersSent
<1>4. ASSUME NEW r \in Requests
      PROVE  Known(r)' /\ OneDecision(r)' /\ Offered(r)'
  BY <1>1, <1>2, NextKnown, NextOneDecision, NextOffered
<1>5. Faultless'
  <2> SUFFICES ASSUME faults' = <<>>
               PROVE  socket' = "up" /\ Ordered(inbound') /\ \A r \in Requests : Settling(r)'
    BY DEF Faultless, Ordered
  <2>1. socket' = "up" /\ Ordered(inbound')
    BY <1>1, <1>2, NextOrdered
  <2>2. socket = "up" /\ Ordered(inbound) /\ \A r \in Requests : Settling(r)
    BY <1>1, FaultsStay DEF Faultless
  <2>3. ASSUME NEW r \in Requests
        PROVE  Settling(r)'
    BY <1>1, <1>2, <2>1, <2>2, NextSettling
  <2> QED BY <2>1, <2>3
<1> QED BY <1>3, <1>4, <1>5 DEF ApprovalsInvariant

\* App Server, transport, board and calls agree about every request in every
\* reachable state (gateway.py:494, 1317; transport.py:370).
THEOREM AlwaysApprovals == Spec => []ApprovalsInvariant
<1>1. Init => ApprovalsInvariant
  BY InitInvariant
<1>2. ApprovalsInvariant /\ [Next]_vars => ApprovalsInvariant'
  BY NextInvariant
<1> QED BY <1>1, <1>2, PTL DEF Spec

\* Every variable keeps its type, whatever is lost, sent again or restarted.
THEOREM ApprovalTypes == Spec => []TypeOK
<1>1. ApprovalsInvariant => TypeOK
  BY DEF ApprovalsInvariant
<1> QED BY <1>1, AlwaysApprovals, PTL

\* Of all who decide a request one is admitted, and it is that one's decision the
\* App Server acts on: the board never names another (gateway.py:1317, 1328).
THEOREM DecisionsAreRecorded == Spec => []EffectIsRecorded
<1>1. ApprovalsInvariant => EffectIsRecorded
  BY DEF ApprovalsInvariant, OneDecision, EffectIsRecorded
<1> QED BY <1>1, AlwaysApprovals, PTL

\* Nothing is about r in the queue exactly if neither it nor its closing is there.
LEMMA WaitsForUser ==
  ASSUME TypeOK, NEW r \in Requests, Waits(r)
  PROVE  asked[r] = "open" /\ socket = "up" /\ ~Arriving(r)
<1>1. Range(inbound) = {inbound[i] : i \in 1..Len(inbound)}
  BY RangeEquality DEF TypeOK
<1>2. Ask(r).of = r
  BY MessageFacts
<1> QED BY <1>1, <1>2 DEF Waits, Arriving

\* A request the App Server waits for is open to the next user, unless somebody
\* tried it; that an earlier one was refused or lost closes no other
\* (gateway.py:494; transport.py:370).
THEOREM RequestsStayAnswerable == Spec => []StaysAnswerable
<1>1. ApprovalsInvariant => StaysAnswerable
  <2> SUFFICES ASSUME ApprovalsInvariant, NEW r \in Requests \ overtaken, Waits(r),
                      r \notin tried
               PROVE  pending[r].status = "pending" /\ (r \notin sent => r \notin responses)
    BY DEF StaysAnswerable
  <2>1. TypeOK /\ Offered(r) /\ AnswersSent
    BY DEF ApprovalsInvariant
  <2>2. asked[r] = "open" /\ socket = "up" /\ ~Arriving(r)
    BY <2>1, WaitsForUser
  <2> QED BY <2>1, <2>2 DEF Offered, AnswersSent
<1> QED BY <1>1, AlwaysApprovals, PTL

\* A step that leaves a Session waiting leaves a request it waits for.
LEMMA NextWaiting ==
  ASSUME TypeOK, WaitingHasRequest, [Next]_vars
  PROVE  WaitingHasRequest'
<1>1. ASSUME \A r \in Requests : pending[r] # NoPending => pending'[r] # NoPending,
             runtime' = runtime
      PROVE  WaitingHasRequest'
  BY <1>1 DEF WaitingHasRequest
<1>2. CASE Report
  BY <1>2 DEF Report, WaitingHasRequest
<1>3. CASE Read
  <2> DEFINE q == Head(inbound).of
  <2>1. Arrives(q) \/ IsResolved(q)
    BY <1>3 DEF Read
  <2>2. q \in Requests /\ ThreadOf[q] \in Threads
    <3>1. Head(inbound) \in Messages
      BY <1>3, Queue DEF Read, TypeOK
    <3> QED BY <3>1, MessageFacts, ConstantsAssumption
  <2> HIDE DEF q
  <2>3. CASE Arrives(q)
    <3>1. pending' = [pending EXCEPT ![q] = Recorded(q)] /\ Recorded(q) # NoPending
      BY <2>3 DEF Arrives, Recorded, NoPending
    <3>2. runtime' = [runtime EXCEPT ![ThreadOf[q]] = "waitingOnApproval"]
      BY <2>3 DEF Arrives
    <3>3. \A r \in Requests : pending'[r] = IF r = q THEN Recorded(q) ELSE pending[r]
      BY <3>1 DEF TypeOK
    <3>4. \A t \in Threads : runtime'[t] = IF t = ThreadOf[q] THEN "waitingOnApproval"
                      ELSE runtime[t]
      BY <3>2 DEF TypeOK
    <3> QED BY <2>2, <3>1, <3>3, <3>4 DEF WaitingHasRequest
  <2>4. CASE IsResolved(q)
    <3>1. CASE pending[q] = NoPending
      BY <1>1, <2>4, <3>1 DEF IsResolved, gateway
    <3>2. CASE pending[q] # NoPending
      <4>1. \A r \in Requests \ {q} : pending'[r] = pending[r]
        BY <2>4, <3>2 DEF IsResolved, TypeOK
      <4>2. runtime' = [runtime EXCEPT ![ThreadOf[q]] = Resumes(ThreadOf[q])]
        BY <2>4, <3>2 DEF IsResolved
      <4>3. Resumes(ThreadOf[q]) # "waitingOnApproval"
        BY DEF Resumes
      <4>4. \A t \in Threads : runtime'[t] = "waitingOnApproval" =>
              t # ThreadOf[q] /\ runtime[t] = "waitingOnApproval"
        BY <2>2, <4>2, <4>3 DEF TypeOK
      <4> QED BY <4>1, <4>4 DEF WaitingHasRequest
    <3> QED BY <3>1, <3>2
  <2> QED BY <2>1, <2>3, <2>4
<1>4. ASSUME NEW c \in Callers, NEW q \in Requests, NEW d \in Decisions, Admit(c, q, d)
      PROVE  WaitingHasRequest'
  <2>1. \A r \in Requests : pending'[r] = IF r = q THEN [status |-> "responding", decision |-> d]
                                          ELSE pending[r]
    BY <1>4 DEF Admit, TypeOK
  <2>2. [status |-> "responding", decision |-> d] # NoPending
    BY DEF NoPending
  <2> QED BY <1>1, <1>4, <2>1, <2>2 DEF Admit
<1>5. ASSUME NEW c \in Callers, Fail(c)
      PROVE  WaitingHasRequest'
  <2>1. [Next]_vars /\ runtime' = runtime
    BY <1>5 DEF Fail
  <2> DEFINE q == caller[c].of
  <2>2. q \in Requests
    BY <1>5, Fields DEF Fail
  <2>3. \/ pending' = pending
        \/ pending' = [pending EXCEPT ![q] = [pending[q] EXCEPT !.status = "responseUnknown"]]
    BY <1>5 DEF Fail
  <2> HIDE DEF q
  <2>4. [pending[q] EXCEPT !.status = "responseUnknown"] # NoPending
    <3>1. [pending[q] EXCEPT !.status = "responseUnknown"].status = "responseUnknown"
      BY <2>2, Fields
    <3> QED BY <3>1 DEF NoPending
  <2>5. \A r \in Requests : pending[r] # NoPending => pending'[r] # NoPending
    BY <2>3, <2>4 DEF TypeOK
  <2> QED BY <1>1, <2>1, <2>5
<1>6. CASE UNCHANGED gateway
  BY <1>1, <1>6 DEF gateway
<1>7. ASSUME NEW r \in Requests, Request(r) \/ EndElsewhere(r)
      PROVE  WaitingHasRequest'
  BY <1>6, <1>7 DEF Request, EndElsewhere
<1>8. CASE Hear \/ Drop \/ Notice \/ Resume \/ Crash
  BY <1>6, <1>8 DEF Hear, Drop, Notice, Resume, Crash
<1>9. ASSUME NEW c \in Callers, Check(c) \/ Send(c) \/ Mark(c) \/ Interrupt(c)
      PROVE  WaitingHasRequest'
  BY <1>6, <1>9 DEF Check, Send, Mark, Interrupt
<1>10. CASE UNCHANGED vars
  BY <1>6, <1>10 DEF vars
<1> QED BY <1>2, <1>3, <1>4, <1>5, <1>7, <1>8, <1>9, <1>10 DEF Next, Deciding

\* A Session shown as waiting has a request on the board: the last request of a
\* thread that is resolved takes the status with it (gateway.py:513, 504).
THEOREM WaitingIsForARequest == Spec => []WaitingHasRequest
<1>1. Init => WaitingHasRequest
  BY DEF Init, WaitingHasRequest
<1>2. TypeOK /\ WaitingHasRequest /\ [Next]_vars => WaitingHasRequest'
  BY NextWaiting
<1> QED BY <1>1, <1>2, ApprovalTypes, PTL DEF Spec

\* If nothing failed, then once all is quiet the board shows exactly the requests
\* the App Server waits for, and no answer is left unconfirmed
\* (gateway.py:1328, 507).
THEOREM FaultlessBoardsSettle == Spec => []BoardSettles
<1>1. ApprovalsInvariant => BoardSettles
  <2> SUFFICES ASSUME ApprovalsInvariant, faults = <<>>, Quiet, NEW r \in Requests
               PROVE  /\ pending[r] # NoPending <=> asked[r] = "open"
                      /\ pending[r].status # "responding"
    BY DEF BoardSettles
  <2>1. Settling(r) /\ asked[r] \in {"no", "open", "closed"}
    BY Fields DEF ApprovalsInvariant, Faultless
  <2>2. ~Arriving(r) /\ ~Closing(r) /\ ~Underway(r) /\ \A d \in Decisions : ~Answered(r, d)
    BY DEF Quiet, Arriving, Closing, Answered, Range
  <2>3. NoPending.status # "responding"
    BY DEF NoPending
  <2> QED BY <2>1, <2>2, <2>3 DEF Settling, Heard
<1> QED BY <1>1, AlwaysApprovals, PTL

=============================================================================
