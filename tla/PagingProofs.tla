---------------------------- MODULE PagingProofs ----------------------------
(***************************************************************************)
(* Proofs about Paging: its type invariant and what each loop promises, for *)
(* lists, pages and limits of any size.  The liveness property LoopsEnd is  *)
(* left to TLC.                                                             *)
(***************************************************************************)
EXTENDS Paging, FiniteSetTheorems, SequenceTheorems, TLAPS

-----------------------------------------------------------------------------
(* The inductive invariant                                                 *)

\* A loop that goes on has a request left.
RequestsLeft ==
  result = "none" =>
    /\ loop \in {"find", "lookup"} => pages < MaxPages
    /\ loop = "recap" => pages < RecapPages
    /\ loop = "overview" => scanned < RoundLimit

\* The list grows at its end, only its last turn may be active, and what has
\* ended stays as it is.
ListGrows ==
  /\ first \in Seq(Statuses) /\ Len(first) <= Len(turns)
  /\ \A i \in 1..Len(first) : first[i] # "active" => turns[i] = first[i]
  /\ \A i \in 1..Len(turns) : turns[i] = "active" => i = Len(turns)

\* A documented cursor is a turn of the list, except in the list of Threads.
CursorInList == (honest /\ loop # "lookup") => cursor <= Len(turns)

\* history: the turns up to the cursor, in order and each once.
HistorySound ==
  (honest /\ loop = "history") =>
    /\ Len(collected) <= Len(turns)
    /\ collected = [i \in 1..Len(collected) |-> i]
    /\ result = "none" => cursor = Len(collected)
    /\ result = "complete" => Len(collected) >= Len(first)

\* lookup: unless it has been updated meanwhile, what is sought is behind the cursor.
LookupSound ==
  /\ \A t \in 1..MaxTurns : listed[t] \in Nat /\ listed[t] <= updated[t]
  /\ honest /\ loop = "lookup" /\ listed[sought] # 0 /\ updated[sought] = listed[sought] =>
       /\ (result = "none" /\ cursor # 0) => updated[sought] < cursor
       /\ result # "notFound"

\* find: the active turn is on the first page.
FindSound ==
  (honest /\ loop = "find") =>
    /\ (result = "none" /\ cursor = 0) => active = 0
    /\ ((result = "none" /\ cursor # 0) \/ found # 0) =>
         ((LastIsActive /\ turns = first) => active = Len(turns))

\* recap: no turn already listed had a message.
RecapSound ==
  (honest /\ loop = "recap") =>
    /\ (result = "none" /\ cursor # 0) =>
         \A i \in 1..Len(first) : i >= cursor => first[i] # "completed"
    /\ found # 0 =>
         /\ found \in 1..Len(turns) /\ turns[found] = "completed"
         /\ \A i \in 1..Len(first) : i > found => first[i] # "completed"

\* The completed turns from the cursor on; none are listed at the start.
Listed(list, c) == {i \in Completed(list) : c # 0 /\ i >= c}

\* overview: the count is between those completed at the beginning and now.
OverviewSound ==
  (honest /\ loop = "overview") =>
    /\ result = "none" =>
         /\ Cardinality(Listed(first, cursor)) <= rounds
         /\ rounds <= Cardinality(Listed(turns, cursor))
    /\ result = "exact" =>
         /\ Cardinality(Completed(first)) <= rounds
         /\ rounds <= Cardinality(Completed(turns))

PagingInvariant ==
  /\ TypeOK /\ RequestsLeft /\ ListGrows /\ CursorInList
  /\ HistorySound /\ LookupSound /\ FindSound /\ RecapSound /\ OverviewSound

-----------------------------------------------------------------------------
(* Facts about the operators of the model                                  *)

\* Min of a set of natural numbers is its least element.
LEMMA LeastOfSet ==
  ASSUME NEW S \in SUBSET Nat, S # {}
  PROVE  Min(S) \in S /\ \A y \in S : Min(S) <= y
<1>1. \E x \in S : \A y \in S : ~ (<<y, x>> \in OpToRel(<, Nat))
  BY NatLessThanWellFounded, WFMin
<1>2. PICK x \in S : \A y \in S : ~ (<<y, x>> \in OpToRel(<, Nat))
  BY <1>1
<1>3. OpToRel(<, Nat) = {ss \in Nat \X Nat : ss[1] < ss[2]}
  BY DEF OpToRel
<1>4. \A a, b \in Nat : a < b => <<a, b>> \in OpToRel(<, Nat)
  BY <1>3
<1>5. \A y \in S : x <= y
  <2>1. \A y \in S : y \in Nat /\ x \in Nat /\ ~ (y < x)
    BY <1>2, <1>4
  <2> QED
    BY <2>1
<1> QED
  BY <1>5 DEF Min

\* Max of two natural numbers bounds both.
LEMMA LargerOfTwo ==
  ASSUME NEW a \in Nat, NEW b \in Nat
  PROVE  Max({a, b}) \in Nat /\ a <= Max({a, b}) /\ b <= Max({a, b})
<1> DEFINE m == IF a >= b THEN a ELSE b
<1>1. m \in {a, b} /\ \A y \in {a, b} : m >= y
  OBVIOUS
<1>2. Max({a, b}) \in {a, b} /\ \A y \in {a, b} : Max({a, b}) >= y
  <2> HIDE DEF m
  <2> QED
    BY <1>1 DEF Max
<1> QED
  BY <1>2

\* A function on 1..n is a sequence of that length.
LEMMA SequenceOfLength ==
  ASSUME NEW n \in Nat, NEW S, NEW f \in [1..n -> S]
  PROVE  f \in Seq(S) /\ Len(f) = n
<1>1. f \in Seq(S)
  BY SeqDef
<1>2. DOMAIN f = 1..n /\ DOMAIN f = 1..Len(f) /\ Len(f) \in Nat
  BY <1>1, LenProperties
<1> QED
  BY <1>1, <1>2

\* What SubSeq makes of the first m elements of a sequence.
LEMMA PrefixIs ==
  ASSUME NEW S, NEW data \in Seq(S), NEW m \in 0..Len(data)
  PROVE  /\ SubSeq(data, 1, m) \in Seq(S) /\ Len(SubSeq(data, 1, m)) = m
         /\ \A i \in 1..m : SubSeq(data, 1, m)[i] = data[i]
<1>1. Len(data) \in Nat /\ m \in Nat /\ \A i \in 1..m : data[i] \in S
  BY LenProperties, ElementOfSeq
<1>2. /\ SubSeq(data, 1, m) \in Seq(S)
      /\ Len(SubSeq(data, 1, m)) = IF 1 <= m THEN m - 1 + 1 ELSE 0
      /\ \A i \in 1..m - 1 + 1 : SubSeq(data, 1, m)[i] = data[1 + i - 1]
  BY <1>1, SubSeqProperties
<1> QED
  BY <1>1, <1>2

\* What the constants and TypeOK say of lengths and cursors.
LEMMA Numbers ==
  ASSUME TypeOK
  PROVE  /\ MaxTurns \in Nat \ {0} /\ PageSize \in Nat \ {0} /\ RoundPageSize \in Nat \ {0}
         /\ RecapPageSize \in Nat \ {0} /\ MaxPages \in Nat \ {0} /\ RecapPages \in Nat \ {0}
         /\ RoundLimit \in Nat \ {0}
         /\ Len(turns) \in Nat /\ Len(turns) <= MaxTurns
         /\ cursor \in Nat /\ sought \in 1..MaxTurns
<1>1. MaxTurns \in Nat /\ MaxUpdates \in Nat
  BY ConstantsAssumption
<1>2. sought \in 1..MaxTurns /\ cursor \in Nat
  BY <1>1 DEF TypeOK, Nexts, Strings, Cursors, Fresh
<1>3. Len(turns) \in Nat /\ Len(turns) <= MaxTurns
  BY LenProperties DEF TypeOK
<1> QED
  BY <1>1, <1>2, <1>3, ConstantsAssumption

\* The kinds of values a page may carry as its cursor.
LEMMA KindsOfNext ==
  /\ MaxUpdates \in Nat /\ Nexts = Strings \cup {0} /\ Cursors \subseteq Strings
  /\ 0 \notin Strings /\ Invalid \notin Nexts /\ Empty \notin Nexts
  /\ Strings \ Fresh \subseteq Cursors /\ 1..MaxTurns \subseteq Cursors
  /\ 0..MaxTurns \subseteq Nexts /\ Fresh \subseteq Nexts
BY ConstantsAssumption DEF Nexts, Strings, Cursors, Fresh, Invalid, Empty

\* A page against the order of the list: its turns go down from one number.
LEMMA DescendingPageIs ==
  ASSUME TypeOK, CursorInList, honest, loop \notin {"history", "lookup"},
         NEW limit \in Nat \ {0}, NEW page \in Page(limit)
  PROVE  \E from \in 0..Len(turns), n \in 0..limit :
           /\ from = IF cursor = 0 THEN Len(turns) ELSE cursor - 1
           /\ n <= from /\ (from > n => n = limit)
           /\ page.data = [i \in 1..n |-> from - i + 1]
           /\ page.data \in Seq(1..MaxTurns) /\ Len(page.data) = n
           /\ page.next = IF from > n THEN from - n + 1 ELSE 0
<1> DEFINE from == IF cursor = 0 THEN Len(turns) ELSE cursor - 1
           n == Lowest(from, limit)
<1>1. from \in 0..Len(turns) /\ n \in 0..limit /\ n <= from /\ (from > n => n = limit)
  BY Numbers DEF CursorInList, Lowest
<1>2. page = DescendingPage(cursor, limit)
  BY DEF Page, Documented
<1>3. /\ page.data = [i \in 1..n |-> from - i + 1]
      /\ page.next = IF from > n THEN from - n + 1 ELSE 0
  BY <1>2 DEF DescendingPage
<1>4. page.data \in [1..n -> 1..MaxTurns]
  <2>1. \A i \in 1..n : from - i + 1 \in 1..MaxTurns
    <3> HIDE DEF from, n
    <3> QED
      BY <1>1, Numbers
  <2> QED
    BY <1>3, <2>1
<1>5. page.data \in Seq(1..MaxTurns) /\ Len(page.data) = n
  <2>1. n \in Nat
    BY <1>1
  <2> HIDE DEF n
  <2> QED
    BY <2>1, <1>4, SequenceOfLength
<1> HIDE DEF n, from
<1>6. from = IF cursor = 0 THEN Len(turns) ELSE cursor - 1
  BY DEF from
<1> QED
  BY <1>1, <1>3, <1>5, <1>6

\* A page of history goes on from the cursor.
LEMMA AscendingPageIs ==
  ASSUME TypeOK, CursorInList, honest, loop = "history",
         NEW limit \in Nat \ {0}, NEW page \in Page(limit)
  PROVE  \E n \in 0..limit :
           /\ cursor + n <= Len(turns) /\ (Len(turns) > cursor + n => n = limit)
           /\ page.data = [i \in 1..n |-> cursor + i]
           /\ page.data \in Seq(1..MaxTurns) /\ Len(page.data) = n
           /\ page.next = IF Len(turns) > cursor + n THEN cursor + n ELSE 0
<1> DEFINE n == Lowest(Len(turns) - cursor, limit)
<1>1. /\ n \in 0..limit /\ cursor + n <= Len(turns)
      /\ Len(turns) > cursor + n => n = limit
  BY Numbers DEF CursorInList, Lowest
<1>2. page = AscendingPage(cursor, limit)
  BY DEF Page, Documented
<1>3. /\ page.data = [i \in 1..n |-> cursor + i]
      /\ page.next = IF Len(turns) > cursor + n THEN cursor + n ELSE 0
  BY <1>2 DEF AscendingPage
<1>4. page.data \in [1..n -> 1..MaxTurns]
  <2>1. \A i \in 1..n : cursor + i \in 1..MaxTurns
    <3> HIDE DEF n
    <3> QED
      BY <1>1, Numbers
  <2> QED
    BY <1>3, <2>1
<1>5. page.data \in Seq(1..MaxTurns) /\ Len(page.data) = n
  <2>1. n \in Nat
    BY <1>1
  <2> HIDE DEF n
  <2> QED
    BY <2>1, <1>4, SequenceOfLength
<1> HIDE DEF n
<1> QED
  BY <1>1, <1>3, <1>5

\* Any page, a strange one too, lists turns that exist; its cursor may be invalid.
LEMMA PageType ==
  ASSUME TypeOK, CursorInList, loop # "lookup",
         NEW limit \in Nat \ {0}, NEW page \in Page(limit)
  PROVE  /\ page.data \in Seq(1..MaxTurns) /\ Len(page.data) \in Nat
         /\ page.next \in Nexts \cup {Invalid, Empty}
         /\ honest => page.next <= Len(turns)
<1>1. CASE honest /\ loop # "history"
  <2>1. PICK from \in 0..Len(turns), n \in 0..limit :
           /\ n <= from /\ (from > n => n = limit) /\ page.data \in Seq(1..MaxTurns)
           /\ page.next = IF from > n THEN from - n + 1 ELSE 0
    BY <1>1, DescendingPageIs
  <2>2. page.next \in 0..MaxTurns /\ page.next <= Len(turns)
    <3>1. Len(turns) \in Nat /\ MaxTurns \in Nat /\ Len(turns) <= MaxTurns
      BY Numbers
    <3>2. from \in Nat /\ n \in Nat /\ (from > n => n > 0)
      BY <2>1, <3>1
    <3>3. CASE from > n
      BY <2>1, <3>1, <3>2, <3>3
    <3>4. CASE ~(from > n)
      BY <2>1, <3>1, <3>4
    <3> QED
      BY <3>3, <3>4
  <2> QED
    BY <2>1, <2>2, KindsOfNext, LenProperties
<1>2. CASE honest /\ loop = "history"
  <2>1. PICK n \in 0..limit :
           /\ cursor + n <= Len(turns) /\ page.data \in Seq(1..MaxTurns)
           /\ page.next = IF Len(turns) > cursor + n THEN cursor + n ELSE 0
    BY <1>2, AscendingPageIs
  <2>2. page.next \in 0..MaxTurns /\ page.next <= Len(turns)
    BY <2>1, Numbers
  <2> QED
    BY <2>1, <2>2, KindsOfNext, LenProperties
<1>3. CASE ~honest
  <2>1. /\ \/ page.data = <<>>
           \/ turns # <<>> /\ \E n \in {1, limit + 1} : page.data = [i \in 1..n |-> 1]
        /\ page.next \in Strange \cup Fresh
    BY <1>3 DEF Page
  <2>2. page.data \in Seq(1..MaxTurns)
    <3>1. CASE page.data = <<>>
      BY <3>1
    <3>2. ASSUME NEW n \in {1, limit + 1}, page.data = [i \in 1..n |-> 1]
          PROVE  page.data \in Seq(1..MaxTurns)
      <4>1. n \in Nat /\ 1 \in 1..MaxTurns
        BY Numbers
      <4>2. page.data \in [1..n -> 1..MaxTurns]
        BY <3>2, <4>1
      <4> QED
        BY <4>1, <4>2, SequenceOfLength
    <3> QED
      BY <2>1, <3>1, <3>2
  <2>3. page.next \in Nexts \cup {Invalid, Empty}
    BY <2>1, KindsOfNext DEF Strange
  <2> QED
    BY <1>3, <2>2, <2>3, LenProperties
<1> QED
  BY <1>1, <1>2, <1>3

\* A page of the list of Threads: a documented one shows all that is behind the
\* cursor down to its own.
LEMMA ThreadPageIs ==
  ASSUME TypeOK, NEW limit \in Nat \ {0}, NEW page \in ThreadPage(limit)
  PROVE  /\ page.next \in Nexts \cup {Invalid, Empty}
         /\ honest =>
              /\ page.next \in 0..MaxUpdates
              /\ \A t \in Behind(cursor) :
                   t \in page.threads \/ (page.next # 0 /\ updated[t] < page.next)
<1>1. updated \in [1..MaxTurns -> 0..MaxUpdates] /\ MaxUpdates \in Nat
  BY ConstantsAssumption DEF TypeOK
<1>2. CASE ~honest
  <2>1. page.next \in Strange \cup Fresh
    BY <1>2 DEF ThreadPage
  <2> QED
    BY <1>2, <2>1, KindsOfNext DEF Strange
<1>3. CASE honest /\ page = [threads |-> Behind(cursor), next |-> 0]
  BY <1>1, <1>3, KindsOfNext
<1>4. ASSUME honest, NEW t \in Behind(cursor),
             page = [threads |-> {u \in Behind(cursor) : updated[u] >= updated[t]},
                     next |-> updated[t]]
      PROVE  /\ page.next \in Cursors
             /\ \A u \in Behind(cursor) :
                  u \in page.threads \/ (page.next # 0 /\ updated[u] < page.next)
  <2>1. \A u \in Behind(cursor) : updated[u] \in 1..MaxUpdates
    BY <1>1 DEF Behind
  <2> QED
    BY <1>1, <1>4, <2>1 DEF Cursors
<1>5. \/ ~honest
      \/ page = [threads |-> Behind(cursor), next |-> 0]
      \/ \E t \in Behind(cursor) :
           page = [threads |-> {u \in Behind(cursor) : updated[u] >= updated[t]},
                   next |-> updated[t]]
  BY DEF ThreadPage
<1> QED
  BY <1>1, <1>2, <1>3, <1>4, <1>5, KindsOfNext DEF Cursors

\* The rest of a page beyond the limit is cut off.
LEMMA UpToType ==
  ASSUME NEW data \in Seq(1..MaxTurns), NEW limit \in Nat
  PROVE  /\ UpTo(data, limit) \in Seq(1..MaxTurns)
         /\ Len(UpTo(data, limit)) \in 0..limit
         /\ Len(data) <= limit => UpTo(data, limit) = data
<1> DEFINE n == Lowest(Len(data), limit)
<1>1. n \in 0..limit /\ n <= Len(data) /\ (Len(data) <= limit => n = Len(data))
  BY LenProperties DEF Lowest
<1>2. UpTo(data, limit) = SubSeq(data, 1, n)
  BY DEF UpTo
<1> HIDE DEF n
<1>3. SubSeq(data, 1, n) \in Seq(1..MaxTurns) /\ Len(SubSeq(data, 1, n)) = n
  <2>1. n \in 0..Len(data)
    BY <1>1, LenProperties
  <2> QED
    BY <2>1, PrefixIs
<1>4. SubSeq(data, 1, Len(data)) = data
  BY SubSeqFull
<1> QED
  BY <1>1, <1>2, <1>3, <1>4

\* The first message on a page is on it, and no turn before it has one.
LEMMA SpeaksIsFirst ==
  ASSUME NEW data \in Seq(1..MaxTurns)
  PROVE  /\ Speaks(data) = 0 => \A i \in 1..Len(data) : turns[data[i]] # "completed"
         /\ Speaks(data) # 0 =>
              \E i \in 1..Len(data) :
                /\ Speaks(data) = data[i] /\ turns[data[i]] = "completed"
                /\ \A k \in 1..i - 1 : turns[data[k]] # "completed"
<1> DEFINE I == {i \in 1..Len(data) : turns[data[i]] = "completed"}
<1>0. Len(data) \in Nat /\ I \in SUBSET Nat
  BY LenProperties
<1>1. Speaks(data) = IF (IF I # {} THEN Min(I) ELSE 0) = 0 THEN 0
                     ELSE data[IF I # {} THEN Min(I) ELSE 0]
  BY DEF Speaks, FirstOf, SelectInSeq
<1>2. Len(data) \in Nat /\ \A i \in 1..Len(data) : data[i] \in 1..MaxTurns
  BY LenProperties, ElementOfSeq
<1>3. CASE I = {}
  BY <1>1, <1>3
<1>4. CASE I # {}
  <2>1. Min(I) \in I /\ \A y \in I : Min(I) <= y
    <3> HIDE DEF I
    <3> QED
      BY <1>0, <1>4, LeastOfSet
  <2>2. Speaks(data) = data[Min(I)]
    BY <1>1, <1>2, <1>4, <2>1
  <2>3. \A k \in 1..Min(I) - 1 : k \notin I
    BY <1>2, <2>1
  <2>4. \A k \in 1..Min(I) - 1 : turns[data[k]] # "completed"
    BY <1>2, <2>1, <2>3
  <2>5. Min(I) \in 1..Len(data) /\ turns[data[Min(I)]] = "completed" /\ data[Min(I)] # 0
    BY <1>2, <2>1
  <2> HIDE DEF I
  <2> QED
    BY <2>2, <2>4, <2>5
<1> QED
  BY <1>3, <1>4

\* The part of a page up to the turn sought begins as the page does.
LEMMA OnTheWayType ==
  ASSUME NEW data \in Seq(1..MaxTurns)
  PROVE  /\ OnTheWay(data) \in Seq(1..MaxTurns)
         /\ Len(data) > 0 => (Len(OnTheWay(data)) > 0 /\ OnTheWay(data)[1] = data[1])
<1> DEFINE I == {i \in 1..Len(data) : data[i] = sought}
           m == IF I # {} THEN Min(I) ELSE 0
<1>1. OnTheWay(data) = IF m = 0 THEN data ELSE SubSeq(data, 1, m)
  BY DEF OnTheWay, SelectInSeq
<1>2. Len(data) \in Nat
  BY LenProperties
<1>3. m \in 0..Len(data)
  <2>1. I # {} => Min(I) \in I
    <3>1. I \in SUBSET Nat
      BY <1>2
    <3> HIDE DEF I
    <3> QED
      BY <3>1, LeastOfSet
  <2> QED
    BY <1>2, <2>1
<1> HIDE DEF m
<1>4. CASE m = 0
  BY <1>1, <1>4
<1>5. CASE m # 0
  <2>1. /\ SubSeq(data, 1, m) \in Seq(1..MaxTurns) /\ Len(SubSeq(data, 1, m)) = m
        /\ SubSeq(data, 1, m)[1] = data[1]
    <3>1. 1 \in 1..m
      BY <1>2, <1>3, <1>5
    <3> QED
      BY <1>3, <3>1, PrefixIs
  <2> QED
    BY <1>1, <1>3, <1>5, <2>1
<1> QED
  BY <1>4, <1>5

\* The active turn seen is one of the page, the newest if that is active.
LEMMA ActiveIsOnPage ==
  ASSUME NEW data \in Seq(1..MaxTurns), MaxTurns \in Nat
  PROVE  /\ ActiveOnTheWay(data) \in 0..MaxTurns
         /\ (Len(data) > 0 /\ turns[data[1]] = "active") => ActiveOnTheWay(data) = data[1]
<1> DEFINE way == OnTheWay(data)
           I == {i \in 1..Len(way) : turns[way[i]] = "active"}
           m == IF I # {} THEN Min(I) ELSE 0
<1>1. ActiveOnTheWay(data) = IF m = 0 THEN 0 ELSE way[m]
  BY DEF ActiveOnTheWay, FirstOf, SelectInSeq
<1>2. way \in Seq(1..MaxTurns) /\ (Len(data) > 0 => Len(way) > 0 /\ way[1] = data[1])
  BY OnTheWayType
<1> HIDE DEF way
<1>3. Len(way) \in Nat /\ \A i \in 1..Len(way) : way[i] \in 1..MaxTurns
  BY <1>2, LenProperties, ElementOfSeq
<1>4. m \in 0..Len(way) /\ (I # {} => Min(I) \in I /\ \A y \in I : Min(I) <= y)
  <2>1. I # {} => Min(I) \in I /\ \A y \in I : Min(I) <= y
    <3>1. I \in SUBSET Nat
      BY <1>3
    <3> HIDE DEF I
    <3> QED
      BY <3>1, LeastOfSet
  <2> QED
    BY <1>3, <2>1
<1>5. ActiveOnTheWay(data) \in 0..MaxTurns
  <2> HIDE DEF m
  <2> QED
    BY <1>1, <1>3, <1>4
<1>6. ASSUME Len(data) > 0, turns[data[1]] = "active"
      PROVE  ActiveOnTheWay(data) = data[1]
  <2>1. 1 \in I
    BY <1>2, <1>3, <1>6
  <2>2. m = 1
    <3>1. Min(I) \in I /\ Min(I) <= 1
      BY <1>4, <2>1
    <3>2. Min(I) \in Nat /\ Min(I) >= 1
      BY <1>3, <3>1
    <3>3. Min(I) = 1
      BY <3>1, <3>2
    <3> QED
      BY <2>1, <3>3
  <2> HIDE DEF m
  <2> QED
    BY <1>1, <1>2, <1>6, <2>2
<1> QED
  BY <1>5, <1>6

-----------------------------------------------------------------------------
(* Types                                                                   *)

\* What TypeOK says of what no step of the list changes.
LEMMA TypesOfTheClient ==
  ASSUME TypeOK
  PROVE  /\ honest \in BOOLEAN /\ loop \in Loops
         /\ pages \in Nat /\ scanned \in 0..RoundLimit /\ rounds \in 0..scanned
         /\ collected \in Seq(1..MaxTurns) /\ Len(collected) \in Nat
         /\ known \subseteq Cursors /\ active \in 0..MaxTurns /\ found \in 0..MaxTurns
         /\ result \in Results
<1>1. Max({MaxPages, RecapPages}) \in Nat
  BY Numbers, LargerOfTwo
<1>2. pages \in Nat
  BY <1>1 DEF TypeOK
<1> QED
  BY <1>2, LenProperties DEF TypeOK

\* The last turn ends (gateway.py:205-230 reads the list while it does).
LEMMA EndedList ==
  ASSUME TypeOK, ListGrows, TurnEnds
  PROVE  /\ turns' \in Seq(Statuses) /\ Len(turns') = Len(turns) /\ turns # <<>>
         /\ \A i \in 1..Len(turns) : i # Len(turns) => turns'[i] = turns[i]
         /\ turns[Len(turns)] = "active" /\ turns'[Len(turns)] # "active"
         /\ turns'[Len(turns)] \in Statuses
<1>1. turns \in Seq(Statuses) /\ turns # <<>> /\ turns[Len(turns)] = "active"
  BY DEF TypeOK, TurnEnds, LastIsActive, Last
<1>2. Len(turns) \in 1..Len(turns)
  BY <1>1, EmptySeq
<1>3. PICK status \in Statuses \ {"active"} : turns' = [turns EXCEPT ![Len(turns)] = status]
  BY DEF TurnEnds
<1>4. /\ turns' \in Seq(Statuses) /\ Len(turns') = Len(turns)
      /\ \A j \in 1..Len(turns) : turns'[j] = IF j = Len(turns) THEN status ELSE turns[j]
  BY <1>1, <1>2, <1>3, ExceptSeq
<1> QED
  BY <1>1, <1>2, <1>4

\* The next turn begins.
LEMMA LongerList ==
  ASSUME TypeOK, TurnBegins
  PROVE  /\ turns' \in Seq(Statuses) /\ Len(turns') = Len(turns) + 1
         /\ Len(turns') <= MaxTurns
         /\ \A i \in 1..Len(turns) : turns'[i] = turns[i]
         /\ ~LastIsActive
<1>1. turns \in Seq(Statuses) /\ "active" \in Statuses
  BY DEF TypeOK, Statuses
<1>2. turns' = Append(turns, "active") /\ ~LastIsActive
  BY DEF TurnBegins
<1>3. /\ Len(turns) \in Nat /\ MaxTurns \in Nat \ {0}
      /\ Len(turns) < IF honest THEN MaxTurns ELSE 1
  BY Numbers DEF TurnBegins
<1>5. Len(turns) < MaxTurns
  BY <1>3
<1>4. /\ turns' \in Seq(Statuses) /\ Len(turns') = Len(turns) + 1
      /\ \A i \in 1..Len(turns) : turns'[i] = turns[i]
  BY <1>1, <1>2, AppendProperties
<1> QED
  BY <1>2, <1>3, <1>4, <1>5

\* A turn of the list changes the list alone.
LEMMA ListStepLeavesClient ==
  ASSUME TurnEnds \/ TurnBegins
  PROVE  /\ cursor' = cursor /\ pages' = pages /\ scanned' = scanned /\ rounds' = rounds
         /\ collected' = collected /\ known' = known /\ active' = active /\ result' = result
         /\ found' = found /\ honest' = honest /\ loop' = loop /\ sought' = sought
         /\ first' = first /\ updated' = updated /\ listed' = listed
BY DEF TurnEnds, TurnBegins, client, fixed

\* An update of a Thread changes nothing else.
LEMMA UpdateLeavesClient ==
  ASSUME NEW t \in 1..MaxTurns, ThreadUpdated(t)
  PROVE  turns' = turns /\ UNCHANGED <<client, fixed>>
BY DEF ThreadUpdated

\* A request leaves the lists and the question as they are.
LEMMA RequestLeavesList ==
  ASSUME Request \/ RequestFails
  PROVE  /\ turns' = turns /\ updated' = updated /\ listed' = listed /\ honest' = honest /\ loop' = loop /\ sought' = sought
         /\ first' = first /\ result = "none" /\ result' \in Results
BY DEF Request, RequestFails, fixed, FindPage, LookupPage, OverviewPage, RecapPage,
       HistoryPage, Ends, Continues, Results

\* The completed turns of a page are at most as many as the page has turns.
LEMMA CompletedOnBound ==
  ASSUME NEW data, NEW n \in Nat, Len(data) = n
  PROVE  Cardinality(CompletedOn(data)) \in 0..n
<1>1. IsFiniteSet(1..n) /\ Cardinality(1..n) = n
  <2>1. Cardinality(1..n) = IF 1 > n THEN 0 ELSE n - 1 + 1
    BY FS_Interval
  <2> QED
    BY <2>1, FS_Interval
<1>2. CompletedOn(data) \in SUBSET (1..n)
  BY DEF CompletedOn
<1>3. IsFiniteSet(CompletedOn(data)) /\ Cardinality(CompletedOn(data)) <= n
  BY <1>1, <1>2, FS_Subset
<1> QED
  BY <1>3, FS_CardinalityType

\* Whatever the answer, a request leaves every variable in its type.
LEMMA RequestType ==
  ASSUME TypeOK, RequestsLeft, CursorInList, Request
  PROVE  TypeOK'
<1>a. /\ turns' = turns /\ updated' = updated /\ honest' = honest /\ loop' = loop
      /\ sought' = sought /\ first' = first /\ result = "none" /\ result' \in Results
  BY RequestLeavesList
<1>b. /\ loop \in Loops /\ pages \in Nat /\ scanned \in 0..RoundLimit /\ rounds \in 0..scanned
      /\ collected \in Seq(1..MaxTurns)
      /\ known \subseteq Cursors /\ active \in 0..MaxTurns /\ found \in 0..MaxTurns
  BY TypesOfTheClient
<1>c. /\ MaxTurns \in Nat \ {0} /\ PageSize \in Nat \ {0} /\ RoundPageSize \in Nat \ {0}
      /\ RecapPageSize \in Nat \ {0} /\ MaxPages \in Nat \ {0} /\ RecapPages \in Nat \ {0}
      /\ RoundLimit \in Nat \ {0}
  BY Numbers
<1>d. /\ cursor \in Nexts /\ Strings \subseteq Nexts
      /\ sought \in 0..MaxTurns /\ 0 \in 0..MaxTurns /\ 1..MaxTurns \subseteq 0..MaxTurns
  <2>1. cursor \in Nexts /\ Strings \subseteq Nexts
    BY DEF TypeOK, Nexts
  <2>2. sought \in 1..MaxTurns
    BY Numbers
  <2> QED
    BY <1>c, <2>1, <2>2
<1>1. pages' \in 0..Max({MaxPages, RecapPages})
  <2>1. /\ Max({MaxPages, RecapPages}) \in Nat
        /\ MaxPages <= Max({MaxPages, RecapPages}) /\ RecapPages <= Max({MaxPages, RecapPages})
    BY <1>c, LargerOfTwo
  <2>2. pages \in 0..Max({MaxPages, RecapPages})
    BY DEF TypeOK
  <2>3. pages' = IF loop \in {"find", "lookup", "recap"} THEN pages + 1 ELSE pages
    BY DEF Request
  <2>4. CASE loop \in {"find", "lookup"}
    <3>1. pages < MaxPages /\ pages' = pages + 1
      BY <1>a, <2>3, <2>4 DEF RequestsLeft
    <3>2. pages + 1 \in 0..MaxPages
      BY <1>b, <1>c, <3>1
    <3> QED
      BY <1>c, <2>1, <3>1, <3>2
  <2>5. CASE loop = "recap"
    <3>1. pages < RecapPages /\ pages' = pages + 1
      BY <1>a, <2>3, <2>5 DEF RequestsLeft
    <3>2. pages + 1 \in 0..RecapPages
      BY <1>b, <1>c, <3>1
    <3> QED
      BY <1>c, <2>1, <3>1, <3>2
  <2>6. CASE loop \notin {"find", "lookup", "recap"}
    BY <2>2, <2>3, <2>6
  <2> QED
    BY <2>4, <2>5, <2>6
<1>2. /\ cursor' \in Nexts /\ found' \in 0..MaxTurns /\ active' \in 0..MaxTurns
      /\ scanned' \in 0..RoundLimit /\ rounds' \in 0..scanned'
      /\ collected' \in Seq(1..MaxTurns) /\ known' \subseteq Cursors
  <2>1. CASE FindPage
    <3>1. PICK page \in Page(PageSize) :
             LET data == UpTo(page.data, PageSize)
             IN  /\ active' = FirstActive(ActiveOnTheWay(data))
                 /\ \/ found' = sought /\ cursor' = cursor
                    \/ found' = found /\ cursor' = page.next /\ page.next \in Strings
                    \/ found' = 0 /\ cursor' = cursor
      BY <2>1 DEF FindPage, Ends, Continues
    <3>2. UpTo(page.data, PageSize) \in Seq(1..MaxTurns)
      BY <1>c, <2>1, PageType, UpToType DEF FindPage
    <3>3. active' \in 0..MaxTurns
      BY <1>b, <1>c, <3>1, <3>2, ActiveIsOnPage DEF FirstActive
    <3>4. cursor' \in Nexts /\ found' \in 0..MaxTurns
      BY <1>b, <1>d, <3>1
    <3>5. UNCHANGED <<scanned, rounds, collected, known>>
      BY <2>1 DEF FindPage
    <3> QED
      BY <1>b, <3>3, <3>4, <3>5
  <2>2. CASE LookupPage
    <3>1. PICK page \in ThreadPage(PageSize) :
             \/ found' = sought /\ cursor' = cursor
             \/ found' = 0 /\ cursor' = cursor
             \/ /\ found' = found /\ cursor' = page.next
                /\ page.next \notin {Invalid, Empty}
      BY <2>2 DEF LookupPage, ListEnds, Ends, Continues
    <3>2. page.next \in Nexts \cup {Invalid, Empty}
      BY <1>c, ThreadPageIs
    <3>3. cursor' \in Nexts /\ found' \in 0..MaxTurns
      <4>1. page.next \notin {Invalid, Empty} => page.next \in Nexts
        BY <3>2
      <4> QED
        BY <1>b, <1>d, <3>1, <4>1
    <3>4. UNCHANGED <<scanned, rounds, collected, known, active>>
      BY <2>2 DEF LookupPage
    <3> QED
      BY <1>b, <3>3, <3>4
  <2>3. CASE OverviewPage
    <3> DEFINE limit == Lowest(RoundPageSize, RoundLimit - scanned)
    <3>1. PICK page \in Page(limit) :
             LET data == UpTo(page.data, limit)
             IN  /\ scanned' = scanned + Len(data)
                 /\ rounds' = rounds + Cardinality(CompletedOn(data))
                 /\ \/ found' = 0 /\ cursor' = cursor
                    \/ found' = found /\ cursor' = page.next /\ page.next \in Strings
      BY <2>3 DEF OverviewPage, Ends, Continues, Exact
    <3>2. limit \in Nat \ {0} /\ limit <= RoundLimit - scanned
      <4>1. scanned < RoundLimit
        BY <1>a, <2>3 DEF OverviewPage, RequestsLeft
      <4> QED
        BY <1>b, <1>c, <4>1 DEF Lowest
    <3> DEFINE data == UpTo(page.data, limit)
    <3> HIDE DEF limit
    <3>3. data \in Seq(1..MaxTurns) /\ Len(data) \in 0..limit
      BY <2>3, <3>2, PageType, UpToType DEF OverviewPage
    <3>4. Cardinality(CompletedOn(data)) \in 0..Len(data)
      BY <3>3, CompletedOnBound
    <3>5. cursor' \in Nexts /\ found' \in 0..MaxTurns
      <4>1. found' \in {0, found} /\ cursor' \in Strings \cup {cursor}
        BY <3>1
      <4> QED
        BY <1>b, <1>d, <4>1
    <3>6. scanned' = scanned + Len(data) /\ rounds' = rounds + Cardinality(CompletedOn(data))
      BY <3>1
    <3> HIDE DEF data
    <3>7. scanned' \in 0..RoundLimit /\ rounds' \in 0..scanned'
      <4> DEFINE l == Len(data)
                 k == Cardinality(CompletedOn(data))
      <4>1. l \in Nat /\ l <= RoundLimit - scanned /\ k \in 0..l
        BY <1>b, <1>c, <3>2, <3>3, <3>4
      <4>2. scanned' = scanned + l /\ rounds' = rounds + k
        BY <3>6
      <4> HIDE DEF l, k
      <4> QED
        BY <1>b, <1>c, <4>1, <4>2
    <3>8. UNCHANGED <<collected, known, active>>
      BY <2>3 DEF OverviewPage
    <3> QED
      BY <1>b, <3>5, <3>7, <3>8
  <2>4. CASE RecapPage
    <3>1. PICK page \in Page(RecapPageSize) :
             \/ found' = Speaks(page.data) /\ Speaks(page.data) # 0 /\ cursor' = cursor
             \/ found' = 0 /\ cursor' = cursor
             \/ found' = found /\ cursor' = page.next /\ page.next \in Strings
      BY <2>4 DEF RecapPage, Ends, Continues
    <3>2. page.data \in Seq(1..MaxTurns)
      BY <1>c, <2>4, PageType DEF RecapPage
    <3>3. Speaks(page.data) # 0 => Speaks(page.data) \in 1..MaxTurns
      <4>1. Speaks(page.data) # 0 => \E i \in 1..Len(page.data) : Speaks(page.data) = page.data[i]
        BY <3>2, SpeaksIsFirst
      <4> QED
        BY <3>2, <4>1, ElementOfSeq
    <3>4. cursor' \in Nexts /\ found' \in 0..MaxTurns
      BY <1>b, <1>d, <3>1, <3>3
    <3>5. UNCHANGED <<scanned, rounds, collected, known, active>>
      BY <2>4 DEF RecapPage
    <3> QED
      BY <1>b, <3>4, <3>5
  <2>5. CASE HistoryPage
    <3>1. PICK page \in Page(PageSize) :
             /\ collected' = collected \o page.data
             /\ \/ found' = 0 /\ cursor' = cursor /\ known' = known
                \/ /\ found' = found /\ cursor' = page.next
                   /\ known' = known \cup ({page.next} \ Fresh)
                   /\ page.next \notin {0, Invalid, Empty}
      BY <2>5 DEF HistoryPage, Ends, Continues, Extended
    <3>2. page.data \in Seq(1..MaxTurns) /\ page.next \in Nexts \cup {Invalid, Empty}
      BY <1>c, <2>5, PageType DEF HistoryPage
    <3>3. collected' \in Seq(1..MaxTurns)
      BY <1>b, <3>1, <3>2, ConcatProperties
    <3>4. cursor' \in Nexts /\ found' \in 0..MaxTurns /\ known' \subseteq Cursors
      <4>1. page.next \notin {0, Invalid, Empty} => page.next \in Strings
        BY <3>2 DEF Nexts
      <4>2. found' \in {0, found} /\ cursor' \in Strings \cup {cursor}
        BY <3>1, <4>1
      <4>3. known' \subseteq Cursors
        BY <1>b, <3>1, <4>1, KindsOfNext
      <4> QED
        BY <1>b, <1>d, <4>2, <4>3
    <3>5. UNCHANGED <<scanned, rounds, active>>
      BY <2>5 DEF HistoryPage
    <3> QED
      BY <1>b, <3>3, <3>4, <3>5
  <2> QED
    BY <2>1, <2>2, <2>3, <2>4, <2>5 DEF Request
<1> QED
  BY <1>a, <1>1, <1>2 DEF TypeOK

\* Every step leaves every variable in its type.
LEMMA TypeStep ==
  ASSUME TypeOK, RequestsLeft, ListGrows, CursorInList, [Next]_vars
  PROVE  TypeOK'
<1>1. CASE Request
  BY <1>1, RequestType
<1>2. CASE RequestFails
  BY <1>2, RequestLeavesList, Numbers DEF TypeOK, RequestFails, Ends
<1>3. CASE TurnEnds
  BY <1>3, EndedList, ListStepLeavesClient DEF TypeOK
<1>4. CASE TurnBegins
  BY <1>4, LongerList, ListStepLeavesClient DEF TypeOK
<1>5. CASE UNCHANGED vars
  BY <1>5 DEF TypeOK, vars, client, fixed
<1>6. ASSUME NEW t \in 1..MaxTurns, ThreadUpdated(t)
      PROVE  TypeOK'
  <2>1. PICK now \in 1..MaxUpdates : updated' = [updated EXCEPT ![t] = now]
    BY <1>6 DEF ThreadUpdated
  <2>2. 1..MaxUpdates \subseteq 0..MaxUpdates
    BY ConstantsAssumption
  <2>3. updated' \in [1..MaxTurns -> 0..MaxUpdates]
    BY <2>1, <2>2 DEF TypeOK
  <2> QED
    BY <1>6, <2>3, UpdateLeavesClient DEF TypeOK, client, fixed
<1> QED
  BY <1>1, <1>2, <1>3, <1>4, <1>5, <1>6 DEF Next

-----------------------------------------------------------------------------
(* The list, the cursor and the requests left                              *)

\* The list grows at its end and what has ended stays.
LEMMA ListGrowsStep ==
  ASSUME TypeOK, ListGrows, [Next]_vars
  PROVE  ListGrows'
<1>0. /\ Len(turns) \in Nat /\ first \in Seq(Statuses)
      /\ Len(first) \in Nat /\ Len(first) <= Len(turns)
  BY Numbers, LenProperties DEF ListGrows
<1>1. CASE Request \/ RequestFails
  BY <1>1, RequestLeavesList DEF ListGrows
<1>2. CASE TurnEnds
  <2>1. /\ first' = first /\ Len(turns') = Len(turns)
        /\ \A i \in 1..Len(turns) : i # Len(turns) => turns'[i] = turns[i]
        /\ turns[Len(turns)] = "active"
    BY <1>2, EndedList, ListStepLeavesClient
  <2>2. ASSUME NEW i \in 1..Len(first), first[i] # "active"  PROVE  turns'[i] = first[i]
    <3>1. turns[i] = first[i] /\ i \in 1..Len(turns)
      BY <1>0, <2>2 DEF ListGrows
    <3>2. i # Len(turns)
      BY <2>1, <2>2, <3>1
    <3> QED
      BY <2>1, <3>1, <3>2
  <2>3. ASSUME NEW i \in 1..Len(turns), turns'[i] = "active"  PROVE  i = Len(turns)
    BY <2>1, <2>3 DEF ListGrows
  <2> QED
    BY <1>0, <2>1, <2>2, <2>3 DEF ListGrows
<1>3. CASE TurnBegins
  <2>1. /\ first' = first /\ Len(turns') = Len(turns) + 1 /\ ~LastIsActive
        /\ \A i \in 1..Len(turns) : turns'[i] = turns[i]
    BY <1>3, LongerList, ListStepLeavesClient
  <2>2. ASSUME NEW i \in 1..Len(first), first[i] # "active"  PROVE  turns'[i] = first[i]
    <3>1. turns[i] = first[i] /\ i \in 1..Len(turns)
      BY <1>0, <2>2 DEF ListGrows
    <3> QED
      BY <2>1, <3>1
  <2>3. ASSUME NEW i \in 1..Len(turns'), turns'[i] = "active"  PROVE  i = Len(turns')
    <3>1. CASE i \in 1..Len(turns)
      <4>1. turns[i] = "active" /\ i = Len(turns)
        BY <2>1, <2>3, <3>1 DEF ListGrows
      <4>2. turns # <<>>
        BY <3>1
      <4> QED
        BY <2>1, <4>1, <4>2 DEF LastIsActive, Last
    <3>2. CASE i \notin 1..Len(turns)
      BY <1>0, <2>1, <3>2
    <3> QED
      BY <3>1, <3>2
  <2>4. Len(first) <= Len(turns')
    BY <1>0, <2>1
  <2> QED
    BY <1>0, <2>1, <2>2, <2>3, <2>4 DEF ListGrows
<1>4. CASE UNCHANGED vars
  BY <1>4 DEF ListGrows, vars, fixed
<1>5. ASSUME NEW t \in 1..MaxTurns, ThreadUpdated(t)
      PROVE  ListGrows'
  BY <1>5, UpdateLeavesClient DEF ListGrows, client, fixed
<1> QED
  BY <1>1, <1>2, <1>3, <1>4, <1>5 DEF Next

\* A request asks for a page, and either ends the loop or goes on from the page's cursor.
LEMMA RequestShape ==
  ASSUME TypeOK, RequestsLeft, Request, loop # "lookup"
  PROVE  \E limit \in Nat \ {0} : \E page \in Page(limit) :
           \/ cursor' = cursor
           \/ cursor' = page.next
<1>1. CASE FindPage \/ HistoryPage
  <2>1. \E page \in Page(PageSize) : cursor' = cursor \/ cursor' = page.next
    BY <1>1 DEF FindPage, HistoryPage, Ends, Continues
  <2>2. PageSize \in Nat \ {0}
    BY Numbers
  <2> QED
    BY <2>1, <2>2
<1>2. CASE RecapPage
  <2>1. \E page \in Page(RecapPageSize) : cursor' = cursor \/ cursor' = page.next
    BY <1>2 DEF RecapPage, Ends, Continues
  <2>2. RecapPageSize \in Nat \ {0}
    BY Numbers
  <2> QED
    BY <2>1, <2>2
<1>3. CASE OverviewPage
  <2> DEFINE limit == Lowest(RoundPageSize, RoundLimit - scanned)
  <2>1. \E page \in Page(limit) : cursor' = cursor \/ cursor' = page.next
    BY <1>3 DEF OverviewPage, Ends, Continues
  <2>2. scanned < RoundLimit /\ scanned \in 0..RoundLimit
    BY <1>3, RequestLeavesList, TypesOfTheClient DEF OverviewPage, RequestsLeft
  <2>3. limit \in Nat \ {0}
    BY <2>2, Numbers DEF Lowest
  <2> HIDE DEF limit
  <2> QED
    BY <2>1, <2>3
<1> QED
  BY <1>1, <1>2, <1>3 DEF Request, LookupPage

\* A documented cursor stays one of the list.
LEMMA CursorStep ==
  ASSUME TypeOK, RequestsLeft, ListGrows, CursorInList, [Next]_vars
  PROVE  CursorInList'
<1>0. Len(turns) \in Nat /\ cursor \in Nat
  BY Numbers
<1>1. CASE Request
  <2> SUFFICES ASSUME loop # "lookup"  PROVE CursorInList'
    BY <1>1, RequestLeavesList DEF CursorInList
  <2>1. turns' = turns /\ honest' = honest /\ loop' = loop
    BY <1>1, RequestLeavesList
  <2>a. PICK limit \in Nat \ {0} :
           \E page \in Page(limit) : cursor' = cursor \/ cursor' = page.next
    BY <1>1, RequestShape
  <2>2. PICK page \in Page(limit) : cursor' = cursor \/ cursor' = page.next
    BY <2>a
  <2>3. honest => page.next <= Len(turns)
    BY PageType
  <2> QED
    BY <2>1, <2>2, <2>3 DEF CursorInList
<1>2. CASE RequestFails
  BY <1>2, RequestLeavesList DEF RequestFails, Ends, CursorInList
<1>3. CASE TurnEnds
  BY <1>3, EndedList, ListStepLeavesClient DEF CursorInList
<1>4. CASE TurnBegins
  <2>1. Len(turns') = Len(turns) + 1 /\ cursor' = cursor /\ honest' = honest
        /\ loop' = loop
    BY <1>4, LongerList, ListStepLeavesClient
  <2> QED
    BY <1>0, <2>1 DEF CursorInList
<1>5. CASE UNCHANGED vars
  BY <1>5 DEF CursorInList, vars, client, fixed
<1>6. ASSUME NEW t \in 1..MaxTurns, ThreadUpdated(t)
      PROVE  CursorInList'
  BY <1>6, UpdateLeavesClient DEF CursorInList, client, fixed
<1> QED
  BY <1>1, <1>2, <1>3, <1>4, <1>5, <1>6 DEF Next

\* A loop that goes on has a request left.
LEMMA RequestsLeftStep ==
  ASSUME TypeOK, TypeOK', RequestsLeft, [Next]_vars
  PROVE  RequestsLeft'
<1>1. CASE Request
  <2> SUFFICES ASSUME result' = "none"  PROVE RequestsLeft'
    BY DEF RequestsLeft
  <2>0. /\ loop' = loop /\ result = "none" /\ pages \in Nat /\ scanned \in Nat
        /\ MaxPages \in Nat /\ RoundLimit \in Nat
    BY <1>1, RequestLeavesList, TypesOfTheClient, Numbers
  <2>1. pages' = IF loop \in {"find", "lookup", "recap"} THEN pages + 1 ELSE pages
    BY <1>1 DEF Request
  <2>2. CASE FindPage
    BY <2>0, <2>1, <2>2 DEF RequestsLeft, FindPage, Ends
  <2>3. CASE LookupPage
    <3>1. pages + 1 # MaxPages /\ loop = "lookup"
      BY <2>3 DEF LookupPage, Ends
    <3>2. pages < MaxPages
      BY <2>0, <3>1 DEF RequestsLeft
    <3> QED
      BY <2>0, <2>1, <3>1, <3>2 DEF RequestsLeft
  <2>4. CASE OverviewPage
    <3>1. loop = "overview" /\ ~(scanned' >= RoundLimit)
      BY <2>4 DEF OverviewPage, Ends
    <3>2. scanned' \in Nat
      BY <2>0 DEF TypeOK
    <3> QED
      BY <2>0, <3>1, <3>2 DEF RequestsLeft
  <2>5. CASE RecapPage
    BY <2>0, <2>1, <2>5 DEF RequestsLeft, RecapPage, Ends
  <2>6. CASE HistoryPage
    BY <2>0, <2>6 DEF RequestsLeft, HistoryPage
  <2> QED
    BY <1>1, <2>2, <2>3, <2>4, <2>5, <2>6 DEF Request
<1>2. CASE RequestFails
  BY <1>2 DEF RequestFails, Ends, RequestsLeft
<1>3. CASE TurnEnds \/ TurnBegins
  BY <1>3, ListStepLeavesClient DEF RequestsLeft
<1>4. CASE UNCHANGED vars
  BY <1>4 DEF RequestsLeft, vars, client, fixed
<1>5. ASSUME NEW t \in 1..MaxTurns, ThreadUpdated(t)
      PROVE  RequestsLeft'
  BY <1>5, UpdateLeavesClient DEF RequestsLeft, client, fixed
<1> QED
  BY <1>1, <1>2, <1>3, <1>4, <1>5 DEF Next

-----------------------------------------------------------------------------
(* history                                                                 *)

\* Turns 1 to c and the n that follow are turns 1 to c + n.
LEMMA NumbersInOrder ==
  ASSUME NEW c \in Nat, NEW n \in Nat, NEW s \in Seq(1..MaxTurns), NEW t \in Seq(1..MaxTurns),
         Len(s) = c, s = [i \in 1..c |-> i],
         Len(t) = n, t = [i \in 1..n |-> c + i]
  PROVE  Len(s \o t) = c + n /\ s \o t = [i \in 1..c + n |-> i]
<1>1. /\ s \o t \in Seq(1..MaxTurns) /\ Len(s \o t) = c + n
      /\ \A i \in 1..c + n : (s \o t)[i] = IF i <= c THEN s[i] ELSE t[i - c]
  BY ConcatProperties
<1>2. ASSUME NEW i \in 1..c + n  PROVE (s \o t)[i] = i
  <2>1. CASE i <= c
    <3>1. i \in 1..c
      BY <2>1
    <3> QED
      BY <1>1, <2>1, <3>1
  <2>2. CASE ~(i <= c)
    <3>1. i - c \in 1..n /\ c + (i - c) = i
      BY <2>2
    <3> QED
      BY <1>1, <2>2, <3>1
  <2> QED
    BY <2>1, <2>2
<1>3. DOMAIN (s \o t) = 1..c + n /\ s \o t = [i \in DOMAIN (s \o t) |-> (s \o t)[i]]
  BY <1>1, LenProperties
<1> QED
  BY <1>1, <1>2, <1>3

\* A documented page of history continues the turns collected.
LEMMA HistoryPageSound ==
  ASSUME TypeOK, ListGrows, CursorInList, HistorySound, honest, loop = "history",
         result = "none", HistoryPage, turns' = turns, first' = first
  PROVE  /\ Len(collected') <= Len(turns) /\ collected' = [i \in 1..Len(collected') |-> i]
         /\ result' = "none" => cursor' = Len(collected')
         /\ result' = "complete" => Len(collected') >= Len(first)
<1>1. PICK page \in Page(PageSize) :
         /\ collected' = collected \o page.data
         /\ \/ page.next = 0 /\ result' = "complete"
            \/ page.next # 0 /\ result' = "failed"
            \/ page.next # 0 /\ result' = result /\ cursor' = page.next
  BY DEF HistoryPage, Extended, Ends, Continues
<1>2. PICK n \in 0..PageSize :
           /\ cursor + n <= Len(turns) /\ (Len(turns) > cursor + n => n = PageSize)
           /\ page.data = [i \in 1..n |-> cursor + i]
           /\ page.data \in Seq(1..MaxTurns) /\ Len(page.data) = n
           /\ page.next = IF Len(turns) > cursor + n THEN cursor + n ELSE 0
  <2>1. PageSize \in Nat \ {0}
    BY Numbers
  <2> QED
    BY <2>1, AscendingPageIs
<1>3. /\ cursor \in Nat /\ n \in Nat /\ Len(turns) \in Nat /\ Len(first) \in Nat
      /\ Len(first) <= Len(turns) /\ collected \in Seq(1..MaxTurns)
  BY Numbers, TypesOfTheClient, LenProperties DEF ListGrows
<1>4. cursor = Len(collected) /\ collected = [i \in 1..cursor |-> i]
  BY DEF HistorySound
<1>5. Len(collected') = cursor + n /\ collected' = [i \in 1..cursor + n |-> i]
  <2>1. page.data \in Seq(1..MaxTurns) /\ Len(page.data) = n
        /\ page.data = [i \in 1..n |-> cursor + i]
    BY <1>2
  <2> QED
    BY <1>1, <1>3, <1>4, <2>1, NumbersInOrder
<1>6. result' = "none" => cursor' = Len(collected')
  BY <1>1, <1>2, <1>3, <1>5
<1>7. result' = "complete" => Len(collected') >= Len(first)
  <2>1. result' = "complete" => page.next = 0
    BY <1>1
  <2>2. page.next = 0 => Len(turns) <= cursor + n
    BY <1>2, <1>3, Numbers
  <2>3. Len(turns) <= cursor + n => Len(collected') >= Len(first)
    BY <1>3, <1>5
  <2> QED
    BY <2>1, <2>2, <2>3
<1> QED
  BY <1>2, <1>5, <1>6, <1>7

\* The list only grows, so what history collected stays right.
LEMMA HistoryStep ==
  ASSUME TypeOK, ListGrows, CursorInList, HistorySound, [Next]_vars
  PROVE  HistorySound'
<1>1. CASE Request
  <2> SUFFICES ASSUME honest', loop' = "history"  PROVE HistorySound'
    BY DEF HistorySound
  <2>1. /\ honest /\ loop = "history" /\ result = "none" /\ turns' = turns /\ first' = first
    BY <1>1, RequestLeavesList
  <2>2. HistoryPage
    BY <1>1, <2>1 DEF Request, FindPage, LookupPage, OverviewPage, RecapPage
  <2> QED
    BY <2>1, <2>2, HistoryPageSound DEF HistorySound
<1>2. CASE RequestFails
  <2>1. /\ turns' = turns /\ first' = first /\ honest' = honest /\ loop' = loop
        /\ collected' = collected
    BY <1>2, RequestLeavesList DEF RequestFails
  <2>2. result' \notin {"none", "complete"}
    BY <1>2 DEF RequestFails, Ends
  <2> QED
    BY <2>1, <2>2 DEF HistorySound
<1>3. CASE TurnEnds \/ TurnBegins
  <2>1. Len(turns) \in Nat /\ Len(collected) \in Nat
    BY Numbers, TypesOfTheClient
  <2>2. Len(turns') = Len(turns) \/ Len(turns') = Len(turns) + 1
    BY <1>3, EndedList, LongerList
  <2>3. Len(collected) <= Len(turns) => Len(collected) <= Len(turns')
    BY <2>1, <2>2
  <2>4. /\ cursor' = cursor /\ collected' = collected /\ result' = result
        /\ honest' = honest /\ loop' = loop /\ first' = first
    BY <1>3, ListStepLeavesClient
  <2> QED
    BY <2>3, <2>4 DEF HistorySound
<1>4. CASE UNCHANGED vars
  BY <1>4 DEF HistorySound, vars, client, fixed
<1>5. ASSUME NEW t \in 1..MaxTurns, ThreadUpdated(t)
      PROVE  HistorySound'
  BY <1>5, UpdateLeavesClient DEF HistorySound, client, fixed
<1> QED
  BY <1>1, <1>2, <1>3, <1>4, <1>5 DEF Next

-----------------------------------------------------------------------------
(* lookup                                                                  *)

\* A documented page of lookup shows what is sought, or ends before it.
LEMMA LookupPageSound ==
  ASSUME TypeOK, LookupSound, honest, loop = "lookup", result = "none", LookupPage,
         listed[sought] # 0, updated[sought] = listed[sought]
  PROVE  /\ (result' = "none" /\ cursor' # 0) => updated[sought] < cursor'
         /\ result' # "notFound"
<1>1. /\ sought \in 1..MaxTurns /\ PageSize \in Nat \ {0} /\ cursor \in Nat
      /\ updated[sought] \in 0..MaxUpdates /\ MaxUpdates \in Nat
  BY Numbers, ConstantsAssumption DEF TypeOK
<1>2. PICK page \in ThreadPage(PageSize) :
         \/ result' \notin {"none", "notFound"}
         \/ sought \notin page.threads /\ page.next \in {0, Empty} /\ result' = "notFound"
         \/ /\ sought \notin page.threads /\ page.next # 0
            /\ result' = result /\ cursor' = page.next
  BY DEF LookupPage, ListEnds, Ends, Continues
<1>3. sought \in Behind(cursor)
  BY <1>1 DEF LookupSound, Behind
<1>4. /\ page.next # Empty
      /\ sought \in page.threads \/ (page.next # 0 /\ updated[sought] < page.next)
  <2>1. page.next \in 0..MaxUpdates
    BY <1>1, ThreadPageIs
  <2>2. page.next # Empty
    BY <1>1, <2>1 DEF Empty
  <2> QED
    BY <1>1, <1>3, <2>2, ThreadPageIs
<1> QED
  BY <1>2, <1>4

\* What is updated meanwhile is updated for good.
LEMMA LookupStep ==
  ASSUME TypeOK, LookupSound, [Next]_vars
  PROVE  LookupSound'
<1>1. CASE Request
  <2>1. /\ honest' = honest /\ loop' = loop /\ result = "none" /\ sought' = sought
        /\ updated' = updated /\ listed' = listed
    BY <1>1, RequestLeavesList
  <2>2. \A t \in 1..MaxTurns : listed'[t] \in Nat /\ listed'[t] <= updated'[t]
    BY <2>1 DEF LookupSound
  <2>3. ASSUME honest, loop = "lookup", listed[sought] # 0, updated[sought] = listed[sought]
        PROVE  /\ (result' = "none" /\ cursor' # 0) => updated[sought] < cursor'
               /\ result' # "notFound"
    <3>1. LookupPage
      BY <1>1, <2>3 DEF Request, FindPage, HistoryPage, OverviewPage, RecapPage
    <3> QED
      BY <2>1, <2>3, <3>1, LookupPageSound
  <2> QED
    BY <2>1, <2>2, <2>3 DEF LookupSound
<1>2. CASE RequestFails
  <2>1. /\ honest' = honest /\ loop' = loop /\ sought' = sought
        /\ updated' = updated /\ listed' = listed
    BY <1>2, RequestLeavesList
  <2>2. loop = "lookup" => result' \notin {"none", "notFound"}
    BY <1>2 DEF RequestFails, Ends
  <2> QED
    BY <2>1, <2>2 DEF LookupSound
<1>3. CASE TurnEnds \/ TurnBegins
  BY <1>3, ListStepLeavesClient DEF LookupSound
<1>4. CASE UNCHANGED vars
  BY <1>4 DEF LookupSound, vars, client, fixed
<1>5. ASSUME NEW t \in 1..MaxTurns, ThreadUpdated(t)
      PROVE  LookupSound'
  <2>1. PICK now \in 1..MaxUpdates : /\ \A u \in 1..MaxTurns : updated[u] < now
                                     /\ updated' = [updated EXCEPT ![t] = now]
    BY <1>5 DEF ThreadUpdated
  <2>2. /\ honest' = honest /\ loop' = loop /\ sought' = sought /\ listed' = listed
        /\ result' = result /\ cursor' = cursor
    BY <1>5, UpdateLeavesClient DEF client, fixed
  <2>3. /\ \A u \in 1..MaxTurns : updated[u] \in Nat /\ listed[u] \in Nat
        /\ sought \in 1..MaxTurns /\ now \in Nat
    <3>1. MaxUpdates \in Nat /\ sought \in 1..MaxTurns
      BY Numbers, ConstantsAssumption
    <3>2. \A u \in 1..MaxTurns : updated[u] \in 0..MaxUpdates /\ listed[u] \in Nat
      BY DEF TypeOK, LookupSound
    <3> QED
      BY <2>1, <3>1, <3>2
  <2>4. \A u \in 1..MaxTurns : updated'[u] = IF u = t THEN now ELSE updated[u]
    BY <2>1 DEF TypeOK
  <2>5. \A u \in 1..MaxTurns : listed[u] <= updated'[u]
    BY <2>1, <2>3, <2>4 DEF LookupSound
  <2>6. updated'[sought] = listed[sought] => updated'[sought] = updated[sought]
    <3>1. listed[sought] <= updated[sought] /\ updated[sought] < now
      BY <2>1, <2>3 DEF LookupSound
    <3> QED
      BY <2>3, <2>4, <3>1
  <2> QED
    BY <2>2, <2>3, <2>5, <2>6 DEF LookupSound
<1> QED
  BY <1>1, <1>2, <1>3, <1>4, <1>5 DEF Next

-----------------------------------------------------------------------------
(* find                                                                    *)

\* The first page shows the active turn, and later ones do not replace it.
LEMMA FindPageSound ==
  ASSUME TypeOK, CursorInList, FindSound, honest, loop = "find",
         result = "none", FindPage, turns' = turns, first' = first
  PROVE  /\ (result' = "none" /\ cursor' = 0) => active' = 0
         /\ (LastIsActive /\ turns = first) => active' = Len(turns)
<1>1. PICK page \in Page(PageSize) :
         /\ active' = FirstActive(ActiveOnTheWay(UpTo(page.data, PageSize)))
         /\ \/ result' # "none"
            \/ cursor' = page.next /\ page.next \in Strings
  BY DEF FindPage, Ends, Continues
<1>2. PageSize \in Nat \ {0} /\ MaxTurns \in Nat \ {0} /\ Len(turns) \in Nat
  BY Numbers
<1>3. (result' = "none" /\ cursor' = 0) => active' = 0
  BY <1>1, KindsOfNext
<1>4. ASSUME LastIsActive, turns = first  PROVE active' = Len(turns)
  <2>1. CASE cursor # 0
    <3>1. active = Len(turns) /\ Len(turns) # 0
      <4>1. turns # <<>> /\ turns \in Seq(Statuses)
        BY <1>4 DEF LastIsActive, TypeOK
      <4> QED
        BY <1>4, <2>1, <4>1, EmptySeq DEF FindSound
    <3> QED
      BY <1>1, <3>1 DEF FirstActive
  <2>2. CASE cursor = 0
    <3>1. turns \in Seq(Statuses) /\ turns # <<>> /\ turns[Len(turns)] = "active"
      BY <1>4 DEF LastIsActive, TypeOK, Last
    <3>2. Len(turns) > 0
      BY <1>2, <3>1, EmptySeq
    <3>3. PICK from \in 0..Len(turns), n \in 0..PageSize :
             /\ from = IF cursor = 0 THEN Len(turns) ELSE cursor - 1
             /\ n <= from /\ (from > n => n = PageSize)
             /\ page.data = [i \in 1..n |-> from - i + 1]
             /\ page.data \in Seq(1..MaxTurns) /\ Len(page.data) = n
             /\ page.next = IF from > n THEN from - n + 1 ELSE 0
      <4>1. PageSize \in Nat \ {0}
        BY Numbers
      <4> QED
        BY <4>1, DescendingPageIs
    <3>4. from = Len(turns) /\ n > 0 /\ n <= PageSize
      BY <1>2, <2>2, <3>2, <3>3
    <3>5. page.data[1] = Len(turns)
      BY <1>2, <3>3, <3>4
    <3>6. UpTo(page.data, PageSize) = page.data
      BY <1>2, <3>3, <3>4, UpToType
    <3>7. ActiveOnTheWay(page.data) = Len(turns)
      BY <1>2, <3>1, <3>3, <3>4, <3>5, ActiveIsOnPage
    <3>8. active = 0
      BY <2>2 DEF FindSound
    <3> QED
      BY <1>1, <3>6, <3>7, <3>8 DEF FirstActive
  <2> QED
    BY <2>1, <2>2
<1> QED
  BY <1>3, <1>4

\* Once the list has changed nothing is claimed.
LEMMA FindStep ==
  ASSUME TypeOK, ListGrows, CursorInList, FindSound, [Next]_vars
  PROVE  FindSound'
<1>1. CASE Request
  <2> SUFFICES ASSUME honest', loop' = "find"  PROVE FindSound'
    BY DEF FindSound
  <2>1. /\ honest /\ loop = "find" /\ result = "none" /\ turns' = turns /\ first' = first
    BY <1>1, RequestLeavesList
  <2>2. FindPage
    BY <1>1, <2>1 DEF Request, LookupPage, HistoryPage, OverviewPage, RecapPage
  <2>3. /\ (result' = "none" /\ cursor' = 0) => active' = 0
        /\ (LastIsActive /\ turns = first) => active' = Len(turns)
    BY <2>1, <2>2, FindPageSound
  <2> QED
    BY <2>1, <2>3 DEF FindSound, LastIsActive
<1>2. CASE RequestFails
  <2>1. /\ turns' = turns /\ first' = first /\ honest' = honest /\ loop' = loop
    BY <1>2, RequestLeavesList
  <2>2. result' # "none" /\ found' = 0
    BY <1>2 DEF RequestFails, Ends
  <2> QED
    BY <2>1, <2>2 DEF FindSound
<1>3. CASE TurnEnds
  <2>1. /\ cursor' = cursor /\ active' = active /\ result' = result /\ found' = found
        /\ honest' = honest /\ loop' = loop
    BY <1>3, ListStepLeavesClient
  <2>2. ~LastIsActive'
    BY <1>3, EndedList DEF LastIsActive, Last
  <2> QED
    BY <2>1, <2>2 DEF FindSound
<1>4. CASE TurnBegins
  <2>1. /\ cursor' = cursor /\ active' = active /\ result' = result /\ found' = found
        /\ honest' = honest /\ loop' = loop /\ first' = first
    BY <1>4, ListStepLeavesClient
  <2>2. Len(turns') = Len(turns) + 1 /\ Len(turns) \in Nat
    BY <1>4, LongerList, Numbers
  <2>3. Len(first) <= Len(turns) /\ Len(first) \in Nat
    BY LenProperties DEF ListGrows
  <2>4. turns' # first
    BY <2>2, <2>3
  <2> QED
    BY <2>1, <2>4 DEF FindSound
<1>5. CASE UNCHANGED vars
  BY <1>5 DEF FindSound, LastIsActive, vars, client, fixed
<1>6. ASSUME NEW t \in 1..MaxTurns, ThreadUpdated(t)
      PROVE  FindSound'
  BY <1>6, UpdateLeavesClient DEF FindSound, client, fixed, LastIsActive
<1> QED
  BY <1>1, <1>2, <1>3, <1>4, <1>5, <1>6 DEF Next

-----------------------------------------------------------------------------
(* recap                                                                   *)

\* The message found on a documented page is the newest of the turns listed so far.
LEMMA RecapPageSound ==
  ASSUME TypeOK, ListGrows, CursorInList, RecapSound, honest, loop = "recap",
         result = "none", RecapPage
  PROVE  /\ (result' = "none" /\ cursor' # 0) =>
              \A i \in 1..Len(first) : i >= cursor' => first[i] # "completed"
         /\ found' # 0 =>
              /\ found' \in 1..Len(turns) /\ turns[found'] = "completed"
              /\ \A i \in 1..Len(first) : i > found' => first[i] # "completed"
<1>1. PICK page \in Page(RecapPageSize) :
         \/ /\ Speaks(page.data) # 0 /\ result' = "found" /\ found' = Speaks(page.data)
         \/ /\ Speaks(page.data) = 0 /\ page.next \in Strings
            /\ cursor' = page.next /\ result' = result /\ found' = found
         \/ result' = "notFound" /\ found' = 0
  BY DEF RecapPage, Ends, Continues
<1>2. PICK from \in 0..Len(turns), n \in 0..RecapPageSize :
           /\ from = IF cursor = 0 THEN Len(turns) ELSE cursor - 1
           /\ n <= from /\ (from > n => n = RecapPageSize)
           /\ page.data = [i \in 1..n |-> from - i + 1]
           /\ page.data \in Seq(1..MaxTurns) /\ Len(page.data) = n
           /\ page.next = IF from > n THEN from - n + 1 ELSE 0
  <2>1. RecapPageSize \in Nat \ {0}
    BY Numbers
  <2> QED
    BY <2>1, DescendingPageIs
<1>3. /\ cursor \in Nat /\ Len(turns) \in Nat /\ Len(first) \in Nat
      /\ Len(first) <= Len(turns) /\ from \in Nat /\ n \in 0..from
  <2>1. /\ cursor \in Nat /\ Len(turns) \in Nat
        /\ Len(first) <= Len(turns) /\ Len(first) \in Nat
    BY Numbers, LenProperties DEF ListGrows
  <2> QED
    BY <1>2, <2>1
<1>4. ASSUME NEW i \in 1..Len(first), first[i] = "completed"
      PROVE  turns[i] = "completed" /\ i <= from
  <2>1. turns[i] = "completed"
    BY <1>4 DEF ListGrows
  <2>2. cursor # 0 => ~(i >= cursor)
    BY <1>4 DEF RecapSound
  <2>3. i \in 1..Len(turns)
    BY <1>3
  <2> QED
    BY <1>2, <1>3, <2>1, <2>2, <2>3
<1>5. CASE Speaks(page.data) # 0 /\ result' = "found" /\ found' = Speaks(page.data)
  <2>1. PICK j \in 1..n :
           /\ found' = page.data[j] /\ turns[page.data[j]] = "completed"
           /\ \A k \in 1..j - 1 : turns[page.data[k]] # "completed"
    BY <1>2, <1>5, SpeaksIsFirst
  <2>2. found' = from - j + 1 /\ turns[found'] = "completed"
    BY <1>2, <2>1
  <2>3. found' \in 1..Len(turns)
    BY <1>2, <1>3, <2>2
  <2>4. ASSUME NEW i \in 1..Len(first), i > found'  PROVE first[i] # "completed"
    <3> SUFFICES ASSUME first[i] = "completed"  PROVE FALSE
      OBVIOUS
    <3>1. turns[i] = "completed" /\ i <= from
      BY <1>4
    <3>2. from - i + 1 \in 1..j - 1 /\ from - i + 1 \in 1..n /\ from - (from - i + 1) + 1 = i
      BY <1>3, <2>2, <2>4, <3>1
    <3>3. page.data[from - i + 1] = i
      BY <1>2, <3>2
    <3> QED
      BY <2>1, <3>1, <3>2, <3>3
  <2> QED
    BY <1>5, <2>2, <2>3, <2>4
<1>6. CASE Speaks(page.data) = 0 /\ page.next \in Strings /\ cursor' = page.next /\ found' = found
  <2>1. \A j \in 1..n : turns[page.data[j]] # "completed"
    BY <1>2, <1>6, SpeaksIsFirst
  <2>2. cursor' = from - n + 1
    BY <1>2, <1>6, KindsOfNext
  <2>3. ASSUME NEW i \in 1..Len(first), i >= cursor'  PROVE first[i] # "completed"
    <3> SUFFICES ASSUME first[i] = "completed"  PROVE FALSE
      OBVIOUS
    <3>1. turns[i] = "completed" /\ i <= from
      BY <1>4
    <3>2. from - i + 1 \in 1..n /\ from - (from - i + 1) + 1 = i
      BY <1>3, <2>2, <2>3, <3>1
    <3>3. page.data[from - i + 1] = i
      BY <1>2, <3>2
    <3> QED
      BY <2>1, <3>1, <3>2, <3>3
  <2>4. found' # 0 =>
          /\ found' \in 1..Len(turns) /\ turns[found'] = "completed"
          /\ \A i \in 1..Len(first) : i > found' => first[i] # "completed"
    BY <1>6 DEF RecapSound
  <2> QED
    BY <2>3, <2>4
<1>7. CASE result' = "notFound" /\ found' = 0
  BY <1>7
<1> QED
  BY <1>1, <1>5, <1>6, <1>7

\* A turn with a message has ended, and stays as it is.
LEMMA RecapStep ==
  ASSUME TypeOK, ListGrows, CursorInList, RecapSound, [Next]_vars
  PROVE  RecapSound'
<1>1. CASE Request
  <2> SUFFICES ASSUME honest', loop' = "recap"  PROVE RecapSound'
    BY DEF RecapSound
  <2>1. /\ honest /\ loop = "recap" /\ result = "none" /\ turns' = turns /\ first' = first
    BY <1>1, RequestLeavesList
  <2>2. RecapPage
    BY <1>1, <2>1 DEF Request, LookupPage, HistoryPage, OverviewPage, FindPage
  <2>3. /\ (result' = "none" /\ cursor' # 0) =>
             \A i \in 1..Len(first) : i >= cursor' => first[i] # "completed"
        /\ found' # 0 =>
             /\ found' \in 1..Len(turns) /\ turns[found'] = "completed"
             /\ \A i \in 1..Len(first) : i > found' => first[i] # "completed"
    BY <2>1, <2>2, RecapPageSound
  <2> QED
    BY <2>1, <2>3 DEF RecapSound
<1>2. CASE RequestFails
  <2>1. result' # "none" /\ found' = 0
    BY <1>2 DEF RequestFails, Ends
  <2> QED
    BY <2>1 DEF RecapSound
<1>3. CASE TurnEnds \/ TurnBegins
  <2>1. /\ cursor' = cursor /\ result' = result /\ found' = found
        /\ honest' = honest /\ loop' = loop /\ first' = first
    BY <1>3, ListStepLeavesClient
  <2>2. Len(turns) \in Nat /\ (Len(turns') = Len(turns) \/ Len(turns') = Len(turns) + 1)
    BY <1>3, Numbers, EndedList, LongerList
  <2>3. ASSUME NEW t \in 1..Len(turns), turns[t] = "completed"
        PROVE  t \in 1..Len(turns') /\ turns'[t] = "completed"
    <3>1. t \in 1..Len(turns')
      BY <2>2
    <3>2. CASE TurnEnds
      BY <2>3, <3>1, <3>2, EndedList
    <3>3. CASE TurnBegins
      BY <2>3, <3>1, <3>3, LongerList
    <3> QED
      BY <1>3, <3>1, <3>2, <3>3
  <2> QED
    BY <2>1, <2>3 DEF RecapSound
<1>4. CASE UNCHANGED vars
  BY <1>4 DEF RecapSound, vars, client, fixed
<1>5. ASSUME NEW t \in 1..MaxTurns, ThreadUpdated(t)
      PROVE  RecapSound'
  BY <1>5, UpdateLeavesClient DEF RecapSound, client, fixed
<1> QED
  BY <1>1, <1>2, <1>3, <1>4, <1>5 DEF Next

-----------------------------------------------------------------------------
(* overview                                                                *)

\* The completed turns from lo to hi.
CompletedFrom(list, lo, hi) == {i \in Completed(list) : lo <= i /\ i <= hi}

\* The completed turns of a list are finitely many numbers, and so are those listed.
LEMMA CompletedIsFinite ==
  ASSUME NEW list \in Seq(Statuses)
  PROVE  /\ IsFiniteSet(Completed(list)) /\ Cardinality(Completed(list)) \in Nat
         /\ \A S \in SUBSET Completed(list) :
              /\ IsFiniteSet(S) /\ Cardinality(S) \in Nat
              /\ Cardinality(S) <= Cardinality(Completed(list))
<1>1. Len(list) \in Nat
  BY LenProperties
<1>2. IsFiniteSet(1..Len(list))
  BY <1>1, FS_Interval
<1>3. Completed(list) \in SUBSET (1..Len(list))
  BY DEF Completed
<1>4. IsFiniteSet(Completed(list))
  BY <1>2, <1>3, FS_Subset
<1>5. ASSUME NEW S \in SUBSET Completed(list)
      PROVE  /\ IsFiniteSet(S) /\ Cardinality(S) \in Nat
             /\ Cardinality(S) <= Cardinality(Completed(list))
  BY <1>4, FS_Subset, FS_CardinalityType
<1> QED
  BY <1>4, <1>5, FS_CardinalityType

\* The places of completed turns on a page are as many as the completed turns it shows.
LEMMA PageCounts ==
  ASSUME turns \in Seq(Statuses), NEW from \in 0..Len(turns), NEW n \in 0..from, NEW data,
         data = [i \in 1..n |-> from - i + 1], Len(data) = n
  PROVE  Cardinality(CompletedOn(data)) = Cardinality(CompletedFrom(turns, from - n + 1, from))
<1> DEFINE S == CompletedOn(data)
           T == CompletedFrom(turns, from - n + 1, from)
           f == [i \in S |-> from - i + 1]
<1>0. Len(turns) \in Nat /\ from \in Nat /\ n \in Nat /\ n <= from /\ from <= Len(turns)
  BY LenProperties
<1>1. \A i \in S : i \in 1..n /\ turns[from - i + 1] \in {"completed", "silent"}
  BY DEF CompletedOn
<1>2. \A i \in 1..n : turns[from - i + 1] \in {"completed", "silent"} => i \in S
  BY DEF CompletedOn
<1>3. \A t : t \in T <=> /\ t \in 1..Len(turns) /\ turns[t] \in {"completed", "silent"}
                         /\ from - n + 1 <= t /\ t <= from
  BY DEF CompletedFrom, Completed
<1> HIDE DEF S, T
<1>4. \A i \in S : f[i] \in T
  <2> SUFFICES ASSUME NEW i \in S  PROVE from - i + 1 \in T
    OBVIOUS
  <2>1. from - i + 1 \in 1..Len(turns) /\ from - n + 1 <= from - i + 1 /\ from - i + 1 <= from
    BY <1>0, <1>1
  <2> QED
    BY <1>1, <1>3, <2>1
<1>5. \A i, j \in S : f[i] = f[j] => i = j
  <2> SUFFICES ASSUME NEW i \in S, NEW j \in S, from - i + 1 = from - j + 1  PROVE i = j
    OBVIOUS
  <2> QED
    BY <1>0, <1>1
<1>6. \A t \in T : \E i \in S : f[i] = t
  <2> SUFFICES ASSUME NEW t \in T  PROVE \E i \in S : from - i + 1 = t
    OBVIOUS
  <2>1. from - t + 1 \in 1..n /\ from - (from - t + 1) + 1 = t
    BY <1>0, <1>3
  <2>2. from - t + 1 \in S
    BY <1>2, <1>3, <2>1
  <2> QED
    BY <2>1, <2>2
<1>7. f \in [S -> T]
  BY <1>4
<1> HIDE DEF f
<1>8. f \in Bijection(S, T)
  BY <1>5, <1>6, <1>7 DEF Bijection, Injection, Surjection, IsInjective
<1>9. IsFiniteSet(S)
  <2>1. IsFiniteSet(1..n) /\ S \in SUBSET (1..n)
    BY <1>0, <1>1, FS_Interval
  <2> QED
    BY <2>1, FS_Subset
<1> QED
  BY <1>8, <1>9, FS_Bijection DEF ExistsBijection, S, T

\* What is listed after a page is what was listed before it and what it shows.
LEMMA ListedAfterPage ==
  ASSUME NEW list \in Seq(Statuses), NEW top \in Nat, Len(list) <= top,
         NEW c \in 0..top, NEW from \in 0..top, NEW n \in 0..from,
         from = IF c = 0 THEN top ELSE c - 1
  PROVE  Cardinality({i \in Completed(list) : i >= from - n + 1}) =
           Cardinality(Listed(list, c)) + Cardinality(CompletedFrom(list, from - n + 1, from))
<1> DEFINE A == Listed(list, c)
           B == CompletedFrom(list, from - n + 1, from)
           C == {i \in Completed(list) : i >= from - n + 1}
<1>1. \A i \in Completed(list) : i \in Nat /\ i >= 1 /\ i <= top
  BY LenProperties DEF Completed
<1>2. C = A \cup B
  <2>1. ASSUME NEW i \in Completed(list)
        PROVE  i >= from - n + 1 <=> (c # 0 /\ i >= c) \/ (from - n + 1 <= i /\ i <= from)
    BY <1>1
  <2> QED
    BY <2>1 DEF Listed, CompletedFrom
<1>3. A \cap B = {}
  BY <1>1 DEF Listed, CompletedFrom
<1>4. A \in SUBSET Completed(list) /\ B \in SUBSET Completed(list)
  BY DEF Listed, CompletedFrom
<1> HIDE DEF A, B, C
<1>5. /\ IsFiniteSet(A) /\ IsFiniteSet(B) /\ Cardinality(A) \in Nat /\ Cardinality(B) \in Nat
  BY <1>4, CompletedIsFinite
<1>6. Cardinality(C) = Cardinality(A) + Cardinality(B) - Cardinality(A \cap B)
  BY <1>2, <1>5, FS_Union
<1>7. Cardinality(A \cap B) = 0
  BY <1>3, FS_EmptySet
<1>8. Cardinality(C) = Cardinality(A) + Cardinality(B)
  BY <1>5, <1>6, <1>7
<1> QED
  BY <1>8 DEF A, B, C

\* The part of two lists that a page counts: what was completed at first still is.
LEMMA CompletedStays ==
  ASSUME TypeOK, ListGrows
  PROVE  Completed(first) \subseteq Completed(turns)
<1>1. Len(first) \in Nat /\ Len(turns) \in Nat /\ Len(first) <= Len(turns)
  BY Numbers, LenProperties DEF ListGrows
<1> SUFFICES ASSUME NEW i \in Completed(first)  PROVE i \in Completed(turns)
  OBVIOUS
<1>2. i \in 1..Len(first) /\ first[i] \in {"completed", "silent"}
  BY DEF Completed
<1>3. turns[i] = first[i] /\ i \in 1..Len(turns)
  BY <1>1, <1>2 DEF ListGrows
<1> QED
  BY <1>2, <1>3 DEF Completed

\* Counting a documented page keeps the count between the two.
LEMMA OverviewPageSound ==
  ASSUME TypeOK, RequestsLeft, ListGrows, CursorInList, OverviewSound, honest,
         loop = "overview", result = "none", OverviewPage
  PROVE  /\ result' = "none" =>
              /\ Cardinality(Listed(first, cursor')) <= rounds'
              /\ rounds' <= Cardinality(Listed(turns, cursor'))
         /\ result' = "exact" =>
              /\ Cardinality(Completed(first)) <= rounds'
              /\ rounds' <= Cardinality(Completed(turns))
<1> DEFINE limit == Lowest(RoundPageSize, RoundLimit - scanned)
<1>1. PICK page \in Page(limit) :
         /\ rounds' = rounds + Cardinality(CompletedOn(UpTo(page.data, limit)))
         /\ \/ page.next \notin Strings /\ result' = "exact"
            \/ result' = "inexact"
            \/ page.next \in Strings /\ cursor' = page.next /\ result' = result
  BY DEF OverviewPage, Exact, Ends, Continues
<1>2. limit \in Nat \ {0}
  <2>1. scanned < RoundLimit /\ scanned \in 0..RoundLimit
    BY TypesOfTheClient DEF RequestsLeft
  <2> QED
    BY <2>1, Numbers DEF Lowest
<1> HIDE DEF limit
<1>3. PICK from \in 0..Len(turns), n \in 0..limit :
           /\ from = IF cursor = 0 THEN Len(turns) ELSE cursor - 1
           /\ n <= from /\ (from > n => n = limit)
           /\ page.data = [i \in 1..n |-> from - i + 1]
           /\ page.data \in Seq(1..MaxTurns) /\ Len(page.data) = n
           /\ page.next = IF from > n THEN from - n + 1 ELSE 0
  BY <1>2, DescendingPageIs
<1>4. /\ Len(turns) \in Nat /\ MaxTurns \in Nat /\ Len(turns) <= MaxTurns
      /\ Len(first) <= Len(turns) /\ from \in Nat /\ n \in 0..from /\ n \in Nat
      /\ turns \in Seq(Statuses) /\ first \in Seq(Statuses)
  <2>1. Len(turns) \in Nat /\ MaxTurns \in Nat /\ Len(turns) <= MaxTurns
    BY Numbers
  <2>2. Len(first) <= Len(turns) /\ turns \in Seq(Statuses) /\ first \in Seq(Statuses)
    BY DEF ListGrows, TypeOK
  <2> QED
    BY <1>2, <1>3, <2>1, <2>2
<1>5. cursor \in 0..Len(turns)
  BY Numbers DEF CursorInList
<1> DEFINE lo == from - n + 1
           Seen(list) == {i \in Completed(list) : i >= lo}
           Here(list) == CompletedFrom(list, lo, from)
<1>6. rounds' = rounds + Cardinality(Here(turns))
  <2>1. UpTo(page.data, limit) = page.data
    <3>1. page.data \in Seq(1..MaxTurns) /\ limit \in Nat /\ Len(page.data) <= limit
      BY <1>2, <1>3
    <3> QED
      BY <3>1, UpToType
  <2>2. page.data = [i \in 1..n |-> from - i + 1] /\ Len(page.data) = n
    BY <1>3
  <2>3. Cardinality(CompletedOn(page.data)) = Cardinality(Here(turns))
    BY <1>4, <2>2, PageCounts
  <2> QED
    BY <1>1, <2>1, <2>3
<1>7. /\ Cardinality(Seen(turns)) = Cardinality(Listed(turns, cursor)) + Cardinality(Here(turns))
      /\ Cardinality(Seen(first)) = Cardinality(Listed(first, cursor)) + Cardinality(Here(first))
  <2>1. /\ Len(turns) \in Nat /\ cursor \in 0..Len(turns) /\ from \in 0..Len(turns)
        /\ n \in 0..from /\ from = IF cursor = 0 THEN Len(turns) ELSE cursor - 1
    BY <1>3, <1>4, <1>5
  <2>2. \A list \in Seq(Statuses) : Len(list) <= Len(turns) =>
          Cardinality(Seen(list)) = Cardinality(Listed(list, cursor)) + Cardinality(Here(list))
    BY <2>1, ListedAfterPage
  <2>3. Len(turns) <= Len(turns) /\ Len(first) <= Len(turns)
    BY <1>4
  <2> HIDE DEF Seen, Here
  <2> QED
    BY <1>4, <2>2, <2>3
<1>8. Cardinality(Here(first)) <= Cardinality(Here(turns))
  <2>1. Here(first) \in SUBSET Here(turns)
    BY CompletedStays DEF CompletedFrom
  <2>2. Here(turns) \in SUBSET Completed(turns)
    BY DEF CompletedFrom
  <2>3. IsFiniteSet(Here(turns))
    BY <1>4, <2>2, CompletedIsFinite
  <2> QED
    BY <2>1, <2>3, FS_Subset
<1>9. /\ Cardinality(Listed(turns, cursor)) \in Nat /\ Cardinality(Listed(first, cursor)) \in Nat
      /\ Cardinality(Here(turns)) \in Nat /\ Cardinality(Here(first)) \in Nat /\ rounds \in Nat
  <2>1. /\ Listed(turns, cursor) \in SUBSET Completed(turns)
        /\ Here(turns) \in SUBSET Completed(turns)
        /\ Listed(first, cursor) \in SUBSET Completed(first)
        /\ Here(first) \in SUBSET Completed(first)
    BY DEF Listed, CompletedFrom
  <2>2. rounds \in Nat
    BY TypesOfTheClient, Numbers
  <2> QED
    BY <1>4, <2>1, <2>2, CompletedIsFinite
<1>10. Cardinality(Seen(first)) <= rounds' /\ rounds' <= Cardinality(Seen(turns))
  <2>1. /\ Cardinality(Listed(first, cursor)) <= rounds
        /\ rounds <= Cardinality(Listed(turns, cursor))
    BY DEF OverviewSound
  <2> HIDE DEF Seen, Here
  <2> QED
    BY <1>6, <1>7, <1>8, <1>9, <2>1
<1>11. CASE page.next \in Strings /\ cursor' = page.next /\ result' = result
  <2>1. cursor' = lo /\ lo # 0
    BY <1>3, <1>4, <1>11, KindsOfNext
  <2>2. Listed(first, cursor') = Seen(first) /\ Listed(turns, cursor') = Seen(turns)
    BY <2>1 DEF Listed
  <2> QED
    BY <1>10, <1>11, <2>2
<1>12. CASE page.next \notin Strings /\ result' = "exact"
  <2>1. lo = 1
    <3>1. from > n => page.next \in Strings
      BY <1>2, <1>3, <1>4, KindsOfNext
    <3>2. ~(from > n)
      BY <1>12, <3>1
    <3> QED
      BY <1>3, <1>4, <3>2
  <2>2. Seen(first) = Completed(first) /\ Seen(turns) = Completed(turns)
    BY <2>1, LenProperties DEF Completed
  <2> QED
    BY <1>10, <1>12, <2>2
<1> QED
  BY <1>1, <1>11, <1>12

\* As the list grows, more turns are completed and none less.
LEMMA OverviewStep ==
  ASSUME TypeOK, TypeOK', RequestsLeft, ListGrows, CursorInList, OverviewSound, [Next]_vars
  PROVE  OverviewSound'
<1>1. CASE Request
  <2> SUFFICES ASSUME honest', loop' = "overview"  PROVE OverviewSound'
    BY DEF OverviewSound
  <2>1. /\ honest /\ loop = "overview" /\ result = "none" /\ turns' = turns /\ first' = first
    BY <1>1, RequestLeavesList
  <2>2. OverviewPage
    BY <1>1, <2>1 DEF Request, LookupPage, HistoryPage, RecapPage, FindPage
  <2>3. /\ result' = "none" =>
             /\ Cardinality(Listed(first, cursor')) <= rounds'
             /\ rounds' <= Cardinality(Listed(turns, cursor'))
        /\ result' = "exact" =>
             /\ Cardinality(Completed(first)) <= rounds'
             /\ rounds' <= Cardinality(Completed(turns))
    BY <2>1, <2>2, OverviewPageSound
  <2> QED
    BY <2>1, <2>3 DEF OverviewSound, Listed, Completed
<1>2. CASE RequestFails
  <2>1. result' \in {"notFound", "failed"}
    BY <1>2 DEF RequestFails, Ends
  <2> QED
    BY <2>1 DEF OverviewSound
<1>3. CASE TurnEnds \/ TurnBegins
  <2>1. /\ cursor' = cursor /\ result' = result /\ rounds' = rounds
        /\ honest' = honest /\ loop' = loop /\ first' = first
    BY <1>3, ListStepLeavesClient
  <2>2. Len(turns) \in Nat /\ (Len(turns') = Len(turns) \/ Len(turns') = Len(turns) + 1)
    BY <1>3, Numbers, EndedList, LongerList
  <2>3. ASSUME NEW t \in 1..Len(turns), turns[t] # "active"
        PROVE  t \in 1..Len(turns') /\ turns'[t] = turns[t]
    <3>1. t \in 1..Len(turns')
      BY <2>2
    <3>2. CASE TurnEnds
      BY <2>3, <3>1, <3>2, EndedList
    <3>3. CASE TurnBegins
      BY <2>3, <3>1, <3>3, LongerList
    <3> QED
      BY <1>3, <3>1, <3>2, <3>3
  <2> DEFINE now == turns'
  <2>4. Completed(turns) \subseteq Completed(now)
    BY <2>3 DEF Completed
  <2>5. turns \in Seq(Statuses) /\ now \in Seq(Statuses) /\ rounds \in Nat
    BY TypesOfTheClient, Numbers DEF TypeOK
  <2> HIDE DEF now
  <2>6. /\ Cardinality(Completed(turns)) \in Nat /\ Cardinality(Completed(now)) \in Nat
        /\ Cardinality(Completed(turns)) <= Cardinality(Completed(now))
    BY <2>4, <2>5, CompletedIsFinite
  <2>7. /\ Cardinality(Listed(turns, cursor)) \in Nat /\ Cardinality(Listed(now, cursor)) \in Nat
        /\ Cardinality(Listed(turns, cursor)) <= Cardinality(Listed(now, cursor))
    <3>1. /\ Listed(turns, cursor) \in SUBSET Listed(now, cursor)
          /\ Listed(turns, cursor) \in SUBSET Completed(turns)
          /\ Listed(now, cursor) \in SUBSET Completed(now)
      BY <2>4 DEF Listed
    <3>2. IsFiniteSet(Listed(now, cursor))
      BY <2>5, <3>1, CompletedIsFinite
    <3> QED
      BY <2>5, <3>1, <3>2, FS_Subset, FS_CardinalityType, CompletedIsFinite
  <2>8. rounds <= Cardinality(Completed(turns)) => rounds <= Cardinality(Completed(now))
    BY <2>5, <2>6
  <2>9. rounds <= Cardinality(Listed(turns, cursor)) => rounds <= Cardinality(Listed(now, cursor))
    BY <2>5, <2>7
  <2>10. (honest /\ loop = "overview") =>
            /\ result = "none" =>
                 /\ Cardinality(Listed(first, cursor)) <= rounds
                 /\ rounds <= Cardinality(Listed(now, cursor))
            /\ result = "exact" =>
                 /\ Cardinality(Completed(first)) <= rounds
                 /\ rounds <= Cardinality(Completed(now))
    BY <2>8, <2>9 DEF OverviewSound
  <2> QED
    BY <2>1, <2>10 DEF OverviewSound, now, Listed, Completed
<1>4. CASE UNCHANGED vars
  BY <1>4 DEF OverviewSound, Listed, Completed, vars, client, fixed
<1>5. ASSUME NEW t \in 1..MaxTurns, ThreadUpdated(t)
      PROVE  OverviewSound'
  BY <1>5, UpdateLeavesClient DEF OverviewSound, client, fixed, Listed, Completed
<1> QED
  BY <1>1, <1>2, <1>3, <1>4, <1>5 DEF Next

-----------------------------------------------------------------------------
(* The theorems                                                            *)

\* The loops start with nothing seen.
LEMMA InitialInvariant == Init => PagingInvariant
<1> SUFFICES ASSUME Init  PROVE PagingInvariant
  OBVIOUS
<1>1. PICK n \in 0..MaxTurns : turns \in [1..n -> Statuses]
  BY DEF Init, Lists
<1>2. n \in Nat /\ n <= MaxTurns /\ MaxTurns \in Nat
  BY ConstantsAssumption
<1>3. turns \in Seq(Statuses) /\ Len(turns) = n
  BY <1>1, <1>2, SequenceOfLength
<1>4. /\ cursor = 0 /\ pages = 0 /\ scanned = 0 /\ rounds = 0 /\ collected = <<>> /\ known = {}
      /\ active = 0 /\ result = "none" /\ found = 0 /\ first = turns /\ listed = updated
      /\ honest \in BOOLEAN /\ loop \in Loops /\ sought \in 1..MaxTurns
  BY DEF Init
<1>5. /\ MaxPages \in Nat \ {0} /\ RecapPages \in Nat \ {0} /\ RoundLimit \in Nat \ {0}
  BY ConstantsAssumption
<1>6. TypeOK
  <2>1. Max({MaxPages, RecapPages}) \in Nat
    BY <1>5, LargerOfTwo
  <2>2. <<>> \in Seq(1..MaxTurns)
    BY EmptySeq
  <2>3. /\ 0 \in 0..Max({MaxPages, RecapPages}) /\ 0 \in 0..RoundLimit /\ 0 \in 0..0
        /\ 0 \in 0..MaxTurns
    BY <1>2, <1>5, <2>1
  <2>4. updated \in [1..MaxTurns -> 0..MaxUpdates]
    <3>1. PICK k \in 0..MaxTurns : updated = [t \in 1..MaxTurns |-> IF t <= k THEN t ELSE 0]
      BY DEF Init
    <3> QED
      BY <3>1, ConstantsAssumption
  <2> QED
    BY <1>2, <1>3, <1>4, <2>2, <2>3, <2>4 DEF TypeOK, Nexts, Results
<1>7. RequestsLeft /\ CursorInList
  BY <1>2, <1>3, <1>4, <1>5 DEF RequestsLeft, CursorInList
<1>8. ListGrows
  BY <1>2, <1>3, <1>4 DEF ListGrows, Init, Lists
<1>9. HistorySound
  <2>1. Len(collected) = 0 /\ collected = [i \in 1..0 |-> i]
    BY <1>4, EmptySeq
  <2> QED
    BY <1>2, <1>3, <1>4, <2>1 DEF HistorySound
<1>10. LookupSound /\ FindSound /\ RecapSound
  <2>1. \A t \in 1..MaxTurns : listed[t] \in Nat /\ listed[t] <= updated[t]
    BY <1>4, <1>6, ConstantsAssumption DEF TypeOK
  <2> QED
    BY <1>4, <2>1 DEF LookupSound, FindSound, RecapSound
<1>11. OverviewSound
  <2>1. Listed(first, cursor) = {} /\ Listed(turns, cursor) = {}
    BY <1>4 DEF Listed
  <2> QED
    BY <1>4, <2>1, FS_EmptySet DEF OverviewSound
<1> QED
  BY <1>6, <1>7, <1>8, <1>9, <1>10, <1>11 DEF PagingInvariant

\* Every step keeps the invariant.
LEMMA InvariantStep == PagingInvariant /\ [Next]_vars => PagingInvariant'
<1> SUFFICES ASSUME PagingInvariant, [Next]_vars  PROVE PagingInvariant'
  OBVIOUS
<1>1. /\ TypeOK /\ RequestsLeft /\ ListGrows /\ CursorInList
      /\ HistorySound /\ LookupSound /\ FindSound /\ RecapSound /\ OverviewSound
  BY DEF PagingInvariant
<1>2. TypeOK'
  BY <1>1, TypeStep
<1>3. RequestsLeft'
  BY <1>1, <1>2, RequestsLeftStep
<1>4. ListGrows'
  BY <1>1, ListGrowsStep
<1>5. CursorInList'
  BY <1>1, CursorStep
<1>6. HistorySound'
  BY <1>1, HistoryStep
<1>7. LookupSound'
  BY <1>1, LookupStep
<1>8. FindSound'
  BY <1>1, FindStep
<1>9. RecapSound'
  BY <1>1, RecapStep
<1>10. OverviewSound'
  BY <1>1, <1>2, OverviewStep
<1> QED
  BY <1>2, <1>3, <1>4, <1>5, <1>6, <1>7, <1>8, <1>9, <1>10 DEF PagingInvariant

\* The inductive invariant of the loops (gateway.py:194-231, 379-403, 792-829,
\* 863-892, 1255-1287), whatever the list and the limits.
THEOREM AlwaysPaging == Spec => []PagingInvariant
BY InitialInvariant, InvariantStep, PTL DEF Spec

\* Every variable has its type, with a server that answers with any page and cursor too.
THEOREM PagingTypes == Spec => []TypeOK
<1>1. PagingInvariant => TypeOK
  BY DEF PagingInvariant
<1> QED
  BY <1>1, AlwaysPaging, PTL

\* The history returned (gateway.py:1255-1281) has every turn that was there when it
\* was asked for, and maybe later ones, in order and each once.
THEOREM HistoryHasEveryTurn == Spec => []HistoryIsComplete
<1>1. PagingInvariant => HistoryIsComplete
  BY DEF PagingInvariant, HistorySound, HistoryIsComplete, Answers
<1> QED
  BY <1>1, AlwaysPaging, PTL

\* An exact count (gateway.py:792-829) was the number of completed turns at some moment
\* of the scan.
THEOREM ExactCounts == Spec => []ExactIsACount
<1>1. PagingInvariant => ExactIsACount
  <2> SUFFICES ASSUME PagingInvariant, Answers("overview"), result = "exact"
               PROVE  rounds \in Cardinality(Completed(first))..Cardinality(Completed(turns))
    BY DEF ExactIsACount
  <2>1. /\ Cardinality(Completed(first)) <= rounds
        /\ rounds <= Cardinality(Completed(turns))
    BY DEF PagingInvariant, OverviewSound, Answers
  <2>2. TypeOK /\ first \in Seq(Statuses) /\ turns \in Seq(Statuses)
    BY DEF PagingInvariant, ListGrows, TypeOK
  <2>3. /\ Cardinality(Completed(first)) \in Nat /\ Cardinality(Completed(turns)) \in Nat
    BY <2>2, CompletedIsFinite
  <2>4. rounds \in Nat
    BY <2>2, TypesOfTheClient, Numbers
  <2> QED
    BY <2>1, <2>3, <2>4
<1> QED
  BY <1>1, AlwaysPaging, PTL

\* _find_runtime_turn (gateway.py:194-231) reports a turn that has been active all through
\* the search with the turn sought, whichever page each is on.
THEOREM ActiveIsReported == Spec => []ActiveIsSeen
<1>1. PagingInvariant => ActiveIsSeen
  BY DEF PagingInvariant, FindSound, ActiveIsSeen, Answers
<1> QED
  BY <1>1, AlwaysPaging, PTL

\* A Thread that was listed when the lookup began (gateway.py:379-403) and that nobody
\* has updated since is not said not to exist, in whatever order the others are updated.
THEOREM OnlyTheAbsentIsDenied == Spec => []DeniedIsAbsentOrUpdated
<1>1. PagingInvariant => DeniedIsAbsentOrUpdated
  BY DEF PagingInvariant, LookupSound, DeniedIsAbsentOrUpdated, Answers
<1> QED
  BY <1>1, AlwaysPaging, PTL

\* A recap (gateway.py:863-892) is the latest message among the turns looked at.
THEOREM RecapsAreLatest == Spec => []RecapIsLatest
<1>1. PagingInvariant => RecapIsLatest
  <2> SUFFICES ASSUME PagingInvariant, Answers("recap"), found # 0
               PROVE  /\ turns[found] = "completed"
                      /\ \A i \in found + 1..Len(first) : first[i] # "completed"
    BY DEF RecapIsLatest
  <2>1. /\ found \in 1..Len(turns) /\ turns[found] = "completed"
        /\ \A i \in 1..Len(first) : i > found => first[i] # "completed"
    BY DEF PagingInvariant, RecapSound, Answers
  <2>2. Len(turns) \in Nat /\ Len(first) \in Nat
    BY Numbers, LenProperties DEF PagingInvariant, ListGrows
  <2>3. \A i \in found + 1..Len(first) : i \in 1..Len(first) /\ i > found
    BY <2>1, <2>2
  <2> QED
    BY <2>1, <2>3
<1> QED
  BY <1>1, AlwaysPaging, PTL

====
