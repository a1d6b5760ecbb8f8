------------------------------- MODULE Paging -------------------------------
(***************************************************************************)
(* The loops of GatewayService that page through the App Server's lists    *)
(* (better_subagent/gateway.py), while the lists change and with a server  *)
(* that answers with any page and any cursor.                              *)
(*                                                                         *)
(*   find      _find_runtime_turn, for the reconciliation of Runs          *)
(*   lookup    the search of _resolve_minimal_runtime in thread/list       *)
(*   overview  _overview_round_count                                       *)
(*   recap     session_recap, its turns                                    *)
(*   history   history                                                     *)
(*                                                                         *)
(* The loops share nothing; one of them runs.  Turns are identified by their *)
(* position in the list of their Thread, which grows at its end.  Threads  *)
(* are listed by the time of their last update, which lookup asks for.     *)
(***************************************************************************)
EXTENDS Naturals, Sequences, FiniteSets, SequencesExt

CONSTANTS
  MaxTurns,       \* bound: how long the list grows, and the number of Threads
  MaxUpdates,     \* bound: the last time at which a Thread is updated
  PageSize,       \* RUN_RECONCILE_PAGE_SIZE, THREAD_LOOKUP_PAGE_SIZE, 100 of history
  MaxPages,       \* RUN_RECONCILE_MAX_PAGES, THREAD_LOOKUP_MAX_PAGES
  RoundPageSize,  \* OVERVIEW_ROUND_PAGE_SIZE
  RoundLimit,     \* OVERVIEW_ROUND_LIMIT
  RecapPageSize, RecapPages

ASSUME ConstantsAssumption ==
  /\ MaxTurns \in Nat /\ MaxUpdates \in Nat /\ MaxTurns <= MaxUpdates
  /\ \A n \in {PageSize, MaxPages, RoundPageSize, RoundLimit, RecapPageSize, RecapPages} :
       n \in Nat \ {0}

Loops    == {"find", "lookup", "overview", "recap", "history"}
Statuses == {"active", "completed", "silent", "failed"}  \* silent: without a message

\* Cursors a server hands out again and again, and, one of two in turn, a cursor
\* it has never handed out before.
Cursors == 1..MaxUpdates
Fresh   == {MaxUpdates + 1, MaxUpdates + 2}
Strings == Cursors \cup Fresh
Nexts   == Strings \cup {0}   \* 0: no cursor
Invalid == MaxUpdates + 3      \* no string
Empty   == MaxUpdates + 4      \* the empty string

VARIABLES
  turns,    \* the App Server's list: the status of each turn, oldest first
  updated,  \* when each Thread was last updated, 0 if there is none
  honest,   \* whether the App Server pages as documented
  loop,     \* the loop that runs
  sought,   \* the turn, or Thread, that find and lookup look for
  cursor, pages,
  scanned, rounds,   \* overview: turns seen, and completed ones
  collected,         \* history: the turns so far
  known,             \* history: seen_cursors
  active,            \* find: the active turn seen first, 0 if none
  result,   \* "none" while the loop runs, then how it ended
  found,    \* with which turn, 0 if none
  first, listed   \* turns and updated when the loop began; read by no step

client == <<cursor, pages, scanned, rounds, collected, known, active, result, found>>
fixed  == <<honest, loop, sought, first, listed>>
vars   == <<turns, updated, client, fixed>>

Results == {"none", "found", "notFound", "exact", "inexact", "complete", "failed"}

TypeOK ==
  /\ turns \in Seq(Statuses) /\ Len(turns) <= MaxTurns
  /\ updated \in [1..MaxTurns -> 0..MaxUpdates]
  /\ honest \in BOOLEAN /\ loop \in Loops /\ sought \in 1..MaxTurns
  /\ cursor \in Nexts /\ pages \in 0..Max({MaxPages, RecapPages})
  /\ scanned \in 0..RoundLimit /\ rounds \in 0..scanned
  /\ collected \in Seq(1..MaxTurns)
  /\ known \subseteq Cursors
  /\ active \in 0..MaxTurns /\ found \in 0..MaxTurns
  /\ result \in Results

-----------------------------------------------------------------------------
(* The App Server                                                          *)

Lowest(a, b) == IF a < b THEN a ELSE b

\* The page after the cursor c: a cursor stands for the last turn of a page.
DescendingPage(c, limit) ==
  LET from == IF c = 0 THEN Len(turns) ELSE c - 1
      n    == Lowest(from, limit)
  IN  [data |-> [i \in 1..n |-> from - i + 1], next |-> IF from > n THEN from - n + 1 ELSE 0]

AscendingPage(c, limit) ==
  LET n == Lowest(Len(turns) - c, limit)
  IN  [data |-> [i \in 1..n |-> c + i], next |-> IF Len(turns) > c + n THEN c + n ELSE 0]

Documented(c, limit) ==
  IF loop = "history" THEN AscendingPage(c, limit) ELSE DescendingPage(c, limit)

Strange == 0..MaxTurns \cup {Invalid, Empty}

\* A server that does not keep to it: too long a page, any cursor.  Bound: a page
\* with a fresh cursor is empty.
Page(limit) ==
  IF honest THEN {Documented(cursor, limit)}
  ELSE [data : {<<>>} \cup {[i \in 1..n |-> 1] : n \in IF turns = <<>> THEN {} ELSE {1, limit + 1}},
        next : Strange]
       \cup [data : {<<>>}, next : Fresh \ {cursor}]

\* The Threads updated before the cursor c, the time the last page went down to.
Behind(c) == {t \in 1..MaxTurns : updated[t] > 0 /\ (c = 0 \/ updated[t] < c)}

\* thread/list: the latest of them.  A Thread updated since that page was read is
\* no longer behind it.
ThreadPage(limit) ==
  LET behind   == Behind(cursor)
      downTo(n) == {t \in behind : updated[t] >= n}
      last     == {t \in behind : Cardinality(downTo(updated[t])) = limit}
  IN  IF ~honest THEN [threads : SUBSET {sought}, next : Strange \cup (Fresh \ {cursor})]
      ELSE IF Cardinality(behind) <= limit THEN {[threads |-> behind, next |-> 0]}
      ELSE {[threads |-> downTo(updated[t]), next |-> updated[t]] : t \in last}

LastIsActive == turns # <<>> /\ Last(turns) = "active"

\* The last turn ends, or the next one begins.  Bound: what a server that does not
\* page as documented lists says little, and is one turn at most.
TurnEnds ==
  /\ loop # "lookup"
  /\ LastIsActive
  /\ \E status \in Statuses \ {"active"} : turns' = [turns EXCEPT ![Len(turns)] = status]
  /\ UNCHANGED <<updated, client, fixed>>

TurnBegins ==
  /\ loop # "lookup"
  /\ Len(turns) < (IF honest THEN MaxTurns ELSE 1)
  /\ ~LastIsActive
  /\ turns' = Append(turns, "active")
  /\ UNCHANGED <<updated, client, fixed>>

\* A Thread is created, or updated: it is now the first of the list.
ThreadUpdated(t) ==
  /\ loop = "lookup"
  /\ \E now \in 1..MaxUpdates :
       /\ \A u \in 1..MaxTurns : updated[u] < now
       /\ now = 1 \/ \E u \in 1..MaxTurns : updated[u] = now - 1
       /\ updated' = [updated EXCEPT ![t] = now]
  /\ UNCHANGED <<turns, client, fixed>>

-----------------------------------------------------------------------------
Ends(how, turn) == result' = how /\ found' = turn /\ UNCHANGED cursor
Continues(next) == cursor' = next /\ UNCHANGED <<result, found>>

\* Mutant: the server is trusted to keep to the limit.
UpToAll(data, limit) == data

UpTo(data, limit) == SubSeq(data, 1, Lowest(Len(data), limit))

\* The first turn of a page that passes Test, 0 if there is none.
FirstOf(data, Test(_)) ==
  LET i == SelectInSeq(data, Test) IN IF i = 0 THEN 0 ELSE data[i]

\* Mutant: the active turn of an earlier page is forgotten.
FirstActiveHere(here) == here

FirstActive(here) == IF active # 0 THEN active ELSE here

OnTheWay(data) ==
  LET i == SelectInSeq(data, LAMBDA t : t = sought)
  IN  IF i = 0 THEN data ELSE SubSeq(data, 1, i)

ActiveOnTheWay(data) == FirstOf(OnTheWay(data), LAMBDA t : turns[t] = "active")

(* _find_runtime_turn: the turn sought, and the first active one on the way. *)
FindPage ==
  /\ loop = "find"
  /\ \E page \in Page(PageSize) :
       LET data == UpTo(page.data, PageSize)
       IN  /\ active' = FirstActive(ActiveOnTheWay(data))
           /\ IF sought \in Range(data) THEN Ends("found", sought)
              ELSE IF page.next \in Strings \ {cursor} /\ pages + 1 < MaxPages
                   THEN Continues(page.next)
              ELSE Ends("notFound", 0)
  /\ UNCHANGED <<scanned, rounds, collected, known>>

\* Mutant: a list that is not over is taken for one without the Thread.
ListEndsEarly(next) == next \in {0, Empty} \/ pages + 1 = MaxPages

ListEnds(next) == next \in {0, Empty}

(* _resolve_minimal_runtime *)
LookupPage ==
  /\ loop = "lookup"
  /\ \E page \in ThreadPage(PageSize) :
       IF sought \in page.threads THEN Ends("found", sought)
       ELSE IF ListEnds(page.next) THEN Ends("notFound", 0)
       ELSE IF page.next \in {Invalid, cursor} \/ pages + 1 = MaxPages THEN Ends("failed", 0)
       ELSE Continues(page.next)
  /\ UNCHANGED <<scanned, rounds, collected, known, active>>

\* Mutant: a count that stopped at the limit passes for exact.
ExactAtLimit(next, seen) == next \notin Strings \/ seen >= RoundLimit

Exact(next, seen) == next \notin Strings

\* Where on a page the completed turns are.
CompletedOn(data) == {i \in 1..Len(data) : turns[data[i]] \in {"completed", "silent"}}

(* _overview_round_count *)
OverviewPage ==
  LET limit == Lowest(RoundPageSize, RoundLimit - scanned)
  IN  /\ loop = "overview"
      /\ \E page \in Page(limit) :
           LET data == UpTo(page.data, limit)
               seen == scanned + Len(data)
           IN  /\ scanned' = seen /\ rounds' = rounds + Cardinality(CompletedOn(data))
               /\ IF Exact(page.next, seen) THEN Ends("exact", 0)
                  ELSE IF seen >= RoundLimit \/ data = <<>> THEN Ends("inexact", 0)
                  ELSE Continues(page.next)
      /\ UNCHANGED <<collected, known, active>>

\* Mutant: the oldest turn of the page that has a message.
SpeaksOldest(data) == FirstOf(Reverse(data), LAMBDA t : turns[t] = "completed")

Speaks(data) == FirstOf(data, LAMBDA t : turns[t] = "completed")

(* session_recap *)
RecapPage ==
  /\ loop = "recap"
  /\ \E page \in Page(RecapPageSize) :
       IF Speaks(page.data) # 0 THEN Ends("found", Speaks(page.data))
       ELSE IF page.next \in Strings /\ pages + 1 < RecapPages THEN Continues(page.next)
       ELSE Ends("notFound", 0)
  /\ UNCHANGED <<scanned, rounds, collected, known, active>>

\* Mutant: the pages are taken to come newest first.
ExtendedAtFront(data) == data \o collected

Extended(data) == collected \o data

\* Mutant: only a cursor that repeats at once is refused.
RepeatsAtOnce(next) == next = cursor

Repeats(next) == next \in known

(* history *)
HistoryPage ==
  /\ loop = "history"
  /\ \E page \in Page(PageSize) :
       /\ collected' = Extended(page.data)
       /\ IF page.next = 0 THEN Ends("complete", 0) /\ UNCHANGED known
          ELSE IF page.next \in {Invalid, Empty} \/ Repeats(page.next)
               THEN Ends("failed", 0) /\ UNCHANGED known
          ELSE Continues(page.next) /\ known' = known \cup ({page.next} \ Fresh)
  /\ UNCHANGED <<scanned, rounds, active>>

\* One request and what the loop makes of the answer.
Request ==
  /\ result = "none"
  /\ pages' = IF loop \in {"find", "lookup", "recap"} THEN pages + 1 ELSE pages
  /\ FindPage \/ LookupPage \/ OverviewPage \/ RecapPage \/ HistoryPage
  /\ UNCHANGED <<turns, updated, fixed>>

\* The request raises, or the answer is no page.
RequestFails ==
  /\ result = "none"
  /\ Ends(IF loop \in {"find", "recap"} THEN "notFound" ELSE "failed", 0)
  /\ UNCHANGED <<pages, scanned, rounds, collected, known, active, turns, updated, fixed>>

-----------------------------------------------------------------------------
\* A turn is active only while it is the last.
Lists ==
  {list \in UNION {[1..n -> Statuses] : n \in 0..MaxTurns} :
     \A i \in 1..Len(list) : list[i] = "active" => i = Len(list)}

Init ==
  /\ turns \in Lists /\ first = turns
  /\ honest \in BOOLEAN /\ loop \in Loops /\ sought \in 1..MaxTurns
  /\ loop \notin {"find", "lookup"} => sought = 1
  /\ ~honest => Len(turns) <= 1
  /\ loop = "lookup" => turns = <<>>
  /\ \E n \in 0..MaxTurns :
       /\ (loop # "lookup" \/ ~honest) => n = 0
       /\ updated = [t \in 1..MaxTurns |-> IF t <= n THEN t ELSE 0]
  /\ listed = updated
  /\ cursor = 0 /\ pages = 0 /\ scanned = 0 /\ rounds = 0
  /\ collected = <<>> /\ known = {} /\ active = 0 /\ result = "none" /\ found = 0

Next ==
  \/ Request \/ RequestFails
  \/ TurnEnds \/ TurnBegins
  \/ \E t \in 1..MaxTurns : ThreadUpdated(t)

\* The App Server answers or the request times out.
Spec == Init /\ [][Next]_vars /\ WF_vars(Request \/ RequestFails)

-----------------------------------------------------------------------------
Completed(list) == {i \in 1..Len(list) : list[i] \in {"completed", "silent"}}

\* The loop has ended against a server that pages as documented.
Answers(l) == loop = l /\ honest /\ result # "none"

(* The history returned has every turn that was there when it was asked for,
   and maybe later ones, in order and each once.                            *)
HistoryIsComplete ==
  (Answers("history") /\ result = "complete") =>
    /\ Len(collected) >= Len(first)
    /\ collected = [i \in 1..Len(collected) |-> i]

(* A count called exact was the number of completed turns at some moment of the
   scan, though turns end while it goes on.                                 *)
ExactIsACount ==
  (Answers("overview") /\ result = "exact") =>
    rounds \in Cardinality(Completed(first))..Cardinality(Completed(turns))

(* A turn that has been active all through the search is reported with the turn
   sought, whichever page each is on: reconciliation closes the Run of an old
   turn only after it has given the Session to the newer one.               *)
ActiveIsSeen ==
  (Answers("find") /\ found # 0 /\ LastIsActive /\ turns = first) => active = Len(turns)

(* A Thread there was when the lookup began, and that nobody has updated since,
   is found or the lookup fails: it is never said not to exist, however the list
   is reordered meanwhile and however long it is.  One updated meanwhile moves
   before the cursor and may be denied.                                      *)
DeniedIsAbsentOrUpdated ==
  (Answers("lookup") /\ result = "notFound") =>
    listed[sought] = 0 \/ updated[sought] # listed[sought]

(* A recap is the latest message there was among the turns looked at.        *)
RecapIsLatest ==
  (Answers("recap") /\ found # 0) =>
    /\ turns[found] = "completed"
    /\ \A i \in found + 1..Len(first) : first[i] # "completed"

(* Whatever cursors the server hands out, in a circle too, the loops end.  Only
   history follows a server that hands out new cursors for ever.             *)
LoopsEnd ==
  \/ <>(result # "none")
  \/ loop = "history" /\ <>[](cursor \in Fresh)

=============================================================================
