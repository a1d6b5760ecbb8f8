----------------------------- MODULE RunLedger -----------------------------
(***************************************************************************)
(* What GatewayService promises the clients of start_run and get_run,      *)
(* whatever threads, notifications, faults and restarts lie between: a     *)
(* ledger with one entry per gatewayRunId.  A request opens at most one    *)
(* entry, a Session never has two open entries, and an entry is settled    *)
(* once, with an outcome that stays.                                       *)
(***************************************************************************)
CONSTANTS Runs, Requests, Sessions, None

VARIABLE entries  \* entries[r]: the request, the Session and the outcome of r

Outcomes == {"completed", "failed", "interrupted"}

Blank == [request |-> None, session |-> None, outcome |-> "none"]

Open(s) == {r \in Runs : entries[r].session = s /\ entries[r].outcome = "open"}

Admit(r, q, s) ==
  /\ entries[r] = Blank
  /\ \A other \in Runs : entries[other].request # q
  /\ Open(s) = {}
  /\ entries' =
       [entries EXCEPT ![r] = [request |-> q, session |-> s, outcome |-> "open"]]

Settle(r, outcome) ==
  /\ entries[r].outcome = "open"
  /\ entries' = [entries EXCEPT ![r].outcome = outcome]

Init == entries = [r \in Runs |-> Blank]

Next ==
  \E r \in Runs :
    \/ \E q \in Requests, s \in Sessions : Admit(r, q, s)
    \/ \E outcome \in Outcomes : Settle(r, outcome)

Spec == Init /\ [][Next]_entries

=============================================================================
