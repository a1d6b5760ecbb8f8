-------------------- MODULE AppServerTransportProperties --------------------
(***************************************************************************)
(* What AppServerTransport promises GatewayService.                        *)
(***************************************************************************)
EXTENDS AppServerTransport

\* What became known through the callback: nothing, one outcome, or too much.
Heard(s) ==
  CASE told[s] = <<>> -> "none"
    [] Len(told[s]) = 1 -> told[s][1]
    [] OTHER -> "twice"

Callback == INSTANCE TurnCallback WITH told <- [s \in Starts |-> Heard(s)]

(* start_turn and its callback keep the contract the Gateway relies on: one
   answer, at most one call of the callback however many of the reader, the
   caller, a probe and the loss of the connection have seen the turn end, and
   no call after a rejection.                                              *)
ImplementsCallback == Callback!Spec

(* The callback's outcome is the turn's own, or unknown; and unknown has a
   reason that is this turn's: the connection its turn/start went out on is
   lost, its probe failed, or the App Server reported no terminal status.  The
   end of another connection is none (_mark_disconnected's generation,
   transport.py:507).                                                      *)
OutcomeHasReason ==
  \A s \in Starts : Heard(s) # "none" =>
    \/ Heard(s) = turn[s]
    \/ /\ Heard(s) = "unknown"
       /\ turn[s] = "other" \/ link[call[s].on] = "down" \/ "probe" \in faults

(* A callback is not forgotten on a living connection: if the end of a turn
   was announced over the connection its callback is registered on, somebody
   is still going to call it - the reader, which has the message or has yet to
   read that the thread is idle, the caller merging an orphan, a probe, or the
   reader once it notices that the link is down.  A terminal that the reader
   stores just after the caller has looked for it (transport.py:600-604 and 327)
   is saved by the announcement of idleness alone, so that one must come last:
   if it came first, the terminal may stay with the orphans.                *)
Waiting(g, message) == \E i \in 1..Len(inbox[g]) : inbox[g][i] = message

Attended(g, s) ==
  \/ Waiting(g, [kind |-> "completed", turn |-> s])
  \/ Waiting(g, [kind |-> "idle", thread |-> call[s].thread])
  \/ reader[g].turn = s
  \/ call[s].pc = "merge"
  \/ probe[s].pc # "none" /\ probe[s].on = g
  \/ link[g] = "down"

EndIsAttended ==
  \A s \in watched : connected /\ call[s].on = generation =>
    /\ <<generation, s, FALSE>> \in announced => Attended(generation, s)
    /\ <<generation, s, TRUE>> \in announced =>
         Attended(generation, s) \/ <<generation, s>> \in orphans

(* transport.py:342: "without a successful thread/resume this connection is not
   attached to the thread listener. Starting anyway would lose approval/server
   requests".  A turn/start goes out only on a connection that resumed.    *)
StartsAttached ==
  \A g \in Generations : \A i \in 1..Len(outbox[g]) :
    outbox[g][i].method = "start" => call[outbox[g][i].from].thread \in attached[g]

=============================================================================
