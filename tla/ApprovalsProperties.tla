------------------------ MODULE ApprovalsProperties ------------------------
(***************************************************************************)
(* What the Gateway promises of the approvals it shows.                    *)
(***************************************************************************)
EXTENDS Approvals

(* What the App Server acted on is what the board says was decided, as long as
   the board has the request: of two users who answer at once one alone is
   admitted, and neither a failed answer nor one that arrives again is
   replaced by another.  A call that a reconnection overtook is outside the
   promise: it answers on the new connection with what it was told before.  *)
EffectIsRecorded ==
  \A r \in Requests \ overtaken :
    (effect[r] # "none" /\ pending[r] # NoPending) => pending[r].decision = effect[r]

\* The App Server waits for r and nothing about it is on its way.
Waits(r) ==
  /\ asked[r] = "open" /\ socket = "up"
  /\ \A i \in 1..Len(inbound) : inbound[i].of # r

(* A request the App Server waits for, and which nobody has answered since it
   last arrived, can be answered: the board offers it, and the transport does
   not take it for answered unless an answer was sent on some connection.    *)
StaysAnswerable ==
  \A r \in Requests \ overtaken :
    Waits(r) /\ r \notin tried =>
      /\ pending[r].status = "pending"
      /\ r \notin sent => r \notin responses

(* A Session shown as waiting has a request on the board it waits for. *)
WaitingHasRequest ==
  \A t \in Threads :
    runtime[t] = "waitingOnApproval" =>
      \E r \in Requests : ThreadOf[r] = t /\ pending[r] # NoPending

\* No message is on its way and no call is under way.
Quiet == inbound = <<>> /\ outbound = <<>> /\ \A r \in Requests : ~Underway(r)

(* Without a fault every answer is confirmed: once all is quiet no request is
   left "responding", and what is left on the board is what the App Server
   still waits for.  A lost connection or a crash may leave a record behind
   until the request arrives again, for good if it was closed meanwhile.    *)
BoardSettles ==
  (faults = <<>> /\ Quiet) =>
    /\ \A r \in Requests : pending[r] # NoPending <=> asked[r] = "open"
    /\ \A r \in Requests : pending[r].status # "responding"

=============================================================================
