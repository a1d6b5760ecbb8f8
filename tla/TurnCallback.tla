---------------------------- MODULE TurnCallback ----------------------------
(***************************************************************************)
(* What GatewayService.start_run relies on when it hands a terminal        *)
(* callback to a transport's start_turn: the call is answered once, the    *)
(* callback is called at most once, possibly before the answer, and a      *)
(* start that was rejected is never followed by the callback.              *)
(* AppServerTransport and CodexSdkWorkerTransport both implement it.       *)
(***************************************************************************)
CONSTANT Starts  \* the calls of start_turn, one per Run

VARIABLES
  answer,  \* answer[s]: how the call s of start_turn ended
  told     \* told[s]: the outcome the callback of s was called with

Outcomes == {"completed", "failed", "interrupted", "unknown"}
Answers  == {"returned", "rejected", "unknown"}

Call(s) ==
  /\ answer[s] = "none"
  /\ answer' = [answer EXCEPT ![s] = "waiting"]
  /\ UNCHANGED told

Answer(s, how) ==
  /\ answer[s] = "waiting"
  /\ how = "rejected" => told[s] = "none"
  /\ answer' = [answer EXCEPT ![s] = how]
  /\ UNCHANGED told

Tell(s, outcome) ==
  /\ answer[s] \in {"waiting", "returned", "unknown"}
  /\ told[s] = "none"
  /\ told' = [told EXCEPT ![s] = outcome]
  /\ UNCHANGED answer

Init ==
  /\ answer = [s \in Starts |-> "none"]
  /\ told = [s \in Starts |-> "none"]

Next ==
  \E s \in Starts :
    \/ Call(s)
    \/ \E how \in Answers : Answer(s, how)
    \/ \E outcome \in Outcomes : Tell(s, outcome)

Spec == Init /\ [][Next]_<<answer, told>>

=============================================================================
