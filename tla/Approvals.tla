----------------------------- MODULE Approvals -----------------------------
(***************************************************************************)
(* Approval requests, from the App Server through AppServerTransport to    *)
(* the board and back: pendingApprovals of GatewayService, approval_decision*)
(* and respond_approval, with connections that are lost and a Gateway that *)
(* is restarted.                                                           *)
(*                                                                         *)
(* A block under the board's lock or under the transport's is one step.    *)
(* The reader thread takes no lock for _pending_approvals.                 *)
(***************************************************************************)
EXTENDS Naturals, Sequences, FiniteSets, SequencesExt

CONSTANTS
  Requests,   \* ids of approval requests; one App Server never reuses an id
  Threads,
  ThreadOf,   \* the Thread each request is about
  Permissions,\* the requests of method item/permissions/requestApproval
  Callers,    \* concurrent calls of approval_decision
  Faults,     \* a subset of AllFaults
  MaxFaults   \* bound: how many faults happen

AllFaults == {"drop", "crash", "interrupt"}

ASSUME ConstantsAssumption ==
  /\ ThreadOf \in [Requests -> Threads]
  /\ Permissions \subseteq Requests
  /\ Faults \subseteq AllFaults /\ MaxFaults \in Nat

\* accept, acceptForSession and decline are treated alike; cancel is not.
Decisions == {"accept", "cancel"}

VARIABLES
  (* The App Server.                                                       *)
  asked,      \* asked[r]: "no", "open" or "closed"
  effect,     \* effect[r]: the decision it acted on, "none" if nobody's
  (* The connection.                                                       *)
  socket,     \* "up"; "broken", which nobody has noticed; "closed": _connected cleared
  reports,    \* how many transport/status notifications are yet to reach the board
  inbound,    \* messages to the Gateway, in order
  outbound,   \* answers on their way to the App Server
  (* AppServerTransport.                                                   *)
  held,       \* _pending_approvals
  responses,  \* _approval_responses
  (* GatewayService.                                                       *)
  pending,    \* pending[r]: the status and decision of pendingApprovals[r]
  runtime,    \* runtime[t]: the runtimeStatus of the Session of Thread t
  caller,     \* where each call of approval_decision is
  (* Not read by any step.                                                 *)
  tried,      \* requests a call was admitted for since they last arrived
  sent,       \* requests an answer was sent for
  overtaken,  \* requests sent again while a call on their old record was under way
  faults      \* the faults so far

server    == <<asked, effect>>
link      == <<socket, reports, inbound, outbound>>
transport == <<held, responses>>
gateway   == <<pending, runtime>>
history   == <<tried, sent, overtaken>>
vars      == <<server, link, transport, gateway, caller, history, faults>>

Messages  == [what : {"ask", "resolved"}, of : Requests]
Idle      == [pc |-> "idle"]
Answers   == [of : Requests, decision : Decisions]
Calls     == [pc : {"check", "send", "mark", "interrupt", "fail"},
              of : Requests, decision : Decisions]
NoPending == [status |-> "none", decision |-> "none"]

TypeOK ==
  /\ asked \in [Requests -> {"no", "open", "closed"}]
  /\ effect \in [Requests -> Decisions \cup {"none"}]
  /\ socket \in {"up", "broken", "closed"} /\ reports \in Nat
  /\ inbound \in Seq(Messages) /\ outbound \in Seq(Answers)
  /\ held \subseteq Requests /\ responses \subseteq Requests
  /\ pending \in [Requests -> [status : {"none", "pending", "responding", "responseUnknown"},
                               decision : Decisions \cup {"none"}]]
  /\ runtime \in [Threads -> {"active", "waitingOnApproval", "unknown"}]
  /\ caller \in [Callers -> Calls \cup {Idle}]
  /\ tried \subseteq Requests /\ sent \subseteq Requests /\ overtaken \subseteq Requests
  /\ faults \in Seq(Faults) /\ Len(faults) <= MaxFaults

-----------------------------------------------------------------------------
Fault(kind) ==
  /\ kind \in Faults /\ Len(faults) < MaxFaults
  /\ faults' = Append(faults, kind)

Ask(r)      == [what |-> "ask", of |-> r]
Resolved(r) == [what |-> "resolved", of |-> r]

\* A call past its admission is about r.
Underway(r) == \E c \in Callers : caller[c] # Idle /\ caller[c].of = r

\* r has been sent to the Gateway and is not yet on the board.
Arriving(r) == Ask(r) \in Range(inbound)

Goto(c, pc) == caller' = [caller EXCEPT ![c].pc = pc]
Leave(c)    == caller' = [caller EXCEPT ![c] = Idle]

-----------------------------------------------------------------------------
(* The App Server                                                          *)

Request(r) ==
  /\ asked[r] = "no" /\ socket = "up"
  /\ asked' = [asked EXCEPT ![r] = "open"]
  /\ inbound' = Append(inbound, Ask(r))
  /\ UNCHANGED <<effect, socket, reports, outbound, transport, gateway, caller, history, faults>>

\* Close(R): the requests of R end, which is announced to whoever is connected.
Close(R) ==
  /\ asked' = [r \in Requests |-> IF r \in R THEN "closed" ELSE asked[r]]
  /\ inbound' = IF socket = "up" THEN inbound \o SetToSeq({Resolved(r) : r \in R}) ELSE inbound

\* It acts on the first answer and drops the others.
Hear ==
  LET answer == Head(outbound)
  IN  /\ outbound # <<>>
      /\ outbound' = Tail(outbound)
      /\ IF asked[answer.of] = "open"
         THEN /\ Close({answer.of})
              /\ effect' = [effect EXCEPT ![answer.of] = answer.decision]
         ELSE UNCHANGED <<asked, inbound, effect>>
      /\ UNCHANGED <<socket, reports, transport, gateway, caller, history, faults>>

\* The turn ends or another client answers.
EndElsewhere(r) ==
  /\ asked[r] = "open"
  /\ Close({r})
  /\ UNCHANGED <<effect, socket, reports, outbound, transport, gateway, caller, history, faults>>

-----------------------------------------------------------------------------
(* The connection                                                          *)

\* The link breaks, and what it carried is lost.
Drop ==
  /\ socket = "up"
  /\ Fault("drop")
  /\ socket' = "broken" /\ inbound' = <<>> /\ outbound' = <<>>
  /\ UNCHANGED <<server, reports, transport, gateway, caller, history>>

\* _mark_disconnected keeps what the transport knows of approvals, and notifies
\* once it has left its lock.
Notice ==
  /\ socket = "broken"
  /\ socket' = "closed" /\ reports' = reports + 1
  /\ UNCHANGED <<server, inbound, outbound, transport, gateway, caller, history, faults>>

\* The transport/status notification, which a new connection may have overtaken.
Report ==
  /\ reports > 0
  /\ reports' = reports - 1
  /\ runtime' = [t \in Threads |-> "unknown"]
  /\ UNCHANGED <<server, socket, inbound, outbound, transport, pending, caller, history, faults>>

\* connect, then thread/resume: the App Server delivers what is still open.
Resume ==
  /\ socket = "closed"
  /\ socket' = "up"
  /\ inbound' = SetToSeq({Ask(r) : r \in {q \in Requests : asked[q] = "open"}})
  /\ overtaken' = overtaken \cup {r \in Requests : Underway(r)}
  /\ UNCHANGED <<server, reports, outbound, transport, gateway, caller, tried, sent, faults>>

\* The Gateway's process dies: the board alone survives.
Crash ==
  /\ Fault("crash")
  /\ socket' = "closed" /\ reports' = 0 /\ inbound' = <<>> /\ outbound' = <<>>
  /\ held' = {} /\ responses' = {}
  /\ caller' = [c \in Callers |-> Idle]
  /\ UNCHANGED <<server, gateway, history>>

-----------------------------------------------------------------------------
(* The reader: _handle_notification, then the Gateway's callback           *)

\* _approval_responses forgets a request with _pending_approvals.
ReadResolved(r) ==
  IF r \in held
  THEN held' = held \ {r} /\ responses' = responses \ {r}
  ELSE UNCHANGED <<held, responses>>

\* Mutant: a request that arrives again keeps the record it has.
RecordedKept(r) ==
  IF pending[r] = NoPending THEN [status |-> "pending", decision |-> "none"] ELSE pending[r]

\* Mutant: the record has no status until it is answered.
RecordedBare(r) == [decision |-> "none"]

\* The record is written anew, whatever was there.
Recorded(r) == [status |-> "pending", decision |-> "none"]

\* _on_approval_request
Arrives(r) ==
  /\ held' = held \cup {r} /\ UNCHANGED responses
  /\ pending' = [pending EXCEPT ![r] = Recorded(r)]
  /\ runtime' = [runtime EXCEPT ![ThreadOf[r]] = "waitingOnApproval"]
  /\ tried' = tried \ {r}

\* Mutant: the Session goes on waiting.
ResumesNot(t) == runtime[t]

\* A Session that waited is active again, another request or not.
Resumes(t) == IF runtime[t] = "waitingOnApproval" THEN "active" ELSE runtime[t]

\* Mutant: the record is there to be answered again.
ClearedStatus(r) == [pending[r] EXCEPT !.status = "pending"]

Cleared(r) == NoPending

\* serverRequest/resolved in _on_transport_notification
IsResolved(r) ==
  /\ ReadResolved(r)
  /\ IF pending[r] = NoPending THEN UNCHANGED gateway
     ELSE /\ pending' = [pending EXCEPT ![r] = Cleared(r)]
          /\ runtime' = [runtime EXCEPT ![ThreadOf[r]] = Resumes(ThreadOf[r])]

\* The transport's part and the Gateway's are one step: between them a call could
\* read _approval_responses alone, and it decides the same before or after both.
Read ==
  LET message == Head(inbound)
  IN  /\ inbound # <<>>
      /\ inbound' = Tail(inbound)
      /\ \/ message.what = "ask" /\ Arrives(message.of)
         \/ message.what = "resolved" /\ IsResolved(message.of) /\ UNCHANGED tried
      /\ UNCHANGED <<server, socket, reports, outbound, caller, sent, overtaken, faults>>

-----------------------------------------------------------------------------
(* approval_decision, and respond_approval as it calls it                  *)

\* Mutant: a request somebody is answering is open to the next caller.
AdmissibleTwice(r) == pending[r].status \in {"pending", "responding"}

Admissible(r) == pending[r].status = "pending"

\* A caller who is refused changes nothing.
Admit(c, r, decision) ==
  /\ caller[c] = Idle /\ Admissible(r)
  /\ pending' = [pending EXCEPT ![r] = [status |-> "responding", decision |-> decision]]
  /\ caller' = [caller EXCEPT ![c] = [pc |-> "check", of |-> r, decision |-> decision]]
  /\ tried' = tried \cup {r}
  /\ overtaken' = IF Arriving(r) THEN overtaken \cup {r} ELSE overtaken
  /\ UNCHANGED <<server, link, transport, runtime, sent, faults>>

\* The first lock section; the Gateway passes method and params, so an id the
\* transport does not hold is no obstacle.
Check(c) ==
  /\ caller[c].pc = "check"
  /\ Goto(c, IF caller[c].of \in responses THEN "fail" ELSE "send")
  /\ UNCHANGED <<server, link, transport, gateway, history, faults>>

\* The second: the answer leaves, and is then marked.  A broken socket takes it
\* and loses it, or refuses it.
Send(c) ==
  /\ caller[c].pc = "send"
  /\ \/ /\ socket # "closed"
        /\ outbound' = IF socket = "up"
                       THEN Append(outbound, [of |-> caller[c].of, decision |-> caller[c].decision])
                       ELSE outbound
        /\ sent' = sent \cup {caller[c].of}
        /\ Goto(c, "mark")
     \/ /\ socket # "up"
        /\ Goto(c, "fail") /\ UNCHANGED <<outbound, sent>>
  /\ UNCHANGED <<server, socket, reports, inbound, transport, gateway, tried, overtaken, faults>>

Mark(c) ==
  /\ caller[c].pc = "mark"
  /\ responses' = responses \cup {caller[c].of}
  /\ IF caller[c].of \in Permissions /\ caller[c].decision = "cancel"
     THEN Goto(c, "interrupt")
     ELSE Leave(c)
  /\ UNCHANGED <<server, link, held, gateway, history, faults>>

\* A permissions answer has no decision: cancel also interrupts the turn, which
\* ends the Thread's open requests.
Interrupt(c) ==
  /\ caller[c].pc = "interrupt"
  /\ \/ /\ socket = "up"
        /\ Close({r \in Requests : ThreadOf[r] = ThreadOf[caller[c].of] /\ asked[r] = "open"})
        /\ Leave(c)
        /\ UNCHANGED faults
     \/ /\ IF socket = "up" THEN Fault("interrupt") ELSE UNCHANGED faults
        /\ Goto(c, "fail")
        /\ UNCHANGED <<asked, inbound>>
  /\ UNCHANGED <<effect, socket, reports, outbound, transport, gateway, history>>

\* The except block finds the record by its id.
Fail(c) ==
  /\ caller[c].pc = "fail"
  /\ pending' = IF pending[caller[c].of] = NoPending THEN pending
                ELSE [pending EXCEPT ![caller[c].of].status = "responseUnknown"]
  /\ Leave(c)
  /\ UNCHANGED <<server, link, transport, runtime, history, faults>>

-----------------------------------------------------------------------------
Init ==
  /\ asked = [r \in Requests |-> "no"] /\ effect = [r \in Requests |-> "none"]
  /\ socket = "up" /\ reports = 0 /\ inbound = <<>> /\ outbound = <<>>
  /\ held = {} /\ responses = {}
  /\ pending = [r \in Requests |-> NoPending]
  /\ runtime = [t \in Threads |-> "active"]
  /\ caller = [c \in Callers |-> Idle]
  /\ tried = {} /\ sent = {} /\ overtaken = {} /\ faults = <<>>

Deciding(c) == Check(c) \/ Send(c) \/ Mark(c) \/ Interrupt(c) \/ Fail(c)

Next ==
  \/ \E r \in Requests : Request(r) \/ EndElsewhere(r)
  \/ Hear \/ Drop \/ Notice \/ Report \/ Resume \/ Crash \/ Read
  \/ \E c \in Callers, r \in Requests, decision \in Decisions : Admit(c, r, decision)
  \/ \E c \in Callers : Deciding(c)

Spec == Init /\ [][Next]_vars

=============================================================================
