------------------------------- MODULE Board -------------------------------
(***************************************************************************)
(* What GatewayService relies on when it uses the store: the board is one  *)
(* value, each `with store.locked()` block changes it in one step from the *)
(* value it holds, and the old JSON file is taken over at most once, before *)
(* anything else.  SqliteGatewayStore implements it.                       *)
(***************************************************************************)
CONSTANTS
  Runs, Approvals, Devices,
  Legacy  \* the board in the old JSON file: a set of one, empty without a file

VARIABLES
  board,    \* sessions, runs and pendingApprovals
  migrated  \* whether the old file is out of the question

None == "none"

(* One Session, with its device and the Run it is busy with; the target device
   of each Run, "absent" for a Run that does not exist and none for one that
   was written before devices were known; the pending approvals.            *)
Boards == [home : Devices \cup {None}, busy : Runs \cup {None},
           target : [Runs -> Devices \cup {None, "absent"}], approvals : SUBSET Approvals]

EmptyBoard == [home |-> None, busy |-> None, target |-> [r \in Runs |-> "absent"],
               approvals |-> {}]

\* populated, in _migrate_legacy_json_if_needed; a Session that nothing has
\* happened to is not told from none.
Populated(b) == b # EmptyBoard

(* What the blocks do to the board; each leaves it alone if it cannot apply.  *)

StartRun(b, r) ==
  IF b.busy # None \/ b.target[r] # "absent" THEN b
  ELSE [b EXCEPT !.busy = r, !.target[r] = b.home]

EndRun(b) == [b EXCEPT !.busy = None]

Approval(b, a) ==
  [b EXCEPT !.approvals = IF a \in @ THEN @ \ {a} ELSE @ \cup {a}]

\* Mutant: Runs that were there before devices keep no target.
FillInSession(b, device) == IF b.home = None THEN [b EXCEPT !.home = device] ELSE b

\* _ensure_local_device_projection
FillIn(b, device) ==
  LET home == IF b.home = None THEN device ELSE b.home
  IN  [b EXCEPT !.home = home,
                !.target = [r \in Runs |-> IF @[r] = None THEN home ELSE @[r]]]

\* _migrate_legacy_json_if_needed, where no migration has been noted
TakenOver(b) ==
  IF Legacy = {} \/ Populated(b) THEN b ELSE CHOOSE l \in Legacy : TRUE

Change(b) ==
  \/ \E r \in Runs : board' = StartRun(b, r)
  \/ board' = EndRun(b)
  \/ \E a \in Approvals : board' = Approval(b, a)
  \/ \E device \in Devices : board' = FillIn(b, device)

Next ==
  \/ Change(board) /\ UNCHANGED migrated
  \/ ~migrated /\ migrated' = TRUE /\ board' = TakenOver(board)

Init == board \in Boards /\ migrated \in BOOLEAN

Spec == Init /\ [][Next]_<<board, migrated>>

=============================================================================
