---------------------------- MODULE MCApprovals ----------------------------
(* Instances of ApprovalsProperties for TLC. *)
EXTENDS ApprovalsProperties, TLC

\* Both requests are about one Thread.
OneThread == [r \in Requests |-> CHOOSE t \in Threads : TRUE]

Symmetry == Permutations(Callers)

=============================================================================
