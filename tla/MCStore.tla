------------------------------ MODULE MCStore ------------------------------
(* Instances of SqliteGatewayStore for TLC. *)
EXTENDS SqliteGatewayStore, TLC

CONSTANTS p1, p2, k1, k2, k3, d1, d2, r1, r2, a1

Owner   == k1 :> p1 @@ k2 :> p1 @@ k3 :> p2
Starter == p1 :> k1 @@ p2 :> k3
Place   == p1 :> d1 @@ p2 :> d2

\* Written before devices were known, with a Run that is still occupying.
OldBoard == [home |-> None, busy |-> r1,
             target |-> r1 :> None @@ r2 :> "absent", approvals |-> {a1}]

OldFile == {OldBoard}

\* A new database, an old one that has data, one from the future, and
\* a new one beside a broken file.
NewDisk == [board |-> Stored!EmptyBoard, migrated |-> FALSE, version |-> None,
            devices |-> {}, agents |-> {}, broken |-> FALSE]

SomeDisks ==
  {NewDisk, [NewDisk EXCEPT !.board = [OldBoard EXCEPT !.approvals = {}], !.version = "1"],
   [NewDisk EXCEPT !.version = "3"],
   [NewDisk EXCEPT !.broken = TRUE]}

=============================================================================
