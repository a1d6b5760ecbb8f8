----------------------------- MODULE MCGateway -----------------------------
(***************************************************************************)
(* Small instances of Gateway for TLC.                                     *)
(***************************************************************************)
EXTENDS GatewayProperties, TLC

CONSTANTS s1, th1, r1, r2, t1, t2, q1, q2, c1, c2

\* Ids of one kind are interchangeable: no definition distinguishes them.
Symmetric ==
  {runIds @@ turnIds @@ requestIds @@ callerIds :
     runIds \in Permutations(Runs), turnIds \in Permutations(Turns),
     requestIds \in Permutations(Requests), callerIds \in Permutations(Callers)}
=============================================================================
