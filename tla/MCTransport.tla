---------------------------- MODULE MCTransport ----------------------------
(* Small instances of AppServerTransport for TLC; the constants are in the   *)
(* .cfg files.                                                             *)
EXTENDS AppServerTransportProperties, TLC

\* Callers are alike.
Symmetry == Permutations(Starts)

=============================================================================
