----------------------------- MODULE MCRecovery -----------------------------
(***************************************************************************)
(* Recovery on a small instance.                                           *)
(***************************************************************************)
EXTENDS Recovery

CONSTANTS k1, k2, p1

\* The database is empty, or has been seeded with one row.
SeededOrNot == {<<>>, <<[key |-> k1, version |-> 1, payload |-> p1]>>}
=============================================================================
