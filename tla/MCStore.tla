------------------------------- MODULE MCStore -------------------------------
(***************************************************************************)
(* StoreService on small instances: the snapshots the runs start from.     *)
(***************************************************************************)
EXTENDS StoreProperties, TLC

CONSTANTS k1, k2, p1, p2

Row(k, v, p) == [key |-> k, version |-> v, payload |-> p]

NoSnapshot == {<<>>}

\* Nothing tells one payload from the other where no snapshot holds one.
PayloadSymmetry == Permutations(Payload)

\* Empty, as in two of the integration tests; two rows, of which the second
\* may be one that StateRecord refuses.
SomeSnapshots == {<<>>} \cup {<<Row(k1, 1, p1), Row(k2, v, p1)>> : v \in 0 .. 1}
=============================================================================
