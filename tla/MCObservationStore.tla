------------------------- MODULE MCObservationStore -------------------------
(* Instances of ObservationStore for TLC: a small body and larger ones, so  *)
(* that whether the next candidate fits depends on what the last received.  *)
EXTENDS ObservationStore, TLC

CONSTANTS small, b1, b2, b3

Large == {b1, b2, b3}
Sizes == [b \in Bodies |-> IF b = small THEN 1 ELSE 2]

\* The large bodies differ in nothing.
AlikeBodies == Permutations(Large)
=============================================================================
