--------------------------- MODULE MCFavoritesSync ---------------------------
(* Instances of FavoritesSync for TLC. *)
EXTENDS FavoritesSync, TLC

CONSTANTS a, b

\* Clocks: exact; one far beyond the tolerance ahead.
Exact == [d \in Devices |-> 0]
Ahead == [d \in Devices |-> IF d = a THEN 10 ELSE 0]

Symmetry == Permutations(Tasks)
=============================================================================
