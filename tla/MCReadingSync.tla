---------------------------- MODULE MCReadingSync ----------------------------
(* Instances of ReadingSync for TLC. *)
EXTENDS ReadingSync, TLC

CONSTANTS a, b

FewInstants == {1, 2}
FirstCycles == 0..2

Symmetry == Permutations(ReadingDevices)
=============================================================================
