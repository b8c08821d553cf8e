-------------------------- MODULE MCPrerequisites --------------------------
(* Small instances of Prerequisites. *)
EXTENDS Prerequisites, TLC

CONSTANTS c1, c2, c3, a1, a2

EitherOne == Permutations(Catalogue) \cup Permutations(Authors)
=============================================================================
