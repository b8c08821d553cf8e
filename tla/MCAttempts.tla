----------------------------- MODULE MCAttempts -----------------------------
(* Small instances of Attempts. *)
EXTENDS Attempts, TLC

CONSTANTS choice, essay1, essay2, r1, r2, w1, m1, m2

EitherOne == Permutations(Requests) \cup Permutations(Markers)
=============================================================================
