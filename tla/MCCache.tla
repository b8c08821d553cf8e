------------------------------ MODULE MCCache ------------------------------
(* Small instances of Cache. *)
EXTENDS Cache, TLC

CONSTANTS h1, h2, c1, c2, acme

AnyOne == Permutations(Keys) \cup Permutations(Callers)
=============================================================================
