----------------------------- MODULE MCProgress -----------------------------
(* Small instances of Progress. *)
EXTENDS Progress, TLC

CONSTANTS t1, t2

EitherTx == Permutations(Txs)
=============================================================================
