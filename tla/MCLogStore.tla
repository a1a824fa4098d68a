----------------------------- MODULE MCLogStore -----------------------------
(* LogStore for TLC: interchangeable posts. *)
EXTENDS LogStore, TLC

PostSymmetry == Permutations(Posts)
=============================================================================
