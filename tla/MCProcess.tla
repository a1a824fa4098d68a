------------------------------ MODULE MCProcess ------------------------------
(* Process for TLC: interchangeable callers. *)
EXTENDS Process, TLC

CallerSymmetry == Permutations(Callers)
=============================================================================
