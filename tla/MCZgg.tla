-------------------------------- MODULE MCZgg --------------------------------
(* Zgg for TLC: options of either key, a server of each kind. *)
EXTENDS Zgg, TLC

CONSTANTS web, cat, bee

MCKindOf == (web :> "http") @@ (cat :> "cat") @@ (bee :> "bee")
=============================================================================
