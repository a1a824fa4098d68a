------------------------------ MODULE MCMonitor ------------------------------
(* Monitor for TLC: a server "s" with a client "c" on the same machine and one
   outside. *)
EXTENDS Monitor

MCPairs == {<<"s", AnyPeer>>, <<"s", "x">>, <<"s", "c">>, <<"c", "s">>}
MCSymmetry == Permutations(Procs)
=============================================================================
