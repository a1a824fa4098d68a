----------------------------- MODULE MCWsHandler -----------------------------
(* WsHandler for TLC: connections with keys of their own, or with one key. *)
EXTENDS WsHandler

MCOwnKey    == [c \in Conns |-> c]
MCSharedKey == [c \in Conns |-> "key"]
=============================================================================
