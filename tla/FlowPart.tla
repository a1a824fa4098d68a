------------------------------- MODULE FlowPart -------------------------------
(* The part of MCSockets that reads a connection, HttpFlow, by itself: what is
   proved of it need not know the other parts. *)
EXTENDS Integers, Sequences

CONSTANTS Limits, Cap, CapPayload, Scan, MaxLen, MaxMsgs, MaxPacket, MaxSent, MaxStray

FlowAssumed ==
  /\ Limits \subseteq Int
  /\ Cap \in Nat /\ CapPayload \in Nat /\ Scan \in Nat \ {0} /\ MaxLen \in Nat /\ MaxStray \in Nat
ASSUME FlowAssumption == FlowAssumed

VARIABLES part, limit, buf, tls, events, msgs, wire, out, strays, clean, aligned

fVars == <<limit, buf, tls, events, msgs, wire, out, strays, clean, aligned>>

F == INSTANCE HttpFlow

\* What the monitor reports is one message each, in their order, mixed with no other,
\* nothing is missing if nothing was lost, and a message that is all there is reported
\* at once; packets may be lost, come again and come before their turn (monitor.go,
\* processTCPFlow).
Unmixed == part = "http" => F!TypeOK /\ F!Unmixed /\ F!Drained /\ F!NothingMissing
===============================================================================
