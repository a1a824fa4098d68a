------------------------------- MODULE MCSockets -------------------------------
(***************************************************************************)
(* What comes before and below the frames: the WebSocket handshake         *)
(* (Handshake), the headers, the end of a compressed message and prepared  *)
(* messages (WsCodec); connections that are passed on unread (Kwcat); and  *)
(* the packet socket of the monitor with its probes (EbpfServer) and what  *)
(* it reads of a connection (HttpFlow).  They share no state, so a         *)
(* behaviour takes one of them through its steps while the others stand as *)
(* they began.                                                             *)
(***************************************************************************)
EXTENDS Integers, Sequences, FlowPart

CONSTANTS Runners, Stoppers, Fds, Probes, Protocols, MaxText, MaxBytes, Users, FrameKinds, Conns, MaxConn

VARIABLES
  mu, started, closed, canceled, server, table, probes, loaded, run, mine, stop, taken, failed, exited,
  dialer, upgrader, client, upgrade, cconn, sconn, netConn, limited, settled, request, reply, late, silent,
  text, parsed, trunc, frames, user, got,
  listener, accepting, sem, src, dst, step, up

eVars == <<mu, started, closed, canceled, server, table, probes, loaded, run, mine, stop, taken, failed, exited>>
hVars == <<dialer, upgrader, client, upgrade, cconn, sconn, netConn, limited, settled, request, reply, late, silent>>
wVars == <<text, parsed, trunc, frames, user, got>>
kVars == <<listener, accepting, sem, src, dst, step, up>>
socketVars == <<part, eVars, hVars, wVars, kVars, fVars>>

\* No body, all of it, or one piece.
MCLimits == {-1, 0, 1}

E == INSTANCE EbpfServer
H == INSTANCE Handshake WITH server <- upgrade, answer <- reply
W == INSTANCE WsCodec WITH Kinds <- FrameKinds
K == INSTANCE Kwcat

Init ==
  /\ part \in {"ebpf", "handshake", "codec", "kwcat", "http"}
  /\ \/ part = "handshake"
     \/ /\ part # "handshake"
        /\ dialer = (CHOOSE d \in H!Dialers : ~d.duplicate /\ ~d.foreign)
        /\ upgrader = (CHOOSE u \in H!Upgraders : ~u.isNil /\ u.chosen = "" /\ ~u.extensions)
  /\ \/ part = "codec"
     \/ part # "codec" /\ text = <<>> /\ trunc = [n |-> 0, given |-> 0, held |-> <<0, 0, 0, 0>>, out |-> <<>>]
  /\ part = "http" \/ (part # "http" /\ limit = 0)
  /\ E!Init /\ H!Init /\ W!Init /\ K!Init /\ F!Init

Next ==
  /\ UNCHANGED part
  /\ \/ part = "ebpf" /\ E!Next /\ UNCHANGED <<hVars, wVars, kVars, fVars>>
     \/ part = "handshake" /\ H!Next /\ UNCHANGED <<eVars, wVars, kVars, fVars>>
     \/ part = "codec" /\ W!Next /\ UNCHANGED <<eVars, hVars, kVars, fVars>>
     \/ part = "kwcat" /\ K!Next /\ UNCHANGED <<eVars, hVars, wVars, fVars>>
     \/ part = "http" /\ F!Next /\ UNCHANGED <<eVars, hVars, wVars, kVars>>

Spec == Init /\ [][Next]_socketVars

\* The fairness of each part.
FairSpec ==
  /\ Spec
  /\ \A r \in Runners : WF_eVars(part = "ebpf" /\ run[r] # "idle" /\ E!RunStep(r))
  /\ \A s \in Stoppers : WF_eVars(part = "ebpf" /\ stop[s] # "idle" /\ E!StopStep(s))
  /\ WF_hVars(part = "handshake" /\ H!ClientStep)
  /\ WF_hVars(part = "handshake" /\ H!Expire)
  /\ \A c \in Conns : WF_kVars(part = "kwcat" /\ K!HandlerGoes(c))

-----------------------------------------------------------------------------

\* When the monitor has stopped nothing of it is left in the kernel, its socket was
\* closed once and never another file, and a shutdown is not an error (server.go); the
\* slots that are taken are those of the connections that are passed on (kwcat.go).
NothingHeld ==
  /\ part = "ebpf" => E!NothingLeft /\ E!NoFalseExit
  /\ part = "kwcat" => K!SlotsMatch

\* Client and server agree on the protocol and the compression, and whoever fails
\* leaves no connection open (client.go, server.go).
Shaken == part = "handshake" => H!BothAgree /\ H!FailureCloses

\* A list is read as its grammar says (util.go), a compressed message is written whole
\* but for its last four bytes (compression.go), and a prepared frame that is sent is
\* made (prepared.go).
Framed == part = "codec" => W!ListRead /\ W!HoldsBack /\ W!FrameWhole

\* Once it is shut down the monitor's server comes back, with a timeout Dial does, and
\* so does the handler of a connection that both peers have ended.
AllReturn == E!Ends /\ (part = "handshake" => H!DialReturns) /\ K!SlotFreed
=============================================================================
