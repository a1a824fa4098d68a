---------------------------------- MODULE Kwcat ----------------------------------
(***************************************************************************)
(* The passthrough server (app/kwdog2/kwcat.go): a connection takes a slot  *)
(* of the semaphore, its greeting is read for the name of the host, and its *)
(* bytes are copied both ways between the client and the backend.           *)
(***************************************************************************)
EXTENDS Naturals, FiniteSets

CONSTANTS
  Conns,    \* connections that clients open
  MaxConn   \* KwcatHandler.MaxConn

VARIABLES
  listener,  \* "none", "open", "closed"
  accepting, \* RunServe is in its loop
  sem,       \* slots taken
  src,       \* the client of a connection: "none", "open", "half" once it has sent all,
             \* "gone" when it has closed, "reset" when the server has closed
  dst,       \* the backend of a connection, likewise
  step,      \* what its handler does
  up         \* the goroutine that copies from src to dst: "none", "copies", "done"

catVars == <<listener, accepting, sem, src, dst, step, up>>

Init ==
  /\ listener = "none" /\ accepting = FALSE /\ sem = 0
  /\ src = [c \in Conns |-> "none"] /\ dst = [c \in Conns |-> "none"]
  /\ step = [c \in Conns |-> "none"] /\ up = [c \in Conns |-> "none"]

-----------------------------------------------------------------------------
(* The server. *)

RunServe ==
  /\ listener = "none" /\ listener' = "open" /\ accepting' = TRUE
  /\ UNCHANGED <<sem, src, dst, step, up>>

Shutdown ==
  /\ listener = "open" /\ listener' = "closed"
  /\ UNCHANGED <<accepting, sem, src, dst, step, up>>

\* Accept fails with net.ErrClosed, and RunServe returns; the handlers go on.
AcceptEnds ==
  /\ accepting /\ listener = "closed" /\ accepting' = FALSE
  /\ UNCHANGED <<listener, sem, src, dst, step, up>>

\* Without a slot the connection is closed at once.
Accept(c) ==
  /\ accepting /\ listener = "open" /\ step[c] = "none"
  /\ IF sem < MaxConn
     THEN sem' = sem + 1 /\ step' = [step EXCEPT ![c] = "peek"] /\ src' = [src EXCEPT ![c] = "open"]
     ELSE step' = [step EXCEPT ![c] = "refused"] /\ src' = [src EXCEPT ![c] = "reset"] /\ UNCHANGED sem
  /\ UNCHANGED <<listener, accepting, dst, up>>

-----------------------------------------------------------------------------
(* handle *)

\* The deferred function, however the handler ends.
Freed(c) == 1

Return(c) ==
  /\ step' = [step EXCEPT ![c] = "end"]
  /\ src' = [src EXCEPT ![c] = "reset"]
  /\ dst' = [dst EXCEPT ![c] = IF @ = "none" THEN @ ELSE "reset"]
  /\ sem' = sem - Freed(c)
  /\ UNCHANGED <<listener, accepting, up>>

\* No greeting, no name in it, no route for the name, no backend.
Fails(c) == step[c] \in {"peek", "dial"} /\ Return(c)

PeekSNI(c) ==
  /\ step[c] = "peek" /\ step' = [step EXCEPT ![c] = "dial"]
  /\ UNCHANGED <<listener, accepting, sem, src, dst, up>>

Dial(c) ==
  /\ step[c] = "dial" /\ step' = [step EXCEPT ![c] = "hello"]
  /\ dst' = [dst EXCEPT ![c] = "open"]
  /\ UNCHANGED <<listener, accepting, sem, src, up>>

\* The greeting that was read is sent on; then both directions are copied.
Hello(c) ==
  /\ step[c] = "hello"
  /\ \/ dst[c] = "gone" /\ Return(c)
     \/ /\ step' = [step EXCEPT ![c] = "copies"] /\ up' = [up EXCEPT ![c] = "copies"]
        /\ UNCHANGED <<listener, accepting, sem, src, dst>>

\* The deferred close(done).
Closed(c) == "done"

\* src to dst ends when the client has sent all; the backend is not told.
UpEnds(c) ==
  /\ up[c] = "copies" /\ src[c] \in {"half", "gone"}
  /\ up' = [up EXCEPT ![c] = Closed(c)]
  /\ UNCHANGED <<listener, accepting, sem, src, dst, step>>

\* dst to src ends when the backend has sent all; the client is not told.
DownEnds(c) ==
  /\ step[c] = "copies" /\ dst[c] \in {"half", "gone"}
  /\ step' = [step EXCEPT ![c] = "waits"]
  /\ UNCHANGED <<listener, accepting, sem, src, dst, up>>

\* That the other side is gone is only seen when something is written to it.
WriteFails(c) ==
  \/ /\ up[c] = "copies" /\ src[c] = "open" /\ dst[c] = "gone"
     /\ up' = [up EXCEPT ![c] = Closed(c)]
     /\ UNCHANGED <<listener, accepting, sem, src, dst, step>>
  \/ /\ step[c] = "copies" /\ dst[c] = "open" /\ src[c] = "gone"
     /\ step' = [step EXCEPT ![c] = "waits"]
     /\ UNCHANGED <<listener, accepting, sem, src, dst, up>>

\* <-done
Waited(c) == up[c] = "done"

Done(c) == step[c] = "waits" /\ Waited(c) /\ Return(c)

-----------------------------------------------------------------------------
(* The two peers. *)

SrcMoves(c) ==
  /\ \/ src[c] = "open" /\ src' = [src EXCEPT ![c] = "half"]
     \/ src[c] \in {"open", "half"} /\ src' = [src EXCEPT ![c] = "gone"]
  /\ UNCHANGED <<listener, accepting, sem, dst, step, up>>

DstMoves(c) ==
  /\ \/ dst[c] = "open" /\ dst' = [dst EXCEPT ![c] = "half"]
     \/ dst[c] \in {"open", "half"} /\ dst' = [dst EXCEPT ![c] = "gone"]
  /\ UNCHANGED <<listener, accepting, sem, src, step, up>>

Handler(c) == Fails(c) \/ PeekSNI(c) \/ Dial(c) \/ Hello(c) \/ UpEnds(c) \/ DownEnds(c) \/ Done(c)

Next ==
  \/ RunServe \/ Shutdown \/ AcceptEnds
  \/ \E c \in Conns : Accept(c) \/ Handler(c) \/ WriteFails(c) \/ SrcMoves(c) \/ DstMoves(c)

Spec == Init /\ [][Next]_catVars

\* Goroutines are scheduled. Nothing is assumed of the peers: a greeting need not
\* come, and a read only ends when the peer has sent all it wants.
HandlerGoes(c) == (step[c] = "peek" => src[c] # "open") /\ Handler(c)
Fairness == \A c \in Conns : WF_catVars(HandlerGoes(c))

-----------------------------------------------------------------------------
(* Properties. *)

Handled(c) == step[c] \notin {"none", "refused", "end"}

\* The slots that are taken are those of the handlers that run, never more than
\* MaxConn; a handler that has returned left neither side open and no goroutine
\* that still copies (kwcat.go, RunServe and handle).
SlotsMatch ==
  /\ sem = Cardinality({c \in Conns : Handled(c)}) /\ sem <= MaxConn
  /\ \A c \in Conns : step[c] = "end" => src[c] = "reset" /\ dst[c] \in {"none", "reset"} /\ up[c] # "copies"

\* A slot is given back once both peers have sent all they want.
Ended(peer) == peer \in {"half", "gone"}
SlotFreed == \A c \in Conns : (Handled(c) /\ Ended(src[c]) /\ Ended(dst[c])) ~> ~Handled(c)
=============================================================================
