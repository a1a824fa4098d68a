------------------------------ MODULE WsHandler ------------------------------
(***************************************************************************)
(* The WebSocket handlers of z/ze/wsz.  Per connection run the goroutine   *)
(* of ServeHTTP, which ends in ServeConn, and a reader that hands complete *)
(* messages over on the unbuffered channel msgc; the application may push  *)
(* through the sender at any time; the registry Clients maps the key of a  *)
(* connection to its hook.                                                 *)
(*                                                                         *)
(* Native = TRUE is Handler0 (native.go), which reads frames, puts         *)
(* fragments together and writes a frame with two calls of conn.Write;     *)
(* FALSE is Handler1 (gorilla.go), whose wsg connection does all that.     *)
(* Handler0 makes a new bufio.Reader for every frame: what came with a     *)
(* frame in one read is thrown away with it.  No write has a deadline: it  *)
(* waits for a client that stays and does not read.                        *)
(***************************************************************************)
EXTENDS Integers, Sequences, FiniteSets

CONSTANTS
  Conns,      \* the connections
  Nobody,     \* no hook
  Key,        \* the key NewHook gives each connection
  Native,     \* TRUE: Handler0, FALSE: Handler1
  MaxFrames,  \* bound: how many frames a client sends
  MaxPush     \* bound: how often the application pushes to a connection

ASSUME WsAssumption ==
  /\ Nobody \notin Conns
  /\ DOMAIN Key = Conns
  /\ Native \in BOOLEAN
  /\ MaxFrames \in Nat /\ MaxPush \in Nat

VARIABLES
  hpc,       \* where ServeHTTP is
  rpc,       \* where the reader is
  clients,   \* Handler.Clients: whose hook a key is mapped to
  hook,      \* the state of the hook NewHook made for the connection
  canceled,  \* the context of the connection is done
  open,      \* the server has not closed the connection
  gone,      \* the client is gone
  full,      \* the client does not read: what was written before fills the buffers
  in,        \* history: what was read as a frame, as <<kind, final>>
  cut,       \* history: how many those were when bytes behind one were first thrown
             \* away; 0: none were, and these are the frames the client sent
  msgr,      \* the indices in "in" of the frames of the message under way
  hand,      \* the message ServeConn is working on
  to,        \* the connection whose hook the key was mapped to when it came
  got,       \* history: the messages the hook of the connection received
  push       \* how often the application pushed; odd inside of a push

regVars  == <<clients, hook>>
linkVars == <<canceled, open, gone, full>>
readVars == <<rpc, in, cut, msgr>>
workVars == <<hand, to, got>>
vars == <<hpc, readVars, regVars, linkVars, workVars, push>>

Kinds == {"data", "cont", "ping", "pong", "close"}

TypeOK ==
  /\ hpc \in [Conns -> {"new", "hook", "store", "respond", "serve", "deliver",
                        "head", "load", "unhook", "delete", "close", "over"}]
  /\ rpc \in [Conns -> {"none", "read", "pong head", "pong load", "offer",
                        "offer nil", "ended"}]
  /\ clients \in [{Key[c] : c \in Conns} -> Conns \cup {Nobody}]
  /\ hook \in [Conns -> {"none", "open", "closed"}]
  /\ {canceled, open, gone, full} \subseteq [Conns -> BOOLEAN]
  /\ in \in [Conns -> Seq(Kinds \X BOOLEAN)]
  /\ cut \in [Conns -> 0 .. MaxFrames]
  /\ {msgr, hand} \subseteq [Conns -> Seq(1 .. MaxFrames)]
  /\ to \in [Conns -> Conns \cup {Nobody}]
  /\ got \in [Conns -> Seq(Conns \X Seq(1 .. MaxFrames))]
  /\ push \in [Conns -> 0 .. 2 * MaxPush]

Init ==
  /\ hpc = [c \in Conns |-> "new"]
  /\ rpc = [c \in Conns |-> "none"]
  /\ clients = [k \in {Key[c] : c \in Conns} |-> Nobody]
  /\ hook = [c \in Conns |-> "none"]
  /\ canceled = [c \in Conns |-> FALSE]
  /\ open = [c \in Conns |-> FALSE]
  /\ gone = [c \in Conns |-> FALSE]
  /\ full = [c \in Conns |-> FALSE]
  /\ in = [c \in Conns |-> <<>>]
  /\ cut = [c \in Conns |-> 0]
  /\ msgr = [c \in Conns |-> <<>>]
  /\ hand = [c \in Conns |-> <<>>]
  /\ to = [c \in Conns |-> Nobody]
  /\ got = [c \in Conns |-> <<>>]
  /\ push = [c \in Conns |-> 0]

Goto(c, label) == hpc' = [hpc EXCEPT ![c] = label]
Turn(c, label) == rpc' = [rpc EXCEPT ![c] = label]

\* A write fails once either side has closed the connection.
CanWrite(c) == open[c] /\ ~gone[c]

\* Until then it does not come back while the client reads nothing.
Blocked(c) == CanWrite(c) /\ full[c]

-----------------------------------------------------------------------------
(* ServeHTTP: the upgrade and the hook.                                     *)

\* No upgrade request, no key, no hijacking; Handler1: Upgrade fails.
Refuse(c) ==
  /\ hpc[c] = "new"
  /\ Goto(c, "over")
  /\ UNCHANGED <<readVars, regVars, linkVars, workVars, push>>

\* The connection is taken over; Handler1 has answered the upgrade by then.
Hijack(c) ==
  /\ hpc[c] = "new"
  /\ Goto(c, "hook")
  /\ open' = [open EXCEPT ![c] = TRUE]
  /\ UNCHANGED <<readVars, regVars, canceled, gone, full, workVars, push>>

\* NewHook fails, gives no hook, or one whose sender is in use from now on.
HookFails(c) ==
  /\ hpc[c] = "hook"
  /\ Goto(c, "close")
  /\ UNCHANGED <<readVars, regVars, linkVars, workVars, push>>

NoHook(c) ==
  /\ hpc[c] = "hook"
  /\ Goto(c, "respond")
  /\ UNCHANGED <<readVars, regVars, linkVars, workVars, push>>

HookMade(c) ==
  /\ hpc[c] = "hook"
  /\ Goto(c, "store")
  /\ hook' = [hook EXCEPT ![c] = "open"]
  /\ UNCHANGED <<readVars, clients, linkVars, workVars, push>>

Store(c) ==
  /\ hpc[c] = "store"
  /\ Goto(c, "respond")
  /\ clients' = [clients EXCEPT ![Key[c]] = c]
  /\ UNCHANGED <<readVars, hook, linkVars, workVars, push>>

\* Handler0 writes the response now; then the reader is started.
Respond(c) ==
  /\ hpc[c] = "respond"
  /\ Native => ~Blocked(c)
  /\ IF Native /\ ~CanWrite(c)
     THEN Goto(c, "unhook") /\ UNCHANGED rpc
     ELSE Goto(c, "serve") /\ Turn(c, "read")
  /\ UNCHANGED <<in, cut, msgr, regVars, linkVars, workVars, push>>

-----------------------------------------------------------------------------
(* The reader.                                                              *)

\* Handler0 gives ReadServerFrame a *bufio.ReadWriter, around which that puts a
\* bufio.Reader of its own: with the frame goes whatever else this has read.  What
\* is read next is a later frame, or the middle of one that looks like any.
Frame(c, kind, final) ==
  /\ in' = [in EXCEPT ![c] = Append(@, <<kind, final>>)]
  /\ \/ UNCHANGED cut
     \/ Native /\ cut[c] = 0 /\ cut' = [cut EXCEPT ![c] = Len(in[c]) + 1]

CanRead(c) == rpc[c] = "read" /\ CanWrite(c) /\ Len(in[c]) < MaxFrames

\* Mutant: the next message starts with what is left of the last one.
Rest_Kept(c) == UNCHANGED msgr

Rest(c) == msgr' = [msgr EXCEPT ![c] = <<>>]
Offered(final) == final

\* A frame of a message in the right place.  The last one makes the reader
\* offer the message; a client of Handler1 sends whole messages.
ReadData(c, kind, final) ==
  /\ CanRead(c)
  /\ (kind = "data") = (msgr[c] = <<>>)
  /\ Native \/ final
  /\ Frame(c, kind, final)
  /\ msgr' = [msgr EXCEPT ![c] = Append(@, Len(in[c]) + 1)]
  /\ Turn(c, IF Offered(final) THEN "offer" ELSE "read")
  /\ UNCHANGED <<hpc, regVars, linkVars, workVars, push>>

\* A continuation of nothing, or a message inside of another one.
ReadMisplaced(c, kind, final) ==
  /\ CanRead(c)
  /\ Native
  /\ (kind = "data") = (msgr[c] # <<>>)
  /\ Turn(c, "offer nil")
  /\ UNCHANGED <<hpc, in, cut, msgr, regVars, linkVars, workVars, push>>

\* Control frames, which Handler1 never sees, may come between fragments.
ReadControl(c, kind) ==
  /\ CanRead(c)
  /\ Native
  /\ Frame(c, kind, TRUE)
  /\ Turn(c, IF kind = "ping" THEN "pong head"
             ELSE IF kind = "pong" THEN "read" ELSE "offer nil")
  /\ UNCHANGED <<hpc, msgr, regVars, linkVars, workVars, push>>

\* The client is gone, sends nonsense, or the server closed the connection.
ReadFails(c) ==
  /\ rpc[c] = "read"
  /\ Turn(c, "offer nil")
  /\ UNCHANGED <<hpc, in, cut, msgr, regVars, linkVars, workVars, push>>

\* WriteServerPong, in two writes; its error is ignored.
Pong(c) ==
  /\ rpc[c] \in {"pong head", "pong load"}
  /\ ~Blocked(c)
  /\ Turn(c, IF rpc[c] = "pong head" /\ CanWrite(c) THEN "pong load" ELSE "read")
  /\ UNCHANGED <<hpc, in, cut, msgr, regVars, linkVars, workVars, push>>

-----------------------------------------------------------------------------
(* ServeConn.                                                               *)

\* Mutant: ServeConn does not look at ctx.Done().
Done_Ignored(c) == FALSE

Done(c) == canceled[c]

ServeCanceled(c) ==
  /\ hpc[c] = "serve"
  /\ Done(c)
  /\ Goto(c, "unhook")
  /\ UNCHANGED <<readVars, regVars, linkVars, workVars, push>>

\* It takes the message the reader offers and asks Clients for the hook, which
\* may be that of another connection by now, or none: the message is dropped.
Take(c) ==
  LET h == IF hook[c] = "none" THEN Nobody ELSE clients[Key[c]] IN
  /\ hpc[c] = "serve"
  /\ rpc[c] = "offer"
  /\ Turn(c, "read")
  /\ Rest(c)
  /\ IF h = Nobody
     THEN UNCHANGED <<hpc, hand, to>>
     ELSE /\ Goto(c, "deliver")
          /\ hand' = [hand EXCEPT ![c] = msgr[c]]
          /\ to' = [to EXCEPT ![c] = h]
  /\ UNCHANGED <<in, cut, regVars, linkVars, got, push>>

TakeNil(c) ==
  /\ hpc[c] = "serve"
  /\ rpc[c] = "offer nil"
  /\ Turn(c, "ended")
  /\ Goto(c, "unhook")
  /\ UNCHANGED <<in, cut, msgr, regVars, linkVars, workVars, push>>

\* hook.Receive fails, has no answer, or one for the client of c.
Deliver(c) ==
  /\ hpc[c] = "deliver"
  /\ \E next \in {"unhook", "serve", "head"} : Goto(c, next)
  /\ got' = [got EXCEPT ![to[c]] = Append(@, <<c, hand[c]>>)]
  /\ hand' = [hand EXCEPT ![c] = <<>>]
  /\ to' = [to EXCEPT ![c] = Nobody]
  /\ UNCHANGED <<readVars, regVars, linkVars, push>>

\* sender: a frame in two writes, one of Handler1; an error cancels.
Send(c) ==
  /\ hpc[c] \in {"head", "load"}
  /\ ~Blocked(c)
  /\ IF CanWrite(c)
     THEN /\ Goto(c, IF Native /\ hpc[c] = "head" THEN "load" ELSE "serve")
          /\ UNCHANGED canceled
     ELSE /\ canceled' = [canceled EXCEPT ![c] = TRUE]
          /\ Goto(c, "unhook")
  /\ UNCHANGED <<readVars, regVars, open, gone, full, workVars, push>>

-----------------------------------------------------------------------------
(* The deferred calls, last first.                                          *)

\* hook.Close, unless there is no hook.
Unhook(c) ==
  /\ hpc[c] = "unhook"
  /\ Goto(c, IF hook[c] = "none" THEN "close" ELSE "delete")
  /\ hook' = [hook EXCEPT ![c] = IF @ = "none" THEN @ ELSE "closed"]
  /\ UNCHANGED <<readVars, clients, linkVars, workVars, push>>

\* Mutant: the entry is left alone.
DeleteKey_Nothing(c) == UNCHANGED clients

\* Clients.Delete deletes whatever the key is mapped to.
DeleteKey(c) == clients' = [clients EXCEPT ![Key[c]] = Nobody]

Delete(c) ==
  /\ hpc[c] = "delete"
  /\ Goto(c, "close")
  /\ DeleteKey(c)
  /\ UNCHANGED <<readVars, hook, linkVars, workVars, push>>

\* cancel and conn.Close.
Close(c) ==
  /\ hpc[c] = "close"
  /\ Goto(c, "over")
  /\ canceled' = [canceled EXCEPT ![c] = TRUE]
  /\ open' = [open EXCEPT ![c] = FALSE]
  /\ UNCHANGED <<readVars, regVars, gone, full, workVars, push>>

-----------------------------------------------------------------------------
(* The application and the client.                                          *)

\* The application writes through the sender, from a goroutine of its own.
Push(c) ==
  /\ hook[c] = "open" \/ push[c] % 2 = 1
  /\ push[c] < 2 * MaxPush
  /\ ~Blocked(c)
  /\ IF CanWrite(c)
     THEN /\ push' = [push EXCEPT ![c] = @ + (IF Native THEN 1 ELSE 2)]
          /\ UNCHANGED canceled
     ELSE /\ push' = [push EXCEPT ![c] = 2 * MaxPush]
          /\ canceled' = [canceled EXCEPT ![c] = TRUE]
  /\ UNCHANGED <<hpc, readVars, regVars, open, gone, full, workVars>>

\* It calls cancel.
Cancel(c) ==
  /\ hook[c] # "none"
  /\ ~canceled[c]
  /\ canceled' = [canceled EXCEPT ![c] = TRUE]
  /\ UNCHANGED <<hpc, readVars, regVars, open, gone, full, workVars, push>>

Leave(c) ==
  /\ open[c] /\ ~gone[c]
  /\ gone' = [gone EXCEPT ![c] = TRUE]
  /\ UNCHANGED <<hpc, readVars, regVars, canceled, open, full, workVars, push>>

\* It stays, and stops reading until the buffers are full, or reads on.
Stall(c) ==
  /\ CanWrite(c)
  /\ full' = [full EXCEPT ![c] = ~@]
  /\ UNCHANGED <<hpc, readVars, regVars, canceled, open, gone, workVars, push>>

\* Every handler has returned; a reader may be left.
Over ==
  /\ \A c \in Conns : hpc[c] = "over"
  /\ UNCHANGED vars

Handle(c) ==
  \/ Refuse(c) \/ Hijack(c)
  \/ HookFails(c) \/ NoHook(c) \/ HookMade(c) \/ Store(c) \/ Respond(c)
  \/ ServeCanceled(c) \/ Take(c) \/ TakeNil(c) \/ Deliver(c) \/ Send(c)
  \/ Unhook(c) \/ Delete(c) \/ Close(c)

ReadFrame(c) ==
  \/ \E kind \in {"data", "cont"}, final \in BOOLEAN :
       ReadData(c, kind, final) \/ ReadMisplaced(c, kind, final)
  \/ \E kind \in {"ping", "pong", "close"} : ReadControl(c, kind)

Next ==
  \/ \E c \in Conns :
       Handle(c) \/ ReadFrame(c) \/ ReadFails(c) \/ Pong(c)
       \/ Push(c) \/ Cancel(c) \/ Leave(c) \/ Stall(c)
  \/ Over

Spec == Init /\ [][Next]_vars

\* Handlers and readers run, NewHook and Receive return, and a read of a dead
\* connection fails.  A client owes nothing: a read may block for ever, and so may
\* a write, which goes on only if the client reads again and again.
Fairness ==
  \A c \in Conns :
    /\ WF_vars(Handle(c))
    /\ SF_vars(Respond(c) \/ Send(c))
    /\ WF_vars(Pong(c))
    /\ WF_vars(~CanWrite(c) /\ ReadFails(c))

FairSpec == Spec /\ Fairness

-----------------------------------------------------------------------------
(* Properties. *)

\* A frame of a message, one that begins it, and one that ends it.
IsData(c, i) == in[c][i][1] \in {"data", "cont"}
Begins(c, i) == in[c][i][1] = "data"
Ends(c, i) == IsData(c, i) /\ in[c][i][2]

\* The message whose frames come next behind frame "from": all frames of messages up to
\* the first that ends one, in order, and only the first of them begins a message.
Message(c, frames, from) ==
  /\ frames # <<>>
  /\ {frames[i] : i \in DOMAIN frames} =
       {i \in DOMAIN in[c] : IsData(c, i) /\ from < i /\ i <= frames[Len(frames)]}
  /\ \A i, j \in DOMAIN frames : i < j => frames[i] < frames[j]
  /\ \A i \in DOMAIN frames : Ends(c, frames[i]) <=> i = Len(frames)
  /\ \A i \in DOMAIN frames : Begins(c, frames[i]) <=> i = 1

\* Where the n-th message that was received ends.
EndOf(c, n) == IF n = 0 THEN 0 ELSE got[c][n][2][Len(got[c][n][2])]

\* When keys are not shared a hook receives exactly the messages that were read on its
\* connection, in order, each from its own fragments, whatever control frames came
\* between and whatever was thrown away; only the last two may be on their way, or lost
\* with the connection: one in the hands of ServeConn and one the reader offers.
Reassembled ==
  \A c \in Conns :
    hook[c] # "none" =>
      /\ \A n \in DOMAIN got[c] :
           got[c][n][1] = c /\ Message(c, got[c][n][2], EndOf(c, n - 1))
      /\ Cardinality({i \in DOMAIN in[c] : Ends(c, i) /\ i > EndOf(c, Len(got[c]))}) <= 2

\* Handler1 loses nothing: every message was read before a first cut, if there is one.
AsSent ==
  ~Native => \A c \in Conns : \A n \in DOMAIN got[c] : cut[c] = 0 \/ EndOf(c, n) <= cut[c]

\* What is delivered is put together of the frames that were read, none skipped and none
\* twice, the first one alone the beginning of a message (native.go, gorilla.go), in
\* states of the types the code can be in.  Up to the first cut these are the frames the
\* client sent; a message that goes on behind it may lack fragments, or end with those
\* of another one.
Whole == TypeOK /\ Reassembled /\ AsSent

\* Clients never keeps the hook of a connection that is over, and every hook
\* was closed then, even when connections share a key.
NothingLeft ==
  \A c \in Conns :
    hpc[c] = "over" => hook[c] # "open" /\ clients[Key[c]] # c

\* The handler waits in a write that has no deadline.
Stuck(c) == hpc[c] \in {"respond", "head", "load"} /\ Blocked(c)

\* A handler ends when the application cancels or the client is gone, unless it waits
\* for ever in a write to a client that stays and reads nothing (native.go:53).
HandlerEnds ==
  \A c \in Conns : <>[]Stuck(c) \/ ((canceled[c] \/ gone[c]) ~> hpc[c] = "over")
=============================================================================
