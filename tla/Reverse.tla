-------------------------------- MODULE Reverse --------------------------------
(***************************************************************************)
(* One request through the reverse proxy (z/ze/gtw/reverse.go; the same    *)
(* steps stand in gateway.go): the round trip, whose 1xx answers are       *)
(* written by a goroutine of the transport, the copy of the body through   *)
(* maxLatencyWriter with its timer, trailers, and the switch of protocols  *)
(* with its three goroutines.  The ResponseWriter must not be used by      *)
(* anybody once the handler is over.                                       *)
(***************************************************************************)
EXTENDS Integers, SequencesExt

CONSTANTS
  MaxUnits,  \* pieces of a body
  MaxHints   \* 1xx answers

VARIABLES
  answer,    \* what the backend answers with, see Answers
  latency,   \* FlushInterval: "none", "later" or "now"
  handler,   \* where ServeHTTP is
  tripDone,  \* roundTripDone
  hints,     \* 1xx answers so far, and whether one waits for the mutex
  header,    \* rw.Header()
  wire,      \* what was written to rw
  shown,     \* how much of it was flushed
  left,      \* pieces of the body the backend still has
  body,      \* the backend's body: "none", "open", "closed"
  pending,   \* maxLatencyWriter.flushPending
  timer,     \* "off", "armed", or "fired": delayedFlush waits for the mutex
  gone,      \* which of "client" and "backend" has gone
  conn,      \* the hijacked connection: "none", "open", "closed"
  copier,    \* the two copiers: "off", "copy", "sends", "over"
  errc,      \* errors in the channel
  closer,    \* the goroutine that closes the backend: "off", "waits", "over"
  closeCh,   \* backConnCloseCh is closed
  late       \* history: rw was used when it must not

respVars == <<header, wire, shown>>
flushVars == <<pending, timer>>
tunnelVars == <<conn, copier, errc, closer, closeCh>>
planVars == <<answer, latency>>
revVars == <<planVars, handler, tripDone, hints, respVars, left, body, flushVars, gone, tunnelVars, late>>

\* No answer at all; an answer ModifyResponse refuses; a body with a length or
\* without one, which comes whole or breaks off, with trailers announced, more
\* than announced or none; a switch of protocols, to the right one or not.
Bodies == [kind : {"body"}, units : 0 .. MaxUnits, sized : BOOLEAN, cut : BOOLEAN,
           trailers : {"none", "announced", "more"}]
Answers == Bodies \cup
  [kind : {"error", "refused", "switch", "other switch"}, units : {0}, sized : {TRUE},
   cut : {FALSE}, trailers : {"none"}]

\* flushInterval: at once if there is no length.
Delay == IF answer.sized THEN latency ELSE "now"

Copiers == {"up", "down"}

Init ==
  /\ answer \in Answers /\ latency \in {"none", "later", "now"}
  /\ handler = "begin" /\ tripDone = FALSE /\ hints = [n |-> 0, waits |-> FALSE]
  /\ header = {} /\ wire = <<>> /\ shown = 0
  /\ left = answer.units /\ body = "none"
  /\ pending = FALSE /\ timer = "off" /\ gone = {}
  /\ conn = "none" /\ copier = [c \in Copiers |-> "off"] /\ errc = 0
  /\ closer = "off" /\ closeCh = FALSE /\ late = FALSE

Goto(from, to) == handler = from /\ handler' = to
Over == handler \in {"over", "aborted"}
Item(kind) == [kind |-> kind, header |-> header, n |-> 0]
Put(item) == wire' = Append(wire, item)

-----------------------------------------------------------------------------
(* Until the answer.                                                       *)

\* The authorizer may set a cookie before the request goes out.
Begin ==
  /\ Goto("begin", "trip")
  /\ \E h \in SUBSET {"cookie"} : header' = h
  /\ UNCHANGED <<planVars, tripDone, hints, wire, shown, left, body, flushVars, gone, tunnelVars, late>>

\* The transport has got a 1xx answer and calls Got1xxResponse.
Hint ==
  /\ handler # "begin" /\ ~hints.waits /\ hints.n < MaxHints /\ handler = "trip"
  /\ hints' = [n |-> hints.n + 1, waits |-> TRUE]
  /\ UNCHANGED <<planVars, handler, tripDone, respVars, left, body, flushVars, gone, tunnelVars, late>>

MayHint == ~tripDone

\* What is left of the header.
Hinted == {}

Got1xxResponse ==
  /\ hints.waits
  /\ hints' = [hints EXCEPT !.waits = FALSE]
  /\ IF MayHint
     THEN /\ wire' = Append(wire, [kind |-> "1xx", header |-> header \cup {"hint"}, n |-> 0])
          /\ header' = Hinted
          /\ late' = (late \/ handler # "trip")
     ELSE UNCHANGED <<wire, header, late>>
  /\ UNCHANGED <<planVars, handler, tripDone, shown, left, body, flushVars, gone, tunnelVars>>

\* RoundTrip returns: with an answer, or with an error, also if the client has
\* gone.  A 1xx answer may still wait.
RoundTrip ==
  /\ \/ answer.kind # "error" /\ Goto("trip", "answered") /\ body' = "open"
     \/ (answer.kind = "error" \/ gone # {}) /\ Goto("trip", "failed") /\ UNCHANGED body
  /\ tripDone' = TRUE
  /\ UNCHANGED <<planVars, hints, respVars, left, flushVars, gone, tunnelVars, late>>

\* The ErrorHandler answers, and the handler is over.
Fail ==
  /\ Goto("failed", "over")
  /\ Put(Item("502")) /\ shown' = Len(wire')
  /\ UNCHANGED <<planVars, tripDone, hints, header, left, body, flushVars, gone, tunnelVars, late>>

AfterRefusal == "closed"

\* modifyResponse.
Refused ==
  /\ answer.kind = "refused" /\ Goto("answered", "failed")
  /\ body' = AfterRefusal
  /\ UNCHANGED <<planVars, tripDone, hints, respVars, left, flushVars, gone, tunnelVars, late>>

-----------------------------------------------------------------------------
(* A body.                                                                 *)

\* The header goes out, CopyResponse sets up its timer.
WriteHeader ==
  /\ answer.kind = "body" /\ Goto("answered", "copy")
  /\ header' = header \cup {"backend"} \cup
       (IF answer.trailers = "none" THEN {} ELSE {"Trailer"})
  /\ Put([kind |-> "header", header |-> header', n |-> 0])
  /\ pending' = (Delay # "none")
  /\ timer' = IF Delay # "none" THEN "armed" ELSE "off"
  /\ UNCHANGED <<planVars, tripDone, hints, shown, left, body, gone, tunnelVars, late>>

\* maxLatencyWriter.Write resets the timer unless a flush is pending.
TimerAfterWrite == IF Delay = "later" /\ ~pending THEN "armed" ELSE timer

\* A piece is read and written.
Copy ==
  /\ left > 0 /\ Goto("copy", "copy") /\ "client" \notin gone
  /\ left' = left - 1
  /\ Put([kind |-> "data", header |-> {}, n |-> answer.units - left'])
  /\ shown' = IF Delay = "now" THEN Len(wire') ELSE shown
  /\ timer' = TimerAfterWrite
  /\ pending' = (pending \/ Delay = "later")
  /\ UNCHANGED <<planVars, tripDone, hints, header, body, gone, tunnelVars, late>>

\* The end of the body, or an error of the backend or the client.
CopyEnds ==
  /\ \/ left = 0 /\ ~answer.cut /\ Goto("copy", "copied")
     \/ ((left = 0 /\ answer.cut) \/ gone # {}) /\ Goto("copy", "broken")
  /\ UNCHANGED <<planVars, tripDone, hints, respVars, left, body, flushVars, gone, tunnelVars, late>>

\* The time is over.
TimerFires ==
  /\ timer = "armed" /\ timer' = "fired"
  /\ UNCHANGED <<planVars, handler, tripDone, hints, respVars, left, body, pending, gone, tunnelVars, late>>

\* Mutant: delayedFlush flushes whatever happened meanwhile.
MayFlush_Always == TRUE

MayFlush == pending

delayedFlush ==
  /\ timer = "fired" /\ timer' = "off"
  /\ IF MayFlush
     THEN shown' = Len(wire) /\ pending' = FALSE /\ late' = (late \/ Over)
     ELSE UNCHANGED <<shown, pending, late>>
  /\ UNCHANGED <<planVars, handler, tripDone, hints, header, wire, left, body, gone, tunnelVars>>

\* The deferred stop, whether there was an error or not.
Stop ==
  /\ \/ Goto("copied", "trailers") \/ Goto("broken", "panics")
  /\ pending' = FALSE
  /\ timer' = IF timer = "armed" THEN "off" ELSE timer
  /\ UNCHANGED <<planVars, tripDone, hints, respVars, left, body, gone, tunnelVars, late>>

\* The body is closed.  Trailers that were all announced go by their names, all
\* others with a prefix, and force chunks.
Trailers ==
  /\ Goto("trailers", "over")
  /\ body' = "closed"
  /\ wire' = CASE answer.trailers = "none" -> wire
               [] answer.trailers = "announced" -> Append(wire, Item("trailers"))
               [] answer.trailers = "more" -> Append(wire, Item("prefixed trailers"))
  /\ shown' = Len(wire')
  /\ UNCHANGED <<planVars, tripDone, hints, header, left, flushVars, gone, tunnelVars, late>>

\* ErrAbortHandler: the server cuts the connection.
Panics ==
  /\ Goto("panics", "aborted")
  /\ body' = "closed"
  /\ UNCHANGED <<planVars, tripDone, hints, respVars, left, flushVars, gone, tunnelVars, late>>

-----------------------------------------------------------------------------
(* handleUpgradeResponse.                                                  *)

\* The backend switched to another protocol than was asked for.  One whose name cannot
\* be printed is answered twice; ResponseWriter ignores the second status.
OtherSwitch ==
  /\ answer.kind = "other switch" /\ Goto("answered", "failed")
  /\ UNCHANGED <<planVars, tripDone, hints, respVars, left, body, flushVars, gone, tunnelVars, late>>

\* The backend's body cannot be written to, or the ResponseWriter cannot be hijacked:
\* nothing is there yet that would close the body.
Unswitched ==
  /\ answer.kind = "switch" /\ Goto("answered", "failed")
  /\ UNCHANGED <<planVars, tripDone, hints, respVars, left, body, flushVars, gone, tunnelVars, late>>

\* Hijack: from here on a goroutine closes the backend.
Hijack ==
  /\ answer.kind = "switch"
  /\ \/ Goto("answered", "switching") /\ conn' = "open"
     \/ Goto("answered", "hijackFails") /\ UNCHANGED conn
  /\ closer' = "waits"
  /\ UNCHANGED <<planVars, tripDone, hints, respVars, left, body, flushVars, gone, copier, errc, closeCh, late>>

\* Its deferred calls.
CloseBoth ==
  /\ closeCh' = TRUE
  /\ conn' = IF conn = "open" THEN "closed" ELSE conn

HijackFails ==
  /\ Goto("hijackFails", "failed")
  /\ CloseBoth
  /\ UNCHANGED <<planVars, tripDone, hints, respVars, left, body, flushVars, gone, copier, errc, closer, late>>

\* The answer 101 is written to the connection, and the copiers start, unless
\* that fails.
Switch ==
  /\ \/ /\ Goto("switching", "tunnel") /\ copier' = [c \in Copiers |-> "copy"]
        /\ Put(Item("101")) /\ shown' = Len(wire')
        /\ UNCHANGED <<conn, closeCh>>
     \/ /\ "client" \in gone /\ Goto("switching", "over") /\ CloseBoth
        /\ UNCHANGED <<copier, wire, shown>>
  /\ UNCHANGED <<planVars, tripDone, hints, header, left, body, flushVars, gone, errc, closer, late>>

\* io.Copy ends when one of its ends is gone or closed.
CopierEnds(c) ==
  /\ copier[c] = "copy" /\ (gone # {} \/ conn = "closed" \/ body = "closed")
  /\ copier' = [copier EXCEPT ![c] = "sends"]
  /\ UNCHANGED <<planVars, handler, tripDone, hints, respVars, left, body, flushVars, gone, conn, errc, closer, closeCh, late>>

\* Mutant: a channel without a buffer, that nobody reads any more.
Room_None == handler = "tunnel" /\ errc = 0

Room == errc < 1

CopierSends(c) ==
  /\ copier[c] = "sends" /\ Room
  /\ copier' = [copier EXCEPT ![c] = "over"]
  /\ errc' = errc + 1
  /\ UNCHANGED <<planVars, handler, tripDone, hints, respVars, left, body, flushVars, gone, conn, closer, closeCh, late>>

\* The first error ends the handler.
TunnelEnds ==
  /\ errc = 1 /\ Goto("tunnel", "over")
  /\ errc' = 0
  /\ CloseBoth
  /\ UNCHANGED <<planVars, tripDone, hints, respVars, left, body, flushVars, gone, copier, closer, late>>

\* The request was canceled (the server ends it with the handler), or the
\* handler is over.
MayClose == closeCh \/ ("client" \in gone /\ conn = "none")

Closer ==
  /\ closer = "waits" /\ MayClose
  /\ closer' = "over" /\ body' = "closed"
  /\ UNCHANGED <<planVars, handler, tripDone, hints, respVars, left, flushVars, gone, conn, copier, errc, closeCh, late>>

-----------------------------------------------------------------------------

\* The client or the backend goes away.
Leave(who) ==
  /\ who \notin gone /\ ~Over
  /\ gone' = gone \cup {who}
  /\ UNCHANGED <<planVars, handler, tripDone, hints, respVars, left, body, flushVars, tunnelVars, late>>

HandlerStep ==
  \/ Begin \/ RoundTrip \/ Fail \/ Refused \/ WriteHeader \/ CopyEnds \/ Stop \/ Trailers \/ Panics
  \/ OtherSwitch \/ Unswitched \/ Hijack \/ HijackFails \/ Switch \/ TunnelEnds

Others ==
  \/ Got1xxResponse \/ TimerFires \/ delayedFlush \/ Closer
  \/ \E c \in Copiers : CopierEnds(c) \/ CopierSends(c)

Next ==
  \/ HandlerStep \/ Copy \/ Others \/ Hint
  \/ \E who \in {"client", "backend"} : Leave(who)

Spec == Init /\ [][Next]_revVars

\* Goroutines that can go on do; the backend need not send.
Fairness == WF_revVars(HandlerStep) /\ WF_revVars(Others)

-----------------------------------------------------------------------------
(* Properties. *)

\* Nobody writes to the ResponseWriter or flushes it once the handler is over,
\* and no 1xx answer meets the header of the final one.
NotLate == ~late

\* Where the pieces of the body stand, and the final answer.
Datas == {i \in DOMAIN wire : wire[i].kind = "data"}
Finals == {i \in DOMAIN wire : wire[i].kind \in {"header", "502", "101"}}
Pieces == {wire[i].n : i \in Datas}

\* The client gets 1xx answers, then one final answer with no field of theirs,
\* then the body from its beginning, each piece once and in order; when the
\* handler ends like any other it got it all, and a body that broke off ends in
\* a cut connection.
AnswerFaithful ==
  /\ \A i, j \in Finals : i = j
  /\ \A i \in Finals : "hint" \notin wire[i].header
  /\ \A i, j \in DOMAIN wire : wire[i].kind = "1xx" /\ wire[j].kind # "1xx" => i < j
  /\ \A i \in Datas : \E j \in Finals : j < i /\ wire[j].kind = "header"
  /\ \E n \in 0 .. answer.units : Pieces = 1 .. n
  /\ \A i, j \in Datas : i < j => wire[i].n < wire[j].n
  /\ handler = "over" /\ (\E i \in Finals : wire[i].kind = "header") =>
       ~answer.cut /\ Pieces = 1 .. answer.units /\ shown = Len(wire)

\* When the handler is over nothing is left to the garbage collector: the hijacked
\* connection is closed, and the backend's body is closed or a goroutine waits to do it.
\* The exception is an answer 101 after which no protocol was switched, because it is
\* not the one asked for, or the body or the ResponseWriter do not allow it: its body
\* stays open.
Released ==
  Over => /\ conn # "open"
          /\ body = "open" => \/ closer = "waits"
                              \/ closer = "off" /\ answer.kind \in {"switch", "other switch"}

\* With a flush interval, what was written is shown to the client, also while
\* the backend is silent.
ShownInTime ==
  \A n \in 1 .. MaxUnits + MaxHints + 1 :
    (handler = "copy" /\ Delay # "none" /\ Len(wire) = n) ~> (shown >= n \/ handler # "copy")

\* When the client or the backend goes, the handler and all its goroutines end.
AllEnd ==
  gone # {} ~> /\ Over /\ closer # "waits"
               /\ \A c \in Copiers : copier[c] \in {"off", "over"}
=============================================================================
