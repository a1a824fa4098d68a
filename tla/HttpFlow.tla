------------------------------- MODULE HttpFlow -------------------------------
(***************************************************************************)
(* One direction of one TCP connection as the eBPF monitor sees it:        *)
(* processTCPFlow of app/ebpfgo/monitor.go with its buffer and its parsers *)
(* of HTTP and TLS.  Captured payloads are put together without sequence   *)
(* numbers; each message found is emitted as one event.  A packet may be   *)
(* lost, come once more or come at another time: the socket is bound to no *)
(* interface and sees a packet on each that it passes, and nothing tells a *)
(* retransmission from what is new.                                        *)
(*                                                                         *)
(* process_tcp_flow of app/ebpf/monitor.c, of which this is a port, does   *)
(* the same but knows Content-Length in one spelling only; with it a limit *)
(* of 0 occurs, which normalizeConfig turns into -1.                       *)
(*                                                                         *)
(* Bytes come in pieces that are never split here: the start line with the *)
(* header fields, the empty line after it, a unit of a body, a chunk, the  *)
(* last chunk, a TLS record.                                               *)
(***************************************************************************)
EXTENDS Integers, Sequences, SequencesExt

CONSTANTS
  Limits,      \* integers, the values of BodyLimit to look at: -1 no body, 0 all, n at most n
  Cap,         \* flowBufferCap
  CapPayload,  \* capPayload, what is kept of a packet
  Scan,        \* how far from its start a TLS record is looked for
  MaxLen,      \* bound: units of a body
  MaxMsgs,     \* bound: messages
  MaxSent,     \* bound: pieces of all messages
  MaxPacket,   \* bound: pieces in a packet
  MaxStray     \* bound: packets out of their turn

VARIABLES
  limit,   \* cfg.BodyLimit
  buf,     \* flow.TCPBuffer
  tls,     \* flow.TLSEmitted
  events,  \* what was emitted
  msgs,    \* the messages the application sent
  wire,    \* all their pieces, as they are put on the wire
  out,     \* those that have not had their turn
  strays,  \* history: how many packets came out of their turn
  clean,   \* history: every packet came once, in its turn and was kept whole, and no
           \* message is as the parser cannot know
  aligned  \* history: no packet had a part of a message only, however it came

flowVars == <<buf, tls, events>>
vars == <<limit, flowVars, msgs, wire, out, strays, clean, aligned>>

\* A message without a body (a GET, a 204), with a Content-Length, chunked, one
\* that ends with the connection (or a CONNECT), the answer to a HEAD, which has
\* a Content-Length and no body; a TLS hello, and what follows it.
HttpKinds == {"bare", "fixed", "chunked", "open", "head"}
Kinds == HttpKinds \cup {"hello", "secret"}

Piece(i, part, n) == [msg |-> i, part |-> part, n |-> n]

PiecesOf(i, kind, n) ==
  LET units(part) == [j \in 1 .. n |-> Piece(i, part, j)] IN
  IF kind \notin HttpKinds
  THEN <<Piece(i, kind, 0)>>
  ELSE <<Piece(i, "line", 0), Piece(i, "blank", 0)>> \o
       CASE kind = "chunked"         -> Append(units("chunk"), Piece(i, "last", 0))
         [] kind \in {"fixed", "open"} -> units("body")
         [] OTHER                    -> <<>>

TypeOK ==
  /\ limit \in Limits
  /\ Len(buf) <= Cap
  /\ \A i \in DOMAIN buf : buf[i].msg \in DOMAIN msgs
  /\ {tls, clean, aligned} \subseteq BOOLEAN
  /\ \A i \in DOMAIN events : events[i].msg \in DOMAIN msgs
  /\ \A i \in DOMAIN msgs : msgs[i] \in [kind : Kinds, n : 0 .. MaxLen]
  /\ \A i \in DOMAIN out : out[i].msg \in DOMAIN msgs
  /\ \A i \in DOMAIN wire : wire[i].msg \in DOMAIN msgs
  /\ strays \in 0 .. MaxStray

Init ==
  /\ limit \in Limits
  /\ buf = <<>> /\ tls = FALSE /\ events = <<>>
  /\ msgs = <<>> /\ wire = <<>> /\ out = <<>>
  /\ strays = 0 /\ clean = TRUE /\ aligned = TRUE

-----------------------------------------------------------------------------
(* The sender.                                                             *)

\* A CONNECT is followed by TLS, once it is answered.
MayFollow(kind) ==
  IF msgs = <<>>
  THEN kind # "secret"
  ELSE LET last == msgs[Len(msgs)] IN
       CASE kind = "hello"  -> last.kind = "open" /\ last.n = 0 /\ out = <<>>
         [] kind = "secret" -> last.kind \in {"hello", "secret"}
         [] OTHER           -> last.kind \in HttpKinds

\* What the headers do not tell: that the answer to a HEAD has no body, and that
\* a message ends though no Content-Length says so.
Knowable(kind, n) ==
  /\ kind = "head" => n = 0
  /\ kind \in HttpKinds => \A i \in DOMAIN msgs : msgs[i].kind # "open"

Send(kind, n) ==
  /\ Len(msgs) < MaxMsgs
  /\ MayFollow(kind)
  /\ kind \in {"bare", "hello", "secret"} => n = 0
  /\ msgs' = Append(msgs, [kind |-> kind, n |-> n])
  /\ out' = out \o PiecesOf(Len(msgs) + 1, kind, n)
  /\ wire' = wire \o PiecesOf(Len(msgs) + 1, kind, n)
  /\ Len(wire') <= MaxSent
  /\ clean' = (clean /\ Knowable(kind, n))
  /\ aligned' = (aligned /\ Knowable(kind, n))
  /\ UNCHANGED <<limit, flowVars, strays>>

-----------------------------------------------------------------------------
(* The buffer.                                                             *)

Least(a, b) == IF a < b THEN a ELSE b

First(s, n) == SubSeq(s, 1, Least(n, Len(s)))
After(s, n) == SubSeq(s, n + 1, Len(s))

\* bufferAppend drops the oldest.
Appended(b, data) ==
  LET all == b \o data IN
  IF Len(all) <= Cap THEN all ELSE After(all, Len(all) - Cap)

-----------------------------------------------------------------------------
(* The parsers.                                                            *)

\* What parseTLSClientHello and parseTLSServerHello understand.
IsHello(p) == p.part = "hello"

\* looksLikeTLSRecord.
IsRecord(p) == p.part \in {"hello", "secret"}

\* Where a hello is: at the end of a chain of records that starts near the
\* front.  0 if there is none.
HelloAt(b) ==
  LET chains == {j \in DOMAIN b :
                   /\ IsHello(b[j])
                   /\ \E i \in 1 .. Least(j, Scan) :
                        /\ j - i < 8
                        /\ \A k \in i .. j - 1 : IsRecord(b[k])} IN
  IF chains = {} THEN 0 ELSE CHOOSE j \in chains : \A k \in chains : j <= k

\* The first field of a kind in the block of the header: if pieces were lost the
\* block may be made of the headers of several messages.  0 if there is none.
Field(b, end, kinds) ==
  SelectInSubSeq(b, 1, end, LAMBDA p : p.part = "line" /\ msgs[p.msg].kind \in kinds)

\* isHTTPRequestStart, or a status line.
IsStart(p) == p.part = "line"

HeaderEnd(b) == SelectInSeq(b, LAMBDA p : p.part = "blank")

\* Nothing to be taken from the buffer yet.
NoMessage == [used |-> 0, body |-> <<>>]

Complete(avail, n) == limit # 0 \/ avail >= n

\* The body is only shown if it is all there.
Body(b, end, kept) ==
  IF end + kept <= Len(b) THEN SubSeq(b, end + 1, end + kept) ELSE <<>>

\* A body with a Content-Length: how much of it is kept and how much is used.
FixedBody(b, end, n) ==
  LET avail == Len(b) - end
      kept  == CASE limit < 0 -> 0
                 [] limit = 0 -> n
                 [] limit > 0 -> Least(Least(avail, n), limit) IN
  IF Complete(avail, n)
  THEN [used |-> Least(end + n, Len(b)), body |-> Body(b, end, kept)]
  ELSE NoMessage

\* Without one it is what has arrived.
OpenBody(b, end) ==
  LET avail == Len(b) - end
      kept  == CASE limit < 0 -> 0
                 [] limit = 0 -> avail
                 [] limit > 0 -> Least(avail, limit) IN
  [used |-> end + kept, body |-> Body(b, end, kept)]

\* Mutant: the last chunk stays in the buffer.
ChunksUsed_ButLast(last) == last - 1

ChunksUsed(last) == last

\* Chunks up to the last one; anything else among them is an error, which is
\* not told from a body that is not complete.
ChunkedBody(b, end) ==
  LET last == SelectInSubSeq(b, end + 1, Len(b), LAMBDA p : p.part # "chunk") IN
  IF limit < 0
  THEN [used |-> end, body |-> <<>>]
  ELSE IF last = 0 \/ b[last].part # "last"
  THEN NoMessage
  ELSE [used |-> ChunksUsed(last),
        body |-> LET all == SubSeq(b, end + 1, last - 1) IN
                 IF limit = 0 THEN all ELSE First(all, limit)]

NoBody(kind) == kind = "bare"

\* parseHTTPMessage.
Parse(b) ==
  LET end    == HeaderEnd(b)
      length == Field(b, end, {"fixed", "head"}) IN
  IF b = <<>> \/ end = 0 \/ ~IsStart(b[1])
  THEN NoMessage
  ELSE IF NoBody(msgs[b[1].msg].kind)
  THEN [used |-> end, body |-> <<>>]
  ELSE IF Field(b, end, {"chunked"}) # 0
  THEN ChunkedBody(b, end)
  ELSE IF length # 0
  THEN FixedBody(b, end, msgs[b[length].msg].n)
  ELSE OpenBody(b, end)

Event(b, body) == [msg |-> b[1].msg, body |-> body]

\* The loop of processTCPFlow: after k messages.
After_k(b) ==
  LET f[k \in 0 .. Cap] ==
        IF k = 0
        THEN [buf |-> b, tls |-> tls, events |-> events]
        ELSE LET s == f[k - 1]
                 m == Parse(s.buf) IN
             IF m.used = 0
             THEN s
             ELSE [buf |-> After(s.buf, m.used), tls |-> FALSE,
                   events |-> Append(s.events, Event(s.buf, m.body))]
  IN f[Cap]

Process(data) ==
  LET b == Appended(buf, data)
      h == HelloAt(b)
      s == After_k(b) IN
  IF h # 0 /\ ~tls
  THEN /\ events' = Append(events, Event(<<b[h]>>, <<>>))
       /\ tls' = TRUE
       /\ buf' = <<>>
  ELSE buf' = s.buf /\ tls' = s.tls /\ events' = s.events

-----------------------------------------------------------------------------
(* Packets.                                                                *)

Captured(data) == First(data, CapPayload)

EndsMessage(n) == n = Len(out) \/ out[n + 1].msg # out[n].msg

\* Nothing is cut off the packet, and nothing has to make room for it.
Kept(data) == Len(data) <= CapPayload /\ Len(buf) + Len(data) <= Cap

\* A message that begins in the packet is all in it, and behind one that has no end
\* of its own there is nothing else.
Entire(data) ==
  \A k \in DOMAIN data : IsStart(data[k]) =>
    LET i      == data[k].msg
        pieces == PiecesOf(i, msgs[i].kind, msgs[i].n)
        rest   == After(data, k - 1) IN
    IF msgs[i].kind = "open" THEN rest = pieces ELSE IsPrefix(pieces, rest)

\* The next packet.
Packet(n) ==
  /\ n \in 1 .. Len(out)
  /\ Process(Captured(First(out, n)))
  /\ out' = After(out, n)
  /\ clean' = (clean /\ Kept(First(out, n)))
  /\ aligned' = (aligned /\ EndsMessage(n) /\ Kept(First(out, n)) /\ Entire(First(out, n)))
  /\ UNCHANGED <<limit, msgs, wire, strays>>

\* A packet once more, because it is sent again or passes another interface, or a
\* later one before its turn.  Packets of other pieces than before: those that are
\* sent again may be put together in another way.
Stray(i, n) ==
  /\ strays < MaxStray
  /\ i + n <= Len(wire)
  /\ LET data == SubSeq(wire, i + 1, i + n) IN
     /\ Process(Captured(data))
     /\ aligned' = (aligned /\ Kept(data) /\ Entire(data))
  /\ strays' = strays + 1
  /\ clean' = FALSE
  /\ UNCHANGED <<limit, msgs, wire, out>>

\* The socket of the monitor is full, or it is not running yet.
Lose(n) ==
  /\ n \in 1 .. Len(out)
  /\ out' = After(out, n)
  /\ clean' = FALSE
  /\ UNCHANGED <<limit, flowVars, msgs, wire, strays, aligned>>

\* The application is silent.
Silence == out = <<>> /\ UNCHANGED vars

Next ==
  \/ \E kind \in Kinds, n \in 0 .. MaxLen : Send(kind, n)
  \/ \E n \in 1 .. MaxPacket : Packet(n) \/ Lose(n) \/ \E i \in 0 .. Len(wire) : Stray(i, n)
  \/ Silence

Spec == Init /\ [][Next]_vars

-----------------------------------------------------------------------------
(* Properties. *)

\* The body of the message as it was sent, as far as the limit goes.
BodyOf(i) ==
  LET m   == msgs[i]
      all == CASE m.kind = "chunked"          -> [j \in 1 .. m.n |-> Piece(i, "chunk", j)]
               [] m.kind \in {"fixed", "open"} -> [j \in 1 .. m.n |-> Piece(i, "body", j)]
               [] OTHER                        -> <<>> IN
  CASE limit < 0 -> <<>>
    [] limit = 0 -> all
    [] limit > 0 -> First(all, limit)

\* As long as every packet comes once and in its turn no event mixes messages,
\* whatever the limit and wherever packets are cut: its body is the beginning of that
\* of its message, and events come in the order of the messages, one each.  If packets
\* have no parts of messages, none mixes them whatever packets are lost, come again
\* or come before their turn; then there may be several of a message, in any order.
Unmixed ==
  /\ clean \/ aligned => \A i \in DOMAIN events : IsPrefix(events[i].body, BodyOf(events[i].msg))
  /\ clean => \A i \in 2 .. Len(events) : events[i].msg > events[i - 1].msg

\* No message that is all there is left in the buffer until another packet comes,
\* whatever packets came before.
Drained == Parse(buf).used = 0

\* Everything an event of this message waits for has arrived.
Arrived(i) ==
  CASE msgs[i].kind = "secret" -> FALSE
    [] msgs[i].kind = "open"   -> ~\E k \in DOMAIN out : out[k] = Piece(i, "blank", 0)
    [] OTHER                   -> ~\E k \in DOMAIN out : out[k].msg = i

\* Then nothing is missing either, if whole bodies are wanted.  With a limit that
\* takes packets that end with a message, and without bodies no chunks, because
\* the rest of a body would stay at the front of the buffer.
InStep ==
  \/ limit = 0
  \/ aligned /\ (limit > 0 \/ \A i \in DOMAIN msgs : msgs[i].kind # "chunked")

NothingMissing ==
  clean /\ InStep =>
    /\ {events[i].msg : i \in DOMAIN events} = {i \in DOMAIN msgs : Arrived(i)}
    /\ \A i \in DOMAIN events :
         msgs[events[i].msg].kind # "open" => events[i].body = BodyOf(events[i].msg)
=============================================================================
