-------------------------------- MODULE WsConn --------------------------------
(***************************************************************************)
(* The WebSocket connection of z/ze/wsg/conn.go, server side, without      *)
(* compression.  One goroutine writes messages, one reads them, and any    *)
(* number call WriteControl; the reader calls it too, to answer pings,     *)
(* close frames and violations of the protocol.  All of them write to the  *)
(* same connection, under the lock mu, and share writeErr.                 *)
(*                                                                         *)
(* Payloads are counted in units.  What a critical section of mu does is   *)
(* split in two, taking the lock and writing, since the write may block.   *)
(***************************************************************************)
EXTENDS Integers, Sequences, FiniteSets

CONSTANTS
  Controls,  \* the goroutines that call WriteControl
  Writer,    \* the goroutine that writes messages
  Reader,    \* the goroutine that reads them
  Nobody,    \* the lock is free
  Cap,       \* the units the write buffer holds
  CtlMax,    \* the units a control frame may carry
  Limit,     \* readLimit, 0 for none
  Sizes,     \* bound: the units one call of Write or WriteMessage may carry
  MaxUnits,  \* bound: the units of one message written
  MaxFrame,  \* bound: the units of one frame read
  MaxWork    \* bound: how many messages are written (twice), frames read and control
             \* frames asked for, all together

ASSUME WsConnAssumption ==
  /\ Writer # Reader /\ {Writer, Reader} \cap Controls = {}
  /\ Nobody \notin Controls \cup {Writer, Reader}
  /\ Cap \in Nat \ {0} /\ CtlMax \in Nat
  /\ Sizes \subseteq 1 .. MaxUnits
  /\ {Limit, MaxUnits, MaxFrame, MaxWork} \subseteq Nat

VARIABLES
  mu,        \* who has the lock
  writeErr,  \* Conn.writeErr
  wire,      \* what was written to the connection: frames
  \* the writer
  wpc,       \* where the writer is
  wnext,     \* where it goes on after the flush
  ask,       \* the call it is in: the kind of the message, its units,
             \* 0 for NextWriter
  mw,        \* the open messageWriter: message, frame type, its part of writeBuf
  final,     \* the final argument of flushFrame
  todo,      \* the units of Write that are not in the buffer yet
  nmsg,      \* history: how many messages were begun
  wrote,     \* history: the units the application gave to the open message
  sent,      \* history: the messages that were closed without an error
  \* WriteControl
  cpc,       \* where the call is
  ckind,     \* the kind of the control frame
  ncall,     \* how often Controls called it
  late,      \* history: a close frame of the reader ran into its deadline
  \* the reader
  rpc,       \* where the reader is
  readErr,   \* Conn.readErr
  verdict,   \* the error it returns once its WriteControl is done
  readFinal, readRemaining, readLength, messageReader,
  in,        \* history: the frames read
  got        \* history: the messages delivered: first frame, units, whole

writeVars == <<wpc, wnext, ask, mw, final, todo, nmsg, wrote, sent>>
ctlVars   == <<cpc, ckind, ncall, late>>
frameVars == <<readFinal, readRemaining, readLength, messageReader>>
readVars  == <<rpc, readErr, verdict, frameVars, in, got>>
vars == <<mu, writeErr, wire, writeVars, ctlVars, readVars>>

Actors   == Controls \cup {Reader}
Control  == {"ping", "pong", "close"}
Kinds    == {"data", "cont"} \cup Control
NoWriter == [msg |-> 0, kind |-> "data", buf |-> 0]
NoAsk    == [kind |-> "data", units |-> 0]

TypeOK ==
  /\ mu \in Actors \cup {Writer, Nobody}
  /\ writeErr \in {"none", "closeSent", "io"}
  /\ wire \in Seq([kind : Kinds, final : BOOLEAN, msg : 0 .. MaxWork,
                   units : 0 .. MaxUnits, torn : BOOLEAN])
  /\ wpc \in {"idle", "begin", "put", "flush", "send"}
  /\ wnext \in {"idle", "begin", "put"}
  /\ ask \in [kind : Kinds, units : 0 .. MaxUnits]
  /\ mw \in [msg : 0 .. MaxWork, kind : Kinds, buf : 0 .. MaxUnits]
  /\ final \in BOOLEAN /\ todo \in 0 .. MaxUnits /\ nmsg \in 0 .. MaxWork
  /\ wrote \in 0 .. MaxUnits
  /\ sent \in Seq((0 .. MaxWork) \X (0 .. MaxUnits))
  /\ cpc \in [Actors -> {"idle", "lock", "send"}]
  /\ ckind \in [Actors -> Control]
  /\ ncall \in 0 .. MaxWork /\ late \in BOOLEAN
  /\ rpc \in {"idle", "next", "read", "reply"}
  /\ {readErr, verdict} \subseteq {"none", "io", "protocol", "limit", "overflow",
                               "closed"}
  /\ {readFinal, messageReader} \subseteq BOOLEAN
  /\ {readRemaining, readLength} \subseteq Nat
  /\ in \in Seq(Kinds \X BOOLEAN \X (0 .. MaxFrame))
  /\ got \in Seq([at : Nat, units : Nat, whole : BOOLEAN])
  /\ \A i \in DOMAIN got : got[i].at \in DOMAIN in

Init ==
  /\ mu = Nobody /\ writeErr = "none" /\ wire = <<>>
  /\ wpc = "idle" /\ wnext = "idle" /\ ask = NoAsk
  /\ mw = NoWriter /\ final = FALSE /\ todo = 0
  /\ nmsg = 0 /\ wrote = 0 /\ sent = <<>>
  /\ cpc = [c \in Actors |-> "idle"]
  /\ ckind = [c \in Actors |-> "ping"]
  /\ ncall = 0
  /\ late = FALSE
  /\ rpc = "idle" /\ readErr = "none" /\ verdict = "none"
  /\ readFinal = TRUE /\ readRemaining = 0 /\ readLength = 0
  /\ messageReader = FALSE
  /\ in = <<>> /\ got = <<>>

\* A message counts twice, for the opening and the closing.
MoreWork == 2 * nmsg + Len(in) + ncall < MaxWork

-----------------------------------------------------------------------------
(* The connection.  Whoever writes has the lock.                            *)

MayWrite == writeErr = "none"

ErrAfter(kind) == IF kind = "close" THEN "closeSent" ELSE writeErr

Frame(kind, fin, msg, units, torn) ==
  [kind |-> kind, final |-> fin, msg |-> msg, units |-> units, torn |-> torn]

\* The frame goes out.
Writes(f) ==
  /\ MayWrite
  /\ wire' = Append(wire, f)
  /\ writeErr' = ErrAfter(f.kind)

\* At most a part of it does; or an error of another write forbids it.
WriteErrs(f) ==
  \/ /\ MayWrite
     /\ wire' = Append(wire, [f EXCEPT !.torn = TRUE])
     /\ writeErr' = "io"
  \/ ~MayWrite /\ UNCHANGED <<wire, writeErr>>

Acquire(a) == mu = Nobody /\ mu' = a
Release == mu' = Nobody

-----------------------------------------------------------------------------
(* The writer: NextWriter, Write, Close, WriteMessage.                      *)

Open == mw.msg # 0

\* A message is begun.  The fast path of WriteMessage flushes at once, in one
\* frame; the units of NextWriter are 0.
BeginMessage(kind, units) ==
  /\ writeErr = "none"
  /\ nmsg' = nmsg + 1
  /\ mw' = [msg |-> nmsg + 1, kind |-> kind, buf |-> units]
  /\ wrote' = units
  /\ wpc' = IF units > 0 THEN "flush" ELSE "idle"
  /\ wnext' = "idle"
  /\ final' = TRUE
  /\ ask' = NoAsk

NextMessage(kind, units) ==
  /\ wpc = "idle" /\ MoreWork /\ ~Open
  /\ BeginMessage(kind, units)
  /\ UNCHANGED <<mu, writeErr, wire, todo, sent, ctlVars, readVars>>

\* beginMessage first closes a writer the application left open ...
NextMessageCloses(kind, units) ==
  /\ wpc = "idle" /\ MoreWork /\ Open
  /\ ask' = [kind |-> kind, units |-> units]
  /\ wpc' = "flush" /\ wnext' = "begin" /\ final' = TRUE
  /\ UNCHANGED <<mu, writeErr, wire, mw, todo, nmsg, wrote, sent, ctlVars, readVars>>

\* ... and ignores its error; its own it returns.
Begin ==
  /\ wpc = "begin"
  /\ \/ BeginMessage(ask.kind, ask.units)
     \/ /\ writeErr # "none"
        /\ wpc' = "idle"
        /\ ask' = NoAsk
        /\ UNCHANGED <<wnext, mw, final, nmsg, wrote>>
  /\ UNCHANGED <<mu, writeErr, wire, todo, sent, ctlVars, readVars>>

\* Write: more than twice the buffer is sent at once, together with what the
\* buffer holds (the room for the header in writeBuf is not counted) ...
WriteBig(n) ==
  /\ wpc = "idle" /\ Open /\ n > 2 * Cap /\ wrote + n <= MaxUnits
  /\ mw' = [mw EXCEPT !.buf = @ + n]
  /\ wrote' = wrote + n
  /\ wpc' = "flush" /\ wnext' = "idle" /\ final' = FALSE
  /\ UNCHANGED <<mu, writeErr, wire, ask, todo, nmsg, sent, ctlVars, readVars>>

Kept(n) == mw.buf + n

\* ... the rest goes through the buffer, which is flushed when it is full and
\* there is more to come.
Fill(n) ==
  LET room == Cap - mw.buf
      fits == IF n < room THEN n ELSE room IN
  /\ mw' = [mw EXCEPT !.buf = Kept(fits)]
  /\ todo' = n - fits
  /\ wpc' = IF fits = n THEN "idle" ELSE "flush"
  /\ wnext' = "put" /\ final' = FALSE

Write(n) ==
  /\ wpc = "idle" /\ Open /\ n \in 1 .. 2 * Cap /\ wrote + n <= MaxUnits
  /\ Fill(n)
  /\ wrote' = wrote + n
  /\ UNCHANGED <<mu, writeErr, wire, ask, nmsg, sent, ctlVars, readVars>>

WriteRest ==
  /\ wpc = "put"
  /\ Fill(todo)
  /\ UNCHANGED <<mu, writeErr, wire, ask, nmsg, wrote, sent, ctlVars, readVars>>

CloseWriter ==
  /\ wpc = "idle" /\ Open
  /\ wpc' = "flush" /\ wnext' = "idle" /\ final' = TRUE
  /\ UNCHANGED <<mu, writeErr, wire, ask, mw, todo, nmsg, wrote, sent, ctlVars,
                 readVars>>

\* endMessage.  An error of Write ends Write; that of Close is ignored by
\* beginMessage, which goes on.
EndMessage ==
  /\ mw' = NoWriter
  /\ todo' = 0
  /\ wrote' = 0
  /\ wpc' = IF wnext = "begin" THEN "begin" ELSE "idle"
  /\ wnext' = "idle" /\ final' = FALSE

ControlTooLong == mw.kind \in Control /\ (~final \/ mw.buf > CtlMax)

FlushRefuses ==
  /\ wpc = "flush" /\ ControlTooLong
  /\ EndMessage
  /\ UNCHANGED <<mu, writeErr, wire, ask, nmsg, sent, ctlVars, readVars>>

WriterLocks ==
  /\ wpc = "flush" /\ ~ControlTooLong
  /\ Acquire(Writer)
  /\ wpc' = "send"
  /\ UNCHANGED <<writeErr, wire, wnext, ask, mw, final, todo, nmsg, wrote, sent,
                 ctlVars, readVars>>

OutFrame == Frame(mw.kind, final, mw.msg, mw.buf, FALSE)

\* Mutant: the frames after the first keep its type.
NextKind_Same == mw.kind

NextKind == "cont"

WriterSends ==
  /\ wpc = "send"
  /\ Writes(OutFrame)
  /\ Release
  /\ IF final
     THEN EndMessage /\ sent' = Append(sent, <<mw.msg, wrote>>)
     ELSE /\ mw' = [mw EXCEPT !.kind = NextKind, !.buf = 0]
          /\ wpc' = wnext
          /\ UNCHANGED <<wnext, final, todo, wrote, sent>>
  /\ UNCHANGED <<ask, nmsg, ctlVars, readVars>>

WriterFails ==
  /\ wpc = "send"
  /\ WriteErrs(OutFrame)
  /\ Release
  /\ EndMessage
  /\ UNCHANGED <<ask, nmsg, sent, ctlVars, readVars>>

-----------------------------------------------------------------------------
(* WriteControl, with a deadline.                                           *)

CallControl(c, kind) ==
  /\ cpc[c] = "idle"
  /\ cpc' = [cpc EXCEPT ![c] = "lock"]
  /\ ckind' = [ckind EXCEPT ![c] = kind]
  /\ UNCHANGED late

WriteControl(c, kind) ==
  /\ MoreWork
  /\ CallControl(c, kind)
  /\ ncall' = ncall + 1
  /\ UNCHANGED <<mu, writeErr, wire, writeVars, readVars>>

\* Mutant: the timer is not looked at.
Timer_Never == FALSE

Timer == TRUE

ControlTimeout(c) ==
  /\ cpc[c] = "lock"
  /\ Timer
  /\ cpc' = [cpc EXCEPT ![c] = "idle"]
  /\ ckind' = [ckind EXCEPT ![c] = "ping"]
  /\ late' = (late \/ (c = Reader /\ ckind[c] = "close"))
  /\ UNCHANGED <<mu, writeErr, wire, writeVars, ncall, readVars>>

ControlLocks(c) ==
  /\ cpc[c] = "lock"
  /\ Acquire(c)
  /\ cpc' = [cpc EXCEPT ![c] = "send"]
  /\ UNCHANGED <<writeErr, wire, writeVars, ckind, ncall, late, readVars>>

ControlSends(c) ==
  LET f == Frame(ckind[c], TRUE, 0, 0, FALSE) IN
  /\ cpc[c] = "send"
  /\ Writes(f) \/ WriteErrs(f)
  /\ Release
  /\ cpc' = [cpc EXCEPT ![c] = "idle"]
  /\ ckind' = [ckind EXCEPT ![c] = "ping"]
  /\ UNCHANGED <<writeVars, ncall, late, readVars>>

-----------------------------------------------------------------------------
(* The reader: NextReader, Read, advanceFrame.                              *)

\* NextReader drops what is left of the message before.  Once it has failed it
\* returns the same error for ever.
NextReader ==
  /\ rpc = "idle"
  /\ readErr = "none"
  /\ rpc' = "next"
  /\ messageReader' = FALSE
  /\ readLength' = 0
  /\ UNCHANGED <<mu, writeErr, wire, writeVars, ctlVars, readErr, verdict,
                 readFinal, readRemaining, in, got>>

CanRead == rpc = "idle" /\ messageReader /\ readErr = "none"

\* Read finds the frame at its end and the message not: it wants the next one.
Read ==
  /\ CanRead /\ readRemaining = 0 /\ ~readFinal
  /\ rpc' = "read"
  /\ UNCHANGED <<mu, writeErr, wire, writeVars, ctlVars, readErr, verdict,
                 frameVars, in, got>>

\* Mutant: it goes on into what follows the frame.
Within_Stream(n) == readRemaining > 0

Within(n) == n <= readRemaining

\* It returns bytes of the frame, or the end of the message.
ReadUnits(n) ==
  /\ CanRead /\ Within(n)
  /\ readRemaining' = readRemaining - n
  /\ got' = [got EXCEPT ![Len(got)].units = @ + n]
  /\ UNCHANGED <<mu, writeErr, wire, writeVars, ctlVars, rpc, readErr, verdict,
                 readFinal, readLength, messageReader, in>>

ReadEnds ==
  /\ CanRead /\ readRemaining = 0 /\ readFinal
  /\ messageReader' = FALSE
  /\ got' = [got EXCEPT ![Len(got)].whole = TRUE]
  /\ UNCHANGED <<mu, writeErr, wire, writeVars, ctlVars, rpc, readErr, verdict,
                 readFinal, readRemaining, readLength, in>>

\* The connection is closed, by whomever, or its deadline passes.
ReadFails ==
  /\ rpc \in {"next", "read"} \/ (CanRead /\ readRemaining > 0)
  /\ cpc[Reader] = "idle"
  /\ readErr' = "io"
  /\ rpc' = "idle"
  /\ UNCHANGED <<mu, writeErr, wire, writeVars, ctlVars, verdict, frameVars, in,
                 got>>

Misplaced(kind) == (kind = "data" /\ ~readFinal) \/ (kind = "cont" /\ readFinal)

TooLong(units) == Limit > 0 /\ readLength + units > Limit

\* Another frame is wanted: NextReader looks for a message and skips what is
\* left of the frame and of the message before, Read needs the next fragment.
WantsFrame ==
  /\ cpc[Reader] = "idle" /\ MoreWork
  /\ rpc \in {"next", "read"}

\* The reader answers, and then fails with the error or goes on.
Reply(kind, err) ==
  /\ CallControl(Reader, kind)
  /\ rpc' = IF err = "none" THEN rpc ELSE "reply"
  /\ verdict' = err
  /\ UNCHANGED <<readErr, got, ncall>>

ReadData(kind, fin, units) ==
  /\ WantsFrame
  /\ kind \in {"data", "cont"}
  /\ in' = Append(in, <<kind, fin, units>>)
  /\ readRemaining' = units
  /\ readFinal' = fin
  /\ IF Misplaced(kind)
     THEN /\ Reply("close", "protocol")
          /\ UNCHANGED <<readLength, messageReader>>
     ELSE /\ readLength' = readLength + units
          /\ IF TooLong(units)
             THEN Reply("close", "limit") /\ UNCHANGED messageReader
             ELSE /\ IF kind = "data"
                     THEN /\ messageReader' = TRUE
                          /\ got' = Append(got, [at |-> Len(in) + 1, units |-> 0,
                                                 whole |-> FALSE])
                          /\ rpc' = "idle"
                     ELSE /\ rpc' = IF rpc = "read" THEN "idle" ELSE rpc
                          /\ UNCHANGED <<messageReader, got>>
                  /\ UNCHANGED <<ctlVars, verdict, readErr>>
  /\ UNCHANGED <<mu, writeErr, wire, writeVars>>

\* Control frames may come between the fragments of a message.
ReadControl(kind) ==
  /\ WantsFrame
  /\ in' = Append(in, <<kind, TRUE, 0>>)
  /\ readRemaining' = 0
  /\ CASE kind = "ping"  -> Reply("pong", "none")
       [] kind = "close" -> Reply("close", "closed")
       [] kind = "pong"  -> UNCHANGED <<ctlVars, rpc, verdict, readErr, got>>
  /\ UNCHANGED <<mu, writeErr, wire, writeVars, readFinal, readLength, messageReader>>

\* A reserved bit or opcode, no mask, a control frame that is too long, a close
\* frame without a valid code.  The fields of the frame are not read again.
ReadNonsense ==
  /\ WantsFrame
  /\ Reply("close", "protocol")
  /\ UNCHANGED <<mu, writeErr, wire, writeVars, frameVars, in>>

\* A length that does not fit is an error too, but is not answered.
ReadOverflow ==
  /\ WantsFrame
  /\ readErr' = "overflow"
  /\ rpc' = "idle"
  /\ UNCHANGED <<mu, writeErr, wire, writeVars, ctlVars, verdict, frameVars, in,
                 got>>

\* The close frame was sent, or could not be.
ReplyDone ==
  /\ rpc = "reply" /\ cpc[Reader] = "idle"
  /\ readErr' = verdict
  /\ verdict' = "none"
  /\ rpc' = "idle"
  /\ UNCHANGED <<mu, writeErr, wire, writeVars, ctlVars, frameVars, in, got>>

\* Nobody has to call anything.
Idle ==
  /\ wpc = "idle" /\ rpc = "idle" /\ \A c \in Actors : cpc[c] = "idle"
  /\ UNCHANGED vars

WriterStep ==
  Begin \/ WriteRest \/ FlushRefuses \/ WriterLocks

ControlStep(c) == ControlTimeout(c) \/ ControlLocks(c) \/ ControlSends(c)

Next ==
  \/ \E kind \in {"data", "close"}, n \in Sizes \cup {0} :
       NextMessage(kind, n) \/ NextMessageCloses(kind, n)
  \/ \E n \in Sizes : WriteBig(n) \/ Write(n)
  \/ CloseWriter \/ WriterStep \/ WriterSends \/ WriterFails
  \/ \E c \in Controls, kind \in {"ping", "close"} : WriteControl(c, kind)
  \/ \E c \in Actors : ControlStep(c)
  \/ \E n \in 1 .. MaxFrame : ReadUnits(n)
  \/ NextReader \/ Read \/ ReadEnds \/ ReadFails \/ ReplyDone
  \/ \E kind \in Kinds, fin \in BOOLEAN, n \in 0 .. MaxFrame : ReadData(kind, fin, n)
  \/ \E kind \in Control : ReadControl(kind)
  \/ ReadNonsense \/ ReadOverflow
  \/ Idle

Spec == Init /\ [][Next]_vars

\* Goroutines run, and a WriteControl has a deadline for the lock and for its
\* write.  A write of the writer may block for ever, the lock in its hand: the
\* peer need not read, and there is no write deadline.
Fairness ==
  /\ WF_vars(WriterStep)
  /\ \A c \in Actors : WF_vars(ControlStep(c))
  /\ WF_vars(ReplyDone)

FairSpec == Spec /\ Fairness

-----------------------------------------------------------------------------
(* Properties. *)

Fragments == {i \in DOMAIN wire : wire[i].kind \in {"data", "cont"}}

\* The last frame of a message before the place i, if there is one.
Before(i) == {j \in Fragments : j < i /\ \A k \in Fragments : k < i => k <= j}

\* Whatever the writer, the reader and the callers of WriteControl do, the peer
\* sees a legal stream: fragments of different messages are never mixed, only
\* control frames come between them, and nothing follows a close frame or a
\* frame that was cut off.
WireLegal ==
  /\ \A i \in DOMAIN wire : i < Len(wire) => wire[i].kind # "close" /\ ~wire[i].torn
  /\ \A i \in Fragments :
       (wire[i].kind = "data") = (\A j \in Before(i) : wire[j].final)

\* The units of all frames of a message, each by its frame and its place in it.
UnitsOf(m) ==
  Cardinality({u \in (DOMAIN wire) \X (1 .. MaxUnits) :
                 wire[u[1]].msg = m /\ u[2] <= wire[u[1]].units})

\* The frames that end a message.
Ends == {i \in DOMAIN wire : wire[i].msg # 0 /\ wire[i].final /\ ~wire[i].torn}

\* A message the application closed without an error is on the wire, with all
\* its units, and no other is there to its end; in the order of the calls.
SentWhole ==
  /\ \A k \in DOMAIN sent : \E i \in Ends : sent[k][1] = wire[i].msg
  /\ \A i \in Ends : \E k \in DOMAIN sent :
       sent[k] = <<wire[i].msg, UnitsOf(wire[i].msg)>>
  /\ \A i, j \in Ends : i < j => wire[i].msg < wire[j].msg
  /\ \A k, l \in DOMAIN sent : k < l => sent[k][1] < sent[l][1]

\* The frames of the message that starts with the frame a.
FragmentsOf(a) ==
  {i \in a .. Len(in) :
     /\ in[i][1] \in {"data", "cont"}
     /\ \A j \in a + 1 .. i : in[j][1] # "data"
     /\ \A j \in a .. i - 1 : in[j][1] \in Control \/ ~in[j][2]}

Units(S) == Cardinality({u \in S \X (1 .. MaxFrame) : u[2] <= in[u[1]][3]})

\* What the application reads as one message are fragments of one message, all
\* of them when it is told that this is the end, whatever came in between and
\* whatever it left unread before; and never more than the limit.
ReadFaithful ==
  \A i \in DOMAIN got :
    LET S == FragmentsOf(got[i].at) IN
    /\ got[i].units <= Units(S)
    /\ got[i].whole => got[i].units = Units(S) /\ \E j \in S : in[j][2]
    /\ Limit > 0 => got[i].units <= Limit
    /\ i > 1 => got[i - 1].at < got[i].at

\* A reader that saw a close frame, a violation or a message above the limit has
\* closed the writing side too, unless its answer ran into its deadline: no
\* message of the application follows, and a later write fails.
ReaderShutsWriter ==
  readErr \in {"closed", "protocol", "limit"} => writeErr # "none" \/ late

\* WriteControl returns, and with it the reader, though the writer may be stuck
\* in a write with the lock in its hand.
ControlReturns == \A c \in Actors : cpc[c] # "idle" ~> cpc[c] = "idle"
=============================================================================
