------------------------------ MODULE WsConnProofs ------------------------------
(***************************************************************************)
(* Proofs about the WebSocket connection: for any number of goroutines     *)
(* that call WriteControl, any buffer, limit and sizes, and any amount of  *)
(* work, the wire carries a legal stream, a message reported as sent is on *)
(* it, and what is read as a message is one.                               *)
(*                                                                         *)
(* The invariant has four parts, for the four groups of variables: the     *)
(* open message, the wire and what was sent, the calls of WriteControl     *)
(* with the answers of the reader, and what was read.  Each part is shown  *)
(* to survive every step in a section of its own.                          *)
(***************************************************************************)
EXTENDS MCWsConn, FiniteSetTheorems, TLAPS

-----------------------------------------------------------------------------
(* What holds between the steps. *)

\* The open message: it is the last one begun, its units are counted once, and what is
\* left of a Write is left only while that Write goes on.
WriterInv ==
  /\ IF Open THEN mw.msg = nmsg /\ wpc # "begin"
     ELSE mw = NoWriter /\ todo = 0 /\ wpc \in {"idle", "begin"}
  /\ mw.kind \in {"data", "cont", "close"} /\ ask.kind \in {"data", "close"}
  /\ mw.buf + todo <= wrote
  /\ wpc \in {"idle", "put"} => mw.buf <= Cap
  /\ todo # 0 => wpc = "put" \/ (wpc \in {"flush", "send"} /\ wnext = "put" /\ ~final)
  /\ wnext = "begin" => wpc \in {"flush", "send"} /\ final
  /\ "begin" \in {wnext, wpc} => 2 * nmsg < MaxWork

\* While no write has failed, the type of the next frame is the one the stream wants.
StreamInv ==
  writeErr = "none" =>
    /\ \A i \in DOMAIN wire : wire[i].kind # "close" /\ ~wire[i].torn
    /\ (mw.kind = "cont") = (\E j \in Before(Len(wire) + 1) : ~wire[j].final)

\* While no write has failed, what the application gave to the open message is on the
\* wire, in the buffer or still in the hand of Write; and that message has no end yet.
DeliveredInv ==
  /\ \A i \in DOMAIN wire : wire[i].msg <= nmsg
  /\ Open => \A i \in Ends : wire[i].msg < nmsg
  /\ writeErr = "none" /\ Open => wrote = UnitsOf(nmsg) + mw.buf + todo

\* The verdict of a reader that answers with a close frame.
ReplyInv ==
  /\ rpc # "reply" => verdict = "none"
  /\ rpc = "reply" => verdict # "none"
  /\ rpc = "reply" => \/ cpc[Reader] # "idle" /\ ckind[Reader] = "close"
                      \/ writeErr # "none" \/ late

\* A message the application may go on reading.
Alive == messageReader /\ readErr = "none" /\ rpc \in {"idle", "read"}

\* Of that message, g, the application has read all but the rest of the last frame.
Following(g) ==
  /\ g.units + readRemaining = Units(FragmentsOf(g.at))
  /\ Units(FragmentsOf(g.at)) <= readLength
  /\ Limit > 0 => readLength <= Limit
  /\ \A j \in g.at + 1 .. Len(in) : in[j][1] # "data"
  /\ readFinal => \E j \in FragmentsOf(g.at) : in[j][2]
  /\ ~readFinal => \A j \in g.at .. Len(in) : in[j][1] \in Control \/ ~in[j][2]

ReadingInv ==
  /\ readErr # "none" => rpc = "idle"
  /\ rpc = "next" => ~messageReader
  /\ rpc = "read" => messageReader /\ readRemaining = 0 /\ ~readFinal
  /\ Alive => got # <<>> /\ Following(got[Len(got)])

IInv ==
  /\ TypeOK /\ WriterInv /\ WireLegal /\ StreamInv /\ SentWhole /\ DeliveredInv
  /\ ReaderShutsWriter /\ ReplyInv /\ ReadFaithful /\ ReadingInv

-----------------------------------------------------------------------------
(* The four groups of variables, and who changes them.                      *)

WriterType ==
  /\ wpc \in {"idle", "begin", "put", "flush", "send"}
  /\ wnext \in {"idle", "begin", "put"}
  /\ ask \in [kind : Kinds, units : 0 .. MaxUnits]
  /\ mw \in [msg : 0 .. MaxWork, kind : Kinds, buf : 0 .. MaxUnits]
  /\ final \in BOOLEAN /\ todo \in 0 .. MaxUnits /\ nmsg \in 0 .. MaxWork
  /\ wrote \in 0 .. MaxUnits

Frames == [kind : Kinds, final : BOOLEAN, msg : 0 .. MaxWork, units : 0 .. MaxUnits,
           torn : BOOLEAN]

WireType ==
  /\ mu \in Actors \cup {Writer, Nobody}
  /\ writeErr \in {"none", "closeSent", "io"}
  /\ wire \in Seq(Frames)
  /\ sent \in Seq((0 .. MaxWork) \X (0 .. MaxUnits))

ControlType ==
  /\ cpc \in [Actors -> {"idle", "lock", "send"}]
  /\ ckind \in [Actors -> Control]
  /\ ncall \in 0 .. MaxWork /\ late \in BOOLEAN

InFrames == Kinds \X BOOLEAN \X (0 .. MaxFrame)

Verdicts == {"none", "io", "protocol", "limit", "overflow", "closed"}

ReaderType ==
  /\ rpc \in {"idle", "next", "read", "reply"}
  /\ readErr \in Verdicts /\ verdict \in Verdicts
  /\ readFinal \in BOOLEAN /\ messageReader \in BOOLEAN
  /\ readRemaining \in Nat /\ readLength \in Nat
  /\ in \in Seq(InFrames)
  /\ got \in Seq([at : Nat, units : Nat, whole : BOOLEAN])
  /\ \A i \in DOMAIN got : got[i].at \in DOMAIN in

LEMMA Bounds ==
  /\ Cap \in Nat /\ Cap > 0
  /\ CtlMax \in Nat /\ Limit \in Nat /\ MaxUnits \in Nat /\ MaxFrame \in Nat /\ MaxWork \in Nat
  /\ \A n \in Sizes : n \in 1 .. MaxUnits
  /\ Reader \in Actors
BY WsConnAssumption DEF Actors

LEMMA Records ==
  /\ "data" \in Kinds /\ "cont" \in Kinds /\ "close" \in Kinds
  /\ "ping" \in Kinds /\ "pong" \in Kinds
  /\ NoAsk \in [kind : Kinds, units : 0 .. MaxUnits]
  /\ NoWriter \in [msg : 0 .. MaxWork, kind : Kinds, buf : 0 .. MaxUnits]
  /\ NoWriter.msg = 0 /\ NoWriter.kind = "data" /\ NoWriter.buf = 0
  /\ NoAsk.kind = "data" /\ NoAsk.units = 0
<1>1. /\ "data" \in Kinds /\ "cont" \in Kinds /\ "close" \in Kinds
      /\ "ping" \in Kinds /\ "pong" \in Kinds
  BY DEF Kinds, Control
<1>2. 0 \in 0 .. MaxUnits /\ 0 \in 0 .. MaxWork
  BY Bounds
<1>3. QED BY <1>1, <1>2 DEF NoAsk, NoWriter

LEMMA TypeParts == TypeOK <=> WriterType /\ WireType /\ ControlType /\ ReaderType
BY DEF TypeOK, WriterType, WireType, ControlType, ReaderType, Frames, InFrames, Verdicts

ByWriter ==
  \/ \E kind \in {"data", "close"}, n \in Sizes \cup {0} :
       NextMessage(kind, n) \/ NextMessageCloses(kind, n)
  \/ \E n \in Sizes : WriteBig(n) \/ Write(n)
  \/ CloseWriter \/ WriterStep \/ WriterSends \/ WriterFails

ByControl ==
  \/ \E c \in Controls, kind \in {"ping", "close"} : WriteControl(c, kind)
  \/ \E c \in Actors : ControlStep(c)

ByReader ==
  \/ \E n \in 1 .. MaxFrame : ReadUnits(n)
  \/ NextReader \/ Read \/ ReadEnds \/ ReadFails \/ ReplyDone
  \/ \E kind \in Kinds, fin \in BOOLEAN, n \in 0 .. MaxFrame : ReadData(kind, fin, n)
  \/ \E kind \in Control : ReadControl(kind)
  \/ ReadNonsense \/ ReadOverflow

LEMMA WhoSteps == [Next]_vars => ByWriter \/ ByControl \/ ByReader \/ UNCHANGED vars
BY DEF Next, ByWriter, ByControl, ByReader, Idle

LEMMA WriterLeaves == ByWriter => UNCHANGED <<ctlVars, readVars>>
<1>1. ASSUME NEW kind, NEW n, NextMessage(kind, n) \/ NextMessageCloses(kind, n)
      PROVE UNCHANGED <<ctlVars, readVars>>
  BY <1>1 DEF NextMessage, NextMessageCloses
<1>2. ASSUME NEW n, WriteBig(n) \/ Write(n)
      PROVE UNCHANGED <<ctlVars, readVars>>
  BY <1>2 DEF WriteBig, Write
<1>3. ASSUME CloseWriter \/ WriterStep \/ WriterSends \/ WriterFails
      PROVE UNCHANGED <<ctlVars, readVars>>
  BY <1>3 DEF CloseWriter, WriterStep, Begin, WriteRest, FlushRefuses, WriterLocks,
     WriterSends, WriterFails
<1>4. QED BY <1>1, <1>2, <1>3 DEF ByWriter

LEMMA ControlLeaves == ByControl => UNCHANGED <<writeVars, readVars>>
BY DEF ByControl, WriteControl, ControlStep, ControlTimeout, ControlLocks, ControlSends

LEMMA ReaderLeaves == ByReader => UNCHANGED <<mu, writeErr, wire, writeVars, ncall, late>>
<1>1. ASSUME NEW n, ReadUnits(n)
      PROVE UNCHANGED <<mu, writeErr, wire, writeVars, ncall, late>>
  BY <1>1 DEF ReadUnits, ctlVars
<1>2. ASSUME NextReader \/ Read \/ ReadEnds \/ ReadFails \/ ReplyDone
      PROVE UNCHANGED <<mu, writeErr, wire, writeVars, ncall, late>>
  BY <1>2 DEF NextReader, Read, ReadEnds, ReadFails, ReplyDone, ctlVars
<1>3. ASSUME NEW kind, NEW fin, NEW n, ReadData(kind, fin, n)
      PROVE UNCHANGED <<mu, writeErr, wire, writeVars, ncall, late>>
  BY <1>3 DEF ReadData, Reply, CallControl, ctlVars
<1>4. ASSUME NEW kind \in Control, ReadControl(kind)
      PROVE UNCHANGED <<mu, writeErr, wire, writeVars, ncall, late>>
  BY <1>4 DEF ReadControl, Reply, CallControl, ctlVars, Control
<1>5. ASSUME ReadNonsense \/ ReadOverflow
      PROVE UNCHANGED <<mu, writeErr, wire, writeVars, ncall, late>>
  BY <1>5 DEF ReadNonsense, ReadOverflow, Reply, CallControl, ctlVars
<1>6. QED BY <1>1, <1>2, <1>3, <1>4, <1>5 DEF ByReader

-----------------------------------------------------------------------------
(* The writer.                                                              *)

LEMMA WriterInit == Init => WriterType /\ WriterInv
<1> SUFFICES ASSUME Init PROVE WriterType /\ WriterInv
  OBVIOUS
<1>1. WriterType
  BY Bounds, Records DEF Init, WriterType
<1>2. WriterInv
  BY Bounds, Records DEF Init, WriterInv, Open
<1>3. QED BY <1>1, <1>2

LEMMA BeginsMessage ==
  ASSUME WriterType, WriterInv, ~Open, 2 * nmsg < MaxWork, wpc \in {"idle", "begin"},
         NEW kind \in {"data", "close"}, NEW n \in 0 .. MaxUnits, BeginMessage(kind, n),
         todo' = todo
  PROVE  WriterType' /\ WriterInv'
<1>1. /\ nmsg' = nmsg + 1 /\ nmsg + 1 \in 1 .. MaxWork
      /\ mw' = [msg |-> nmsg + 1, kind |-> kind, buf |-> n]
  BY Bounds, Records DEF BeginMessage, WriterType
<1>2. WriterType'
  BY <1>1, Bounds, Records
  DEF BeginMessage, WriterType
<1>3. WriterInv'
  BY <1>1, Bounds, Records DEF BeginMessage, WriterInv, WriterType, Open
<1>4. QED BY <1>2, <1>3

LEMMA Fills ==
  ASSUME WriterType, WriterInv, Open, mw.buf <= Cap, wpc \in {"idle", "put"},
         NEW n \in 0 .. MaxUnits, wrote' \in 0 .. MaxUnits, mw.buf + n <= wrote',
         Fill(n), ask' = ask, nmsg' = nmsg
  PROVE  WriterType' /\ WriterInv'
<1> DEFINE room == Cap - mw.buf
           fits == IF n < room THEN n ELSE room
<1>1. mw.buf \in Nat /\ room \in Nat /\ fits \in 0 .. n /\ mw.buf + fits <= Cap
  BY Bounds, Records DEF WriterType
<1>2. /\ mw' = [mw EXCEPT !.buf = mw.buf + fits] /\ todo' = n - fits
      /\ wpc' = (IF fits = n THEN "idle" ELSE "flush") /\ wnext' = "put" /\ final' = FALSE
  BY DEF Fill, Kept
<1> HIDE DEF room, fits
<1>3. mw.buf + fits \in 0 .. MaxUnits /\ n - fits \in 0 .. MaxUnits
  BY <1>1, Bounds, Records DEF WriterType
<1>4. mw'.msg = mw.msg /\ mw'.kind = mw.kind /\ mw'.buf = mw.buf + fits
  BY <1>2 DEF WriterType
<1>5. WriterType'
  BY <1>2, <1>3 DEF WriterType
<1>6. mw'.buf + todo' <= wrote'
  BY <1>1, <1>2, <1>4 DEF WriterType
<1>7. WriterInv'
  BY <1>1, <1>2, <1>4, <1>6 DEF WriterInv, WriterType, Open
<1>8. QED BY <1>5, <1>7

LEMMA MessageIsOver ==
  ASSUME WriterType, WriterInv, wpc \in {"flush", "send"}, EndMessage, ask' = ask, nmsg' = nmsg
  PROVE  WriterType' /\ WriterInv'
<1>1. WriterType'
  BY Bounds, Records DEF EndMessage, WriterType
<1>2. WriterInv'
  BY Bounds, Records DEF EndMessage, WriterType, WriterInv, Open
<1>3. QED BY <1>1, <1>2

LEMMA WriterKeeps ==
  ASSUME WriterType, WriterInv, WireType, in \in Seq(InFrames),
         ncall \in 0 .. MaxWork, ByWriter
  PROVE  WriterType' /\ WriterInv'
<1>0. MoreWork => 2 * nmsg < MaxWork
  BY Bounds, Records DEF MoreWork, WriterType
<1>1. ASSUME NEW kind \in {"data", "close"}, NEW n \in Sizes \cup {0}, NextMessage(kind, n)
      PROVE WriterType' /\ WriterInv'
  <2>1. n \in 0 .. MaxUnits
    BY Bounds, Records
  <2>2. QED BY <1>0, <1>1, <2>1, BeginsMessage DEF NextMessage
<1>2. ASSUME NEW kind \in {"data", "close"}, NEW n \in Sizes \cup {0},
             NextMessageCloses(kind, n)
      PROVE WriterType' /\ WriterInv'
  <2>1. n \in 0 .. MaxUnits
    BY Bounds, Records
  <2>2. ask' = [kind |-> kind, units |-> n] /\ kind \in Kinds
    BY <1>2, Records DEF NextMessageCloses
  <2>3. ask' \in [kind : Kinds, units : 0 .. MaxUnits] /\ ask'.kind = kind
    BY <2>1, <2>2
  <2>4. WriterType'
    BY <1>2, <2>3 DEF NextMessageCloses, WriterType
  <2>5. WriterInv'
    BY <1>0, <1>2, <2>3 DEF NextMessageCloses, WriterInv, Open, NoWriter
  <2>6. QED BY <2>4, <2>5
<1>3. ASSUME NEW n \in Sizes, WriteBig(n)
      PROVE WriterType' /\ WriterInv'
  <2>0. /\ n \in 1 .. MaxUnits /\ wrote + n <= MaxUnits /\ mw.buf + todo <= wrote
        /\ mw.buf \in Nat /\ todo \in Nat /\ wrote \in Nat /\ MaxUnits \in Nat
    BY <1>3, Bounds DEF WriteBig, WriterType, WriterInv
  <2>1. n \in 0 .. MaxUnits /\ wrote + n \in 0 .. MaxUnits /\ mw.buf + n \in 0 .. MaxUnits
    BY <2>0
  <2>2. /\ mw' = [mw EXCEPT !.buf = mw.buf + n]
        /\ mw'.msg = mw.msg /\ mw'.kind = mw.kind /\ mw'.buf = mw.buf + n
    BY <1>3 DEF WriteBig, WriterType
  <2>3. WriterType'
    BY <1>3, <2>1, <2>2 DEF WriteBig, WriterType
  <2>4. WriterInv'
    BY <1>3, <2>1, <2>2 DEF WriteBig, WriterType, WriterInv, Open
  <2>5. QED BY <2>3, <2>4
<1>4. ASSUME NEW n \in Sizes, Write(n)
      PROVE WriterType' /\ WriterInv'
  <2>1. n \in 0 .. MaxUnits /\ wrote' \in 0 .. MaxUnits /\ mw.buf + n <= wrote'
    BY <1>4, Bounds, Records DEF Write, WriterType, WriterInv
  <2>2. QED BY <1>4, <2>1, Fills DEF Write, WriterInv
<1>5. CASE CloseWriter
  BY <1>5 DEF CloseWriter, WriterType, WriterInv, Open
<1>6. CASE Begin
  <2>1. CASE BeginMessage(ask.kind, ask.units)
    BY <1>6, <2>1, BeginsMessage DEF Begin, WriterInv, WriterType
  <2>2. CASE ~BeginMessage(ask.kind, ask.units)
    <3>1. /\ wpc = "begin" /\ wpc' = "idle" /\ ask' = NoAsk
          /\ UNCHANGED <<wnext, mw, final, todo, nmsg, wrote>>
      BY <1>6, <2>2 DEF Begin
    <3>2. WriterType'
      BY <3>1, Records DEF WriterType
    <3>3. ~Open /\ mw = NoWriter /\ wnext # "begin"
      BY <3>1 DEF WriterInv
    <3>4. WriterInv'
      BY <3>1, <3>3, Bounds, Records DEF WriterInv, Open
    <3>5. QED BY <3>2, <3>4
  <2>3. QED BY <2>1, <2>2
<1>7. CASE WriteRest
  BY <1>7, Fills DEF WriteRest, WriterInv, WriterType
<1>8. CASE FlushRefuses
  BY <1>8, MessageIsOver DEF FlushRefuses
<1>9. CASE WriterLocks
  BY <1>9 DEF WriterLocks, WriterType, WriterInv, Open
<1>10. CASE WriterSends
  <2>1. CASE final
    BY <1>10, <2>1, MessageIsOver DEF WriterSends
  <2>2. CASE ~final
    <3>1. /\ mw' = [mw EXCEPT !.kind = "cont", !.buf = 0]
          /\ mw'.msg = mw.msg /\ mw'.kind = "cont" /\ mw'.buf = 0
      BY <1>10, <2>2 DEF WriterSends, WriterType, NextKind
    <3>2. WriterType'
      BY <1>10, <2>2, <3>1, Bounds, Records DEF WriterSends, WriterType
    <3>3. WriterInv'
      BY <1>10, <2>2, <3>1, Bounds, Records DEF WriterSends, WriterType, WriterInv, Open
    <3>4. QED BY <3>2, <3>3
  <2>3. QED BY <2>1, <2>2
<1>11. CASE WriterFails
  BY <1>11, MessageIsOver DEF WriterFails
<1>12. QED
  BY <1>1, <1>2, <1>3, <1>4, <1>5, <1>6, <1>7, <1>8, <1>9, <1>10, <1>11
  DEF ByWriter, WriterStep

-----------------------------------------------------------------------------
(* The wire: what one more frame changes.                                   *)

LEMMA OneMore ==
  ASSUME NEW S, NEW s \in Seq(S), NEW x \in S
  PROVE  /\ Append(s, x) \in Seq(S) /\ Len(s) \in Nat
         /\ Len(Append(s, x)) = Len(s) + 1
         /\ DOMAIN s = 1 .. Len(s) /\ DOMAIN Append(s, x) = 1 .. Len(s) + 1
         /\ \A i \in DOMAIN s : Append(s, x)[i] = s[i] /\ s[i] \in S
         /\ Append(s, x)[Len(s) + 1] = x
OBVIOUS

LEMMA WireGrows ==
  ASSUME wire \in Seq(Frames), NEW f \in Frames, wire' = Append(wire, f)
  PROVE  /\ wire' \in Seq(Frames) /\ Len(wire) \in Nat /\ Len(wire') = Len(wire) + 1
         /\ DOMAIN wire = 1 .. Len(wire) /\ DOMAIN wire' = 1 .. Len(wire) + 1
         /\ \A i \in DOMAIN wire : i \in 1 .. Len(wire) + 1 /\ wire'[i] = wire[i] /\ wire[i] \in Frames
         /\ wire'[Len(wire) + 1] = f
         /\ \A i \in DOMAIN wire' : i \in DOMAIN wire \/ i = Len(wire) + 1
BY OneMore

LEMMA FragmentsGrow ==
  ASSUME wire \in Seq(Frames), NEW f \in Frames, wire' = Append(wire, f)
  PROVE  LET n == Len(wire) + 1 IN
         /\ f.kind \in {"data", "cont"} => Fragments' = Fragments \cup {n}
         /\ f.kind \notin {"data", "cont"} => Fragments' = Fragments
BY WireGrows DEF Fragments

LEMMA BeforeGrows ==
  ASSUME wire \in Seq(Frames), NEW f \in Frames, wire' = Append(wire, f),
         NEW n \in Nat, n = Len(wire) + 1
  PROVE  /\ \A i \in 1 .. n : Before(i)' = Before(i)
         /\ f.kind \in {"data", "cont"} => Before(n + 1)' = {n}
         /\ f.kind \notin {"data", "cont"} => Before(n + 1)' = Before(n)
<1>1. /\ Fragments \subseteq 1 .. Len(wire) /\ Len(wire) \in Nat
      /\ f.kind \in {"data", "cont"} => Fragments' = Fragments \cup {n}
      /\ f.kind \notin {"data", "cont"} => Fragments' = Fragments
  <2>1. Fragments \subseteq 1 .. Len(wire)
    BY WireGrows DEF Fragments
  <2>2. QED BY <2>1, WireGrows, FragmentsGrow
<1>2. ASSUME NEW i \in 1 .. n
      PROVE Before(i)' = Before(i)
  <2>1. ~(n < i)
    OBVIOUS
  <2>2. CASE f.kind \in {"data", "cont"}
    BY <1>1, <2>1, <2>2 DEF Before
  <2>3. CASE f.kind \notin {"data", "cont"}
    BY <1>1, <2>1, <2>3 DEF Before
  <2>4. QED BY <2>2, <2>3
<1>3. \A k \in Fragments : k \in Nat /\ k < n /\ k < n + 1
  BY <1>1
<1>4. ASSUME f.kind \in {"data", "cont"}
      PROVE Before(n + 1)' = {n}
  <2>1. Before(n + 1)' = {j \in Fragments' : j < n + 1 /\ \A k \in Fragments' : k < n + 1 => k <= j}
    BY DEF Before
  <2>2. Fragments' = Fragments \cup {n}
    BY <1>1, <1>4
  <2>3. n \in Before(n + 1)'
    BY <1>1, <1>3, <2>1, <2>2
  <2>4. ASSUME NEW j \in Before(n + 1)'
        PROVE j = n
    <3>1. n \in Fragments' /\ n < n + 1
      BY <2>2
    <3>2. n <= j
      BY <2>1, <3>1
    <3>3. j = n \/ j \in Fragments
      BY <2>1, <2>2
    <3>4. QED BY <1>3, <3>2, <3>3
  <2>5. QED BY <2>3, <2>4
<1>5. ASSUME f.kind \notin {"data", "cont"}
      PROVE Before(n + 1)' = Before(n)
  BY <1>1, <1>3, <1>5 DEF Before
<1>6. QED BY <1>2, <1>4, <1>5

\* The next frame is of the type that StreamInv names, or a control frame.
LEMMA LegalGrows ==
  ASSUME WireLegal, StreamInv, writeErr = "none", mw.kind \in {"data", "cont", "close"},
         wire \in Seq(Frames), NEW f \in Frames, wire' = Append(wire, f),
         f.kind \in {"data", "cont"} => f.kind = mw.kind
  PROVE  WireLegal'
<1>1. \A i \in DOMAIN wire : wire[i].kind # "close" /\ ~wire[i].torn
  BY DEF StreamInv
<1>2. \A i \in DOMAIN wire' : i < Len(wire') => i \in DOMAIN wire /\ wire'[i] = wire[i]
  BY WireGrows
<1>3. ASSUME NEW i \in Fragments'
      PROVE (wire'[i].kind = "data") = (\A j \in Before(i)' : wire'[j].final)
  <2>1. Len(wire) \in Nat /\ Fragments \subseteq DOMAIN wire /\ DOMAIN wire = 1 .. Len(wire)
    BY WireGrows DEF Fragments
  <2>2. PICK n \in Nat : n = Len(wire) + 1
    BY <2>1
  <2>3. i \in 1 .. Len(wire) + 1 /\ Before(i)' = Before(i)
    BY <2>1, <2>2, WireGrows, BeforeGrows DEF Fragments
  <2>4. \A j \in Before(i) : j \in DOMAIN wire /\ wire'[j] = wire[j]
    BY <2>1, WireGrows DEF Before
  <2>5. CASE i \in Fragments
    <3>1. wire'[i] = wire[i]
      BY <2>5, WireGrows DEF Fragments
    <3>2. (\A j \in Before(i)' : wire'[j].final) <=> (\A j \in Before(i) : wire[j].final)
      BY <2>3, <2>4
    <3>3. (wire[i].kind = "data") = (\A j \in Before(i) : wire[j].final)
      BY <2>5 DEF WireLegal
    <3>4. QED BY <3>1, <3>2, <3>3
  <2>6. CASE i \notin Fragments
    <3>1. i = Len(wire) + 1 /\ wire'[i] = f /\ f.kind \in {"data", "cont"}
      BY <2>6, WireGrows, FragmentsGrow
    <3>2. (mw.kind = "cont") = (\E j \in Before(i) : ~wire[j].final)
      BY <3>1 DEF StreamInv
    <3>3. f.kind = mw.kind
      BY <3>1
    <3>4. \A j \in Before(i) : wire'[j].final = wire[j].final
      BY <2>4
    <3>5. (\A j \in Before(i)' : wire'[j].final) <=> ~(\E j \in Before(i) : ~wire[j].final)
      BY <2>3, <3>4
    <3>6. QED BY <3>1, <3>2, <3>3, <3>5
  <2>7. QED BY <2>5, <2>6
<1>4. QED BY <1>1, <1>2, <1>3 DEF WireLegal

LEMMA StreamGrows ==
  ASSUME StreamInv, writeErr = "none", wire \in Seq(Frames), NEW f \in Frames,
         wire' = Append(wire, f), f.kind # "close", ~f.torn,
         (mw'.kind = "cont") = (IF f.kind \in {"data", "cont"} THEN ~f.final ELSE mw.kind = "cont")
  PROVE  StreamInv'
<1>1. \A i \in DOMAIN wire' : wire'[i].kind # "close" /\ ~wire'[i].torn
  BY WireGrows DEF StreamInv
<1>2. PICK n \in Nat : n = Len(wire) + 1
  BY WireGrows
<1>3. Len(wire') + 1 = n + 1 /\ wire'[n] = f
  BY <1>2, WireGrows
<1>4. (mw'.kind = "cont") <=> (\E j \in Before(n + 1)' : ~wire'[j].final)
  <2>1. CASE f.kind \in {"data", "cont"}
    <3>1. Before(n + 1)' = {n}
      BY <1>2, <2>1, BeforeGrows
    <3>2. QED BY <1>3, <2>1, <3>1
  <2>2. CASE f.kind \notin {"data", "cont"}
    <3>1. Before(n + 1)' = Before(n)
      BY <1>2, <2>2, BeforeGrows
    <3>2. \A j \in Before(n) : wire'[j] = wire[j]
      BY WireGrows DEF Before, Fragments
    <3>3. (mw.kind = "cont") = (\E j \in Before(n) : ~wire[j].final)
      BY <1>2 DEF StreamInv
    <3>4. (\E j \in Before(n + 1)' : ~wire'[j].final) <=> (\E j \in Before(n) : ~wire[j].final)
      BY <3>1, <3>2
    <3>5. QED BY <2>2, <3>3, <3>4
  <2>3. QED BY <2>1, <2>2
<1>5. (\E j \in Before(n + 1)' : ~wire'[j].final) <=> (\E j \in Before(Len(wire) + 1)' : ~wire'[j].final)
  BY <1>3 DEF Before
<1>6. QED BY <1>1, <1>4, <1>5 DEF StreamInv

-----------------------------------------------------------------------------
(* Units are counted by their places.                                       *)

\* The places of k units in the frame a.
Column(a, k) == {a} \X (1 .. k)

LEMMA Block ==
  ASSUME NEW A, IsFiniteSet(A), NEW a, NEW k \in Nat, A \cap Column(a, k) = {}
  PROVE  Cardinality(A \cup Column(a, k)) = Cardinality(A) + k
<1>1. IsFiniteSet(1 .. k) /\ Cardinality(1 .. k) = k
  BY FS_Interval
<1>2. IsFiniteSet({a}) /\ Cardinality({a}) = 1
  BY FS_Singleton
<1>3. IsFiniteSet(Column(a, k)) /\ Cardinality(Column(a, k)) = k
  <2>1. /\ IsFiniteSet({a} \X (1 .. k))
        /\ Cardinality({a} \X (1 .. k)) = Cardinality({a}) * Cardinality(1 .. k)
    BY <1>1, <1>2, FS_Product, Zenon
  <2>2. 1 * k = k
    OBVIOUS
  <2>3. QED BY <1>1, <1>2, <2>1, <2>2 DEF Column
<1>4. Cardinality(A \cup Column(a, k)) =
        Cardinality(A) + Cardinality(Column(a, k)) - Cardinality(A \cap Column(a, k))
  BY <1>3, FS_Union
<1>5. Cardinality({}) = 0
  BY FS_EmptySet
<1>6. Cardinality(A) \in Nat
  BY FS_CardinalityType
<1>7. Cardinality(A \cup Column(a, k)) = Cardinality(A) + k - 0
  BY <1>3, <1>4, <1>5, Zenon
<1>8. QED BY <1>4, <1>6, <1>7

\* The places of the units of a message.
Places(m) ==
  {u \in (DOMAIN wire) \X (1 .. MaxUnits) :
     wire[u[1]].msg = m /\ u[2] <= wire[u[1]].units}

LEMMA PlacesFinite ==
  ASSUME wire \in Seq(Frames), NEW m
  PROVE  IsFiniteSet(Places(m)) /\ UnitsOf(m) = Cardinality(Places(m)) /\ UnitsOf(m) \in Nat
<1>1. Len(wire) \in Nat /\ DOMAIN wire = 1 .. Len(wire)
  OBVIOUS
<1>2. IsFiniteSet(1 .. Len(wire)) /\ IsFiniteSet(1 .. MaxUnits)
  BY <1>1, Bounds, FS_Interval
<1>3. IsFiniteSet((DOMAIN wire) \X (1 .. MaxUnits))
  BY <1>1, <1>2, FS_Product
<1>4. Places(m) \subseteq (DOMAIN wire) \X (1 .. MaxUnits)
  BY DEF Places
<1>5. IsFiniteSet(Places(m))
  BY <1>3, <1>4, FS_Subset
<1>6. UnitsOf(m) = Cardinality(Places(m))
  BY DEF UnitsOf, Places
<1>7. QED BY <1>5, <1>6, FS_CardinalityType

LEMMA UnitsGrow ==
  ASSUME wire \in Seq(Frames), NEW f \in Frames, wire' = Append(wire, f), NEW m
  PROVE  UnitsOf(m)' = UnitsOf(m) + (IF f.msg = m THEN f.units ELSE 0)
<1>1. PICK n \in Nat : n = Len(wire) + 1
  BY WireGrows
<1>2. /\ DOMAIN wire = 1 .. n - 1 /\ DOMAIN wire' = 1 .. n /\ wire'[n] = f
      /\ \A i \in DOMAIN wire : wire'[i] = wire[i]
  BY <1>1, WireGrows
<1>3. f.units \in 0 .. MaxUnits /\ MaxUnits \in Nat
  BY Bounds DEF Frames
<1>4. UnitsOf(m)' = Cardinality(Places(m)')
  BY DEF UnitsOf, Places
<1>5. CASE f.msg = m
  <2>1. Places(m)' = Places(m) \cup Column(n, f.units)
    <3>1. ASSUME NEW u \in Places(m)'
          PROVE u \in Places(m) \cup Column(n, f.units)
      <4>1. /\ u \in (1 .. n) \X (1 .. MaxUnits)
            /\ wire'[u[1]].msg = m /\ u[2] <= wire'[u[1]].units
        BY <1>2 DEF Places, Column
      <4>2. CASE u[1] = n
        BY <1>2, <1>3, <4>1, <4>2 DEF Column
      <4>3. CASE u[1] # n
        BY <1>1, <1>2, <4>1, <4>3 DEF Places, Column
      <4>4. QED BY <4>2, <4>3
    <3>2. ASSUME NEW u \in Places(m)
          PROVE u \in Places(m)'
      BY <1>1, <1>2 DEF Places, Column
    <3>3. ASSUME NEW u \in Column(n, f.units)
          PROVE u \in Places(m)'
      BY <1>1, <1>2, <1>3, <1>5 DEF Places, Column
    <3>4. QED BY <3>1, <3>2, <3>3
  <2>2. Places(m) \cap Column(n, f.units) = {}
    BY <1>1, <1>2 DEF Places, Column
  <2>3. PICK A : A = Places(m)
    OBVIOUS
  <2>4. PICK k \in Nat : k = f.units
    BY <1>3
  <2>5. IsFiniteSet(A) /\ A \cap Column(n, k) = {}
    BY <2>2, <2>3, <2>4, PlacesFinite
  <2>6. Cardinality(A \cup Column(n, k)) = Cardinality(A) + k
    BY <2>5, Block
  <2>7. Cardinality(Places(m)') = Cardinality(Places(m)) + f.units
    BY <2>1, <2>3, <2>4, <2>6
  <2>8. QED BY <1>4, <1>5, <2>7, PlacesFinite
<1>6. CASE f.msg # m
  <2>1. Places(m)' = Places(m)
    <3>1. ASSUME NEW u \in Places(m)'
          PROVE u \in Places(m)
      <4>1. /\ u \in (1 .. n) \X (1 .. MaxUnits)
            /\ wire'[u[1]].msg = m /\ u[2] <= wire'[u[1]].units
        BY <1>2 DEF Places
      <4>2. u[1] # n
        BY <1>2, <1>6, <4>1
      <4>3. QED BY <1>1, <1>2, <4>1, <4>2 DEF Places
    <3>2. ASSUME NEW u \in Places(m)
          PROVE u \in Places(m)'
      BY <1>1, <1>2 DEF Places
    <3>3. QED BY <3>1, <3>2
  <2>2. QED BY <1>4, <1>6, <2>1, PlacesFinite
<1>7. QED BY <1>5, <1>6

LEMMA NoPlaces ==
  ASSUME wire \in Seq(Frames), NEW m, \A i \in DOMAIN wire : wire[i].msg # m
  PROVE  UnitsOf(m) = 0
<1>1. Places(m) = {}
  BY DEF Places
<1>2. QED BY <1>1, PlacesFinite, FS_EmptySet

-----------------------------------------------------------------------------
(* The messages on the wire.                                                *)

LEMMA EndsGrow ==
  ASSUME wire \in Seq(Frames), NEW f \in Frames, wire' = Append(wire, f)
  PROVE  /\ Ends \subseteq DOMAIN wire
         /\ f.msg # 0 /\ f.final /\ ~f.torn => Ends' = Ends \cup {Len(wire) + 1}
         /\ f.msg = 0 \/ ~f.final \/ f.torn => Ends' = Ends
BY WireGrows DEF Ends

LEMMA SentStays ==
  ASSUME SentWhole, sent' = sent,
         wire \in Seq(Frames), NEW f \in Frames, wire' = Append(wire, f),
         f.msg = 0 \/ ~f.final \/ f.torn,
         \A i \in Ends : wire[i].msg # f.msg
  PROVE  SentWhole'
<1>1. Ends' = Ends /\ Ends \subseteq DOMAIN wire
  BY EndsGrow
<1>2. \A i \in Ends : wire'[i] = wire[i]
  BY <1>1, WireGrows
<1>3. ASSUME NEW i \in Ends
      PROVE \E k \in DOMAIN sent : sent[k] = <<wire'[i].msg, UnitsOf(wire[i].msg)'>>
  <2>1. PICK m : m = wire[i].msg
    OBVIOUS
  <2>2. m = wire'[i].msg
    BY <1>2, <2>1
  <2>3. UnitsOf(m) \in Nat /\ UnitsOf(m)' = UnitsOf(m)
    BY <2>1, UnitsGrow, PlacesFinite
  <2>4. \E k \in DOMAIN sent : sent[k] = <<m, UnitsOf(m)>>
    BY <2>1 DEF SentWhole
  <2>5. QED BY <2>2, <2>3, <2>4
<1>4. \A k \in DOMAIN sent' : \E i \in Ends' : sent'[k][1] = wire'[i].msg
  BY <1>1, <1>2 DEF SentWhole
<1>5. \A i, j \in Ends' : i < j => wire'[i].msg < wire'[j].msg
  BY <1>1, <1>2 DEF SentWhole
<1>6. \A k, l \in DOMAIN sent' : k < l => sent'[k][1] < sent'[l][1]
  BY DEF SentWhole
<1>7. \A i \in Ends' : \E k \in DOMAIN sent' : sent'[k] = <<wire'[i].msg, UnitsOf(wire[i].msg)'>>
  BY <1>1, <1>3
<1>8. QED BY <1>4, <1>5, <1>6, <1>7 DEF SentWhole

LEMMA SentGrows ==
  ASSUME SentWhole, sent \in Seq((0 .. MaxWork) \X (0 .. MaxUnits)),
         wire \in Seq(Frames), NEW f \in Frames, wire' = Append(wire, f),
         f.msg # 0, f.final, ~f.torn,
         \A i \in Ends : wire[i].msg < f.msg,
         NEW w \in 0 .. MaxUnits, w = UnitsOf(f.msg) + f.units,
         sent' = Append(sent, <<f.msg, w>>)
  PROVE  SentWhole' /\ sent' \in Seq((0 .. MaxWork) \X (0 .. MaxUnits))
<1>1. PICK n \in Nat : n = Len(wire) + 1
  BY WireGrows
<1>2. /\ Ends' = Ends \cup {n} /\ wire'[n] = f
      /\ \A i \in Ends : wire'[i] = wire[i] /\ i \in Nat /\ i < n /\ wire[i].msg \in Nat
  <2>1. Ends' = Ends \cup {n} /\ wire'[n] = f /\ Ends \subseteq DOMAIN wire
    BY <1>1, EndsGrow, WireGrows
  <2>2. ASSUME NEW i \in Ends
        PROVE wire'[i] = wire[i] /\ i \in Nat /\ i < n /\ wire[i].msg \in Nat
    <3>1. i \in 1 .. Len(wire) /\ Len(wire) \in Nat /\ wire'[i] = wire[i] /\ wire[i] \in Frames
      BY <2>1, WireGrows
    <3>2. QED BY <1>1, <3>1 DEF Frames
  <2>3. QED BY <2>1, <2>2
<1>3. PICK l \in Nat : l = Len(sent) + 1
  OBVIOUS
<1>4. f.msg \in 0 .. MaxWork
  BY DEF Frames
<1>5. /\ sent' \in Seq((0 .. MaxWork) \X (0 .. MaxUnits))
      /\ DOMAIN sent = 1 .. l - 1 /\ DOMAIN sent' = 1 .. l
      /\ sent'[l] = <<f.msg, w>>
      /\ \A k \in DOMAIN sent : sent'[k] = sent[k]
  BY <1>3, <1>4, OneMore
<1>6. ASSUME NEW i \in Ends'
      PROVE \E k \in DOMAIN sent' : sent'[k] = <<wire'[i].msg, UnitsOf(wire[i].msg)'>>
  <2>1. PICK m : m = wire'[i].msg
    OBVIOUS
  <2>2. UnitsOf(m) \in Nat /\ UnitsOf(m)' = UnitsOf(m) + (IF f.msg = m THEN f.units ELSE 0)
    BY UnitsGrow, PlacesFinite
  <2>3. CASE i = n
    <3>1. m = f.msg /\ UnitsOf(m)' = w
      BY <1>2, <2>1, <2>2, <2>3
    <3>2. l \in DOMAIN sent' /\ sent'[l] = <<m, UnitsOf(m)'>>
      BY <1>3, <1>5, <3>1
    <3>3. QED BY <2>1, <3>2
  <2>4. CASE i # n
    <3>1. m = wire[i].msg /\ f.msg # m /\ i \in Ends
      <4>1. i \in Ends
        BY <1>2, <2>4
      <4>2. m = wire[i].msg /\ m \in Nat /\ m < f.msg
        BY <1>2, <2>1, <4>1
      <4>3. QED BY <1>4, <4>1, <4>2
    <3>2. PICK k \in DOMAIN sent : sent[k] = <<m, UnitsOf(m)>>
      BY <3>1 DEF SentWhole
    <3>3. k \in DOMAIN sent' /\ sent'[k] = <<m, UnitsOf(m)'>>
      BY <1>3, <1>5, <2>2, <3>1, <3>2
    <3>4. QED BY <2>1, <3>3
  <2>5. QED BY <2>3, <2>4
<1>7. \A k \in DOMAIN sent' : \E i \in Ends' : sent'[k][1] = wire'[i].msg
  <2>1. ASSUME NEW k \in DOMAIN sent
        PROVE \E i \in Ends' : sent'[k][1] = wire'[i].msg
    <3>1. PICK i \in Ends : sent[k][1] = wire[i].msg
      BY DEF SentWhole
    <3>2. i \in Ends' /\ wire'[i] = wire[i] /\ sent'[k] = sent[k]
      BY <1>2, <1>5
    <3>3. QED BY <3>1, <3>2
  <2>2. n \in Ends' /\ sent'[l][1] = wire'[n].msg
    BY <1>2, <1>5
  <2>3. \A k \in DOMAIN sent' : k \in DOMAIN sent \/ k = l
    BY <1>3, <1>5
  <2>4. QED BY <2>1, <2>2, <2>3
<1>8. \A i, j \in Ends' : i < j => wire'[i].msg < wire'[j].msg
  <2>1. \A i, j \in Ends : i < j => wire'[i].msg < wire'[j].msg
    BY <1>2 DEF SentWhole
  <2>2. ASSUME NEW i \in Ends
        PROVE wire'[i].msg < wire'[n].msg /\ ~(n < i)
    <3>1. wire'[i] = wire[i] /\ wire'[n] = f /\ i \in Nat /\ i < n
      BY <1>2
    <3>2. QED BY <3>1
  <2>3. ~(n < n)
    OBVIOUS
  <2>4. SUFFICES ASSUME NEW i \in Ends \cup {n}, NEW j \in Ends \cup {n}, i < j
                 PROVE wire'[i].msg < wire'[j].msg
    BY <1>2
  <2>5. QED BY <2>1, <2>2, <2>3, <2>4
<1>9. \A k \in DOMAIN sent : sent[k][1] < f.msg
  BY DEF SentWhole
<1>10. \A k, j \in DOMAIN sent' : k < j => sent'[k][1] < sent'[j][1]
  <2>1. \A k, j \in DOMAIN sent : k < j => sent'[k][1] < sent'[j][1]
    BY <1>5 DEF SentWhole
  <2>2. \A k \in DOMAIN sent : sent'[k][1] < sent'[l][1] /\ ~(l < k)
    BY <1>3, <1>5, <1>9
  <2>3. \A k \in DOMAIN sent' : k \in DOMAIN sent \/ k = l
    BY <1>3, <1>5
  <2>4. ~(l < l)
    BY <1>3
  <2>5. SUFFICES ASSUME NEW k \in DOMAIN sent', NEW j \in DOMAIN sent', k < j
                 PROVE sent'[k][1] < sent'[j][1]
    OBVIOUS
  <2>6. QED BY <2>1, <2>2, <2>3, <2>4, <2>5
<1>11. QED BY <1>5, <1>6, <1>7, <1>8, <1>10 DEF SentWhole

\* All that is said of the wire and of what was sent.
WireInv == WireType /\ WireLegal /\ StreamInv /\ SentWhole /\ DeliveredInv

LEMMA WireInit == Init => WireInv
<1> SUFFICES ASSUME Init PROVE WireInv
  OBVIOUS
<1>1. wire = <<>> /\ DOMAIN wire = {} /\ sent = <<>> /\ DOMAIN sent = {} /\ Len(wire) = 0
  BY DEF Init
<1>2. Fragments = {} /\ Ends = {}
  BY <1>1 DEF Fragments, Ends
<1>3. mw.kind = "data" /\ ~Open
  BY Records DEF Init, Open
<1>4. WireType
  BY DEF Init, WireType
<1>5. WireLegal /\ SentWhole
  BY <1>1, <1>2 DEF WireLegal, SentWhole
<1>6. StreamInv /\ DeliveredInv
  BY <1>1, <1>2, <1>3 DEF StreamInv, DeliveredInv, Before
<1>7. QED BY <1>4, <1>5, <1>6 DEF WireInv

\* A step that leaves the wire alone.
LEMMA WireSame ==
  ASSUME WireInv, wire' = wire, writeErr' = writeErr, sent' = sent,
         mu' \in Actors \cup {Writer, Nobody},
         nmsg \in Nat, nmsg' \in Nat, mw'.buf \in Nat, todo' \in Nat,
         writeErr = "none" => ((mw'.kind = "cont") <=> (mw.kind = "cont")),
         \/ nmsg' = nmsg /\ ~Open'
         \/ nmsg' = nmsg /\ Open /\ (writeErr = "none" /\ wrote = UnitsOf(nmsg) + mw.buf + todo
                                     => wrote' = UnitsOf(nmsg) + mw'.buf + todo')
         \/ nmsg' = nmsg + 1 /\ wrote' = mw'.buf + todo'
  PROVE  WireInv'
<1>1. /\ Fragments' = Fragments /\ Ends' = Ends /\ \A i : Before(i)' = Before(i)
      /\ \A m : UnitsOf(m)' = UnitsOf(m)
  BY DEF Fragments, Ends, Before, UnitsOf
<1>2. WireType'
  BY DEF WireInv, WireType
<1>3. WireLegal'
  BY <1>1 DEF WireInv, WireLegal
<1>4. StreamInv'
  <2>1. PICK n : n = Len(wire) + 1
    OBVIOUS
  <2>2. Before(n)' = Before(n) /\ n = Len(wire') + 1
    BY <1>1, <2>1
  <2>3. QED BY <2>1, <2>2 DEF WireInv, StreamInv
<1>5. SentWhole'
  BY <1>1 DEF WireInv, SentWhole
<1>6. DeliveredInv'
  <2>0. \A i \in DOMAIN wire : wire[i].msg \in Nat /\ wire[i].msg <= nmsg
    <3>0. wire \in Seq(Frames)
      BY DEF WireInv, WireType
    <3>1. \A i \in DOMAIN wire : wire[i] \in Frames
      BY <3>0
    <3>2. \A x \in Frames : x.msg \in Nat
      BY DEF Frames
    <3>3. QED BY <3>1, <3>2 DEF WireInv, DeliveredInv
  <2>1. \A i \in DOMAIN wire' : wire'[i].msg <= nmsg'
    BY <2>0
  <2>2. Ends \subseteq DOMAIN wire
    BY DEF Ends
  <2>3. Open' => \A i \in Ends' : wire'[i].msg < nmsg'
    BY <1>1, <2>0, <2>2 DEF WireInv, DeliveredInv
  <2>4. PICK m : m = nmsg'
    OBVIOUS
  <2>5. ASSUME writeErr = "none", Open'
        PROVE wrote' = UnitsOf(m)' + mw'.buf + todo'
    <3>1. CASE nmsg' = nmsg
      BY <1>1, <2>4, <2>5, <3>1 DEF WireInv, DeliveredInv
    <3>2. CASE nmsg' # nmsg
      <4>1. \A i \in DOMAIN wire : wire[i].msg # m
        BY <2>0, <2>4, <3>2
      <4>2. UnitsOf(m) = 0
        BY <4>1, NoPlaces DEF WireInv, WireType
      <4>3. wrote' = mw'.buf + todo'
        BY <3>2
      <4>4. QED BY <1>1, <4>2, <4>3
    <3>3. QED BY <3>1, <3>2
  <2>6. QED BY <2>1, <2>3, <2>4, <2>5 DEF DeliveredInv
<1>7. QED BY <1>2, <1>3, <1>4, <1>5, <1>6 DEF WireInv

LEMMA WriterSendsKeeps ==
  ASSUME WireInv, WriterType, WriterInv, WriterSends
  PROVE  WireInv'
<1>1. PICK f : f = OutFrame
  OBVIOUS
<1>2. /\ f \in Frames /\ f.kind = mw.kind /\ f.final = final /\ f.msg = nmsg /\ f.units = mw.buf
      /\ f.torn = FALSE /\ nmsg # 0 /\ nmsg \in 0 .. MaxWork /\ Open
  <2>1. Open /\ mw.msg = nmsg /\ nmsg # 0
    BY DEF WriterSends, WriterInv, Open
  <2>2. /\ mw.kind \in Kinds /\ final \in BOOLEAN /\ nmsg \in 0 .. MaxWork
        /\ mw.buf \in 0 .. MaxUnits /\ FALSE \in BOOLEAN
    BY DEF WriterType
  <2>3. f = [kind |-> mw.kind, final |-> final, msg |-> nmsg, units |-> mw.buf, torn |-> FALSE]
    BY <1>1, <2>1 DEF OutFrame, Frame
  <2>4. f \in Frames
    BY <2>2, <2>3 DEF Frames
  <2>5. QED BY <2>1, <2>2, <2>3, <2>4
<1>3. /\ writeErr = "none" /\ wire' = Append(wire, f)
      /\ writeErr' = (IF f.kind = "close" THEN "closeSent" ELSE writeErr)
      /\ mu' = Nobody /\ nmsg' = nmsg
  BY <1>1 DEF WriterSends, Writes, MayWrite, ErrAfter, Release, writeVars
<1>4. wire \in Seq(Frames) /\ sent \in Seq((0 .. MaxWork) \X (0 .. MaxUnits))
  BY DEF WireInv, WireType
<1>5. mw.kind \in {"data", "cont", "close"}
  BY DEF WriterInv
<1>6. WireLegal'
  BY <1>2, <1>3, <1>4, <1>5, LegalGrows DEF WireInv
<1>7. mw'.kind = (IF final THEN "data" ELSE "cont")
  <2>1. CASE final
    BY <2>1, Records DEF WriterSends, EndMessage
  <2>2. CASE ~final
    <3>1. mw' = [mw EXCEPT !.kind = "cont", !.buf = 0]
      BY <2>2 DEF WriterSends, NextKind
    <3>2. QED BY <2>2, <3>1 DEF WriterType
  <2>3. QED BY <2>1, <2>2
<1>8. StreamInv'
  <2>1. CASE f.kind = "close"
    BY <1>3, <2>1 DEF StreamInv
  <2>2. CASE f.kind # "close"
    <3>1. f.kind \in {"data", "cont"}
      BY <1>2, <1>5, <2>2
    <3>2. (mw'.kind = "cont") = (IF f.kind \in {"data", "cont"} THEN ~f.final ELSE mw.kind = "cont")
      BY <1>2, <1>7, <3>1 DEF WriterType
    <3>3. StreamInv /\ ~f.torn
      BY <1>2 DEF WireInv
    <3>4. QED BY <1>2, <1>3, <1>4, <2>2, <3>2, <3>3, StreamGrows
  <2>3. QED BY <2>1, <2>2
<1>9. /\ \A i \in Ends : wire[i].msg < nmsg
      /\ wrote = UnitsOf(nmsg) + mw.buf + todo
      /\ \A i \in DOMAIN wire : wire[i].msg <= nmsg
  BY <1>2, <1>3 DEF WireInv, DeliveredInv
<1>10. PICK m \in Nat : m = nmsg
  BY <1>2
<1>11. UnitsOf(m) \in Nat /\ UnitsOf(m)' = UnitsOf(m) + mw.buf /\ mw.buf \in Nat /\ todo \in Nat
  <2>1. mw.buf \in Nat /\ todo \in Nat
    BY Bounds DEF WriterType
  <2>2. UnitsOf(m) \in Nat
    BY <1>4, PlacesFinite
  <2>3. UnitsOf(m)' = UnitsOf(m) + (IF f.msg = m THEN f.units ELSE 0)
    BY <1>2, <1>3, <1>4, UnitsGrow
  <2>4. f.msg = m /\ f.units = mw.buf
    BY <1>2, <1>10
  <2>5. QED BY <2>1, <2>2, <2>3, <2>4
<1>12. \A i \in DOMAIN wire' : wire'[i].msg <= nmsg'
  <2>1. \A i \in DOMAIN wire : wire'[i].msg <= nmsg'
    BY <1>2, <1>3, <1>4, <1>9, WireGrows
  <2>2. wire'[Len(wire) + 1].msg <= nmsg'
    <3>1. wire'[Len(wire) + 1] = f
      BY <1>2, <1>3, <1>4, WireGrows
    <3>2. nmsg \in Nat /\ f.msg = nmsg /\ nmsg' = nmsg
      BY <1>2, <1>3, Bounds
    <3>3. QED BY <3>1, <3>2
  <2>3. QED BY <1>2, <1>3, <1>4, <2>1, <2>2, WireGrows
<1>13. CASE final
  <2>1. todo = 0 /\ wrote = UnitsOf(m) + mw.buf /\ wrote \in 0 .. MaxUnits
    <3>1. todo = 0 /\ wrote \in 0 .. MaxUnits
      BY <1>13 DEF WriterSends, WriterInv, WriterType
    <3>2. QED BY <1>9, <1>10, <1>11, <3>1
  <2>2. PICK w : w = wrote
    OBVIOUS
  <2>3. sent' = Append(sent, <<f.msg, w>>) /\ ~Open'
    BY <1>2, <1>13, <2>2, Records DEF WriterSends, EndMessage, Open, OutFrame, Frame, WriterInv
  <2>4. w \in 0 .. MaxUnits /\ w = UnitsOf(f.msg) + f.units
    BY <1>2, <1>10, <2>1, <2>2
  <2>5. f.msg # 0 /\ f.final /\ ~f.torn /\ \A i \in Ends : wire[i].msg < f.msg
    BY <1>2, <1>9, <1>13
  <2>6. SentWhole /\ wire' = Append(wire, f)
    BY <1>3 DEF WireInv
  <2>7. SentWhole' /\ sent' \in Seq((0 .. MaxWork) \X (0 .. MaxUnits))
    BY <1>2, <1>4, <2>3, <2>4, <2>5, <2>6, SentGrows
  <2>8. DeliveredInv'
    BY <1>12, <2>3 DEF DeliveredInv
  <2>9. WireType'
    BY <1>2, <1>3, <1>4, <2>7, WireGrows DEF WireInv, WireType
  <2>10. QED BY <1>6, <1>8, <2>7, <2>8, <2>9 DEF WireInv
<1>14. CASE ~final
  <2>1. sent' = sent /\ mw' = [mw EXCEPT !.kind = "cont", !.buf = 0] /\ UNCHANGED <<todo, wrote>>
    BY <1>14 DEF WriterSends, NextKind
  <2>2. mw'.msg = mw.msg /\ mw'.buf = 0
    BY <2>1 DEF WriterType
  <2>3. \A i \in Ends : wire[i].msg # f.msg
    <3>1. ASSUME NEW i \in Ends
          PROVE wire[i].msg # f.msg
      <4>1. wire[i] \in Frames
        BY <1>4 DEF Ends
      <4>2. wire[i].msg \in Nat /\ wire[i].msg < nmsg
        BY <1>9, <4>1 DEF Frames
      <4>3. QED BY <1>2, <4>2
    <3>2. QED BY <3>1
  <2>4. SentWhole'
    BY <1>2, <1>3, <1>4, <1>14, <2>1, <2>3, SentStays DEF WireInv
  <2>5. Ends' = Ends /\ Ends \subseteq DOMAIN wire
    BY <1>2, <1>3, <1>4, <1>14, EndsGrow
  <2>6. \A i \in Ends' : wire'[i].msg < nmsg'
    BY <1>2, <1>3, <1>4, <1>9, <2>5, WireGrows
  <2>7. wrote' = UnitsOf(m)' + mw'.buf + todo'
    BY <1>9, <1>10, <1>11, <2>1, <2>2
  <2>8. DeliveredInv'
    BY <1>3, <1>10, <1>12, <2>6, <2>7 DEF DeliveredInv
  <2>9. WireType'
    BY <1>2, <1>3, <1>4, <2>1, WireGrows DEF WireInv, WireType
  <2>10. QED BY <1>6, <1>8, <2>4, <2>8, <2>9 DEF WireInv
<1>15. QED BY <1>13, <1>14

\* A frame that fails, or a control frame, while the message is counted as before.
LEMMA OtherFrame ==
  ASSUME WireInv, WriterType, WriterInv, writeErr = "none",
         NEW f \in Frames, wire' = Append(wire, f), f.msg = 0 \/ (f.torn /\ f.msg = nmsg /\ Open),
         f.kind \in {"data", "cont"} => f.kind = mw.kind,
         mu' \in Actors \cup {Writer, Nobody}, writeErr' \in {"none", "closeSent", "io"},
         writeErr' = "none" => f.msg = 0 /\ f.kind \notin {"data", "cont", "close"} /\ ~f.torn,
         f.msg # 0 => ~Open', nmsg' = nmsg, sent' = sent,
         (mw' = mw /\ todo' = todo /\ wrote' = wrote) \/ (~Open' /\ writeErr' # "none")
  PROVE  WireInv'
<1>1. /\ wire \in Seq(Frames) /\ mw.kind \in {"data", "cont", "close"}
      /\ WireLegal /\ StreamInv /\ SentWhole /\ DeliveredInv
  BY DEF WireInv, WireType, WriterInv
<1>2. WireLegal'
  BY <1>1, LegalGrows
<1>3. StreamInv'
  <2>1. CASE writeErr' = "none"
    BY <1>1, <2>1, StreamGrows
  <2>2. CASE writeErr' # "none"
    BY <2>2 DEF StreamInv
  <2>3. QED BY <2>1, <2>2
<1>4. \A i \in DOMAIN wire : wire[i].msg \in Nat /\ wire[i].msg <= nmsg
  <2>1. \A i \in DOMAIN wire : wire[i] \in Frames
    BY <1>1
  <2>2. QED BY <1>1, <2>1 DEF DeliveredInv, Frames
<1>5. \A i \in Ends : wire[i].msg # f.msg /\ i \in DOMAIN wire
  <2>1. ASSUME NEW i \in Ends
        PROVE wire[i].msg # f.msg /\ i \in DOMAIN wire
    <3>1. i \in DOMAIN wire /\ wire[i].msg # 0
      BY DEF Ends
    <3>2. Open => wire[i].msg < nmsg
      BY <1>1 DEF DeliveredInv
    <3>3. wire[i].msg \in Nat /\ nmsg \in Nat
      BY <1>4, <3>1 DEF WriterType
    <3>4. QED BY <3>1, <3>2, <3>3
  <2>2. QED BY <2>1
<1>6. f.msg = 0 \/ ~f.final \/ f.torn
  OBVIOUS
<1>7. SentWhole'
  BY <1>1, <1>5, <1>6, SentStays
<1>8. Ends' = Ends
  BY <1>1, <1>6, EndsGrow
<1>9. f.msg <= nmsg /\ nmsg \in Nat
  <2>1. nmsg \in Nat
    BY Bounds DEF WriterType
  <2>2. QED BY <2>1
<1>10. \A i \in DOMAIN wire' : wire'[i].msg <= nmsg'
  <2>1. \A i \in DOMAIN wire : wire'[i].msg <= nmsg'
    BY <1>1, <1>4, WireGrows
  <2>2. wire'[Len(wire) + 1].msg <= nmsg'
    BY <1>1, <1>9, WireGrows
  <2>3. QED BY <1>1, <2>1, <2>2, WireGrows
<1>11. DeliveredInv'
  <2>1. CASE ~Open'
    BY <1>10, <2>1 DEF DeliveredInv
  <2>2. CASE Open'
    <3>1. f.msg = 0
      BY <2>2
    <3>2. CASE writeErr' # "none" /\ ~(mw' = mw /\ todo' = todo /\ wrote' = wrote)
      BY <2>2, <3>2
    <3>3. CASE mw' = mw /\ todo' = todo /\ wrote' = wrote
      <4>1. Open /\ nmsg # 0
        BY <2>2, <3>3 DEF Open, WriterInv
      <4>2. PICK m : m = nmsg
        OBVIOUS
      <4>3. UnitsOf(m)' = UnitsOf(m)
        BY <1>1, <3>1, <4>1, <4>2, UnitsGrow, PlacesFinite
      <4>4. wrote' = UnitsOf(m)' + mw'.buf + todo'
        BY <1>1, <3>3, <4>1, <4>2, <4>3 DEF DeliveredInv
      <4>5. \A i \in Ends' : wire'[i].msg < nmsg'
        BY <1>1, <1>5, <1>8, <4>1, WireGrows DEF DeliveredInv
      <4>6. QED BY <1>10, <4>2, <4>4, <4>5 DEF DeliveredInv
    <3>4. QED BY <2>2, <3>2, <3>3
  <2>3. QED BY <2>1, <2>2
<1>12. WireType'
  BY <1>1, WireGrows DEF WireInv, WireType
<1>13. QED BY <1>2, <1>3, <1>7, <1>11, <1>12 DEF WireInv

LEMMA WriterFailsKeeps ==
  ASSUME WireInv, WriterType, WriterInv, WriterFails
  PROVE  WireInv'
<1>1. /\ Open /\ mw.msg = nmsg /\ nmsg' = nmsg /\ sent' = sent /\ mu' = Nobody
      /\ nmsg \in Nat
  BY Bounds DEF WriterFails, WriterInv, WriterType, Release, Open
<1>2. ~Open' /\ mw'.kind = "data" /\ mw'.buf \in Nat /\ todo' \in Nat
  BY Records DEF WriterFails, EndMessage, Open
<1>3. CASE MayWrite
  <2>1. PICK f : f = [OutFrame EXCEPT !.torn = TRUE]
    OBVIOUS
  <2>2. f = [kind |-> mw.kind, final |-> final, msg |-> nmsg, units |-> mw.buf, torn |-> TRUE]
    BY <1>1, <2>1 DEF OutFrame, Frame
  <2>3. f \in Frames /\ f.torn /\ f.msg = nmsg /\ f.kind = mw.kind
    BY <2>2 DEF Frames, WriterType
  <2>4. wire' = Append(wire, f) /\ writeErr' = "io" /\ writeErr = "none"
    BY <1>3, <2>1 DEF WriterFails, WriteErrs, MayWrite
  <2>5. QED BY <1>1, <1>2, <2>3, <2>4, OtherFrame
<1>4. CASE ~MayWrite
  <2>1. wire' = wire /\ writeErr' = writeErr /\ writeErr # "none"
    BY <1>4 DEF WriterFails, WriteErrs, MayWrite
  <2>2. QED BY <1>1, <1>2, <2>1, WireSame
<1>5. QED BY <1>3, <1>4

\* The writer is not moved at all.
LEMMA WriterStands ==
  ASSUME WireInv, WriterType, wire' = wire, writeErr' = writeErr, UNCHANGED writeVars,
         mu' \in Actors \cup {Writer, Nobody}
  PROVE  WireInv'
<1>1. UNCHANGED <<mw, todo, nmsg, wrote, sent>>
  BY DEF writeVars
<1>2. nmsg \in Nat /\ mw.buf \in Nat /\ todo \in Nat
  BY Bounds DEF WriterType
<1>3. Open' = Open
  BY <1>1 DEF Open
<1>4. QED BY <1>1, <1>2, <1>3, WireSame

LEMMA ControlSendsKeeps ==
  ASSUME WireInv, WriterType, WriterInv, ControlType, NEW c \in Actors, ControlSends(c)
  PROVE  WireInv'
<1>1. PICK f : f = Frame(ckind[c], TRUE, 0, 0, FALSE)
  OBVIOUS
<1>2. f = [kind |-> ckind[c], final |-> TRUE, msg |-> 0, units |-> 0, torn |-> FALSE]
  BY <1>1 DEF Frame
<1>3. /\ f \in Frames /\ f.kind \in {"ping", "pong", "close"} /\ f.msg = 0 /\ ~f.torn
  <2>1. ckind[c] \in {"ping", "pong", "close"} /\ ckind[c] \in Kinds
    BY DEF ControlType, Control, Kinds
  <2>2. 0 \in 0 .. MaxWork /\ 0 \in 0 .. MaxUnits
    BY Bounds
  <2>3. QED BY <1>2, <2>1, <2>2 DEF Frames
<1>4. UNCHANGED <<mw, todo, wrote, nmsg, sent>> /\ mu' = Nobody /\ UNCHANGED writeVars
  BY DEF ControlSends, Release, writeVars
<1>5. CASE Writes(f)
  <2>1. /\ writeErr = "none" /\ wire' = Append(wire, f)
        /\ writeErr' = (IF f.kind = "close" THEN "closeSent" ELSE writeErr)
    BY <1>5 DEF Writes, MayWrite, ErrAfter
  <2>2. writeErr' = "none" => f.msg = 0 /\ f.kind \notin {"data", "cont", "close"} /\ ~f.torn
    BY <1>3, <2>1
  <2>3. QED BY <1>3, <1>4, <2>1, <2>2, OtherFrame
<1>6. CASE WriteErrs(f) /\ MayWrite
  <2>1. PICK g : g = [f EXCEPT !.torn = TRUE]
    OBVIOUS
  <2>2. g \in Frames /\ g.kind = f.kind /\ g.msg = 0
    BY <1>3, <2>1 DEF Frames
  <2>3. writeErr = "none" /\ wire' = Append(wire, g) /\ writeErr' = "io"
    BY <1>6, <2>1 DEF WriteErrs, MayWrite
  <2>4. g.kind \notin {"data", "cont"}
    BY <1>3, <2>2
  <2>5. QED BY <1>4, <2>2, <2>3, <2>4, OtherFrame
<1>7. CASE WriteErrs(f) /\ ~MayWrite
  BY <1>4, <1>7, WriterStands DEF WriteErrs
<1>8. QED BY <1>1, <1>5, <1>6, <1>7 DEF ControlSends

LEMMA WriterRestKeeps ==
  ASSUME WireInv, WriterType, WriterInv, WriterType', WriterInv',
         mu' \in Actors \cup {Writer, Nobody}, wire' = wire, writeErr' = writeErr,
         sent' = sent,
         writeErr = "none" => ((mw'.kind = "cont") <=> (mw.kind = "cont")),
         \/ nmsg' = nmsg /\ ~Open'
         \/ nmsg' = nmsg /\ Open /\ wrote' - mw'.buf - todo' = wrote - mw.buf - todo
         \/ nmsg' = nmsg + 1 /\ wrote' = mw'.buf + todo'
  PROVE  WireInv'
<1>1. /\ nmsg \in Nat /\ nmsg' \in Nat
      /\ mw.buf \in Nat /\ todo \in Nat /\ wrote \in Nat
      /\ mw'.buf \in Nat /\ todo' \in Nat /\ wrote' \in Nat
  BY Bounds DEF WriterType
<1>2. PICK u \in Nat : u = UnitsOf(nmsg)
  BY PlacesFinite DEF WireInv, WireType
<1>3. wrote' - mw'.buf - todo' = wrote - mw.buf - todo /\ wrote = u + mw.buf + todo
         => wrote' = u + mw'.buf + todo'
  BY <1>1
<1>4. QED BY <1>1, <1>2, <1>3, WireSame

LEMMA WireKeeps ==
  ASSUME WireInv, WriterType, WriterInv, ControlType, WriterType', WriterInv', [Next]_vars
  PROVE  WireInv'
<1>1. mu \in Actors \cup {Writer, Nobody}
  BY DEF WireInv, WireType
<1>2. /\ nmsg \in Nat /\ mw.buf \in Nat /\ todo \in Nat /\ wrote \in Nat
      /\ mw'.buf \in Nat /\ todo' \in Nat /\ wrote' \in Nat
  BY Bounds DEF WriterType
<1>3. ASSUME NEW kind \in {"data", "close"}, NEW n \in Nat, BeginMessage(kind, n), todo' = todo,
             todo = 0, ~Open, mu' = mu, wire' = wire, writeErr' = writeErr, sent' = sent
      PROVE WireInv'
  <2>1. mw' = [msg |-> nmsg + 1, kind |-> kind, buf |-> n] /\ wrote' = n /\ nmsg' = nmsg + 1
    BY <1>3 DEF BeginMessage
  <2>2. mw'.kind # "cont" /\ mw.kind # "cont" /\ wrote' = mw'.buf + todo'
    BY <1>3, <2>1, Records DEF WriterInv
  <2>3. QED BY <1>1, <1>3, <2>1, <2>2, WriterRestKeeps
<1>4. ASSUME NEW kind \in {"data", "close"}, NEW n \in Sizes \cup {0}, NextMessage(kind, n)
      PROVE WireInv'
  <2>1. n \in Nat /\ todo = 0 /\ ~Open
    BY <1>4, Bounds DEF NextMessage, WriterInv
  <2>2. QED BY <1>4, <1>3, <2>1 DEF NextMessage
<1>5. ASSUME NEW kind \in {"data", "close"}, NEW n \in Sizes \cup {0},
             NextMessageCloses(kind, n)
      PROVE WireInv'
  BY <1>1, <1>5, WriterRestKeeps DEF NextMessageCloses
<1>6. ASSUME NEW n \in Sizes, WriteBig(n)
      PROVE WireInv'
  <2>1. n \in Nat /\ mw'.buf = mw.buf + n /\ mw'.kind = mw.kind /\ wrote' = wrote + n /\ todo' = todo
    BY <1>6, Bounds DEF WriteBig, WriterType
  <2>2. wrote' - mw'.buf - todo' = wrote - mw.buf - todo
    BY <1>2, <2>1
  <2>3. QED BY <1>1, <1>6, <2>1, <2>2, WriterRestKeeps DEF WriteBig
<1>7. ASSUME NEW n \in Nat, Fill(n)
      PROVE mw'.buf + todo' = mw.buf + n /\ mw'.kind = mw.kind
  <2>1. PICK k : /\ mw' = [mw EXCEPT !.buf = mw.buf + k] /\ todo' = n - k
                 /\ k = (IF n < Cap - mw.buf THEN n ELSE Cap - mw.buf)
    BY <1>7 DEF Fill, Kept
  <2>2. mw'.buf = mw.buf + k /\ mw'.kind = mw.kind
    BY <2>1 DEF WriterType
  <2>3. k \in Int
    BY <1>2, <2>1, Bounds
  <2>4. QED BY <1>2, <2>1, <2>2, <2>3
<1>8. ASSUME NEW n \in Sizes, Write(n)
      PROVE WireInv'
  <2>1. n \in Nat /\ wrote' = wrote + n /\ todo = 0
    BY <1>8, Bounds DEF Write, WriterInv
  <2>2. mw'.buf + todo' = mw.buf + n /\ mw'.kind = mw.kind
    BY <1>8, <1>7, <2>1 DEF Write
  <2>3. wrote' - mw'.buf - todo' = wrote - mw.buf - todo
    BY <1>2, <2>1, <2>2
  <2>4. QED BY <1>1, <1>8, <2>2, <2>3, WriterRestKeeps DEF Write
<1>9. CASE CloseWriter
  BY <1>1, <1>9, WriterRestKeeps DEF CloseWriter
<1>10. CASE Begin
  <2>1. ~Open /\ todo = 0
    BY <1>10 DEF Begin, WriterInv
  <2>2. CASE BeginMessage(ask.kind, ask.units)
    <3>1. ask.kind \in {"data", "close"} /\ ask.units \in Nat
      BY Bounds DEF WriterInv, WriterType
    <3>2. QED BY <1>10, <1>3, <2>1, <2>2, <3>1 DEF Begin
  <2>3. CASE ~BeginMessage(ask.kind, ask.units)
    <3>1. UNCHANGED <<mu, mw, nmsg, wire, writeErr, sent>>
      BY <1>10, <2>3 DEF Begin
    <3>2. ~Open'
      BY <2>1, <3>1 DEF Open
    <3>3. QED BY <1>1, <3>1, <3>2, WriterRestKeeps
  <2>4. QED BY <2>2, <2>3
<1>11. CASE WriteRest
  <2>1. Open /\ Fill(todo)
    BY <1>11 DEF WriteRest, WriterInv
  <2>2. PICK n \in Nat : n = todo
    BY <1>2
  <2>3. Fill(n)
    BY <2>1, <2>2
  <2>4. mw'.buf + todo' = mw.buf + todo /\ mw'.kind = mw.kind /\ wrote' = wrote
    BY <1>11, <1>7, <2>2, <2>3 DEF WriteRest
  <2>5. wrote' - mw'.buf - todo' = wrote - mw.buf - todo
    BY <1>2, <2>4
  <2>6. QED BY <1>1, <1>11, <2>1, <2>4, <2>5, WriterRestKeeps DEF WriteRest
<1>12. CASE FlushRefuses
  <2>1. mw.kind # "cont"
    BY <1>12 DEF FlushRefuses, ControlTooLong, Control
  <2>2. ~Open' /\ mw'.kind = "data"
    BY <1>12, Records DEF FlushRefuses, EndMessage, Open
  <2>3. QED BY <1>1, <1>12, <2>1, <2>2, WriterRestKeeps DEF FlushRefuses
<1>13. CASE WriterLocks
  <2>1. mu' \in Actors \cup {Writer, Nobody} /\ Open
    BY <1>13 DEF WriterLocks, Acquire, WriterInv
  <2>2. QED BY <1>13, <2>1, WriterRestKeeps DEF WriterLocks
<1>14. CASE WriterSends
  BY <1>14, WriterSendsKeeps
<1>15. CASE WriterFails
  BY <1>15, WriterFailsKeeps
<1>16. ASSUME NEW c \in Actors, ControlStep(c)
       PROVE WireInv'
  <2>1. CASE ControlTimeout(c)
    BY <1>1, <2>1, WriterStands DEF ControlTimeout
  <2>2. CASE ControlLocks(c)
    <3>1. mu' \in Actors \cup {Writer, Nobody}
      BY <2>2 DEF ControlLocks, Acquire
    <3>2. QED BY <2>2, <3>1, WriterStands DEF ControlLocks
  <2>3. CASE ControlSends(c)
    BY <2>3, ControlSendsKeeps
  <2>4. QED BY <1>16, <2>1, <2>2, <2>3 DEF ControlStep
<1>17. ASSUME NEW c \in Controls, NEW kind \in {"ping", "close"}, WriteControl(c, kind)
       PROVE WireInv'
  BY <1>1, <1>17, WriterStands DEF WriteControl
<1>18. CASE ByReader
  BY <1>1, <1>18, ReaderLeaves, WriterStands
<1>19. CASE UNCHANGED vars
  BY <1>1, <1>19, WriterStands DEF vars
<1>20. QED
  BY <1>4, <1>5, <1>6, <1>8, <1>9, <1>10, <1>11, <1>12, <1>13, <1>14, <1>15, <1>16, <1>17,
     <1>18, <1>19, WhoSteps
  DEF ByWriter, ByControl, WriterStep

-----------------------------------------------------------------------------
(* WriteControl, and the answers of the reader.                             *)

ReplyAll == ReplyInv /\ ReaderShutsWriter

LEMMA ControlInit == Init => ControlType /\ ReplyAll
<1> SUFFICES ASSUME Init PROVE ControlType /\ ReplyAll
  OBVIOUS
<1>1. 0 \in 0 .. MaxWork /\ "ping" \in Control
  BY Bounds DEF Control
<1>2. ControlType
  BY <1>1 DEF Init, ControlType
<1>3. ReplyAll
  BY DEF Init, ReplyAll, ReplyInv, ReaderShutsWriter
<1>4. QED BY <1>2, <1>3

LEMMA Called ==
  ASSUME ControlType, NEW c \in Actors, NEW kind \in Control, CallControl(c, kind)
  PROVE  /\ cpc' \in [Actors -> {"idle", "lock", "send"}] /\ ckind' \in [Actors -> Control]
         /\ cpc'[c] = "lock" /\ ckind'[c] = kind /\ late' = late
         /\ \A a \in Actors : a # c => cpc'[a] = cpc[a] /\ ckind'[a] = ckind[a]
BY DEF CallControl, ControlType

LEMMA LittleWork ==
  ASSUME MoreWork, WriterType, ControlType, in \in Seq(InFrames)
  PROVE  ncall + 1 \in 0 .. MaxWork /\ ncall \in 0 .. MaxWork
<1>1. nmsg \in Nat /\ Len(in) \in Nat /\ ncall \in Nat /\ MaxWork \in Nat
  BY Bounds DEF WriterType, ControlType
<1>2. 2 * nmsg + Len(in) + ncall < MaxWork
  BY DEF MoreWork
<1>3. QED BY <1>1, <1>2

LEMMA ControlKeeps ==
  ASSUME ControlType, WriterType, in \in Seq(InFrames), [Next]_vars
  PROVE  ControlType'
<1>1. ASSUME NEW c \in Actors, ControlStep(c)
      PROVE ControlType'
  <2>1. "ping" \in Control
    BY DEF Control
  <2>2. QED BY <1>1, <2>1 DEF ControlStep, ControlTimeout, ControlLocks, ControlSends, ControlType
<1>2. ASSUME NEW c \in Controls, NEW kind \in {"ping", "close"}, WriteControl(c, kind)
      PROVE ControlType'
  <2>1. c \in Actors /\ kind \in Control
    BY DEF Actors, Control
  <2>2. QED BY <1>2, <2>1, Called, LittleWork DEF WriteControl, ControlType
<1>3. CASE ByWriter
  BY <1>3, WriterLeaves DEF ctlVars, ControlType
<1>4. CASE ByReader
  <2>1. \/ UNCHANGED <<cpc, ckind>>
        \/ \E kind \in Control, err \in Verdicts : Reply(kind, err)
    <3>1. ASSUME NEW n, ReadUnits(n)
          PROVE UNCHANGED <<cpc, ckind>>
      BY <3>1 DEF ReadUnits, ctlVars
    <3>2. ASSUME NextReader \/ Read \/ ReadEnds \/ ReadFails \/ ReplyDone \/ ReadOverflow
          PROVE UNCHANGED <<cpc, ckind>>
      BY <3>2 DEF NextReader, Read, ReadEnds, ReadFails, ReplyDone, ReadOverflow, ctlVars
    <3>3. /\ "close" \in Control /\ "pong" \in Control
          /\ {"protocol", "limit", "closed", "none"} \subseteq Verdicts
      BY DEF Control, Verdicts
    <3>4. ASSUME NEW kind, NEW fin, NEW n, ReadData(kind, fin, n)
          PROVE \/ UNCHANGED <<cpc, ckind>>
                \/ Reply("close", "protocol") \/ Reply("close", "limit")
      BY <3>4 DEF ReadData, ctlVars
    <3>5. ASSUME NEW kind \in Control, ReadControl(kind)
          PROVE \/ UNCHANGED <<cpc, ckind>>
                \/ Reply("pong", "none") \/ Reply("close", "closed")
      BY <3>5 DEF ReadControl, ctlVars, Control
    <3>6. QED BY <1>4, <3>1, <3>2, <3>3, <3>4, <3>5 DEF ByReader, ReadNonsense
  <2>2. ASSUME NEW kind \in Control, NEW err, Reply(kind, err)
        PROVE cpc' \in [Actors -> {"idle", "lock", "send"}] /\ ckind' \in [Actors -> Control]
    BY <2>2, Called, Bounds DEF Reply
  <2>3. late' = late /\ ncall' = ncall
    BY <1>4, ReaderLeaves
  <2>4. QED BY <2>1, <2>2, <2>3 DEF ControlType
<1>5. CASE UNCHANGED vars
  BY <1>5 DEF vars, ctlVars, ControlType
<1>6. QED BY <1>1, <1>2, <1>3, <1>4, <1>5, WhoSteps DEF ByControl

LEMMA ErrorsStay ==
  ASSUME [Next]_vars
  PROVE  /\ writeErr # "none" => writeErr' # "none"
         /\ late => late'
<1>1. ASSUME NEW c \in Actors, ControlStep(c)
      PROVE (writeErr # "none" => writeErr' # "none") /\ (late => late')
  <2>1. writeErr # "none" => writeErr' # "none"
    BY <1>1 DEF ControlStep, ControlTimeout, ControlLocks, ControlSends, Writes, WriteErrs, MayWrite
  <2>2. late' = late \/ late' = (late \/ (c = Reader /\ ckind[c] = "close"))
    BY <1>1 DEF ControlStep, ControlTimeout, ControlLocks, ControlSends
  <2>3. late => late'
    BY <2>2, Zenon
  <2>4. QED BY <2>1, <2>3
<1>2. ASSUME NEW c \in Controls, NEW kind \in {"ping", "close"}, WriteControl(c, kind)
      PROVE UNCHANGED <<writeErr, late>>
  BY <1>2 DEF WriteControl, CallControl
<1>3. ASSUME ByWriter
      PROVE (writeErr # "none" => writeErr' # "none") /\ late' = late
  <2>1. late' = late
    BY <1>3, WriterLeaves DEF ctlVars
  <2>2. ASSUME NEW kind, NEW n, NextMessage(kind, n) \/ NextMessageCloses(kind, n)
        PROVE writeErr' = writeErr
    BY <2>2 DEF NextMessage, NextMessageCloses
  <2>3. ASSUME NEW n, WriteBig(n) \/ Write(n)
        PROVE writeErr' = writeErr
    BY <2>3 DEF WriteBig, Write
  <2>4. ASSUME CloseWriter \/ WriterStep \/ WriterSends \/ WriterFails
        PROVE writeErr # "none" => writeErr' # "none"
    BY <2>4 DEF CloseWriter, WriterStep, Begin, WriteRest, FlushRefuses, WriterLocks,
       WriterSends, WriterFails, Writes, WriteErrs, MayWrite
  <2>5. QED BY <1>3, <2>1, <2>2, <2>3, <2>4 DEF ByWriter
<1>4. ASSUME ByReader
      PROVE UNCHANGED <<writeErr, late>>
  BY <1>4, ReaderLeaves
<1>5. ASSUME UNCHANGED vars
      PROVE UNCHANGED <<writeErr, late>>
  BY <1>5 DEF vars, ctlVars
<1>6. QED BY <1>1, <1>2, <1>3, <1>4, <1>5, WhoSteps DEF ByControl

LEMMA ReplyKeeps ==
  ASSUME ReplyAll, ControlType, [Next]_vars
  PROVE  ReplyAll'
<1>0. writeErr # "none" \/ late => writeErr' # "none" \/ late'
  BY ErrorsStay
<1>1. ASSUME UNCHANGED <<rpc, readErr, verdict>>, UNCHANGED <<cpc, ckind>>
      PROVE ReplyAll'
  BY <1>0, <1>1 DEF ReplyAll, ReplyInv, ReaderShutsWriter
<1>2. CASE ByWriter
  BY <1>1, <1>2, WriterLeaves DEF readVars, ctlVars
<1>3. ASSUME NEW c \in Controls, NEW kind \in {"ping", "close"}, WriteControl(c, kind)
      PROVE ReplyAll'
  <2>1. c \in Actors /\ kind \in Control /\ Reader \in Actors /\ c # Reader
    BY WsConnAssumption DEF Actors, Control
  <2>2. cpc'[Reader] = cpc[Reader] /\ ckind'[Reader] = ckind[Reader]
    BY <1>3, <2>1, Called DEF WriteControl
  <2>3. UNCHANGED <<rpc, readErr, verdict>>
    BY <1>3 DEF WriteControl, readVars
  <2>4. QED BY <1>0, <2>2, <2>3 DEF ReplyAll, ReplyInv, ReaderShutsWriter
<1>4. ASSUME NEW c \in Actors, ControlStep(c)
      PROVE ReplyAll'
  <2>1. UNCHANGED <<rpc, readErr, verdict>>
    BY <1>4, ControlLeaves DEF ByControl, readVars
  <2>2. CASE c # Reader
    <3>1. cpc'[Reader] = cpc[Reader] /\ ckind'[Reader] = ckind[Reader]
      BY <1>4, <2>2, Bounds DEF ControlStep, ControlTimeout, ControlLocks, ControlSends, ControlType
    <3>2. QED BY <1>0, <2>1, <3>1 DEF ReplyAll, ReplyInv, ReaderShutsWriter
  <2>3. CASE c = Reader
    <3>1. ASSUME rpc = "reply"
          PROVE \/ cpc'[Reader] # "idle" /\ ckind'[Reader] = "close"
                \/ writeErr' # "none" \/ late'
      <4>1. CASE writeErr # "none" \/ late
        BY <1>0, <4>1
      <4>2. CASE ~(writeErr # "none" \/ late)
        <5>1. ckind[Reader] = "close"
          BY <3>1, <4>2 DEF ReplyAll, ReplyInv
        <5>2. CASE ControlTimeout(Reader)
          BY <5>1, <5>2 DEF ControlTimeout
        <5>3. CASE ControlLocks(Reader)
          BY <5>1, <5>3, Bounds DEF ControlLocks, ControlType
        <5>4. CASE ControlSends(Reader)
          <6>1. PICK f : f = Frame(ckind[Reader], TRUE, 0, 0, FALSE)
            OBVIOUS
          <6>2. f.kind = "close"
            BY <5>1, <6>1 DEF Frame
          <6>3. Writes(f) \/ WriteErrs(f)
            BY <5>4, <6>1 DEF ControlSends
          <6>4. QED BY <6>2, <6>3 DEF Writes, WriteErrs, MayWrite, ErrAfter
        <5>5. QED BY <1>4, <2>3, <5>2, <5>3, <5>4 DEF ControlStep
      <4>3. QED BY <4>1, <4>2
    <3>2. QED BY <1>0, <2>1, <3>1 DEF ReplyAll, ReplyInv, ReaderShutsWriter
  <2>4. QED BY <2>2, <2>3
<1>5. ASSUME NEW kind \in Control, NEW err \in {"none", "protocol", "limit", "closed"}, Reply(kind, err),
             err = "none" \/ kind = "close", WantsFrame
      PROVE ReplyAll'
  <2>1. cpc'[Reader] = "lock" /\ ckind'[Reader] = kind
    BY <1>5, Called, Bounds DEF Reply
  <2>2. /\ rpc \in {"next", "read"} /\ verdict' = err /\ readErr' = readErr
        /\ rpc' = (IF err = "none" THEN rpc ELSE "reply")
    BY <1>5 DEF Reply, WantsFrame
  <2>3. QED BY <1>0, <1>5, <2>1, <2>2 DEF ReplyAll, ReplyInv, ReaderShutsWriter
<1>6. ASSUME UNCHANGED <<cpc, ckind>>, rpc # "reply", rpc' # "reply", verdict' = verdict,
             readErr' \in {readErr, "io", "overflow"}
      PROVE ReplyAll'
  BY <1>0, <1>6 DEF ReplyAll, ReplyInv, ReaderShutsWriter
<1>7. ASSUME ByReader
      PROVE ReplyAll'
  <2>1. ASSUME NEW n, ReadUnits(n)
        PROVE ReplyAll'
    BY <1>1, <2>1 DEF ReadUnits, ctlVars
  <2>2. CASE NextReader \/ Read \/ ReadEnds \/ ReadFails \/ ReadOverflow
    <3>1. UNCHANGED <<cpc, ckind>> /\ rpc # "reply" /\ rpc' # "reply" /\ verdict' = verdict
      BY <2>2 DEF NextReader, Read, ReadEnds, ReadFails, ReadOverflow, WantsFrame, CanRead, ctlVars
    <3>2. readErr' \in {readErr, "io", "overflow"}
      BY <2>2 DEF NextReader, Read, ReadEnds, ReadFails, ReadOverflow
    <3>3. QED BY <1>6, <3>1, <3>2
  <2>3. CASE ReplyDone
    BY <1>0, <2>3 DEF ReplyDone, ReplyAll, ReplyInv, ReaderShutsWriter
  <2>4. ASSUME NEW kind, NEW fin, NEW n, ReadData(kind, fin, n)
        PROVE ReplyAll'
    <3>1. WantsFrame /\ "close" \in Control
      BY <2>4 DEF ReadData, Control
    <3>2. CASE Reply("close", "protocol") \/ Reply("close", "limit")
      BY <1>5, <3>1, <3>2
    <3>3. CASE ~(Reply("close", "protocol") \/ Reply("close", "limit"))
      <4>1. UNCHANGED <<cpc, ckind, verdict, readErr>> /\ rpc' \in {"idle", rpc}
        BY <2>4, <3>3 DEF ReadData, ctlVars
      <4>2. QED BY <1>6, <3>1, <4>1 DEF WantsFrame
    <3>4. QED BY <3>2, <3>3
  <2>5. ASSUME NEW kind \in Control, ReadControl(kind)
        PROVE ReplyAll'
    <3>1. WantsFrame /\ "close" \in Control /\ "pong" \in Control
      BY <2>5 DEF ReadControl, Control
    <3>2. CASE Reply("pong", "none") \/ Reply("close", "closed")
      BY <1>5, <3>1, <3>2
    <3>3. CASE ~(Reply("pong", "none") \/ Reply("close", "closed"))
      <4>1. UNCHANGED <<cpc, ckind, rpc, verdict, readErr>>
        BY <2>5, <3>3 DEF ReadControl, ctlVars, Control
      <4>2. QED BY <1>1, <4>1
    <3>4. QED BY <3>2, <3>3
  <2>6. CASE ReadNonsense
    <3>1. WantsFrame /\ "close" \in Control /\ Reply("close", "protocol")
      BY <2>6 DEF ReadNonsense, Control
    <3>2. QED BY <1>5, <3>1
  <2>7. QED BY <1>7, <2>1, <2>2, <2>3, <2>4, <2>5, <2>6 DEF ByReader
<1>8. CASE UNCHANGED vars
  BY <1>1, <1>8 DEF vars, ctlVars, readVars
<1>9. QED BY <1>2, <1>3, <1>4, <1>7, <1>8, WhoSteps DEF ByControl

-----------------------------------------------------------------------------
(* What is read: what one more frame changes.                               *)

LEMMA InGrows ==
  ASSUME in \in Seq(InFrames), NEW x \in InFrames, in' = Append(in, x),
         NEW n \in Nat, n = Len(in) + 1
  PROVE  /\ in' \in Seq(InFrames) /\ Len(in') = n
         /\ DOMAIN in = 1 .. n - 1 /\ DOMAIN in' = 1 .. n /\ in'[n] = x
         /\ \A i \in 1 .. n - 1 : in'[i] = in[i] /\ in[i] \in InFrames
         /\ x[1] \in Kinds /\ x[2] \in BOOLEAN /\ x[3] \in 0 .. MaxFrame
<1>1. x[1] \in Kinds /\ x[2] \in BOOLEAN /\ x[3] \in 0 .. MaxFrame
  BY DEF InFrames
<1>2. QED BY <1>1, OneMore

\* The places of the units of the frames S.
InPlaces(S) == {u \in S \X (1 .. MaxFrame) : u[2] <= in[u[1]][3]}

LEMMA InPlacesFinite ==
  ASSUME in \in Seq(InFrames), NEW S, S \subseteq DOMAIN in
  PROVE  IsFiniteSet(InPlaces(S)) /\ Units(S) = Cardinality(InPlaces(S)) /\ Units(S) \in Nat
<1>1. Len(in) \in Nat /\ DOMAIN in = 1 .. Len(in)
  OBVIOUS
<1>2. IsFiniteSet(1 .. Len(in)) /\ IsFiniteSet(1 .. MaxFrame)
  BY <1>1, Bounds, FS_Interval
<1>3. IsFiniteSet(S)
  BY <1>1, <1>2, FS_Subset
<1>4. IsFiniteSet(S \X (1 .. MaxFrame))
  BY <1>2, <1>3, FS_Product
<1>5. InPlaces(S) \subseteq S \X (1 .. MaxFrame)
  BY DEF InPlaces
<1>6. IsFiniteSet(InPlaces(S))
  BY <1>4, <1>5, FS_Subset
<1>7. Units(S) = Cardinality(InPlaces(S))
  BY DEF Units, InPlaces
<1>8. QED BY <1>6, <1>7, FS_CardinalityType

LEMMA InUnitsGrow ==
  ASSUME in \in Seq(InFrames), NEW x \in InFrames, in' = Append(in, x),
         NEW n \in Nat, n = Len(in) + 1, NEW S, S \subseteq DOMAIN in
  PROVE  Units(S)' = Units(S) /\ Units(S \cup {n})' = Units(S) + x[3]
<1>1. /\ DOMAIN in = 1 .. n - 1 /\ in'[n] = x
      /\ \A i \in S : in'[i] = in[i] /\ i # n
      /\ x[3] \in 0 .. MaxFrame
  BY InGrows
<1>2. InPlaces(S)' = InPlaces(S)
  BY <1>1 DEF InPlaces
<1>3. Units(S)' = Cardinality(InPlaces(S)')
  BY DEF Units, InPlaces
<1>4. PICK k \in Nat : k = x[3]
  BY <1>1
<1>5. PICK A : A = InPlaces(S)
  OBVIOUS
<1>6. InPlaces(S \cup {n})' = A \cup Column(n, k)
  <2>1. ASSUME NEW u \in InPlaces(S \cup {n})'
        PROVE u \in A \cup Column(n, k)
    <3>1. u \in (S \cup {n}) \X (1 .. MaxFrame) /\ u[2] <= in'[u[1]][3]
      BY <2>1 DEF InPlaces
    <3>2. CASE u[1] = n
      BY <1>1, <1>4, <3>1, <3>2 DEF Column
    <3>3. CASE u[1] # n
      BY <1>1, <1>5, <3>1, <3>3 DEF InPlaces
    <3>4. QED BY <3>2, <3>3
  <2>2. ASSUME NEW u \in A
        PROVE u \in InPlaces(S \cup {n})'
    BY <1>1, <1>5 DEF InPlaces
  <2>3. ASSUME NEW u \in Column(n, k)
        PROVE u \in InPlaces(S \cup {n})'
    BY <1>1, <1>4, Bounds DEF InPlaces, Column
  <2>4. QED BY <2>1, <2>2, <2>3
<1>7. A \cap Column(n, k) = {}
  BY <1>1, <1>5 DEF InPlaces, Column
<1>8. Cardinality(A \cup Column(n, k)) = Cardinality(A) + k
  BY <1>5, <1>7, Block, InPlacesFinite
<1>9. Units(S \cup {n})' = Cardinality(InPlaces(S \cup {n})')
  BY DEF Units, InPlaces
<1>10. QED BY <1>2, <1>3, <1>4, <1>5, <1>6, <1>8, <1>9, InPlacesFinite

\* The next frame goes on with the message that starts with the frame a.
GoesOn(a, x) ==
  /\ x[1] = "cont"
  /\ \A j \in a + 1 .. Len(in) : in[j][1] # "data"
  /\ \A j \in a .. Len(in) : in[j][1] \in Control \/ ~in[j][2]

LEMMA MessageGrows ==
  ASSUME in \in Seq(InFrames), NEW x \in InFrames, in' = Append(in, x),
         NEW n \in Nat, n = Len(in) + 1, NEW a \in DOMAIN in
  PROVE  /\ FragmentsOf(a) \subseteq DOMAIN in
         /\ ~GoesOn(a, x) => FragmentsOf(a)' = FragmentsOf(a)
         /\ GoesOn(a, x) => FragmentsOf(a)' = FragmentsOf(a) \cup {n}
<1>1. /\ DOMAIN in = 1 .. n - 1 /\ Len(in) = n - 1 /\ Len(in') = n /\ in'[n] = x /\ a \in 1 .. n - 1
      /\ \A i \in 1 .. n - 1 : in'[i] = in[i]
      /\ x[1] \in Kinds
  BY InGrows
<1>2. FragmentsOf(a) \subseteq DOMAIN in
  BY <1>1 DEF FragmentsOf
<1>3. ASSUME NEW i \in a .. n - 1
      PROVE i \in FragmentsOf(a)' <=> i \in FragmentsOf(a)
  <2>1. /\ i \in 1 .. n - 1 /\ i \in a .. n /\ a + 1 .. i \subseteq 1 .. n - 1
        /\ a .. i - 1 \subseteq 1 .. n - 1
    BY <1>1
  <2>2. i \in FragmentsOf(a) <=>
          /\ in[i][1] \in {"data", "cont"}
          /\ \A j \in a + 1 .. i : in[j][1] # "data"
          /\ \A j \in a .. i - 1 : in[j][1] \in Control \/ ~in[j][2]
    BY <1>1 DEF FragmentsOf
  <2>3. i \in FragmentsOf(a)' <=>
          /\ in'[i][1] \in {"data", "cont"}
          /\ \A j \in a + 1 .. i : in'[j][1] # "data"
          /\ \A j \in a .. i - 1 : in'[j][1] \in Control \/ ~in'[j][2]
    BY <1>1, <2>1 DEF FragmentsOf
  <2>4. in'[i] = in[i] /\ \A j \in a + 1 .. i : in'[j] = in[j]
    BY <1>1, <2>1
  <2>5. \A j \in a .. i - 1 : in'[j] = in[j]
    BY <1>1, <2>1
  <2>6. QED BY <2>2, <2>3, <2>4, <2>5
<1>4. n \in FragmentsOf(a)' <=> GoesOn(a, x)
  <2>1. n \in a .. n /\ n \in a + 1 .. n /\ a + 1 .. n - 1 \subseteq 1 .. n - 1
        /\ a .. n - 1 \subseteq 1 .. n - 1 /\ \A j \in a + 1 .. n : j = n \/ j \in a + 1 .. n - 1
    BY <1>1
  <2>2. n \in FragmentsOf(a)' <=>
          /\ x[1] \in {"data", "cont"}
          /\ \A j \in a + 1 .. n : in'[j][1] # "data"
          /\ \A j \in a .. n - 1 : in'[j][1] \in Control \/ ~in'[j][2]
    BY <1>1, <2>1 DEF FragmentsOf
  <2>3. (\A j \in a + 1 .. n : in'[j][1] # "data") <=>
          x[1] # "data" /\ \A j \in a + 1 .. n - 1 : in[j][1] # "data"
    BY <1>1, <2>1
  <2>4. (\A j \in a .. n - 1 : in'[j][1] \in Control \/ ~in'[j][2]) <=>
          \A j \in a .. n - 1 : in[j][1] \in Control \/ ~in[j][2]
    BY <1>1, <2>1
  <2>5. QED BY <1>1, <2>2, <2>3, <2>4 DEF GoesOn
<1>5. FragmentsOf(a) \subseteq a .. n - 1 /\ FragmentsOf(a)' \subseteq a .. n
  BY <1>1 DEF FragmentsOf
<1>6. a .. n = (a .. n - 1) \cup {n} /\ n \notin a .. n - 1
  BY <1>1
<1>7. QED BY <1>2, <1>3, <1>4, <1>5, <1>6

LEMMA MessageUnitsGrow ==
  ASSUME in \in Seq(InFrames), NEW x \in InFrames, in' = Append(in, x),
         NEW n \in Nat, n = Len(in) + 1, NEW a \in DOMAIN in
  PROVE  /\ Units(FragmentsOf(a)) \in Nat /\ x[3] \in Nat
         /\ ~GoesOn(a, x) => Units(FragmentsOf(a))' = Units(FragmentsOf(a))
         /\ GoesOn(a, x) => Units(FragmentsOf(a))' = Units(FragmentsOf(a)) + x[3]
<1>1. PICK S : S = FragmentsOf(a)
  OBVIOUS
<1>2. PICK T : T = FragmentsOf(a)'
  OBVIOUS
<1>3. /\ S \subseteq DOMAIN in
      /\ ~GoesOn(a, x) => T = S
      /\ GoesOn(a, x) => T = S \cup {n}
  BY <1>1, <1>2, MessageGrows
<1>4. Units(S) \in Nat /\ Units(S)' = Units(S) /\ Units(S \cup {n})' = Units(S) + x[3]
  BY <1>3, InPlacesFinite, InUnitsGrow
<1>5. Units(FragmentsOf(a))' = Units(T)'
  BY <1>2 DEF Units
<1>6. x[3] \in Nat
  BY InGrows, Bounds
<1>7. QED BY <1>1, <1>3, <1>4, <1>5, <1>6

LEMMA MessageStarts ==
  ASSUME in \in Seq(InFrames), NEW x \in InFrames, in' = Append(in, x),
         NEW n \in Nat, n = Len(in) + 1, x[1] = "data"
  PROVE  FragmentsOf(n)' = {n} /\ Units(FragmentsOf(n))' = x[3] /\ x[3] \in Nat
<1>1. FragmentsOf(n)' = {n}
  <2>1. Len(in') = n /\ in'[n] = x
    BY InGrows
  <2>2. n .. n = {n} /\ n + 1 .. n = {} /\ n .. n - 1 = {}
    OBVIOUS
  <2>3. FragmentsOf(n)' =
          {i \in n .. n : /\ in'[i][1] \in {"data", "cont"}
                          /\ \A j \in n + 1 .. i : in'[j][1] # "data"
                          /\ \A j \in n .. i - 1 : in'[j][1] \in Control \/ ~in'[j][2]}
    BY <2>1 DEF FragmentsOf
  <2>4. QED BY <2>1, <2>2, <2>3
<1>2. PICK S : S = {}
  OBVIOUS
<1>3. Units(S) = 0
  <2>1. InPlaces(S) = {}
    BY <1>2 DEF InPlaces
  <2>2. QED BY <1>2, <2>1, InPlacesFinite, FS_EmptySet
<1>4. Units(S \cup {n})' = Units(S) + x[3]
  BY <1>2, InUnitsGrow
<1>5. x[3] \in Nat
  BY InGrows, Bounds
<1>6. Units(FragmentsOf(n))' = Units(S \cup {n})'
  BY <1>1, <1>2 DEF Units
<1>7. QED BY <1>1, <1>3, <1>4, <1>5, <1>6

-----------------------------------------------------------------------------
(* The reader.                                                              *)

\* What ReadFaithful says of one message.
Good(g) ==
  /\ g.units <= Units(FragmentsOf(g.at))
  /\ g.whole => /\ g.units = Units(FragmentsOf(g.at))
                /\ \E j \in FragmentsOf(g.at) : in[j][2]
  /\ Limit > 0 => g.units <= Limit

InOrder == \A i \in DOMAIN got : i > 1 => got[i - 1].at < got[i].at

Messages == [at : Nat, units : Nat, whole : BOOLEAN]

LEMMA OneByOne == ReadFaithful <=> (\A i \in DOMAIN got : Good(got[i])) /\ InOrder
BY DEF ReadFaithful, Good, InOrder

LEMMA GoodStays ==
  ASSUME in \in Seq(InFrames), NEW x \in InFrames, in' = Append(in, x),
         NEW n \in Nat, n = Len(in) + 1, NEW g \in Messages, g.at \in DOMAIN in, Good(g)
  PROVE  Good(g)'
<1>1. PICK a \in DOMAIN in : a = g.at
  OBVIOUS
<1>2. g.units \in Nat /\ g.whole \in BOOLEAN
  BY DEF Messages
<1>3. /\ Units(FragmentsOf(a)) \in Nat /\ x[3] \in Nat
      /\ ~GoesOn(a, x) => Units(FragmentsOf(a))' = Units(FragmentsOf(a))
      /\ GoesOn(a, x) => Units(FragmentsOf(a))' = Units(FragmentsOf(a)) + x[3]
  BY MessageUnitsGrow
<1>4. /\ g.units <= Units(FragmentsOf(a))
      /\ g.whole => /\ g.units = Units(FragmentsOf(a))
                    /\ \E j \in FragmentsOf(a) : in[j][2]
      /\ Limit > 0 => g.units <= Limit
  BY <1>1 DEF Good
<1>5. g.units <= Units(FragmentsOf(a))'
  BY <1>2, <1>3, <1>4
<1>6. ASSUME g.whole
      PROVE g.units = Units(FragmentsOf(a))' /\ \E j \in FragmentsOf(a)' : in'[j][2]
  <2>1. PICK j \in FragmentsOf(a) : in[j][2]
    BY <1>4, <1>6
  <2>2. j \in a .. Len(in) /\ in[j][1] \in {"data", "cont"} /\ j \in DOMAIN in
    BY DEF FragmentsOf
  <2>3. ~GoesOn(a, x)
    BY <2>1, <2>2 DEF GoesOn, Control
  <2>4. FragmentsOf(a)' = FragmentsOf(a)
    BY <2>3, MessageGrows
  <2>5. in'[j] = in[j]
    BY <2>2, InGrows
  <2>6. QED BY <1>3, <1>4, <1>6, <2>1, <2>3, <2>4, <2>5
<1>7. QED BY <1>1, <1>4, <1>5, <1>6 DEF Good

\* A step that leaves the messages alone.
LEMMA FaithfulGrows ==
  ASSUME ReaderType, ReadFaithful, NEW x \in InFrames, in' = Append(in, x), got' = got
  PROVE  /\ in' \in Seq(InFrames) /\ ReadFaithful'
         /\ \A i \in DOMAIN got' : got'[i].at \in DOMAIN in'
<1>0. in \in Seq(InFrames) /\ got \in Seq(Messages) /\ \A i \in DOMAIN got : got[i].at \in DOMAIN in
  BY DEF ReaderType, Messages
<1>1. PICK n \in Nat : n = Len(in) + 1
  BY <1>0
<1>2. in' \in Seq(InFrames) /\ DOMAIN in \subseteq DOMAIN in'
  BY <1>0, <1>1, InGrows
<1>3. ASSUME NEW i \in DOMAIN got
      PROVE Good(got[i])'
  <2>1. PICK g \in Messages : g = got[i]
    BY <1>0
  <2>2. Good(g) /\ g.at \in DOMAIN in
    BY <1>0, <2>1, OneByOne
  <2>3. Good(g)'
    BY <1>0, <1>1, <2>2, GoodStays
  <2>4. g = got'[i]
    BY <2>1
  <2>5. QED BY <2>3, <2>4 DEF Good
<1>4. InOrder'
  BY OneByOne DEF InOrder
<1>5. (\A i \in DOMAIN got : Good(got[i]))'
  BY <1>3 DEF Good
<1>6. ReadFaithful'
  BY <1>4, <1>5, OneByOne, PTL
<1>7. QED BY <1>0, <1>2, <1>6

LEMMA FaithfulStays ==
  ASSUME ReadFaithful, in' = in, got' = got
  PROVE  ReadFaithful'
<1>1. \A a : FragmentsOf(a)' = FragmentsOf(a)
  BY DEF FragmentsOf
<1>2. \A S : Units(S)' = Units(S)
  BY DEF Units
<1>3. ASSUME NEW i \in DOMAIN got
      PROVE Good(got[i])'
  <2>1. PICK g : g = got[i]
    OBVIOUS
  <2>2. PICK S : S = FragmentsOf(g.at)
    OBVIOUS
  <2>3. S = FragmentsOf(g.at)' /\ Units(S)' = Units(S) /\ g = got'[i]
    BY <1>1, <1>2, <2>1, <2>2
  <2>4. Good(g)
    BY <2>1, OneByOne
  <2>5. Units(FragmentsOf(g.at))' = Units(FragmentsOf(g.at))
    BY <2>2, <2>3 DEF Units
  <2>6. QED BY <2>2, <2>3, <2>4, <2>5 DEF Good
<1>4. InOrder'
  BY OneByOne DEF InOrder
<1>5. (\A i \in DOMAIN got : Good(got[i]))'
  BY <1>3 DEF Good
<1>6. QED BY <1>4, <1>5, OneByOne, PTL

\* A step that changes only the last message.
LEMMA LastChanges ==
  ASSUME ReaderType, ReadFaithful, in' = in, got # <<>>, NEW l \in Nat, l = Len(got),
         NEW g \in Messages, g.at = got[l].at, got' = [got EXCEPT ![l] = g],
         Good(g)
  PROVE  /\ ReadFaithful' /\ got' \in Seq(Messages) /\ Len(got') = l /\ got'[l] = g
         /\ \A i \in DOMAIN got' : got'[i].at \in DOMAIN in'
<1>0. got \in Seq(Messages) /\ \A i \in DOMAIN got : got[i].at \in DOMAIN in
  BY DEF ReaderType, Messages
<1>1. /\ l \in DOMAIN got /\ got' \in Seq(Messages) /\ DOMAIN got' = DOMAIN got
      /\ Len(got') = l /\ got'[l] = g
      /\ \A i \in DOMAIN got : i # l => got'[i] = got[i]
  BY <1>0
<1>2. \A a : FragmentsOf(a)' = FragmentsOf(a)
  BY DEF FragmentsOf
<1>3. \A S : Units(S)' = Units(S)
  BY DEF Units
<1>4. ASSUME NEW m, Good(m)
      PROVE Good(m)'
  <2>1. PICK S : S = FragmentsOf(m.at)
    OBVIOUS
  <2>2. S = FragmentsOf(m.at)' /\ Units(S)' = Units(S)
    BY <1>2, <1>3, <2>1
  <2>3. Units(FragmentsOf(m.at))' = Units(FragmentsOf(m.at))
    BY <2>1, <2>2 DEF Units
  <2>4. QED BY <1>4, <2>1, <2>2, <2>3 DEF Good
<1>5. ASSUME NEW i \in DOMAIN got'
      PROVE Good(got[i])'
  <2>1. PICK m : m = got'[i]
    OBVIOUS
  <2>2. Good(m)
    BY <1>1, <2>1, OneByOne
  <2>3. Good(m)'
    BY <1>4, <2>2
  <2>4. QED BY <2>1, <2>3 DEF Good
<1>6. \A i \in DOMAIN got : got'[i].at = got[i].at
  BY <1>1
<1>7. InOrder'
  <2>1. SUFFICES ASSUME NEW i \in DOMAIN got', i > 1
                 PROVE got'[i - 1].at < got'[i].at
    BY DEF InOrder
  <2>2. i \in DOMAIN got /\ i - 1 \in DOMAIN got
    BY <1>0, <1>1, <2>1
  <2>3. got[i - 1].at < got[i].at
    BY <2>1, <2>2, OneByOne DEF InOrder
  <2>4. QED BY <1>6, <2>2, <2>3
<1>8. (\A i \in DOMAIN got : Good(got[i]))'
  BY <1>5 DEF Good
<1>9. ReadFaithful'
  BY <1>7, <1>8, OneByOne, PTL
<1>10. QED BY <1>0, <1>1, <1>6, <1>9

\* A message starts.
LEMMA MessageStartsFaithful ==
  ASSUME ReaderType, ReadFaithful, NEW x \in InFrames, in' = Append(in, x), x[1] = "data",
         got' = Append(got, [at |-> Len(in) + 1, units |-> 0, whole |-> FALSE])
  PROVE  /\ in' \in Seq(InFrames) /\ ReadFaithful' /\ got' \in Seq(Messages)
         /\ \A i \in DOMAIN got' : got'[i].at \in DOMAIN in'
         /\ Len(got') \in Nat /\ Len(got') > 0
         /\ got'[Len(got')] = [at |-> Len(in) + 1, units |-> 0, whole |-> FALSE]
<1>0. in \in Seq(InFrames) /\ got \in Seq(Messages) /\ \A i \in DOMAIN got : got[i].at \in DOMAIN in
  BY DEF ReaderType, Messages
<1>1. PICK n \in Nat : n = Len(in) + 1
  BY <1>0
<1>2. PICK l \in Nat : l = Len(got) + 1
  BY <1>0
<1>3. PICK new : new = [at |-> n, units |-> 0, whole |-> FALSE]
  OBVIOUS
<1>4. new \in Messages /\ got' = Append(got, new) /\ new.at = n /\ new.units = 0 /\ ~new.whole
  BY <1>1, <1>3 DEF Messages
<1>5. /\ got' \in Seq(Messages) /\ Len(got') = l /\ got'[l] = new /\ l \in Nat /\ l > 0
      /\ DOMAIN got' = 1 .. l /\ DOMAIN got = 1 .. l - 1
      /\ \A i \in 1 .. l - 1 : got'[i] = got[i]
  BY <1>0, <1>2, <1>4, OneMore
<1>6. in' \in Seq(InFrames) /\ DOMAIN in = 1 .. n - 1 /\ DOMAIN in' = 1 .. n
  BY <1>0, <1>1, InGrows
<1>7. ASSUME NEW i \in DOMAIN got'
      PROVE Good(got[i])'
  <2>1. PICK g : g = got'[i]
    OBVIOUS
  <2>2. CASE i = l
    <3>1. g = new
      BY <1>5, <2>1, <2>2
    <3>2. Units(FragmentsOf(n))' = x[3] /\ x[3] \in Nat
      BY <1>0, <1>1, MessageStarts
    <3>3. Good(new)'
      BY <1>4, <3>2, Bounds DEF Good
    <3>4. QED BY <2>1, <3>1, <3>3 DEF Good
  <2>3. CASE i # l
    <3>1. i \in DOMAIN got /\ g = got[i] /\ g \in Messages /\ g.at \in DOMAIN in
      BY <1>0, <1>2, <1>5, <2>1, <2>3
    <3>2. Good(g)
      BY <3>1, OneByOne
    <3>3. Good(g)'
      BY <1>0, <1>1, <3>1, <3>2, GoodStays
    <3>4. QED BY <2>1, <3>3 DEF Good
  <2>4. QED BY <2>2, <2>3
<1>8. InOrder'
  <2>1. SUFFICES ASSUME NEW i \in DOMAIN got', i > 1
                 PROVE got'[i - 1].at < got'[i].at
    BY DEF InOrder
  <2>2. i \in 1 .. l /\ i - 1 \in 1 .. l - 1 /\ got'[i - 1] = got[i - 1] /\ i - 1 \in DOMAIN got
    BY <1>2, <1>5, <2>1
  <2>3. CASE i = l
    <3>1. got[i - 1].at \in 1 .. n - 1
      BY <1>0, <1>6, <2>2
    <3>2. QED BY <1>4, <1>5, <2>2, <2>3, <3>1
  <2>4. CASE i # l
    <3>1. i \in DOMAIN got /\ got'[i] = got[i]
      BY <1>2, <1>5, <2>2, <2>4
    <3>2. got[i - 1].at < got[i].at
      BY <2>1, <3>1, OneByOne DEF InOrder
    <3>3. QED BY <2>2, <3>1, <3>2
  <2>5. QED BY <2>3, <2>4
<1>9. \A i \in DOMAIN got' : got'[i].at \in DOMAIN in'
  <2>1. SUFFICES ASSUME NEW i \in DOMAIN got'
                 PROVE got'[i].at \in 1 .. n
    BY <1>6
  <2>2. CASE i = l
    BY <1>1, <1>4, <1>5, <2>2
  <2>3. CASE i # l
    <3>1. i \in DOMAIN got /\ got'[i] = got[i]
      BY <1>2, <1>5, <2>1, <2>3
    <3>2. got[i].at \in 1 .. n - 1
      BY <1>0, <1>6, <3>1
    <3>3. QED BY <1>1, <3>1, <3>2
  <2>4. QED BY <2>2, <2>3
<1>10. (\A i \in DOMAIN got : Good(got[i]))'
  BY <1>7 DEF Good
<1>11. ReadFaithful'
  BY <1>8, <1>10, OneByOne, PTL
<1>12. QED BY <1>1, <1>3, <1>5, <1>6, <1>9, <1>11

-----------------------------------------------------------------------------
(* The steps of the reader.                                                 *)

ReadInv == ReaderType /\ ReadFaithful /\ ReadingInv

LEMMA ReadInit == Init => ReadInv
<1> SUFFICES ASSUME Init PROVE ReadInv
  OBVIOUS
<1>1. ReaderType
  <2>1. in = <<>> /\ got = <<>> /\ DOMAIN got = {}
    BY DEF Init
  <2>2. in \in Seq(InFrames) /\ got \in Seq([at : Nat, units : Nat, whole : BOOLEAN])
    BY <2>1
  <2>3. \A i \in DOMAIN got : got[i].at \in DOMAIN in
    BY <2>1
  <2>4. QED BY <2>2, <2>3 DEF Init, ReaderType, Verdicts
<1>2. ReadFaithful
  BY DEF Init, ReadFaithful
<1>3. ReadingInv
  BY DEF Init, ReadingInv, Alive
<1>4. QED BY <1>1, <1>2, <1>3 DEF ReadInv

\* What the history of the frames says of a message stays while no frame comes.
LEMMA SameFrames ==
  ASSUME in' = in, NEW a
  PROVE  FragmentsOf(a)' = FragmentsOf(a) /\ Units(FragmentsOf(a))' = Units(FragmentsOf(a))
<1>1. FragmentsOf(a)' = FragmentsOf(a)
  BY DEF FragmentsOf
<1>2. PICK S : S = FragmentsOf(a)
  OBVIOUS
<1>3. Units(S)' = Units(S)
  BY DEF Units
<1>4. QED BY <1>1, <1>2, <1>3 DEF Units

LEMMA FollowingStays ==
  ASSUME in' = in, readFinal' = readFinal, readLength' = readLength, NEW g, NEW h, Following(g),
         h.at = g.at, h.units + readRemaining' = g.units + readRemaining
  PROVE  Following(h)'
<1>1. PICK a : a = g.at
  OBVIOUS
<1>2. FragmentsOf(a)' = FragmentsOf(a) /\ Units(FragmentsOf(a))' = Units(FragmentsOf(a))
  BY SameFrames
<1>3. PICK S : S = FragmentsOf(a)
  OBVIOUS
<1>4. FragmentsOf(h.at)' = S /\ Units(FragmentsOf(h.at))' = Units(S)
  BY <1>1, <1>2, <1>3
<1>5. /\ g.units + readRemaining = Units(S) /\ Units(S) <= readLength
      /\ Limit > 0 => readLength <= Limit
      /\ \A j \in a + 1 .. Len(in) : in[j][1] # "data"
      /\ readFinal => \E j \in S : in[j][2]
      /\ ~readFinal => \A j \in a .. Len(in) : in[j][1] \in Control \/ ~in[j][2]
  BY <1>1, <1>3 DEF Following
<1>6. QED BY <1>1, <1>4, <1>5 DEF Following

\* Nothing that is read or delivered changes.
LEMMA ReadStands ==
  ASSUME ReadInv, in' = in, got' = got, UNCHANGED frameVars,
         rpc' \in {"idle", "next", "read", "reply"}, readErr' \in Verdicts, verdict' \in Verdicts,
         readErr' # "none" => rpc' = "idle",
         rpc' = "next" => ~messageReader,
         rpc' = "read" => messageReader /\ readRemaining = 0 /\ ~readFinal,
         Alive' => Alive
  PROVE  ReadInv'
<1>1. ReaderType'
  BY DEF ReadInv, ReaderType, frameVars
<1>2. ReadFaithful'
  BY FaithfulStays DEF ReadInv
<1>3. ASSUME Alive'
      PROVE got' # <<>> /\ Following(got[Len(got)])'
  <2>1. PICK g : g = got[Len(got)]
    OBVIOUS
  <2>2. got # <<>> /\ Following(g)
    BY <1>3, <2>1 DEF ReadInv, ReadingInv
  <2>3. Following(g)'
    BY <2>2, FollowingStays DEF frameVars
  <2>4. QED BY <2>1, <2>2, <2>3 DEF Following
<1>4. ReadingInv'
  BY <1>3 DEF ReadingInv, frameVars
<1>5. QED BY <1>1, <1>2, <1>4 DEF ReadInv

LEMMA UnitsAreRead ==
  ASSUME ReadInv, NEW n \in 1 .. MaxFrame, ReadUnits(n)
  PROVE  ReadInv'
<1>0. in \in Seq(InFrames) /\ got \in Seq(Messages) /\ \A i \in DOMAIN got : got[i].at \in DOMAIN in
  BY DEF ReadInv, ReaderType, Messages
<1>1. Alive /\ n <= readRemaining /\ n \in Nat /\ readRemaining \in Nat /\ readLength \in Nat
  BY Bounds DEF ReadUnits, CanRead, Within, Alive, ReadInv, ReaderType
<1>2. PICK l \in Nat : l = Len(got)
  BY <1>0
<1>3. PICK g : g = got[l]
  OBVIOUS
<1>4. got # <<>> /\ Following(g)
  BY <1>1, <1>2, <1>3 DEF ReadInv, ReadingInv
<1>5. l \in DOMAIN got /\ g \in Messages /\ g.at \in DOMAIN in
  BY <1>0, <1>2, <1>3, <1>4
<1>6. /\ got' = [got EXCEPT ![l].units = @ + n] /\ readRemaining' = readRemaining - n
      /\ UNCHANGED <<rpc, readErr, verdict, readFinal, readLength, messageReader, in>>
  BY <1>2 DEF ReadUnits
<1>7. PICK h : h = [g EXCEPT !.units = g.units + n]
  OBVIOUS
<1>8. /\ h \in Messages /\ h.at = g.at /\ h.units = g.units + n /\ h.whole = g.whole
      /\ g.units \in Nat
  BY <1>1, <1>5, <1>7 DEF Messages
<1>9. got' = [got EXCEPT ![l] = h]
  BY <1>0, <1>3, <1>5, <1>6, <1>7
<1>10. PICK S : S = FragmentsOf(g.at)
  OBVIOUS
<1>11. Units(S) \in Nat
  <2>1. PICK a \in DOMAIN in : a = g.at
    BY <1>5
  <2>2. S \subseteq DOMAIN in
    BY <1>0, <1>10, <2>1 DEF FragmentsOf
  <2>3. QED BY <1>0, <2>2, InPlacesFinite
<1>12. g.units + readRemaining = Units(S) /\ Units(S) <= readLength /\ (Limit > 0 => readLength <= Limit)
  BY <1>4, <1>10 DEF Following
<1>13. Good(g)
  BY <1>3, <1>5, OneByOne DEF ReadInv
<1>14. Good(h)
  <2>1. h.units <= Units(S)
    BY <1>1, <1>8, <1>11, <1>12
  <2>2. Limit > 0 => h.units <= Limit
    BY <1>1, <1>8, <1>11, <1>12, <2>1, Bounds
  <2>3. ~g.whole
    BY <1>1, <1>8, <1>10, <1>11, <1>12, <1>13 DEF Good
  <2>4. QED BY <1>8, <1>10, <2>1, <2>2, <2>3 DEF Good
<1>15. /\ ReadFaithful' /\ got' \in Seq(Messages) /\ Len(got') = l /\ got'[l] = h
       /\ \A i \in DOMAIN got' : got'[i].at \in DOMAIN in'
  BY <1>2, <1>3, <1>4, <1>6, <1>8, <1>9, <1>14, LastChanges DEF ReadInv
<1>16. ReaderType'
  BY <1>1, <1>6, <1>15 DEF ReadInv, ReaderType, Messages
<1>17. Following(h)'
  <2>1. h.units + readRemaining' = g.units + readRemaining
    BY <1>1, <1>6, <1>8
  <2>2. QED BY <1>4, <1>6, <1>8, <2>1, FollowingStays
<1>18. got' # <<>> /\ Following(got[Len(got)])'
  <2>1. h = got'[Len(got')]
    BY <1>15
  <2>2. got' # <<>>
    BY <1>0, <1>4, <1>9
  <2>3. QED BY <1>17, <2>1, <2>2 DEF Following
<1>19. ReadingInv'
  BY <1>1, <1>6, <1>18 DEF ReadingInv, ReadInv, ReadUnits, CanRead
<1>20. QED BY <1>15, <1>16, <1>19 DEF ReadInv

LEMMA EndIsRead ==
  ASSUME ReadInv, ReadEnds
  PROVE  ReadInv'
<1>0. in \in Seq(InFrames) /\ got \in Seq(Messages) /\ \A i \in DOMAIN got : got[i].at \in DOMAIN in
  BY DEF ReadInv, ReaderType, Messages
<1>1. Alive /\ readRemaining = 0 /\ readFinal
  BY DEF ReadEnds, CanRead, Alive
<1>2. PICK l \in Nat : l = Len(got)
  BY <1>0
<1>3. PICK g : g = got[l]
  OBVIOUS
<1>4. got # <<>> /\ Following(g)
  BY <1>1, <1>2, <1>3 DEF ReadInv, ReadingInv
<1>5. l \in DOMAIN got /\ g \in Messages
  BY <1>0, <1>2, <1>3, <1>4
<1>6. /\ got' = [got EXCEPT ![l].whole = TRUE] /\ messageReader' = FALSE
      /\ UNCHANGED <<rpc, readErr, verdict, readFinal, readRemaining, readLength, in>>
  BY <1>2 DEF ReadEnds
<1>7. PICK h : h = [g EXCEPT !.whole = TRUE]
  OBVIOUS
<1>8. h \in Messages /\ h.at = g.at /\ h.units = g.units /\ g.units \in Nat
  BY <1>5, <1>7 DEF Messages
<1>9. got' = [got EXCEPT ![l] = h]
  BY <1>0, <1>3, <1>5, <1>6, <1>7
<1>10. Good(g)
  BY <1>3, <1>5, OneByOne DEF ReadInv
<1>11. Good(h)
  <2>1. g.units = Units(FragmentsOf(g.at)) /\ \E j \in FragmentsOf(g.at) : in[j][2]
    BY <1>1, <1>4, <1>8 DEF Following
  <2>2. QED BY <1>8, <1>10, <2>1 DEF Good
<1>12. /\ ReadFaithful' /\ got' \in Seq(Messages)
       /\ \A i \in DOMAIN got' : got'[i].at \in DOMAIN in'
  BY <1>2, <1>3, <1>4, <1>6, <1>8, <1>9, <1>11, LastChanges DEF ReadInv
<1>13. ReaderType'
  BY <1>6, <1>12 DEF ReadInv, ReaderType, Messages
<1>14. ReadingInv'
  BY <1>6 DEF ReadingInv, ReadInv, Alive, ReadEnds, CanRead
<1>15. QED BY <1>12, <1>13, <1>14 DEF ReadInv

\* A frame comes that neither starts a message nor goes on with one that is read.
LEMMA FrameIsSkipped ==
  ASSUME ReadInv, NEW x \in InFrames, in' = Append(in, x), got' = got,
         rpc' \in {"next", "reply"}, verdict' \in Verdicts, readErr' = "none",
         messageReader' = messageReader, rpc' = "next" => ~messageReader,
         readFinal' \in BOOLEAN, readRemaining' \in Nat, readLength' \in Nat
  PROVE  ReadInv'
<1>1. /\ in' \in Seq(InFrames) /\ ReadFaithful'
      /\ \A i \in DOMAIN got' : got'[i].at \in DOMAIN in'
  BY FaithfulGrows DEF ReadInv
<1>2. ReaderType'
  BY <1>1 DEF ReadInv, ReaderType, Verdicts
<1>3. ReadingInv'
  BY DEF ReadingInv, ReadInv, Alive
<1>4. QED BY <1>1, <1>2, <1>3 DEF ReadInv

\* A frame starts a message.
LEMMA FrameStartsMessage ==
  ASSUME ReadInv, NEW x \in InFrames, in' = Append(in, x), x[1] = "data",
         got' = Append(got, [at |-> Len(in) + 1, units |-> 0, whole |-> FALSE]),
         rpc' = "idle", readErr' = "none", verdict' = verdict, messageReader' = TRUE,
         readFinal' = x[2], readRemaining' = x[3], readLength' = readLength + x[3],
         Limit > 0 => readLength + x[3] <= Limit
  PROVE  ReadInv'
<1>0. in \in Seq(InFrames) /\ readLength \in Nat
  BY DEF ReadInv, ReaderType
<1>1. /\ in' \in Seq(InFrames) /\ ReadFaithful' /\ got' \in Seq(Messages)
      /\ \A i \in DOMAIN got' : got'[i].at \in DOMAIN in'
      /\ Len(got') \in Nat /\ Len(got') > 0
      /\ got'[Len(got')] = [at |-> Len(in) + 1, units |-> 0, whole |-> FALSE]
  BY MessageStartsFaithful DEF ReadInv
<1>2. PICK n \in Nat : n = Len(in) + 1
  BY <1>0
<1>3. /\ Len(in') = n /\ in'[n] = x
      /\ x[1] \in Kinds /\ x[2] \in BOOLEAN /\ x[3] \in 0 .. MaxFrame
  BY <1>0, <1>2, InGrows
<1>4. FragmentsOf(n)' = {n} /\ Units(FragmentsOf(n))' = x[3] /\ x[3] \in Nat
  BY <1>0, <1>2, MessageStarts
<1>5. ReaderType'
  BY <1>0, <1>1, <1>3, <1>4 DEF ReadInv, ReaderType, Messages, Verdicts
<1>6. PICK g : g = [at |-> n, units |-> 0, whole |-> FALSE]
  OBVIOUS
<1>7. g.at = n /\ g.units = 0 /\ g = got'[Len(got')]
  BY <1>1, <1>2, <1>6
<1>8. /\ \A j \in n + 1 .. Len(in') : in'[j][1] # "data"
      /\ readFinal' => \E j \in FragmentsOf(n)' : in'[j][2]
      /\ ~readFinal' => \A j \in n .. Len(in') : in'[j][1] \in Control \/ ~in'[j][2]
  <2>1. n + 1 .. n = {} /\ n .. n = {n}
    OBVIOUS
  <2>2. QED BY <1>3, <1>4, <2>1
<1>9. Following(g)'
  <2>1. g.units + readRemaining' = Units(FragmentsOf(n))'
    BY <1>4, <1>7
  <2>2. Units(FragmentsOf(n))' <= readLength' /\ (Limit > 0 => readLength' <= Limit)
    BY <1>0, <1>4
  <2>3. QED BY <1>7, <1>8, <2>1, <2>2 DEF Following
<1>10. got' # <<>> /\ Following(got[Len(got)])'
  <2>1. got' # <<>>
    BY <1>1
  <2>2. QED BY <1>7, <1>9, <2>1 DEF Following
<1>11. ReadingInv'
  BY <1>10 DEF ReadingInv
<1>12. QED BY <1>1, <1>5, <1>11 DEF ReadInv

\* The frame the message that is read goes on with, or a control frame before it.
LEMMA FrameIsRead ==
  ASSUME ReadInv, rpc = "read", NEW x \in InFrames, in' = Append(in, x), got' = got,
         readErr' = readErr, verdict' = verdict, messageReader' = messageReader,
         \/ /\ x[1] = "cont" /\ rpc' = "idle"
            /\ readFinal' = x[2] /\ readRemaining' = x[3] /\ readLength' = readLength + x[3]
            /\ Limit > 0 => readLength + x[3] <= Limit
         \/ /\ x[1] \in Control /\ rpc' = "read"
            /\ readFinal' = readFinal /\ readRemaining' = 0 /\ readLength' = readLength
  PROVE  ReadInv'
<1>0. /\ in \in Seq(InFrames) /\ readLength \in Nat /\ got \in Seq(Messages)
      /\ readFinal \in BOOLEAN
      /\ \A i \in DOMAIN got : got[i].at \in DOMAIN in
  BY DEF ReadInv, ReaderType, Messages
<1>1. Alive /\ readRemaining = 0 /\ ~readFinal /\ readErr = "none" /\ messageReader
  BY DEF ReadInv, ReadingInv, Alive
<1>2. PICK g : g = got[Len(got)]
  OBVIOUS
<1>3. got # <<>> /\ Following(g)
  BY <1>1, <1>2 DEF ReadInv, ReadingInv
<1>4. g \in Messages /\ g.at \in DOMAIN in
  <2>1. Len(got) \in DOMAIN got
    BY <1>0, <1>3
  <2>2. QED BY <1>0, <1>2, <2>1
<1>5. PICK n \in Nat : n = Len(in) + 1
  BY <1>0
<1>6. PICK a \in DOMAIN in : a = g.at
  BY <1>4
<1>7. /\ in' \in Seq(InFrames) /\ Len(in') = n /\ DOMAIN in = 1 .. n - 1 /\ in'[n] = x
      /\ \A i \in 1 .. n - 1 : in'[i] = in[i]
      /\ x[1] \in Kinds /\ x[2] \in BOOLEAN /\ x[3] \in 0 .. MaxFrame
  BY <1>0, <1>5, InGrows
<1>8. /\ Units(FragmentsOf(a)) \in Nat /\ x[3] \in Nat
      /\ ~GoesOn(a, x) => Units(FragmentsOf(a))' = Units(FragmentsOf(a))
      /\ GoesOn(a, x) => Units(FragmentsOf(a))' = Units(FragmentsOf(a)) + x[3]
  BY <1>0, <1>5, MessageUnitsGrow
<1>9. /\ g.units = Units(FragmentsOf(a)) /\ Units(FragmentsOf(a)) <= readLength
      /\ Limit > 0 => readLength <= Limit
      /\ \A j \in a + 1 .. n - 1 : in[j][1] # "data"
      /\ \A j \in a .. n - 1 : in[j][1] \in Control \/ ~in[j][2]
  BY <1>0, <1>1, <1>3, <1>4, <1>5, <1>6 DEF Following, Messages
<1>10. GoesOn(a, x) <=> x[1] = "cont"
  BY <1>0, <1>5, <1>9 DEF GoesOn
<1>11. x[1] # "data"
  BY DEF Control
<1>12. \A j \in a + 1 .. Len(in') : in'[j][1] # "data"
  <2>1. \A j \in a + 1 .. n : j = n \/ (j \in a + 1 .. n - 1 /\ j \in 1 .. n - 1)
    BY <1>6, <1>7
  <2>2. QED BY <1>7, <1>9, <1>11, <2>1
<1>13. ASSUME x[1] \in Control \/ ~x[2]
       PROVE \A j \in a .. Len(in') : in'[j][1] \in Control \/ ~in'[j][2]
  <2>1. \A j \in a .. n : j = n \/ (j \in a .. n - 1 /\ j \in 1 .. n - 1)
    BY <1>6, <1>7
  <2>2. QED BY <1>7, <1>9, <1>13, <2>1
<1>14. Following(g)'
  <2>1. CASE x[1] = "cont"
    <3>1. readFinal' = x[2] /\ readRemaining' = x[3] /\ readLength' = readLength + x[3]
          /\ (Limit > 0 => readLength + x[3] <= Limit)
      BY <2>1 DEF Control
    <3>2. FragmentsOf(a)' = FragmentsOf(a) \cup {n}
          /\ Units(FragmentsOf(a))' = Units(FragmentsOf(a)) + x[3]
      BY <1>0, <1>5, <1>8, <1>10, <2>1, MessageGrows
    <3>3. g.units + readRemaining' = Units(FragmentsOf(a))'
      BY <1>8, <1>9, <3>1, <3>2
    <3>4. Units(FragmentsOf(a))' <= readLength' /\ (Limit > 0 => readLength' <= Limit)
      BY <1>0, <1>8, <1>9, <3>1, <3>2
    <3>5. readFinal' => \E j \in FragmentsOf(a)' : in'[j][2]
      BY <1>7, <3>1, <3>2
    <3>6. ~readFinal' => \A j \in a .. Len(in') : in'[j][1] \in Control \/ ~in'[j][2]
      BY <1>13, <3>1
    <3>7. QED BY <1>6, <1>12, <3>3, <3>4, <3>5, <3>6 DEF Following
  <2>2. CASE x[1] # "cont"
    <3>1. /\ x[1] \in Control /\ readFinal' = readFinal /\ readRemaining' = 0
          /\ readLength' = readLength
      BY <2>2
    <3>2. Units(FragmentsOf(a))' = Units(FragmentsOf(a))
      BY <1>8, <1>10, <2>2
    <3>3. g.units + readRemaining' = Units(FragmentsOf(a))'
      BY <1>8, <1>9, <3>1, <3>2
    <3>4. Units(FragmentsOf(a))' <= readLength' /\ (Limit > 0 => readLength' <= Limit)
      BY <1>9, <3>1, <3>2
    <3>5. \A j \in a .. Len(in') : in'[j][1] \in Control \/ ~in'[j][2]
      BY <1>13, <3>1
    <3>6. QED BY <1>1, <1>6, <1>12, <3>1, <3>3, <3>4, <3>5 DEF Following
  <2>3. QED BY <2>1, <2>2
<1>15. ReadFaithful' /\ \A i \in DOMAIN got' : got'[i].at \in DOMAIN in'
  BY FaithfulGrows DEF ReadInv
<1>16. /\ readRemaining' \in Nat /\ readLength' \in Nat /\ readFinal' \in BOOLEAN
       /\ rpc' \in {"idle", "read"}
  <2>1. CASE x[1] = "cont"
    BY <1>0, <1>7, <1>8, <2>1 DEF Control
  <2>2. CASE x[1] # "cont"
    BY <1>0, <2>2
  <2>3. QED BY <2>1, <2>2
<1>17. ReaderType'
  BY <1>7, <1>15, <1>16 DEF ReadInv, ReaderType
<1>18. Following(got[Len(got)])'
  BY <1>2, <1>14 DEF Following
<1>19. rpc' = "read" => messageReader' /\ readRemaining' = 0 /\ ~readFinal'
  BY <1>1
<1>20. ReadingInv'
  BY <1>1, <1>3, <1>16, <1>18, <1>19 DEF ReadingInv
<1>21. QED BY <1>15, <1>17, <1>20 DEF ReadInv

LEMMA DataKeeps ==
  ASSUME ReadInv, NEW kind \in Kinds, NEW fin \in BOOLEAN, NEW n \in 0 .. MaxFrame,
         ReadData(kind, fin, n)
  PROVE  ReadInv'
<1>1. PICK x : x = <<kind, fin, n>>
  OBVIOUS
<1>2. /\ x \in InFrames /\ x[1] = kind /\ x[2] = fin /\ x[3] = n
      /\ in' = Append(in, x) /\ n \in Nat
  BY <1>1, Bounds DEF ReadData, InFrames
<1>3. /\ rpc \in {"next", "read"} /\ readErr = "none" /\ kind \in {"data", "cont"}
      /\ readFinal' = fin /\ readRemaining' = n
      /\ readLength \in Nat /\ verdict \in Verdicts
      /\ rpc = "next" => ~messageReader
      /\ rpc = "read" => ~readFinal
  BY DEF ReadData, WantsFrame, ReadInv, ReadingInv, ReaderType
<1>4. ASSUME NEW err \in {"protocol", "limit"}, Reply("close", err),
             messageReader' = messageReader, readLength' \in Nat
      PROVE ReadInv'
  BY <1>2, <1>3, <1>4, FrameIsSkipped DEF Reply, Verdicts
<1>5. CASE Misplaced(kind)
  BY <1>3, <1>4, <1>5 DEF ReadData
<1>6. CASE ~Misplaced(kind) /\ TooLong(n)
  BY <1>2, <1>3, <1>4, <1>6 DEF ReadData
<1>7. CASE ~Misplaced(kind) /\ ~TooLong(n)
  <2>1. readLength' = readLength + n /\ (Limit > 0 => readLength + n <= Limit)
        /\ readErr' = readErr /\ verdict' = verdict
    BY <1>2, <1>3, <1>7, Bounds DEF ReadData, TooLong
  <2>2. CASE kind = "data"
    BY <1>2, <1>3, <1>7, <2>1, <2>2, FrameStartsMessage DEF ReadData
  <2>3. CASE kind = "cont"
    <3>1. messageReader' = messageReader /\ got' = got
          /\ rpc' = (IF rpc = "read" THEN "idle" ELSE rpc)
      BY <1>7, <2>3 DEF ReadData
    <3>2. CASE rpc = "read"
      BY <1>2, <1>3, <2>1, <2>3, <3>1, <3>2, FrameIsRead
    <3>3. CASE rpc = "next"
      BY <1>2, <1>3, <2>1, <3>1, <3>3, FrameIsSkipped
    <3>4. QED BY <1>3, <3>2, <3>3
  <2>4. QED BY <1>3, <2>2, <2>3
<1>8. QED BY <1>5, <1>6, <1>7

LEMMA ControlFrameKeeps ==
  ASSUME ReadInv, ReplyInv, NEW kind \in Control, ReadControl(kind)
  PROVE  ReadInv'
<1>1. PICK x : x = <<kind, TRUE, 0>>
  OBVIOUS
<1>2. x \in InFrames /\ x[1] = kind /\ in' = Append(in, x)
  <2>1. kind \in Kinds /\ 0 \in 0 .. MaxFrame /\ TRUE \in BOOLEAN
    BY Bounds DEF Kinds
  <2>2. in' = Append(in, x)
    BY <1>1 DEF ReadControl
  <2>3. QED BY <1>1, <2>1, <2>2 DEF InFrames
<1>3. /\ rpc \in {"next", "read"} /\ readErr = "none" /\ verdict \in Verdicts
      /\ readRemaining' = 0 /\ UNCHANGED <<readFinal, readLength, messageReader>>
      /\ readFinal \in BOOLEAN /\ readLength \in Nat
      /\ rpc = "next" => ~messageReader
  BY DEF ReadControl, WantsFrame, ReadInv, ReadingInv, ReaderType
<1>4. got' = got /\ readErr' = readErr
  BY DEF ReadControl, Reply, Control
<1>5. \/ rpc' = "reply" /\ verdict' = "closed"
      \/ rpc' = rpc /\ verdict' = verdict
  BY <1>3 DEF ReadControl, Reply, Control, ReplyInv
<1>6. CASE rpc' = "reply" \/ rpc = "next"
  BY <1>2, <1>3, <1>4, <1>5, <1>6, FrameIsSkipped DEF Verdicts
<1>7. CASE rpc' = "read" /\ rpc = "read"
  BY <1>2, <1>3, <1>4, <1>5, <1>7, FrameIsRead
<1>8. QED BY <1>3, <1>5, <1>6, <1>7

LEMMA ReadKeeps ==
  ASSUME ReadInv, ReplyInv, [Next]_vars
  PROVE  ReadInv'
<1>0. /\ rpc \in {"idle", "next", "read", "reply"} /\ readErr \in Verdicts /\ verdict \in Verdicts
      /\ {"none", "io", "overflow", "protocol"} \subseteq Verdicts
      /\ readErr # "none" => rpc = "idle"
      /\ rpc = "next" => ~messageReader
      /\ rpc = "read" => messageReader /\ readRemaining = 0 /\ ~readFinal
  BY DEF ReadInv, ReaderType, ReadingInv, Verdicts
<1>1. ASSUME UNCHANGED readVars
      PROVE ReadInv'
  <2>1. UNCHANGED <<rpc, readErr, verdict, frameVars, in, got>>
    BY <1>1 DEF readVars
  <2>2. messageReader' = messageReader
    BY <2>1 DEF frameVars
  <2>3. Alive' => Alive
    BY <2>1, <2>2 DEF Alive
  <2>4. QED BY <1>0, <2>1, <2>3, ReadStands
<1>2. CASE ByWriter
  BY <1>1, <1>2, WriterLeaves
<1>3. CASE ByControl
  BY <1>1, <1>3, ControlLeaves
<1>4. CASE NextReader
  <2>1. /\ in' = in /\ got' = got /\ rpc' = "next" /\ messageReader' = FALSE /\ readLength' = 0
        /\ UNCHANGED <<readErr, verdict, readFinal, readRemaining>> /\ readErr = "none"
    BY <1>4 DEF NextReader
  <2>2. ReaderType'
    BY <2>1 DEF ReadInv, ReaderType
  <2>3. ReadFaithful'
    BY <2>1, FaithfulStays DEF ReadInv
  <2>4. ReadingInv'
    BY <2>1 DEF ReadingInv, Alive
  <2>5. QED BY <2>2, <2>3, <2>4 DEF ReadInv
<1>5. CASE Read
  BY <1>0, <1>5, ReadStands DEF Read, CanRead, Alive
<1>6. CASE ReadFails \/ ReadOverflow
  BY <1>0, <1>6, ReadStands DEF ReadFails, ReadOverflow, Alive
<1>7. CASE ReplyDone
  BY <1>0, <1>7, ReadStands DEF ReplyDone, ReplyInv, Alive
<1>8. CASE ReadNonsense
  BY <1>0, <1>8, ReadStands DEF ReadNonsense, Reply, WantsFrame, Alive
<1>9. CASE ByReader
  BY <1>4, <1>5, <1>6, <1>7, <1>8, <1>9, UnitsAreRead, EndIsRead, DataKeeps, ControlFrameKeeps
  DEF ByReader
<1>10. CASE UNCHANGED vars
  BY <1>1, <1>10 DEF vars
<1>11. QED BY <1>2, <1>3, <1>9, <1>10, WhoSteps

-----------------------------------------------------------------------------
(* The theorems.                                                            *)

LEMMA WriterStays ==
  ASSUME WriterType, WriterInv, UNCHANGED writeVars
  PROVE  WriterType' /\ WriterInv'
<1>1. UNCHANGED <<wpc, wnext, ask, mw, final, todo, nmsg, wrote>>
  BY DEF writeVars
<1>2. WriterType'
  BY <1>1 DEF WriterType
<1>3. WriterInv'
  BY <1>1 DEF WriterInv, Open
<1>4. QED BY <1>2, <1>3

LEMMA Parts == IInv <=> WriterType /\ WriterInv /\ WireInv /\ ControlType /\ ReplyAll /\ ReadInv
BY TypeParts DEF IInv, WireInv, ReplyAll, ReadInv

\* NewConn: nothing is open, nothing was written, and the reader waits.
THEOREM WsConnStarts == Init => IInv
BY WriterInit, WireInit, ControlInit, ReadInit, Parts

\* Whoever takes the next step, the writer, a caller of WriteControl, or the reader
\* (flushFrame, WriteControl, advanceFrame), and whatever the others are about to do.
THEOREM WsConnKeeps == IInv /\ [Next]_vars => IInv'
<1> SUFFICES ASSUME IInv, [Next]_vars PROVE IInv'
  OBVIOUS
<1>1. WriterType /\ WriterInv /\ WireInv /\ ControlType /\ ReplyAll /\ ReadInv
  BY Parts
<1>2. in \in Seq(InFrames) /\ ncall \in 0 .. MaxWork
  BY <1>1 DEF ReadInv, ReaderType, ControlType
<1>3. WriterType' /\ WriterInv'
  <2>1. CASE ByWriter
    BY <1>1, <1>2, <2>1, WriterKeeps DEF WireInv
  <2>2. CASE UNCHANGED writeVars
    BY <1>1, <2>2, WriterStays
  <2>3. CASE ByControl
    BY <2>2, <2>3, ControlLeaves
  <2>4. CASE ByReader
    BY <2>2, <2>4, ReaderLeaves
  <2>5. CASE UNCHANGED vars
    BY <2>2, <2>5 DEF vars
  <2>6. QED BY <2>1, <2>3, <2>4, <2>5, WhoSteps
<1>4. WireInv'
  BY <1>1, <1>3, WireKeeps
<1>5. ControlType' /\ ReplyAll'
  BY <1>1, <1>2, ControlKeeps, ReplyKeeps
<1>6. ReadInv'
  BY <1>1, ReadKeeps DEF ReplyAll
<1>7. QED BY <1>3, <1>4, <1>5, <1>6, Parts, PTL

\* In every state the program can reach the writer, the wire, the reader and the calls of
\* WriteControl fit together (conn.go as a whole): the invariant the two theorems below
\* follow from.
THEOREM WsConnInductive == Spec => []IInv
BY WsConnStarts, WsConnKeeps, PTL DEF Spec

\* Whatever the writer, the reader and any number of callers of WriteControl do, the peer
\* sees a legal stream: no frame after a close frame or after one that was cut off, and
\* only control frames between the fragments of a message; and a reader that saw a close
\* frame or a violation has shut the writing side or found its deadline (write,
\* flushFrame, WriteControl, advanceFrame).
THEOREM StreamIsLawful == Spec => []Lawful
<1>1. IInv => Lawful
  BY DEF IInv, Lawful
<1>2. QED BY WsConnInductive, <1>1, PTL

\* A message is reported as sent exactly if all its units are on the wire with its end, in
\* the order of the calls; and what Read returns as one message are the units of the frames
\* of one message, all of them if it reports the end, never more than the limit
\* (flushFrame, Write, NextReader, Read, advanceFrame).
THEOREM SentAndReadFaithfully == Spec => []Faithful
<1>1. IInv => Faithful
  BY DEF IInv, Faithful
<1>2. QED BY WsConnInductive, <1>1, PTL
================================================================================
