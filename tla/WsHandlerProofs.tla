--------------------------- MODULE WsHandlerProofs ---------------------------
(***************************************************************************)
(* Proofs about the WebSocket handlers, for any connections, also such     *)
(* that share a key, for both handlers and any number of frames.           *)
(*                                                                         *)
(* NothingLeft says nothing of a handler that runs; what is needed is that *)
(* a hook that is open, and an entry of Clients, are of a handler that is  *)
(* yet to close and to delete them (Pending).                              *)
(***************************************************************************)
EXTENDS WsHandler, FiniteSetTheorems, SequenceTheorems, TLAPS

WithHook == {"store", "respond", "serve", "deliver", "head", "load", "unhook"}
WithEntry == (WithHook \ {"store"}) \cup {"delete"}
Places == WithHook \cup {"new", "hook", "delete", "close", "over"}
KeysOf == {Key[c] : c \in Conns}

Pending ==
  /\ hpc \in [Conns -> Places]
  /\ hook \in [Conns -> {"none", "open", "closed"}]
  /\ clients \in [KeysOf -> Conns \cup {Nobody}]
  /\ \A c \in Conns :
       /\ hpc[c] \in {"new", "hook"} => hook[c] = "none"
       /\ hpc[c] \in {"store", "delete"} => hook[c] # "none"
       /\ hook[c] = "open" => hpc[c] \in WithHook
       /\ clients[Key[c]] = c => hpc[c] \in WithEntry /\ hook[c] # "none"

LEMMA InitPending == Init => Pending
<1> SUFFICES ASSUME Init PROVE Pending
  OBVIOUS
<1> USE DEF Init
<1>1. clients = [k \in KeysOf |-> Nobody] /\ \A c \in Conns : Key[c] \in KeysOf
  BY DEF KeysOf
<1>2. \A c \in Conns : clients[Key[c]] # c
  BY <1>1, WsAssumption
<1>3. clients \in [KeysOf -> Conns \cup {Nobody}]
  BY <1>1
<1> QED BY <1>2, <1>3 DEF Pending, Places, WithHook

\* The steps that leave Clients, the hooks and ServeHTTP alone.
Aside(c) ==
  ReadFrame(c) \/ ReadFails(c) \/ Pong(c) \/ Push(c) \/ Cancel(c) \/ Leave(c) \/ Stall(c)

LEMMA StepPending == Pending /\ [Next]_vars => Pending'
<1> SUFFICES ASSUME Pending, [Next]_vars PROVE Pending'
  OBVIOUS
<1>0. \A c \in Conns : Key[c] \in KeysOf
  BY DEF KeysOf
<1> USE DEF Goto
<1>1. ASSUME NEW c \in Conns, Aside(c) PROVE Pending'
  <2>1. UNCHANGED <<hpc, regVars>>
    BY <1>1 DEF Aside, ReadFrame, ReadData, ReadMisplaced, ReadControl, ReadFails, Pong, Push, Cancel, Leave, Stall
  <2> QED BY <2>1 DEF Pending, regVars
<1>2. ASSUME NEW c \in Conns, HookFails(c) \/ NoHook(c) \/ Refuse(c) \/ Hijack(c) PROVE Pending'
  BY <1>0, <1>2 DEF HookFails, NoHook, Refuse, Hijack, regVars, Pending, WithEntry, WithHook, Places
<1>3. ASSUME NEW c \in Conns, HookMade(c) PROVE Pending'
  BY <1>0, <1>3 DEF HookMade, Pending, WithEntry, WithHook, Places
<1>4. ASSUME NEW c \in Conns, Store(c) PROVE Pending'
  BY <1>0, <1>4, WsAssumption DEF Store, Pending, WithEntry, WithHook, Places
<1>5. ASSUME NEW c \in Conns, Respond(c) \/ ServeCanceled(c) \/ Take(c) \/ TakeNil(c) \/ Deliver(c) \/ Send(c) PROVE Pending'
  <2>1. UNCHANGED regVars
    BY <1>5 DEF Respond, ServeCanceled, Take, TakeNil, Deliver, Send
  <2>2. /\ hpc[c] \in {"respond", "serve", "deliver", "head", "load"}
        /\ \E place \in {"unhook", "serve", "deliver", "head", "load"} : hpc' = [hpc EXCEPT ![c] = place]
    BY <1>5 DEF Respond, ServeCanceled, Take, TakeNil, Deliver, Send, Pending
  <2> QED BY <1>0, <2>1, <2>2 DEF regVars, Pending, WithEntry, WithHook, Places
<1>6. ASSUME NEW c \in Conns, Unhook(c) PROVE Pending'
  BY <1>0, <1>6 DEF Unhook, Pending, WithEntry, WithHook, Places
<1>7. ASSUME NEW c \in Conns, Delete(c) PROVE Pending'
  BY <1>0, <1>7, WsAssumption DEF Delete, DeleteKey, Pending, WithEntry, WithHook, Places
<1>8. ASSUME NEW c \in Conns, Close(c) PROVE Pending'
  BY <1>0, <1>8 DEF Close, regVars, Pending, WithEntry, WithHook, Places
<1>9. CASE UNCHANGED vars
  BY <1>9 DEF vars, regVars, Pending
<1> QED BY <1>1, <1>2, <1>3, <1>4, <1>5, <1>6, <1>7, <1>8, <1>9 DEF Next, Over, Handle, Aside

\* However connections come and go, with keys of their own or with the same, once
\* a handler has returned its hook is not open and Clients does not name it: the
\* deferred calls of ServeHTTP (native.go and gorilla.go) undo what it did.
THEOREM NothingIsLeft == Spec => []NothingLeft
<1>1. Pending => NothingLeft
  BY DEF Pending, NothingLeft, WithEntry, WithHook
<1> QED BY <1>1, InitPending, StepPending, PTL DEF Spec

-----------------------------------------------------------------------------
(* What a hook receives, when keys are not shared.                         *)

\* The last frame that was handed over: of the message at hand, or received.
Handed(c) == IF hand[c] = <<>> THEN EndOf(c, Len(got[c])) ELSE hand[c][Len(hand[c])]

\* The reader has gathered the frames behind that, and the last of them ends a
\* message if it is offered.
Gathered(c) ==
  /\ {msgr[c][i] : i \in DOMAIN msgr[c]} = {i \in DOMAIN in[c] : IsData(c, i) /\ Handed(c) < i}
  /\ \A i, j \in DOMAIN msgr[c] : i < j => msgr[c][i] < msgr[c][j]
  /\ \A i \in DOMAIN msgr[c] : Ends(c, msgr[c][i]) <=> i = Len(msgr[c]) /\ rpc[c] = "offer"
  /\ \A i \in DOMAIN msgr[c] : Begins(c, msgr[c][i]) <=> i = 1
  /\ rpc[c] = "offer" => msgr[c] # <<>>

Received(c) ==
  \A n \in DOMAIN got[c] : got[c][n][1] = c /\ Message(c, got[c][n][2], EndOf(c, n - 1))

Assembled(c) ==
  /\ Received(c)
  /\ hand[c] # <<>> => Message(c, hand[c], EndOf(c, Len(got[c])))
  /\ Gathered(c)

\* Where the goroutines of a connection are, and whose hook its key is mapped to.
Steady(c) ==
  /\ hpc[c] = "deliver" <=> hand[c] # <<>>
  /\ hpc[c] = "deliver" => to[c] = c /\ rpc[c] # "none"
  /\ clients[Key[c]] \in {c, Nobody}
  /\ hook[c] # "none" /\ hpc[c] \in WithEntry => clients[Key[c]] = c
  /\ hpc[c] \in {"new", "hook", "store", "respond"} => rpc[c] = "none"
  /\ rpc[c] = "none" => in[c] = <<>> /\ msgr[c] = <<>> /\ got[c] = <<>>
  /\ ~Native => push[c] % 2 = 0 /\ cut[c] = 0

WInv ==
  /\ TypeOK /\ Pending
  /\ \A c \in Conns : Steady(c) /\ (hook[c] # "none" => Assembled(c))

OwnKeys == \A c, d \in Conns : Key[c] = Key[d] => c = d

\* A message stays one when frames come behind it.
LEMMA MessageStays ==
  ASSUME NEW c \in Conns, in[c] \in Seq(Kinds \X BOOLEAN), NEW f, in'[c] = Append(in[c], f),
         NEW frames \in Seq(Nat), NEW from, Message(c, frames, from)
  PROVE  Message(c, frames, from)'
<1>1. PICK s : s = in[c]
  OBVIOUS
<1>2. /\ DOMAIN s = 1 .. Len(s) /\ Len(s) \in Nat /\ DOMAIN Append(s, f) = 1 .. Len(s) + 1
      /\ \A i \in 1 .. Len(s) : Append(s, f)[i] = s[i]
  <2>1. s \in Seq(Kinds \X BOOLEAN)
    BY <1>1
  <2> QED BY <2>1
<1>3. \A i \in DOMAIN s : (IsData(c, i)' <=> IsData(c, i)) /\ (Ends(c, i)' <=> Ends(c, i)) /\ (Begins(c, i)' <=> Begins(c, i))
  BY <1>1, <1>2 DEF IsData, Ends, Begins
<1>4. frames # <<>> /\ DOMAIN frames = 1 .. Len(frames) /\ Len(frames) \in Nat \ {0}
  <2>1. frames # <<>> BY DEF Message
  <2> QED BY <2>1
<1>5. \A i \in DOMAIN frames : frames[i] \in DOMAIN s
  BY <1>1 DEF Message
<1>6. frames[Len(frames)] \in 1 .. Len(s)
  BY <1>2, <1>4, <1>5
<1>7. ASSUME NEW i PROVE (i \in DOMAIN in'[c] /\ IsData(c, i)' /\ from < i /\ i <= frames[Len(frames)])
                     <=> (i \in DOMAIN in[c] /\ IsData(c, i) /\ from < i /\ i <= frames[Len(frames)])
  <2>1. i \in DOMAIN in'[c] /\ i <= frames[Len(frames)] => i \in DOMAIN s
    BY <1>1, <1>2, <1>6
  <2>2. i \in DOMAIN s => i \in DOMAIN in'[c]
    BY <1>1, <1>2
  <2> QED BY <1>1, <1>3, <2>1, <2>2
<1>8. {i \in DOMAIN in'[c] : IsData(c, i)' /\ from < i /\ i <= frames[Len(frames)]}
      = {i \in DOMAIN in[c] : IsData(c, i) /\ from < i /\ i <= frames[Len(frames)]}
  BY <1>7
<1> QED BY <1>3, <1>5, <1>8 DEF Message

\* A message ends with a frame that was read.
LEMMA MessageRead ==
  ASSUME NEW c \in Conns, in[c] \in Seq(Kinds \X BOOLEAN),
         NEW frames \in Seq(Nat), NEW from, Message(c, frames, from)
  PROVE  /\ frames[Len(frames)] \in 1 .. Len(in[c]) /\ Len(in[c]) \in Nat
         /\ Len(frames) \in DOMAIN frames /\ Ends(c, frames[Len(frames)])
         /\ \A i \in DOMAIN frames : frames[i] <= frames[Len(frames)]
<1>1. frames # <<>> /\ DOMAIN frames = 1 .. Len(frames) /\ Len(frames) \in DOMAIN frames
  <2>1. frames # <<>> BY DEF Message
  <2> QED BY <2>1
<1>2. frames[Len(frames)] \in DOMAIN in[c] /\ Ends(c, frames[Len(frames)])
  BY <1>1 DEF Message
<1>3. ASSUME NEW i \in DOMAIN frames PROVE frames[i] <= frames[Len(frames)]
  <2>1. i = Len(frames) \/ i < Len(frames)
    BY <1>1
  <2>2. frames[i] \in Nat /\ frames[Len(frames)] \in Nat
    BY <1>1
  <2> QED BY <1>1, <2>1, <2>2 DEF Message
<1> QED BY <1>1, <1>2, <1>3

\* The types of what the reader and ServeConn hold.
LEMMA Held ==
  ASSUME TypeOK, NEW c \in Conns
  PROVE  /\ in[c] \in Seq(Kinds \X BOOLEAN) /\ DOMAIN in[c] = 1 .. Len(in[c]) /\ Len(in[c]) \in Nat
         /\ msgr[c] \in Seq(Nat) /\ hand[c] \in Seq(Nat)
         /\ msgr[c] \in Seq(1 .. MaxFrames) /\ hand[c] \in Seq(1 .. MaxFrames)
         /\ got[c] \in Seq(Conns \X Seq(1 .. MaxFrames)) /\ DOMAIN got[c] = 1 .. Len(got[c])
         /\ Len(got[c]) \in Nat
         /\ \A n \in DOMAIN got[c] : got[c][n][2] \in Seq(Nat)
<1>0. \A s \in Seq(1 .. MaxFrames) : s \in Seq(Nat)
  <2>1. 1 .. MaxFrames \subseteq Nat
    BY WsAssumption
  <2> QED BY <2>1, SeqMonotonic
<1>1. /\ in[c] \in Seq(Kinds \X BOOLEAN) /\ msgr[c] \in Seq(1 .. MaxFrames)
      /\ hand[c] \in Seq(1 .. MaxFrames) /\ got[c] \in Seq(Conns \X Seq(1 .. MaxFrames))
  BY DEF TypeOK
<1>2. \A n \in DOMAIN got[c] : got[c][n] \in Conns \X Seq(1 .. MaxFrames)
  BY <1>1
<1>3. \A n \in DOMAIN got[c] : got[c][n][2] \in Seq(1 .. MaxFrames)
  BY <1>2
<1> QED BY <1>0, <1>1, <1>3

\* So what was handed over was read.
LEMMA HandedRead ==
  ASSUME TypeOK, NEW c \in Conns, Received(c),
         hand[c] # <<>> => Message(c, hand[c], EndOf(c, Len(got[c])))
  PROVE  /\ Handed(c) \in 0 .. Len(in[c]) /\ EndOf(c, Len(got[c])) \in 0 .. Len(in[c])
         /\ Len(in[c]) \in Nat
<1>1. PICK n : n = Len(got[c])
  OBVIOUS
<1>2. EndOf(c, n) \in 0 .. Len(in[c])
  <2>1. CASE n = 0
    BY <2>1, Held DEF EndOf
  <2>2. CASE n # 0
    <3>1. n \in DOMAIN got[c]
      BY <1>1, <2>2, Held
    <3>2. PICK frames, from : frames = got[c][n][2] /\ from = EndOf(c, n - 1)
      OBVIOUS
    <3>3. Message(c, frames, from) /\ frames \in Seq(Nat)
      BY <3>1, <3>2, Held DEF Received
    <3>4. frames[Len(frames)] \in 1 .. Len(in[c])
      BY <3>3, Held, MessageRead
    <3>5. EndOf(c, n) = frames[Len(frames)]
      BY <2>2, <3>2 DEF EndOf
    <3> QED BY <3>4, <3>5
  <2> QED BY <2>1, <2>2
<1>3. Handed(c) \in 0 .. Len(in[c])
  <2>1. CASE hand[c] = <<>>
    BY <1>1, <1>2, <2>1 DEF Handed
  <2>2. CASE hand[c] # <<>>
    <3>1. hand[c][Len(hand[c])] \in 1 .. Len(in[c])
      BY <2>2, Held, MessageRead
    <3> QED BY <2>2, <3>1 DEF Handed
  <2> QED BY <2>1, <2>2
<1> QED BY <1>1, <1>2, <1>3, Held

\* Nothing was read or received yet.
LEMMA AssembledFirst ==
  ASSUME NEW c \in Conns, in[c] = <<>>, msgr[c] = <<>>, got[c] = <<>>, hand[c] = <<>>, rpc[c] # "offer"
  PROVE  Assembled(c)
<1>1. DOMAIN <<>> = {}
  OBVIOUS
<1>2. Received(c)
  BY <1>1 DEF Received
<1>3. Gathered(c)
  BY <1>1 DEF Gathered
<1> QED BY <1>2, <1>3 DEF Assembled

LEMMA AssembledStays ==
  ASSUME NEW c \in Conns, Assembled(c),
         in'[c] = in[c] /\ msgr'[c] = msgr[c] /\ hand'[c] = hand[c] /\ got'[c] = got[c],
         rpc'[c] = "offer" <=> rpc[c] = "offer"
  PROVE  Assembled(c)'
<1>1. \A i : (IsData(c, i)' <=> IsData(c, i)) /\ (Ends(c, i)' <=> Ends(c, i)) /\ (Begins(c, i)' <=> Begins(c, i))
  BY DEF IsData, Ends, Begins
<1>2. \A n : EndOf(c, n)' = EndOf(c, n)
  BY DEF EndOf
<1>3. ASSUME NEW frames, NEW from, Message(c, frames, from)
      PROVE  Message(c, frames, from)'
  BY <1>1, <1>3 DEF Message
<1>4. Received(c)'
  <2> SUFFICES ASSUME NEW n \in DOMAIN got[c]
               PROVE  got[c][n][1] = c /\ Message(c, got[c][n][2], EndOf(c, n - 1))'
    BY DEF Received
  <2>1. PICK frames, from : frames = got[c][n][2] /\ from = EndOf(c, n - 1)
    OBVIOUS
  <2>2. Message(c, frames, from)' /\ got[c][n][1] = c
    BY <1>3, <2>1 DEF Assembled, Received
  <2>3. from = EndOf(c, n - 1)' /\ frames = got'[c][n][2]
    BY <1>2, <2>1
  <2> QED BY <2>2, <2>3
<1>5. hand'[c] # <<>> => Message(c, hand[c], EndOf(c, Len(got[c])))'
  <2>1. PICK frames, from : frames = hand[c] /\ from = EndOf(c, Len(got[c]))
    OBVIOUS
  <2>2. hand[c] # <<>> => Message(c, frames, from)'
    BY <1>3, <2>1 DEF Assembled
  <2>3. from = EndOf(c, Len(got[c]))' /\ frames = hand'[c]
    BY <1>2, <2>1 DEF EndOf
  <2> QED BY <2>2, <2>3
<1>6. Handed(c)' = Handed(c)
  BY DEF Handed, EndOf
<1>7. Gathered(c)'
  BY <1>1, <1>6 DEF Assembled, Gathered
<1> QED BY <1>4, <1>5, <1>7 DEF Assembled

\* A step that hands nothing over on a connection and reads nothing there.
LEMMA NothingHanded ==
  ASSUME WInv, NEW c \in Conns,
         in'[c] = in[c] /\ msgr'[c] = msgr[c] /\ hand'[c] = hand[c] /\ got'[c] = got[c],
         rpc'[c] = "offer" <=> rpc[c] = "offer",
         hook'[c] # "none", hook[c] = "none" => hpc[c] = "hook"
  PROVE  Assembled(c)'
<1>1. Steady(c) /\ (hook[c] # "none" => Assembled(c))
  BY DEF WInv
<1>2. CASE hook[c] # "none"
  BY <1>1, <1>2, AssembledStays
<1>3. CASE hook[c] = "none"
  <2>1. /\ in[c] = <<>> /\ msgr[c] = <<>> /\ got[c] = <<>> /\ hand[c] = <<>> /\ rpc[c] # "offer"
    BY <1>1, <1>3 DEF Steady
  <2>2. Assembled(c)
    BY <2>1, AssembledFirst
  <2> QED BY <2>2, AssembledStays
<1> QED BY <1>2, <1>3

\* The types, step by step.
LEMMA StepTypes ==
  ASSUME TypeOK, Pending', \A c \in Conns : Steady(c), [Next]_vars
  PROVE  TypeOK'
<1> DEFINE Kept == /\ rpc' \in [Conns -> {"none", "read", "pong head", "pong load", "offer", "offer nil", "ended"}]
                   /\ canceled' \in [Conns -> BOOLEAN] /\ open' \in [Conns -> BOOLEAN] /\ gone' \in [Conns -> BOOLEAN]
                   /\ full' \in [Conns -> BOOLEAN]
                   /\ in' \in [Conns -> Seq(Kinds \X BOOLEAN)] /\ cut' \in [Conns -> 0 .. MaxFrames]
                   /\ msgr' \in [Conns -> Seq(1 .. MaxFrames)] /\ hand' \in [Conns -> Seq(1 .. MaxFrames)]
                   /\ to' \in [Conns -> Conns \cup {Nobody}]
                   /\ got' \in [Conns -> Seq(Conns \X Seq(1 .. MaxFrames))]
                   /\ push' \in [Conns -> 0 .. 2 * MaxPush]
<1>0. /\ rpc \in [Conns -> {"none", "read", "pong head", "pong load", "offer", "offer nil", "ended"}]
      /\ canceled \in [Conns -> BOOLEAN] /\ open \in [Conns -> BOOLEAN] /\ gone \in [Conns -> BOOLEAN]
      /\ full \in [Conns -> BOOLEAN]
      /\ in \in [Conns -> Seq(Kinds \X BOOLEAN)] /\ cut \in [Conns -> 0 .. MaxFrames]
      /\ msgr \in [Conns -> Seq(1 .. MaxFrames)] /\ hand \in [Conns -> Seq(1 .. MaxFrames)]
      /\ to \in [Conns -> Conns \cup {Nobody}]
      /\ got \in [Conns -> Seq(Conns \X Seq(1 .. MaxFrames))]
      /\ push \in [Conns -> 0 .. 2 * MaxPush]
  BY DEF TypeOK
<1>1. Kept => TypeOK'
  <2>1. hpc' \in [Conns -> Places] /\ hook' \in [Conns -> {"none", "open", "closed"}]
        /\ clients' \in [KeysOf -> Conns \cup {Nobody}]
    BY DEF Pending
  <2>2. Places = {"new", "hook", "store", "respond", "serve", "deliver",
                  "head", "load", "unhook", "delete", "close", "over"}
    BY DEF Places, WithHook
  <2>3. Kept => {canceled', open', gone', full'} \subseteq [Conns -> BOOLEAN]
                /\ {msgr', hand'} \subseteq [Conns -> Seq(1 .. MaxFrames)]
    OBVIOUS
  <2> QED BY <2>1, <2>2, <2>3 DEF KeysOf, TypeOK
<1> SUFFICES Kept
  BY <1>1
<1>2. CASE UNCHANGED vars
  BY <1>0, <1>2 DEF vars, readVars, linkVars, workVars
<1>3. ASSUME NEW c \in Conns, ReadFails(c) \/ Pong(c) \/ Cancel(c) \/ Leave(c) \/ Stall(c) PROVE Kept
  BY <1>0, <1>3 DEF ReadFails, Pong, Cancel, Leave, Stall, Turn, readVars, linkVars, workVars
<1>4. ASSUME NEW c \in Conns, Push(c) PROVE Kept
  <2>1. push[c] \in 0 .. 2 * MaxPush /\ MaxPush \in Nat /\ (~Native => push[c] % 2 = 0)
    BY <1>0, WsAssumption DEF Steady
  <2>2. push[c] < 2 * MaxPush
    BY <1>4 DEF Push
  <2>3. push[c] + (IF Native THEN 1 ELSE 2) \in 0 .. 2 * MaxPush
    <3>1. CASE Native
      BY <2>1, <2>2, <3>1
    <3>2. CASE ~Native
      <4>1. PICK p : p = push[c]
        OBVIOUS
      <4>2. p \in Int /\ p % 2 = 0 /\ 0 <= p /\ p < 2 * MaxPush
        BY <2>1, <2>2, <3>2, <4>1
      <4>3. p = 2 * (p \div 2) /\ p \div 2 \in Int
        BY <4>2
      <4>4. p \div 2 < MaxPush
        BY <2>1, <4>2, <4>3
      <4>5. p + 2 <= 2 * MaxPush
        BY <2>1, <4>3, <4>4
      <4> QED BY <2>1, <3>2, <4>1, <4>2, <4>5
    <3> QED BY <3>1, <3>2
  <2>4. 2 * MaxPush \in 0 .. 2 * MaxPush
    BY <2>1
  <2>5. /\ push' = [push EXCEPT ![c] = @ + (IF Native THEN 1 ELSE 2)] \/ push' = [push EXCEPT ![c] = 2 * MaxPush]
        /\ UNCHANGED canceled \/ canceled' = [canceled EXCEPT ![c] = TRUE]
        /\ UNCHANGED <<readVars, open, gone, full, workVars>>
    BY <1>4 DEF Push
  <2>6. push' \in [Conns -> 0 .. 2 * MaxPush]
    BY <1>0, <2>3, <2>4, <2>5
  <2> QED BY <1>0, <2>5, <2>6 DEF readVars, workVars
<1>5. ASSUME NEW c \in Conns, NEW kind \in {"data", "cont"}, NEW final \in BOOLEAN,
             ReadData(c, kind, final) \/ ReadMisplaced(c, kind, final)
      PROVE  Kept
  <2>1. CASE ReadData(c, kind, final)
    <3>1. in[c] \in Seq(Kinds \X BOOLEAN) /\ Len(in[c]) \in Nat /\ Len(in[c]) + 1 \in 1 .. MaxFrames
      <4>1. Len(in[c]) < MaxFrames
        BY <2>1 DEF ReadData, CanRead
      <4>2. in[c] \in Seq(Kinds \X BOOLEAN)
        BY <1>0
      <4>3. Len(in[c]) \in Nat
        BY <4>2
      <4>4. MaxFrames \in Nat
        BY WsAssumption
      <4> QED BY <4>1, <4>2, <4>3, <4>4
    <3>2. /\ in' = [in EXCEPT ![c] = Append(@, <<kind, final>>)]
          /\ msgr' = [msgr EXCEPT ![c] = Append(@, Len(in[c]) + 1)]
          /\ rpc' = [rpc EXCEPT ![c] = "offer"] \/ rpc' = [rpc EXCEPT ![c] = "read"]
          /\ UNCHANGED cut \/ cut' = [cut EXCEPT ![c] = Len(in[c]) + 1]
          /\ UNCHANGED <<linkVars, workVars, push>>
      BY <2>1 DEF ReadData, Frame, Turn
    <3>3. Append(in[c], <<kind, final>>) \in Seq(Kinds \X BOOLEAN)
      <4>1. <<kind, final>> \in Kinds \X BOOLEAN
        BY DEF Kinds
      <4> QED BY <3>1, <4>1
    <3>4. Append(msgr[c], Len(in[c]) + 1) \in Seq(1 .. MaxFrames)
      <4>1. msgr[c] \in Seq(1 .. MaxFrames)
        BY <1>0
      <4> QED BY <3>1, <4>1, AppendProperties
    <3>5. cut' \in [Conns -> 0 .. MaxFrames]
      <4>1. Len(in[c]) + 1 \in 0 .. MaxFrames
        BY <3>1, WsAssumption
      <4> QED BY <1>0, <3>2, <4>1
    <3> QED BY <1>0, <3>2, <3>3, <3>4, <3>5 DEF linkVars, workVars
  <2>2. CASE ReadMisplaced(c, kind, final)
    BY <1>0, <2>2 DEF ReadMisplaced, Turn, linkVars, workVars
  <2> QED BY <1>5, <2>1, <2>2
<1>6. ASSUME NEW c \in Conns, NEW kind \in {"ping", "pong", "close"}, ReadControl(c, kind) PROVE Kept
  <2>1. /\ in' = [in EXCEPT ![c] = Append(@, <<kind, TRUE>>)]
        /\ \E place \in {"pong head", "read", "offer nil"} : rpc' = [rpc EXCEPT ![c] = place]
        /\ UNCHANGED cut \/ cut' = [cut EXCEPT ![c] = Len(in[c]) + 1]
        /\ UNCHANGED <<msgr, linkVars, workVars, push>>
    BY <1>6 DEF ReadControl, Frame, Turn
  <2>2. <<kind, TRUE>> \in Kinds \X BOOLEAN
    BY DEF Kinds
  <2>3. Append(in[c], <<kind, TRUE>>) \in Seq(Kinds \X BOOLEAN)
    <3>1. in[c] \in Seq(Kinds \X BOOLEAN)
      BY <1>0
    <3> QED BY <2>2, <3>1, AppendProperties
  <2>4. cut' \in [Conns -> 0 .. MaxFrames]
    <3>1. Len(in[c]) \in Nat /\ Len(in[c]) < MaxFrames /\ MaxFrames \in Nat
      <4>1. Len(in[c]) < MaxFrames /\ in[c] \in Seq(Kinds \X BOOLEAN)
        BY <1>0, <1>6 DEF ReadControl, CanRead
      <4> QED BY <4>1, WsAssumption
    <3>2. Len(in[c]) + 1 \in 0 .. MaxFrames
      BY <3>1
    <3> QED BY <1>0, <2>1, <3>2
  <2> QED BY <1>0, <2>1, <2>3, <2>4 DEF linkVars, workVars
<1>7. ASSUME NEW c \in Conns, Refuse(c) \/ HookFails(c) \/ NoHook(c) \/ HookMade(c) \/ Store(c)
                              \/ ServeCanceled(c) \/ Unhook(c) \/ Delete(c)
      PROVE  Kept
  <2>1. UNCHANGED <<readVars, linkVars, workVars, push>>
    BY <1>7 DEF Refuse, HookFails, NoHook, HookMade, Store, ServeCanceled, Unhook, Delete
  <2> QED BY <1>0, <2>1 DEF readVars, linkVars, workVars
<1>8. ASSUME NEW c \in Conns, Hijack(c) \/ Close(c) \/ Send(c) PROVE Kept
  <2>1. /\ UNCHANGED canceled \/ canceled' = [canceled EXCEPT ![c] = TRUE]
        /\ UNCHANGED open \/ \E b \in BOOLEAN : open' = [open EXCEPT ![c] = b]
        /\ UNCHANGED <<readVars, gone, full, workVars, push>>
    BY <1>8 DEF Hijack, Close, Send
  <2> QED BY <1>0, <2>1 DEF readVars, workVars
<1>9. ASSUME NEW c \in Conns, Respond(c) \/ TakeNil(c) PROVE Kept
  <2>1. /\ UNCHANGED rpc \/ \E place \in {"read", "ended"} : rpc' = [rpc EXCEPT ![c] = place]
        /\ UNCHANGED <<in, cut, msgr, linkVars, workVars, push>>
    BY <1>9 DEF Respond, TakeNil, Turn
  <2> QED BY <1>0, <2>1 DEF linkVars, workVars
<1>10. ASSUME NEW c \in Conns, Take(c) PROVE Kept
  <2>1. PICK h : h = IF hook[c] = "none" THEN Nobody ELSE clients[Key[c]]
    OBVIOUS
  <2>2. h \in Conns \cup {Nobody}
    <3>1. clients \in [KeysOf -> Conns \cup {Nobody}] /\ Key[c] \in KeysOf
      BY DEF TypeOK, KeysOf
    <3> QED BY <2>1, <3>1
  <2>3. /\ rpc' = [rpc EXCEPT ![c] = "read"] /\ msgr' = [msgr EXCEPT ![c] = <<>>]
        /\ UNCHANGED hand \/ hand' = [hand EXCEPT ![c] = msgr[c]]
        /\ UNCHANGED to \/ to' = [to EXCEPT ![c] = h]
        /\ UNCHANGED <<in, cut, linkVars, got, push>>
    BY <1>10, <2>1 DEF Take, Turn, Rest
  <2>4. <<>> \in Seq(1 .. MaxFrames)
    OBVIOUS
  <2>5. msgr' \in [Conns -> Seq(1 .. MaxFrames)]
    BY <1>0, <2>3, <2>4
  <2> QED BY <1>0, <2>2, <2>3, <2>5 DEF linkVars
<1>11. ASSUME NEW c \in Conns, Deliver(c) PROVE Kept
  <2>1. /\ got' = [got EXCEPT ![to[c]] = Append(@, <<c, hand[c]>>)]
        /\ hand' = [hand EXCEPT ![c] = <<>>]
        /\ to' = [to EXCEPT ![c] = Nobody]
        /\ UNCHANGED <<readVars, linkVars, push>>
    BY <1>11 DEF Deliver
  <2>2. \A d \in Conns : Append(got[d], <<c, hand[c]>>) \in Seq(Conns \X Seq(1 .. MaxFrames))
    <3>1. <<c, hand[c]>> \in Conns \X Seq(1 .. MaxFrames)
      BY <1>0
    <3>2. \A d \in Conns : got[d] \in Seq(Conns \X Seq(1 .. MaxFrames))
      BY <1>0
    <3> QED BY <3>1, <3>2, AppendProperties
  <2>3. hand' \in [Conns -> Seq(1 .. MaxFrames)]
    <3>1. <<>> \in Seq(1 .. MaxFrames)
      OBVIOUS
    <3> QED BY <1>0, <2>1, <3>1
  <2>4. got' \in [Conns -> Seq(Conns \X Seq(1 .. MaxFrames))]
    BY <1>0, <2>1, <2>2
  <2> QED BY <1>0, <2>1, <2>3, <2>4 DEF readVars, linkVars
<1> QED BY <1>2, <1>3, <1>4, <1>5, <1>6, <1>7, <1>8, <1>9, <1>10, <1>11 DEF Next, Over, Handle, ReadFrame

\* The functions of the state, for steps that change one connection.
LEMMA Tables ==
  ASSUME TypeOK
  PROVE  /\ hpc = [d \in Conns |-> hpc[d]] /\ rpc = [d \in Conns |-> rpc[d]]
         /\ hook = [d \in Conns |-> hook[d]]
         /\ in = [d \in Conns |-> in[d]] /\ msgr = [d \in Conns |-> msgr[d]]
         /\ hand = [d \in Conns |-> hand[d]] /\ to = [d \in Conns |-> to[d]]
         /\ cut = [d \in Conns |-> cut[d]]
         /\ got = [d \in Conns |-> got[d]] /\ push = [d \in Conns |-> push[d]]
         /\ clients = [k \in KeysOf |-> clients[k]] /\ \A d \in Conns : Key[d] \in KeysOf
<1>1. {msgr, hand} \subseteq [Conns -> Seq(1 .. MaxFrames)] /\ clients \in [KeysOf -> Conns \cup {Nobody}]
  BY DEF TypeOK, KeysOf
<1> QED BY <1>1 DEF TypeOK, KeysOf

LEMMA StepSteady ==
  ASSUME OwnKeys, WInv, [Next]_vars, NEW d \in Conns
  PROVE  Steady(d)'
<1>0. Steady(d) /\ TypeOK /\ Pending
  BY DEF WInv
<1> USE <1>0, Tables DEF Goto, Turn
<1>1. CASE UNCHANGED vars
  BY <1>1 DEF vars, regVars, readVars, workVars, Steady
<1>2. ASSUME NEW c \in Conns, ReadFails(c) \/ Pong(c) \/ Cancel(c) \/ Leave(c) \/ Stall(c) PROVE Steady(d)'
  <2>1. /\ UNCHANGED rpc \/ \E place \in {"offer nil", "pong load", "read"} : rpc' = [rpc EXCEPT ![c] = place]
        /\ rpc[c] = "none" => UNCHANGED rpc
        /\ UNCHANGED <<hpc, in, cut, msgr, regVars, workVars, push>>
    BY <1>2 DEF ReadFails, Pong, Cancel, Leave, Stall, readVars
  <2> QED BY <2>1 DEF Steady, regVars, workVars
<1>3. ASSUME NEW c \in Conns, Push(c) PROVE Steady(d)'
  <2>1. /\ UNCHANGED <<hpc, readVars, regVars, workVars>>
        /\ \/ push' = [push EXCEPT ![c] = @ + (IF Native THEN 1 ELSE 2)]
           \/ push' = [push EXCEPT ![c] = 2 * MaxPush]
    BY <1>3 DEF Push
  <2>2. ~Native => push'[d] % 2 = 0
    <3> SUFFICES ASSUME ~Native PROVE push'[d] % 2 = 0
      OBVIOUS
    <3>1. push'[d] = push[d] \/ push'[d] = push[d] + 2 \/ push'[d] = 2 * MaxPush
      BY <2>1
    <3>2. push[d] \in Int /\ push[d] % 2 = 0 /\ MaxPush \in Int
      <4>1. push \in [Conns -> 0 .. 2 * MaxPush] /\ MaxPush \in Nat
        BY WsAssumption DEF TypeOK
      <4>2. push[d] \in Int
        BY <4>1
      <4>3. push[d] % 2 = 0
        BY DEF Steady
      <4> QED BY <4>1, <4>2, <4>3
    <3>3. (2 * MaxPush) % 2 = 0
      BY <3>2
    <3>4. (push[d] + 2) % 2 = 0
      <4>1. PICK p : p = push[d]
        OBVIOUS
      <4>2. p \in Int /\ p % 2 = 0
        BY <3>2, <4>1
      <4>3. (p + 2) % 2 = 0
        BY <4>2
      <4> QED BY <4>1, <4>3
    <3> QED BY <3>1, <3>2, <3>3, <3>4
  <2> QED BY <2>1, <2>2 DEF Steady, regVars, readVars, workVars
<1>4. ASSUME NEW c \in Conns, ReadFrame(c) PROVE Steady(d)'
  <2>1. /\ UNCHANGED <<hpc, regVars, workVars, push>>
        /\ rpc[c] = "read" /\ rpc'[c] # "none"
        /\ d # c => in'[d] = in[d] /\ msgr'[d] = msgr[d] /\ rpc'[d] = rpc[d]
        /\ ~Native => cut' = cut
    BY <1>4 DEF ReadFrame, ReadData, ReadMisplaced, ReadControl, CanRead, Frame
  <2> QED BY <2>1 DEF Steady, regVars, workVars
<1>5. ASSUME NEW c \in Conns, Refuse(c) \/ Hijack(c) \/ HookFails(c) \/ NoHook(c) PROVE Steady(d)'
  <2>1. /\ UNCHANGED <<readVars, regVars, workVars, push>>
        /\ hpc[c] \in {"new", "hook"}
        /\ \E place \in {"over", "hook", "close", "respond"} : hpc' = [hpc EXCEPT ![c] = place]
    BY <1>5 DEF Refuse, Hijack, HookFails, NoHook
  <2> QED BY <2>1 DEF Steady, regVars, readVars, workVars, Pending, WithEntry, WithHook
<1>6. ASSUME NEW c \in Conns, HookMade(c) PROVE Steady(d)'
  BY <1>6 DEF HookMade, Steady, readVars, workVars, WithEntry, WithHook
<1>7. ASSUME NEW c \in Conns, Store(c) PROVE Steady(d)'
  BY <1>7, WsAssumption DEF Store, Steady, readVars, workVars, WithEntry, WithHook, OwnKeys
<1>8. ASSUME NEW c \in Conns, Delete(c) PROVE Steady(d)'
  BY <1>8, WsAssumption DEF Delete, DeleteKey, Steady, readVars, workVars, WithEntry, WithHook, OwnKeys
<1>9. ASSUME NEW c \in Conns, Respond(c) PROVE Steady(d)'
  BY <1>9 DEF Respond, Steady, regVars, workVars, WithEntry, WithHook
<1>10. ASSUME NEW c \in Conns, ServeCanceled(c) \/ Send(c) \/ Close(c) PROVE Steady(d)'
  <2>1. /\ UNCHANGED <<readVars, regVars, workVars, push>>
        /\ \/ hpc[c] \in {"serve", "head", "load"} /\ \E place \in {"unhook", "load", "serve"} : hpc' = [hpc EXCEPT ![c] = place]
           \/ hpc[c] = "close" /\ hpc' = [hpc EXCEPT ![c] = "over"]
    BY <1>10 DEF ServeCanceled, Send, Close
  <2> QED BY <2>1 DEF Steady, regVars, readVars, workVars, WithEntry, WithHook
<1>11. ASSUME NEW c \in Conns, TakeNil(c) PROVE Steady(d)'
  BY <1>11 DEF TakeNil, Steady, regVars, workVars, WithEntry, WithHook
<1>12. ASSUME NEW c \in Conns, Unhook(c) PROVE Steady(d)'
  BY <1>12 DEF Unhook, Steady, readVars, workVars, WithEntry, WithHook
<1>13. ASSUME NEW c \in Conns, Take(c) PROVE Steady(d)'
  <2>1. PICK h : h = IF hook[c] = "none" THEN Nobody ELSE clients[Key[c]]
    OBVIOUS
  <2>2. h # Nobody => h = c /\ msgr[c] # <<>>
    <3>1. rpc[c] = "offer" /\ Steady(c) /\ (hook[c] # "none" => Assembled(c))
      BY <1>13 DEF Take, WInv
    <3> QED BY <2>1, <3>1 DEF Steady, Assembled, Gathered
  <2>3. /\ hpc[c] = "serve" /\ rpc[c] = "offer"
        /\ rpc' = [rpc EXCEPT ![c] = "read"] /\ msgr' = [msgr EXCEPT ![c] = <<>>]
        /\ UNCHANGED <<in, cut, regVars, got, push>>
        /\ h = Nobody => UNCHANGED <<hpc, hand, to>>
        /\ h # Nobody => /\ hpc' = [hpc EXCEPT ![c] = "deliver"]
                         /\ hand' = [hand EXCEPT ![c] = msgr[c]] /\ to' = [to EXCEPT ![c] = h]
    BY <1>13, <2>1 DEF Take, Rest
  <2> QED BY <2>2, <2>3 DEF Steady, regVars, WithEntry, WithHook
<1>14. ASSUME NEW c \in Conns, Deliver(c) PROVE Steady(d)'
  <2>1. to[c] = c /\ rpc[c] # "none"
    BY <1>14 DEF Deliver, WInv, Steady
  <2>2. /\ hpc[c] = "deliver"
        /\ \E place \in {"unhook", "serve", "head"} : hpc' = [hpc EXCEPT ![c] = place]
        /\ d # c => got'[d] = got[d]
        /\ hand' = [hand EXCEPT ![c] = <<>>] /\ to' = [to EXCEPT ![c] = Nobody]
        /\ UNCHANGED <<readVars, regVars, push>>
    BY <1>14, <2>1 DEF Deliver
  <2> QED BY <2>1, <2>2 DEF Steady, readVars, regVars, WithEntry, WithHook
<1> QED BY <1>1, <1>2, <1>3, <1>4, <1>5, <1>6, <1>7, <1>8, <1>9, <1>10, <1>11, <1>12, <1>13, <1>14
        DEF Next, Over, Handle

\* A data frame, which is gathered.
LEMMA DataGathered ==
  ASSUME TypeOK, NEW c \in Conns, Assembled(c), NEW kind \in {"data", "cont"}, NEW final \in BOOLEAN,
         ReadData(c, kind, final)
  PROVE  Assembled(c)'
<1>1. PICK s, m : s = in[c] /\ m = msgr[c]
  OBVIOUS
<1>2. /\ s \in Seq(Kinds \X BOOLEAN) /\ m \in Seq(Nat) /\ DOMAIN s = 1 .. Len(s) /\ Len(s) \in Nat
      /\ DOMAIN m = 1 .. Len(m) /\ Len(m) \in Nat
  <2>1. s \in Seq(Kinds \X BOOLEAN) /\ m \in Seq(Nat)
    BY <1>1, Held
  <2> QED BY <2>1
<1>3. /\ rpc[c] = "read" /\ rpc'[c] = (IF final THEN "offer" ELSE "read")
      /\ in'[c] = Append(s, <<kind, final>>) /\ msgr'[c] = Append(m, Len(s) + 1)
      /\ hand' = hand /\ got' = got
  BY <1>1, Tables DEF ReadData, CanRead, Frame, Turn, Offered, workVars
<1>20. kind = "data" <=> m = <<>>
  BY <1>1 DEF ReadData
<1>4. /\ DOMAIN Append(s, <<kind, final>>) = 1 .. Len(s) + 1
      /\ \A i \in 1 .. Len(s) : Append(s, <<kind, final>>)[i] = s[i]
      /\ Append(s, <<kind, final>>)[Len(s) + 1] = <<kind, final>>
  BY <1>2
<1>5. /\ DOMAIN Append(m, Len(s) + 1) = 1 .. Len(m) + 1
      /\ Len(Append(m, Len(s) + 1)) = Len(m) + 1
      /\ \A i \in 1 .. Len(m) : Append(m, Len(s) + 1)[i] = m[i]
      /\ Append(m, Len(s) + 1)[Len(m) + 1] = Len(s) + 1
  BY <1>2
<1>6. /\ \A i \in DOMAIN s : (IsData(c, i)' <=> IsData(c, i)) /\ (Ends(c, i)' <=> Ends(c, i)) /\ (Begins(c, i)' <=> Begins(c, i))
      /\ IsData(c, Len(s) + 1)' /\ (Ends(c, Len(s) + 1)' <=> final)
      /\ Begins(c, Len(s) + 1)' <=> m = <<>>
  BY <1>1, <1>2, <1>3, <1>4, <1>20 DEF IsData, Ends, Begins
<1>7. Handed(c) \in 0 .. Len(s) /\ Handed(c)' = Handed(c)
  BY <1>1, <1>3, HandedRead DEF Assembled, Handed, EndOf
<1>8. \A n : EndOf(c, n)' = EndOf(c, n)
  BY <1>3 DEF EndOf
<1>9. ASSUME NEW frames \in Seq(Nat), NEW from, Message(c, frames, from)
      PROVE  Message(c, frames, from)'
  BY <1>1, <1>2, <1>3, <1>9, MessageStays
<1>10. Received(c)'
  <2> SUFFICES ASSUME NEW n \in DOMAIN got[c]
               PROVE  got[c][n][1] = c /\ Message(c, got[c][n][2], EndOf(c, n - 1))'
    BY <1>3 DEF Received
  <2>1. PICK frames, from : frames = got[c][n][2] /\ from = EndOf(c, n - 1)
    OBVIOUS
  <2>2. Message(c, frames, from) /\ frames \in Seq(Nat) /\ got[c][n][1] = c
    BY <2>1, Held DEF Assembled, Received
  <2>3. Message(c, frames, from)'
    BY <1>9, <2>2
  <2>4. from = EndOf(c, n - 1)' /\ frames = got'[c][n][2]
    BY <1>3, <1>8, <2>1
  <2> QED BY <2>2, <2>3, <2>4
<1>11. hand'[c] # <<>> => Message(c, hand[c], EndOf(c, Len(got[c])))'
  <2>1. PICK frames, from : frames = hand[c] /\ from = EndOf(c, Len(got[c]))
    OBVIOUS
  <2>2. hand[c] # <<>> => Message(c, frames, from)'
    BY <1>9, <2>1, Held DEF Assembled
  <2>3. from = EndOf(c, Len(got[c]))' /\ frames = hand'[c]
    BY <1>3, <2>1 DEF EndOf
  <2> QED BY <1>3, <2>2, <2>3
<1>12. \A i \in DOMAIN m : m[i] \in 1 .. Len(s) /\ m[i] \in DOMAIN s
  BY <1>1, <1>2 DEF Assembled, Gathered
<1>13. ASSUME NEW x
       PROVE  (\E i \in DOMAIN msgr'[c] : x = msgr'[c][i])
              <=> (x \in DOMAIN in'[c] /\ IsData(c, x)' /\ Handed(c)' < x)
  <2>1. (\E i \in DOMAIN msgr'[c] : x = msgr'[c][i]) <=> (\E i \in DOMAIN m : x = m[i]) \/ x = Len(s) + 1
    <3>1. \A i \in DOMAIN Append(m, Len(s) + 1) : i \in DOMAIN m \/ i = Len(m) + 1
      BY <1>2, <1>5
    <3>2. \A i \in DOMAIN m : i \in DOMAIN Append(m, Len(s) + 1)
      BY <1>2, <1>5
    <3>3. Len(m) + 1 \in DOMAIN Append(m, Len(s) + 1)
      BY <1>2, <1>5
    <3> QED BY <1>2, <1>3, <1>5, <3>1, <3>2, <3>3
  <2>2. (\E i \in DOMAIN m : x = m[i]) <=> (x \in DOMAIN s /\ IsData(c, x) /\ Handed(c) < x)
    BY <1>1 DEF Assembled, Gathered
  <2>3. x \in DOMAIN in'[c] <=> x \in DOMAIN s \/ x = Len(s) + 1
    BY <1>2, <1>3, <1>4
  <2>4. Handed(c) < Len(s) + 1
    BY <1>2, <1>7
  <2>5. x = Len(s) + 1 => IsData(c, x)'
    BY <1>6
  <2> QED BY <1>6, <1>7, <2>1, <2>2, <2>3, <2>4, <2>5
<1>14. {msgr'[c][i] : i \in DOMAIN msgr'[c]} = {i \in DOMAIN in'[c] : IsData(c, i)' /\ Handed(c)' < i}
  BY <1>13
<1>15. \A i, j \in DOMAIN msgr'[c] : i < j => msgr'[c][i] < msgr'[c][j]
  <2> SUFFICES ASSUME NEW i \in DOMAIN msgr'[c], NEW j \in DOMAIN msgr'[c], i < j
               PROVE  msgr'[c][i] < msgr'[c][j]
    OBVIOUS
  <2>1. i \in 1 .. Len(m) /\ j \in 1 .. Len(m) + 1
    BY <1>2, <1>3, <1>5
  <2>2. CASE j \in 1 .. Len(m)
    <3>1. m[i] < m[j]
      BY <1>1, <1>2, <2>1, <2>2 DEF Assembled, Gathered
    <3> QED BY <1>3, <1>5, <2>1, <2>2, <3>1
  <2>3. CASE j = Len(m) + 1
    <3>1. m[i] < Len(s) + 1
      BY <1>2, <1>12, <2>1
    <3> QED BY <1>3, <1>5, <2>1, <2>3, <3>1
  <2> QED BY <1>2, <2>1, <2>2, <2>3
<1>16. \A i \in DOMAIN msgr'[c] : Ends(c, msgr[c][i])' <=> i = Len(msgr'[c]) /\ rpc'[c] = "offer"
  <2> SUFFICES ASSUME NEW i \in 1 .. Len(m) + 1
               PROVE  Ends(c, msgr[c][i])' <=> i = Len(m) + 1 /\ final
    BY <1>3, <1>5
  <2>1. CASE i \in 1 .. Len(m)
    <3>1. PICK x : x = m[i]
      OBVIOUS
    <3>2. ~Ends(c, x) /\ x \in DOMAIN s
      BY <1>1, <1>2, <1>3, <1>12, <2>1, <3>1 DEF Assembled, Gathered
    <3>3. ~Ends(c, x)'
      BY <1>6, <3>2
    <3>4. msgr'[c][i] = x
      BY <1>3, <1>5, <2>1, <3>1
    <3>5. i # Len(m) + 1
      BY <1>2, <2>1
    <3> QED BY <3>3, <3>4, <3>5
  <2>2. CASE i = Len(m) + 1
    <3>1. PICK x : x = Len(s) + 1
      OBVIOUS
    <3>2. Ends(c, x)' <=> final
      BY <1>6, <3>1
    <3>3. msgr'[c][i] = x
      BY <1>3, <1>5, <2>2, <3>1
    <3> QED BY <2>2, <3>2, <3>3
  <2> QED BY <1>2, <2>1, <2>2
<1>17. msgr'[c] # <<>>
  BY <1>2, <1>3
<1>18. \A i \in DOMAIN msgr'[c] : Begins(c, msgr[c][i])' <=> i = 1
  <2> SUFFICES ASSUME NEW i \in 1 .. Len(m) + 1 PROVE Begins(c, msgr[c][i])' <=> i = 1
    BY <1>3, <1>5
  <2>1. CASE i \in 1 .. Len(m)
    <3>1. PICK x : x = m[i]
      OBVIOUS
    <3>2. (Begins(c, x) <=> i = 1) /\ x \in DOMAIN s
      BY <1>1, <1>2, <1>12, <2>1, <3>1 DEF Assembled, Gathered
    <3>3. Begins(c, x)' <=> i = 1
      BY <1>6, <3>2
    <3>4. msgr'[c][i] = x
      BY <1>3, <1>5, <2>1, <3>1
    <3> QED BY <3>3, <3>4
  <2>2. CASE i = Len(m) + 1
    <3>1. PICK x : x = Len(s) + 1
      OBVIOUS
    <3>2. Begins(c, x)' <=> m = <<>>
      BY <1>6, <3>1
    <3>3. msgr'[c][i] = x
      BY <1>3, <1>5, <2>2, <3>1
    <3>4. m = <<>> <=> i = 1
      BY <1>2, <2>2
    <3> QED BY <3>2, <3>3, <3>4
  <2> QED BY <1>2, <2>1, <2>2
<1>19. Gathered(c)'
  BY <1>14, <1>15, <1>16, <1>17, <1>18 DEF Gathered
<1> QED BY <1>10, <1>11, <1>19 DEF Assembled

\* A control frame, which is none of a message.
LEMMA ControlSkipped ==
  ASSUME TypeOK, NEW c \in Conns, Assembled(c), NEW kind \in {"ping", "pong", "close"}, ReadControl(c, kind)
  PROVE  Assembled(c)'
<1>1. PICK s : s = in[c]
  OBVIOUS
<1>2. s \in Seq(Kinds \X BOOLEAN) /\ DOMAIN s = 1 .. Len(s) /\ Len(s) \in Nat
  BY <1>1, Held
<1>3. /\ rpc[c] = "read" /\ rpc'[c] # "offer"
      /\ in'[c] = Append(s, <<kind, TRUE>>) /\ msgr' = msgr /\ hand' = hand /\ got' = got
  BY <1>1, Tables DEF ReadControl, CanRead, Frame, Turn, workVars
<1>4. /\ DOMAIN Append(s, <<kind, TRUE>>) = 1 .. Len(s) + 1
      /\ \A i \in 1 .. Len(s) : Append(s, <<kind, TRUE>>)[i] = s[i]
      /\ Append(s, <<kind, TRUE>>)[Len(s) + 1] = <<kind, TRUE>>
  <2>1. PICK f : f = <<kind, TRUE>>
    OBVIOUS
  <2>2. /\ DOMAIN Append(s, f) = 1 .. Len(s) + 1
        /\ \A i \in 1 .. Len(s) : Append(s, f)[i] = s[i]
        /\ Append(s, f)[Len(s) + 1] = f
    BY <1>2
  <2> QED BY <2>1, <2>2
<1>5. /\ \A i \in DOMAIN s : (IsData(c, i)' <=> IsData(c, i)) /\ (Ends(c, i)' <=> Ends(c, i)) /\ (Begins(c, i)' <=> Begins(c, i))
      /\ ~IsData(c, Len(s) + 1)'
  BY <1>1, <1>2, <1>3, <1>4 DEF IsData, Ends, Begins
<1>6. \A n : EndOf(c, n)' = EndOf(c, n)
  BY <1>3 DEF EndOf
<1>7. Handed(c)' = Handed(c)
  BY <1>3 DEF Handed, EndOf
<1>8. ASSUME NEW frames \in Seq(Nat), NEW from, Message(c, frames, from)
      PROVE  Message(c, frames, from)'
  BY <1>1, <1>2, <1>3, <1>8, MessageStays
<1>9. Received(c)'
  <2> SUFFICES ASSUME NEW n \in DOMAIN got[c]
               PROVE  got[c][n][1] = c /\ Message(c, got[c][n][2], EndOf(c, n - 1))'
    BY <1>3 DEF Received
  <2>1. PICK frames, from : frames = got[c][n][2] /\ from = EndOf(c, n - 1)
    OBVIOUS
  <2>2. Message(c, frames, from) /\ frames \in Seq(Nat) /\ got[c][n][1] = c
    BY <2>1, Held DEF Assembled, Received
  <2>3. Message(c, frames, from)'
    BY <1>8, <2>2
  <2>4. from = EndOf(c, n - 1)' /\ frames = got'[c][n][2]
    BY <1>3, <1>6, <2>1
  <2> QED BY <2>2, <2>3, <2>4
<1>10. hand'[c] # <<>> => Message(c, hand[c], EndOf(c, Len(got[c])))'
  <2>1. PICK frames, from : frames = hand[c] /\ from = EndOf(c, Len(got[c]))
    OBVIOUS
  <2>2. hand[c] # <<>> => Message(c, frames, from)'
    BY <1>8, <2>1, Held DEF Assembled
  <2>3. from = EndOf(c, Len(got[c]))' /\ frames = hand'[c]
    BY <1>3, <2>1 DEF EndOf
  <2> QED BY <1>3, <2>2, <2>3
<1>11. \A x : (x \in DOMAIN in'[c] /\ IsData(c, x)') <=> (x \in DOMAIN s /\ IsData(c, x))
  <2>1. \A x : x \in DOMAIN in'[c] <=> x \in DOMAIN s \/ x = Len(s) + 1
    BY <1>2, <1>3, <1>4
  <2> QED BY <1>5, <2>1
<1>12. {i \in DOMAIN in'[c] : IsData(c, i)' /\ Handed(c)' < i} = {i \in DOMAIN in[c] : IsData(c, i) /\ Handed(c) < i}
  BY <1>1, <1>7, <1>11
<1>13. \A i \in DOMAIN msgr[c] : msgr[c][i] \in DOMAIN s
  BY <1>1 DEF Assembled, Gathered
<1>14. \A i \in DOMAIN msgr'[c] : Ends(c, msgr[c][i])' <=> i = Len(msgr'[c]) /\ rpc'[c] = "offer"
  BY <1>3, <1>5, <1>13 DEF Assembled, Gathered
<1>16. \A i \in DOMAIN msgr'[c] : Begins(c, msgr[c][i])' <=> i = 1
  BY <1>3, <1>5, <1>13 DEF Assembled, Gathered
<1>15. Gathered(c)'
  BY <1>3, <1>12, <1>14, <1>16 DEF Assembled, Gathered
<1> QED BY <1>9, <1>10, <1>15 DEF Assembled

\* The reader hands its message over.
LEMMA MessageHanded ==
  ASSUME TypeOK, NEW c \in Conns, Assembled(c), Steady(c), hook[c] # "none", Take(c)
  PROVE  Assembled(c)'
<1>1. PICK m : m = msgr[c]
  OBVIOUS
<1>2. hpc[c] = "serve" /\ rpc[c] = "offer" /\ clients[Key[c]] = c /\ c # Nobody
  BY WsAssumption DEF Take, Steady, WithEntry, WithHook
<1>3. /\ hand[c] = <<>> /\ hand'[c] = m /\ msgr'[c] = <<>> /\ rpc'[c] = "read"
      /\ in' = in /\ got' = got
  BY <1>1, <1>2, Tables DEF Take, Turn, Rest, Steady
<1>4. m \in Seq(Nat) /\ m # <<>> /\ DOMAIN m = 1 .. Len(m) /\ Len(m) \in Nat /\ Len(m) \in DOMAIN m
  <2>1. m \in Seq(Nat) /\ m # <<>>
    BY <1>1, <1>2, Held DEF Assembled, Gathered
  <2> QED BY <2>1
<1>5. PICK last, end : last = m[Len(m)] /\ end = EndOf(c, Len(got[c]))
  OBVIOUS
<1>6. last \in Nat /\ end \in Nat /\ Handed(c) = end /\ DOMAIN in[c] \subseteq Nat
  <2>1. last \in Nat /\ Handed(c) = end
    BY <1>3, <1>4, <1>5 DEF Handed
  <2>2. end \in 0 .. Len(in[c]) /\ Len(in[c]) \in Nat /\ DOMAIN in[c] = 1 .. Len(in[c])
    BY <1>5, HandedRead, Held DEF Assembled
  <2> QED BY <2>1, <2>2
<1>7. /\ {m[i] : i \in DOMAIN m} = {i \in DOMAIN in[c] : IsData(c, i) /\ end < i}
      /\ \A i, j \in DOMAIN m : i < j => m[i] < m[j]
      /\ \A i \in DOMAIN m : Ends(c, m[i]) <=> i = Len(m)
      /\ \A i \in DOMAIN m : Begins(c, m[i]) <=> i = 1
  BY <1>1, <1>2, <1>6 DEF Assembled, Gathered
<1>8. \A i \in DOMAIN m : m[i] <= last
  <2> SUFFICES ASSUME NEW i \in DOMAIN m PROVE m[i] <= last
    OBVIOUS
  <2>1. i = Len(m) \/ i < Len(m)
    BY <1>4
  <2>2. m[i] \in Nat
    BY <1>4
  <2> QED BY <1>4, <1>5, <1>6, <1>7, <2>1, <2>2
<1>9. \A i \in DOMAIN in[c] : IsData(c, i) /\ end < i => i <= last
  BY <1>7, <1>8
<1>10. Message(c, m, end)
  <2>1. {i \in DOMAIN in[c] : IsData(c, i) /\ end < i /\ i <= m[Len(m)]} = {i \in DOMAIN in[c] : IsData(c, i) /\ end < i}
    BY <1>5, <1>9
  <2> QED BY <1>4, <1>7, <2>1 DEF Message
<1>11. \A i : (IsData(c, i)' <=> IsData(c, i)) /\ (Ends(c, i)' <=> Ends(c, i)) /\ (Begins(c, i)' <=> Begins(c, i))
  BY <1>3 DEF IsData, Ends, Begins
<1>12. \A n : EndOf(c, n)' = EndOf(c, n)
  BY <1>3 DEF EndOf
<1>13. ASSUME NEW frames, NEW from, Message(c, frames, from)
       PROVE  Message(c, frames, from)'
  BY <1>3, <1>11, <1>13 DEF Message
<1>14. Received(c)'
  <2> SUFFICES ASSUME NEW n \in DOMAIN got[c]
               PROVE  got[c][n][1] = c /\ Message(c, got[c][n][2], EndOf(c, n - 1))'
    BY <1>3 DEF Received
  <2>1. PICK frames, from : frames = got[c][n][2] /\ from = EndOf(c, n - 1)
    OBVIOUS
  <2>2. Message(c, frames, from)' /\ got[c][n][1] = c
    BY <1>13, <2>1 DEF Assembled, Received
  <2>3. from = EndOf(c, n - 1)' /\ frames = got'[c][n][2]
    BY <1>3, <1>12, <2>1
  <2> QED BY <2>2, <2>3
<1>15. Message(c, hand[c], EndOf(c, Len(got[c])))'
  <2>1. Message(c, m, end)'
    BY <1>10, <1>13
  <2>2. m = hand'[c] /\ end = EndOf(c, Len(got[c]))'
    BY <1>3, <1>5 DEF EndOf
  <2> QED BY <2>1, <2>2
<1>16. Handed(c)' = last
  BY <1>3, <1>4, <1>5 DEF Handed
<1>17. last \in DOMAIN in[c] /\ IsData(c, last) /\ end < last
  BY <1>4, <1>5, <1>7
<1>18. \A i \in DOMAIN in'[c] : ~(IsData(c, i)' /\ last < i)
  <2> SUFFICES ASSUME NEW i \in DOMAIN in[c], IsData(c, i), last < i PROVE FALSE
    BY <1>3, <1>11
  <2>1. i \in Nat /\ end < i
    BY <1>6, <1>17
  <2> QED BY <1>6, <1>9, <2>1
<1>19. Gathered(c)'
  <2>1. DOMAIN <<>> = {}
    OBVIOUS
  <2> QED BY <1>3, <1>16, <1>18, <2>1 DEF Gathered
<1> QED BY <1>14, <1>15, <1>19 DEF Assembled

\* The hook receives the message.
LEMMA MessageReceived ==
  ASSUME TypeOK, NEW c \in Conns, Assembled(c), Steady(c), Deliver(c)
  PROVE  Assembled(c)'
<1>1. PICK g, h, len : g = got[c] /\ h = hand[c] /\ len = Len(got[c])
  OBVIOUS
<1>2. hpc[c] = "deliver" /\ to[c] = c /\ h # <<>>
  BY <1>1 DEF Deliver, Steady
<1>3. /\ got'[c] = Append(g, <<c, h>>) /\ hand'[c] = <<>>
      /\ in' = in /\ msgr' = msgr /\ rpc' = rpc
  BY <1>1, <1>2, Tables DEF Deliver, readVars
<1>4. /\ len \in Nat /\ DOMAIN g = 1 .. len
      /\ DOMAIN Append(g, <<c, h>>) = 1 .. len + 1 /\ Len(Append(g, <<c, h>>)) = len + 1
      /\ \A n \in 1 .. len : Append(g, <<c, h>>)[n] = g[n]
      /\ Append(g, <<c, h>>)[len + 1] = <<c, h>>
  <2>1. g \in Seq(Conns \X Seq(1 .. MaxFrames))
    BY <1>1, Held
  <2> QED BY <1>1, <2>1
<1>5. \A i : (IsData(c, i)' <=> IsData(c, i)) /\ (Ends(c, i)' <=> Ends(c, i)) /\ (Begins(c, i)' <=> Begins(c, i))
  BY <1>3 DEF IsData, Ends, Begins
<1>6. \A n \in 0 .. len : EndOf(c, n)' = EndOf(c, n)
  <2> SUFFICES ASSUME NEW n \in 0 .. len PROVE EndOf(c, n)' = EndOf(c, n)
    OBVIOUS
  <2>1. n = 0 \/ n \in 1 .. len
    BY <1>4
  <2>2. n \in 1 .. len => got'[c][n] = got[c][n]
    BY <1>1, <1>3, <1>4
  <2> QED BY <2>1, <2>2 DEF EndOf
<1>7. ASSUME NEW frames, NEW from, Message(c, frames, from)
      PROVE  Message(c, frames, from)'
  BY <1>3, <1>5, <1>7 DEF Message
<1>8. Received(c)'
  <2> SUFFICES ASSUME NEW n \in 1 .. len + 1
               PROVE  got'[c][n][1] = c /\ Message(c, got[c][n][2], EndOf(c, n - 1))'
    BY <1>3, <1>4 DEF Received
  <2>1. CASE n \in 1 .. len
    <3>1. PICK frames, from : frames = got[c][n][2] /\ from = EndOf(c, n - 1)
      OBVIOUS
    <3>2. Message(c, frames, from)' /\ got[c][n][1] = c
      BY <1>1, <1>4, <1>7, <2>1, <3>1 DEF Assembled, Received
    <3>3. n - 1 \in 0 .. len
      BY <1>4, <2>1
    <3>4. from = EndOf(c, n - 1)' /\ got'[c][n] = got[c][n]
      BY <1>1, <1>3, <1>4, <1>6, <2>1, <3>1, <3>3
    <3> QED BY <3>1, <3>2, <3>4
  <2>2. CASE n = len + 1
    <3>1. PICK from : from = EndOf(c, len)
      OBVIOUS
    <3>2. Message(c, h, from)
      BY <1>1, <1>2, <3>1 DEF Assembled
    <3>3. Message(c, h, from)'
      BY <1>7, <3>2
    <3>4. n - 1 = len /\ len \in 0 .. len
      BY <1>4, <2>2
    <3>5. from = EndOf(c, n - 1)' /\ got'[c][n] = <<c, h>>
      BY <1>3, <1>4, <1>6, <2>2, <3>1, <3>4
    <3> QED BY <3>3, <3>5
  <2> QED BY <1>4, <2>1, <2>2
<1>9. Handed(c)' = Handed(c)
  <2>1. Handed(c) = h[Len(h)]
    BY <1>1, <1>2 DEF Handed
  <2>2. Handed(c)' = EndOf(c, Len(got[c]))'
    BY <1>3 DEF Handed
  <2>3. Len(got'[c]) = len + 1 /\ len + 1 # 0 /\ got'[c][len + 1][2] = h
    BY <1>3, <1>4
  <2> QED BY <2>1, <2>2, <2>3 DEF EndOf
<1>10. Gathered(c)'
  BY <1>3, <1>5, <1>9 DEF Assembled, Gathered
<1> QED BY <1>3, <1>8, <1>10 DEF Assembled

\* A hook is made by one step, before anything is read.
LEMMA HookFirst ==
  ASSUME WInv, [Next]_vars, NEW d \in Conns, hook'[d] # "none", hook[d] = "none"
  PROVE  HookMade(d)
<1>1. TypeOK /\ hook' # hook
  BY DEF WInv
<1>2. \E c \in Conns : HookMade(c) \/ Unhook(c)
  <2>1. ~UNCHANGED vars
    BY <1>1 DEF vars, regVars
  <2>2. \A c \in Conns : ~(ReadFrame(c) \/ ReadFails(c) \/ Pong(c) \/ Push(c) \/ Cancel(c) \/ Leave(c) \/ Stall(c))
    BY <1>1 DEF ReadFrame, ReadData, ReadMisplaced, ReadControl, ReadFails, Pong, Push, Cancel, Leave, Stall, regVars
  <2>3. \A c \in Conns : ~(Refuse(c) \/ Hijack(c) \/ HookFails(c) \/ NoHook(c) \/ Store(c) \/ Respond(c) \/ Delete(c))
    BY <1>1 DEF Refuse, Hijack, HookFails, NoHook, Store, Respond, Delete, regVars
  <2>4. \A c \in Conns : ~(ServeCanceled(c) \/ Take(c) \/ TakeNil(c) \/ Deliver(c) \/ Send(c) \/ Close(c))
    BY <1>1 DEF ServeCanceled, Take, TakeNil, Deliver, Send, Close, regVars
  <2> QED BY <2>1, <2>2, <2>3, <2>4 DEF Next, Over, Handle
<1> QED BY <1>1, <1>2, Tables DEF HookMade, Unhook

LEMMA StepAssembled ==
  ASSUME OwnKeys, WInv, [Next]_vars, NEW d \in Conns, hook'[d] # "none"
  PROVE  Assembled(d)'
<1>1. TypeOK /\ Steady(d) /\ (hook[d] # "none" => Assembled(d))
  BY DEF WInv
<1>2. ASSUME in'[d] = in[d], msgr'[d] = msgr[d], hand'[d] = hand[d], got'[d] = got[d],
             rpc'[d] = "offer" <=> rpc[d] = "offer"
      PROVE  Assembled(d)'
  BY <1>2, HookFirst, NothingHanded DEF HookMade
<1>3. CASE hook[d] = "none"
  <2>1. HookMade(d)
    BY <1>3, HookFirst
  <2> QED BY <1>2, <2>1 DEF HookMade, readVars, workVars
<1>4. CASE hook[d] # "none"
  <2>0. Assembled(d)
    BY <1>1, <1>4
  <2> USE Tables, <1>1
  <2>1. CASE UNCHANGED vars
    BY <1>2, <2>1 DEF vars, readVars, workVars
  <2>2. ASSUME NEW c \in Conns, NEW kind \in {"data", "cont"}, NEW final \in BOOLEAN, ReadData(c, kind, final)
        PROVE  Assembled(d)'
    <3>1. CASE c = d
      BY <2>0, <2>2, <3>1, DataGathered
    <3>2. CASE c # d
      BY <1>2, <2>2, <3>2 DEF ReadData, Frame, Turn, workVars
    <3> QED BY <3>1, <3>2
  <2>3. ASSUME NEW c \in Conns, NEW kind \in {"ping", "pong", "close"}, ReadControl(c, kind)
        PROVE  Assembled(d)'
    <3>1. CASE c = d
      BY <2>0, <2>3, <3>1, ControlSkipped
    <3>2. CASE c # d
      BY <1>2, <2>3, <3>2 DEF ReadControl, Frame, Turn, workVars
    <3> QED BY <3>1, <3>2
  <2>4. ASSUME NEW c \in Conns, Take(c) PROVE Assembled(d)'
    <3>1. CASE c = d
      BY <1>4, <2>0, <2>4, <3>1, MessageHanded
    <3>2. CASE c # d
      BY <1>2, <2>4, <3>2 DEF Take, Rest, Turn
    <3> QED BY <3>1, <3>2
  <2>5. ASSUME NEW c \in Conns, Deliver(c) PROVE Assembled(d)'
    <3>1. CASE c = d
      BY <2>0, <2>5, <3>1, MessageReceived
    <3>2. CASE c # d
      <4>1. to[c] = c
        BY <2>5 DEF Deliver, WInv, Steady
      <4> QED BY <1>2, <2>5, <3>2, <4>1 DEF Deliver, readVars
    <3> QED BY <3>1, <3>2
  <2>6. ASSUME NEW c \in Conns, NEW kind \in {"data", "cont"}, NEW final \in BOOLEAN, ReadMisplaced(c, kind, final)
        PROVE  Assembled(d)'
    BY <1>2, <2>6 DEF ReadMisplaced, CanRead, Turn, workVars
  <2>7. ASSUME NEW c \in Conns, ReadFails(c) \/ Pong(c) \/ TakeNil(c) PROVE Assembled(d)'
    <3>1. /\ UNCHANGED <<in, msgr, hand, got>> /\ rpc[c] # "offer"
          /\ \E place \in {"offer nil", "pong load", "read", "ended"} : rpc' = [rpc EXCEPT ![c] = place]
      BY <2>7 DEF ReadFails, Pong, TakeNil, Turn, workVars
    <3> QED BY <1>2, <3>1
  <2>8. ASSUME NEW c \in Conns, Respond(c) PROVE Assembled(d)'
    <3>1. rpc[c] # "offer"
      BY <2>8 DEF Respond, WInv, Steady
    <3> QED BY <1>2, <2>8, <3>1 DEF Respond, Turn, workVars
  <2>9. ASSUME NEW c \in Conns, Refuse(c) \/ Hijack(c) \/ HookFails(c) \/ NoHook(c) \/ HookMade(c) \/ Store(c)
        PROVE  Assembled(d)'
    BY <1>2, <2>9 DEF Refuse, Hijack, HookFails, NoHook, HookMade, Store, readVars, workVars
  <2>10. ASSUME NEW c \in Conns, ServeCanceled(c) \/ Send(c) \/ Unhook(c) \/ Delete(c) \/ Close(c)
         PROVE  Assembled(d)'
    BY <1>2, <2>10 DEF ServeCanceled, Send, Unhook, Delete, Close, readVars, workVars
  <2>11. ASSUME NEW c \in Conns, Push(c) \/ Cancel(c) \/ Leave(c) \/ Stall(c) PROVE Assembled(d)'
    BY <1>2, <2>11 DEF Push, Cancel, Leave, Stall, readVars, workVars
  <2> QED BY <2>1, <2>2, <2>3, <2>4, <2>5, <2>6, <2>7, <2>8, <2>9, <2>10, <2>11 DEF Next, Over, Handle, ReadFrame
<1> QED BY <1>3, <1>4

LEMMA InitWInv == Init => WInv
<1> SUFFICES ASSUME Init PROVE WInv
  OBVIOUS
<1>1. Pending
  BY InitPending
<1>2. TypeOK
  <2>1. 0 \in 0 .. 2 * MaxPush /\ 0 \in 0 .. MaxFrames
    BY WsAssumption
  <2>2. <<>> \in Seq(Kinds \X BOOLEAN) /\ <<>> \in Seq(1 .. MaxFrames)
        /\ <<>> \in Seq(Conns \X Seq(1 .. MaxFrames))
    OBVIOUS
  <2>3. {canceled, open, gone, full} \subseteq [Conns -> BOOLEAN] /\ {msgr, hand} \subseteq [Conns -> Seq(1 .. MaxFrames)]
    BY <2>2 DEF Init
  <2> QED BY <2>1, <2>2, <2>3 DEF Init, TypeOK
<1>3. ASSUME NEW c \in Conns PROVE Steady(c) /\ hook[c] = "none"
  <2>1. clients[Key[c]] = Nobody
    BY <1>3 DEF Init
  <2> QED BY <1>3, <2>1 DEF Init, Steady
<1> QED BY <1>1, <1>2, <1>3 DEF WInv

LEMMA StepWInv == OwnKeys /\ WInv /\ [Next]_vars => WInv'
<1> SUFFICES ASSUME OwnKeys, WInv, [Next]_vars PROVE WInv'
  OBVIOUS
<1>1. Pending'
  BY StepPending DEF WInv
<1>2. TypeOK'
  BY <1>1, StepTypes DEF WInv
<1>3. \A d \in Conns : Steady(d)' /\ (hook'[d] # "none" => Assembled(d)')
  BY StepSteady, StepAssembled
<1> QED BY <1>1, <1>2, <1>3 DEF WInv

\* The frames that end a message and were not received: one at hand, one gathered.
LEMMA OnTheWay ==
  ASSUME TypeOK, NEW c \in Conns, Assembled(c)
  PROVE  Cardinality({i \in DOMAIN in[c] : Ends(c, i) /\ i > EndOf(c, Len(got[c]))}) <= 2
<1>1. PICK a, b, end : a = hand[c][Len(hand[c])] /\ b = msgr[c][Len(msgr[c])] /\ end = EndOf(c, Len(got[c]))
  OBVIOUS
<1>2. ASSUME NEW i \in DOMAIN in[c], Ends(c, i), i > end PROVE i \in {a, b}
  <2>1. IsData(c, i) /\ i \in Nat /\ end \in Nat /\ Handed(c) \in Nat
    <3>1. DOMAIN in[c] \subseteq Nat
      BY Held
    <3>2. end \in 0 .. Len(in[c]) /\ Handed(c) \in 0 .. Len(in[c]) /\ Len(in[c]) \in Nat
      BY <1>1, HandedRead DEF Assembled
    <3> QED BY <1>2, <3>1, <3>2 DEF Ends
  <2>2. CASE Handed(c) < i
    <3>1. \E j \in DOMAIN msgr[c] : i = msgr[c][j]
      BY <2>1, <2>2 DEF Assembled, Gathered
    <3> QED BY <1>1, <1>2, <3>1 DEF Assembled, Gathered
  <2>3. CASE ~(Handed(c) < i)
    <3>1. hand[c] # <<>> /\ i <= a
      BY <1>1, <1>2, <2>1, <2>3 DEF Handed
    <3>2. Message(c, hand[c], end)
      BY <1>1, <3>1 DEF Assembled
    <3>3. \E j \in DOMAIN hand[c] : i = hand[c][j]
      BY <1>1, <1>2, <2>1, <3>1, <3>2 DEF Message
    <3> QED BY <1>1, <1>2, <3>2, <3>3 DEF Message
  <2> QED BY <2>2, <2>3
<1>3. {i \in DOMAIN in[c] : Ends(c, i) /\ i > EndOf(c, Len(got[c]))} \in SUBSET {a, b}
  BY <1>1, <1>2
<1>4. IsFiniteSet({a}) /\ Cardinality({a}) = 1
  BY FS_Singleton
<1>5. IsFiniteSet({a, b}) /\ Cardinality({a, b}) <= 2
  <2>1. {a} \cup {b} = {a, b}
    OBVIOUS
  <2> QED BY <1>4, <2>1, FS_AddElement
<1>6. PICK X : X = {i \in DOMAIN in[c] : Ends(c, i) /\ i > EndOf(c, Len(got[c]))}
  OBVIOUS
<1>7. IsFiniteSet(X) /\ Cardinality(X) <= Cardinality({a, b})
  BY <1>3, <1>5, <1>6, FS_Subset
<1>8. Cardinality(X) \in Nat /\ Cardinality({a, b}) \in Nat
  BY <1>5, <1>7, FS_CardinalityType
<1> QED BY <1>5, <1>6, <1>7, <1>8

\* When no two connections share a key, what a hook received is what was read on its
\* connection: every message of its own frames, in order, begun by its first frame and
\* ended by its last, none skipped, and all but the last two of those read - for both
\* handlers (native.go, gorilla.go), any number of connections, pushes and frames,
\* whatever control frames come in between and whatever Handler0 throws away with its
\* readers; Handler1 throws nothing away, so there this is what the client sent.
THEOREM MessagesAreWhole ==
  ASSUME OwnKeys
  PROVE  Spec => []Whole
<1>1. WInv => Whole
  BY OnTheWay DEF WInv, Whole, Reassembled, AsSent, Steady, Assembled, Received
<1>2. Init => WInv
  BY InitWInv
<1>3. WInv /\ [Next]_vars => WInv'
  BY StepWInv
<1> QED BY <1>1, <1>2, <1>3, PTL DEF Spec
===============================================================================
