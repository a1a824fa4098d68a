------------------------------ MODULE ZggProofs ------------------------------
(***************************************************************************)
(* Proofs about the life of the program, for any options and servers: the  *)
(* order in which modules are closed, and that http comes to rest before.  *)
(*                                                                         *)
(* The order rests on options being registered once (Distinct), on the     *)
(* Closeds following them until they are turned around (Follows), and on   *)
(* where the main goroutine is (MainAt).  That http rests is a matter of   *)
(* how far the servers were told to stop (Told) and of what a server that  *)
(* was told can still do (Servers0).                                       *)
(*                                                                         *)
(* And about what answers a request in such a program: the front end       *)
(* server, whatever its roots, routes and files, and the requests of a     *)
(* service, for any number of them and of routes.                          *)
(***************************************************************************)
EXTENDS Zgg, HttpParts, SequenceTheorems, FiniteSetTheorems, TLAPS

Distinct(s) == \A a, b \in DOMAIN s : s[a] = s[b] => a = b

\* x was registered to run before y.
Before(o, x, y) == \E a, b \in DOMAIN o : a < b /\ o[a] = x /\ o[b] = y

Typed ==
  /\ options \in Seq(Modules) /\ closeds \in Seq(Modules) /\ ran \in Seq(Modules)
  /\ servers \in Seq(Servers) /\ at \in Nat
  /\ inited \in BOOLEAN /\ abort \in BOOLEAN /\ expired \in BOOLEAN
  /\ srv \in [Servers -> {"none", "booted", "listening", "returned"}]
  /\ inShut \in [Servers -> BOOLEAN] /\ busy \in [Servers -> BOOLEAN]

Running == {"boot", "notify", "wait", "shutdown", "draining", "closing"}

MainAt ==
  /\ pc \in Regs \cup Ends
  /\ pc = "register" => closeds = <<>> /\ servers = <<>> /\ at = 0
  /\ pc \in {"register", "init"} => ~inited /\ ran = <<>> /\ ~abort /\ \A s \in Servers : srv[s] = "none"
  /\ pc = "init" => at <= Len(options)
  /\ pc \in Running => inited /\ ran = <<>> /\ ~abort
  /\ pc \in {"boot", "shutdown", "draining"} => at <= Len(servers)
  /\ pc = "draining" => at > 0
  /\ pc \in {"notify", "wait", "closing"} => at = 0
  /\ pc = "modules" => inited /\ at = Len(ran)

Follows ==
  /\ Distinct(options)
  /\ ~inited => \A i, j \in DOMAIN closeds : i < j => Before(options, closeds[i], closeds[j])
  /\ pc = "init" => \A i \in DOMAIN closeds : \E a \in 1 .. at : options[a] = closeds[i]
  /\ inited => \A i, j \in DOMAIN closeds : i < j => Before(options, closeds[j], closeds[i])
  /\ Len(ran) <= Len(closeds) /\ \A i \in DOMAIN ran : ran[i] = closeds[i]
  /\ pc = "exited" => Len(ran) = Len(closeds)

OrderInv == Typed /\ MainAt /\ Follows

\* What a server does that was told to stop, and one that was not booted.
Servers0 ==
  \A s \in Servers :
    /\ srv[s] = "none" => ~busy[s]
    /\ srv[s] # "none" => InSeq(servers, s)
    /\ inShut[s] => srv[s] # "listening"

\* The servers that were told to stop; all but the last one of them are drained.
Drains(i) == pc = "draining" /\ i = at
Told ==
  /\ pc \in {"shutdown", "draining"} => \A i \in 1 .. at :
       KindOf[servers[i]] = "http" =>
         inShut[servers[i]] /\ (busy[servers[i]] => expired \/ Drains(i))
  /\ pc \in {"closing", "modules"} => \A i \in DOMAIN servers :
       KindOf[servers[i]] = "http" => inShut[servers[i]] /\ (busy[servers[i]] => expired)

IInv == OrderInv /\ Servers0 /\ Told /\ HttpBeforeModules

-----------------------------------------------------------------------------

LEMMA InitInductive == Init => IInv
<1> SUFFICES ASSUME Init PROVE IInv
  OBVIOUS
<1> USE DEF Init
<1>1. Typed
  BY EmptySeq DEF Typed
<1>2. MainAt
  BY DEF MainAt, Regs, Ends, Running
<1>3. Follows /\ Servers0 /\ Told /\ HttpBeforeModules
  BY DEF Follows, Distinct, Servers0, Told, HttpBeforeModules
<1> QED BY <1>1, <1>2, <1>3 DEF IInv, OrderInv

\* A set of numbers that is not empty has a least one.
LEMMA Least ==
  ASSUME NEW T, T \subseteq Nat, T # {}
  PROVE  \E i \in T : \A j \in T : i <= j
<1>1. PICK i \in T : \A j \in T : ~ (<<j, i>> \in OpToRel(<, Nat))
  BY WFMin, NatLessThanWellFounded
<1>2. ASSUME NEW j \in T PROVE i <= j
  <2>1. <<j, i>> \in Nat \X Nat => ~ (j < i)
    BY <1>1, <1>2 DEF OpToRel
  <2> QED BY <2>1
<1> QED BY <1>2

Insertion(s, i, x) == SubSeq(s, 1, i - 1) \o <<x>> \o SubSeq(s, i, Len(s))

\* slices.Insert: what is before the place stays, what is behind it moves on.
LEMMA Inserted ==
  ASSUME NEW S, NEW s \in Seq(S), NEW x \in S, NEW i \in 1 .. Len(s) + 1
  PROVE  /\ Insertion(s, i, x) \in Seq(S) /\ Len(Insertion(s, i, x)) = Len(s) + 1
         /\ \A k \in 1 .. Len(s) + 1 : Insertion(s, i, x)[k] = IF k < i THEN s[k] ELSE IF k = i THEN x ELSE s[k - 1]
<1> DEFINE u == SubSeq(s, 1, i - 1)
           v == SubSeq(s, i, Len(s))
           w == u \o <<x>>
           t == w \o v
<1>0. Len(s) \in Nat /\ DOMAIN s = 1 .. Len(s) /\ \A k \in 1 .. Len(s) : s[k] \in S
  OBVIOUS
<1>1. u \in Seq(S) /\ Len(u) = i - 1 /\ \A k \in 1 .. i - 1 : u[k] = s[k]
  <2>1. \A k \in 1 .. i - 1 : s[k] \in S
    BY <1>0
  <2> QED BY <2>1, <1>0, SubSeqProperties
<1>2. v \in Seq(S) /\ Len(v) = Len(s) - i + 1 /\ \A k \in 1 .. Len(s) - i + 1 : v[k] = s[i + k - 1]
  <2>1. \A k \in i .. Len(s) : s[k] \in S
    BY <1>0
  <2> QED BY <2>1, <1>0, SubSeqProperties
<1>3. <<x>> \in Seq(S) /\ Len(<<x>>) = 1 /\ <<x>>[1] = x
  OBVIOUS
<1> HIDE DEF u, v
<1>4. /\ w \in Seq(S) /\ Len(w) = i
      /\ \A k \in 1 .. i : w[k] = IF k <= i - 1 THEN u[k] ELSE <<x>>[k - (i - 1)]
  <2>1. w \in Seq(S) /\ Len(w) = Len(u) + Len(<<x>>)
        /\ \A k \in 1 .. Len(u) + Len(<<x>>) : w[k] = IF k <= Len(u) THEN u[k] ELSE <<x>>[k - Len(u)]
    BY <1>1, <1>3, ConcatProperties
  <2> QED BY <2>1, <1>1, <1>3
<1> HIDE DEF w
<1>5. /\ t \in Seq(S) /\ Len(t) = Len(w) + Len(v)
      /\ \A k \in 1 .. Len(w) + Len(v) : t[k] = IF k <= Len(w) THEN w[k] ELSE v[k - Len(w)]
  <2>1. w \in Seq(S) /\ v \in Seq(S)
    BY <1>2, <1>4
  <2>2. /\ w \o v \in Seq(S) /\ Len(w \o v) = Len(w) + Len(v)
        /\ \A k \in 1 .. Len(w) + Len(v) : (w \o v)[k] = IF k <= Len(w) THEN w[k] ELSE v[k - Len(w)]
    BY <2>1, ConcatProperties
  <2> QED BY <2>2
<1> HIDE DEF t
<1>6. Len(t) = Len(s) + 1 /\ DOMAIN t = 1 .. Len(s) + 1
  BY <1>0, <1>2, <1>4, <1>5
<1>7. ASSUME NEW k \in 1 .. Len(s) + 1
      PROVE  t[k] = IF k < i THEN s[k] ELSE IF k = i THEN x ELSE s[k - 1]
  <2>1. CASE k < i
    BY <2>1, <1>0, <1>1, <1>2, <1>4, <1>5
  <2>2. CASE k = i
    BY <2>2, <1>0, <1>1, <1>2, <1>3, <1>4, <1>5
  <2>3. CASE k > i
    <3>1. t[k] = v[k - i]
      BY <2>3, <1>0, <1>2, <1>4, <1>5
    <3>2. k - i \in 1 .. Len(s) - i + 1 /\ i + (k - i) - 1 = k - 1
      BY <2>3, <1>0
    <3> QED BY <2>3, <3>1, <3>2, <1>2
  <2> QED BY <2>1, <2>2, <2>3, <1>0
<1>8. t = Insertion(s, i, x)
  BY DEF t, w, u, v, Insertion
<1> QED BY <1>5, <1>6, <1>7, <1>8

LEMMA RegisterOnce ==
  ASSUME Typed, Distinct(options), NEW m \in Modules, NEW k \in Keys, Register(m, k)
  PROVE  options' \in Seq(Modules) /\ Distinct(options')
<1> DEFINE i == IF Place(k) = {} THEN Len(options) + 1
                ELSE CHOOSE j \in Place(k) : \A l \in Place(k) : j <= l
<1>1. options \in Seq(Modules) /\ \A a \in DOMAIN options : options[a] # m
  BY DEF Typed, Register, InSeq
<1>2. i \in 1 .. Len(options) + 1
  <2>1. Place(k) \subseteq 1 .. Len(options) /\ Len(options) \in Nat
    BY <1>1 DEF Place
  <2>2. CASE Place(k) = {}
    BY <2>1, <2>2
  <2>3. CASE Place(k) # {}
    <3>1. Place(k) \subseteq Nat
      BY <2>1
    <3>2. \E j \in Place(k) : \A l \in Place(k) : j <= l
      BY <2>3, <3>1, Least
    <3>3. i \in Place(k)
      BY <2>3, <3>2
    <3> HIDE DEF i
    <3> QED BY <2>1, <3>3
  <2> QED BY <2>2, <2>3
<1>3. options' = Insertion(options, i, m)
  BY DEF Register, Insertion
<1> HIDE DEF i
<1>4. /\ options' \in Seq(Modules) /\ Len(options') = Len(options) + 1
      /\ \A a \in 1 .. Len(options) + 1 : options'[a] = IF a < i THEN options[a] ELSE IF a = i THEN m ELSE options[a - 1]
  <2>1. options \in Seq(Modules) /\ m \in Modules /\ i \in 1 .. Len(options) + 1
    BY <1>1, <1>2
  <2>2. /\ Insertion(options, i, m) \in Seq(Modules)
        /\ Len(Insertion(options, i, m)) = Len(options) + 1
        /\ \A a \in 1 .. Len(options) + 1 :
             Insertion(options, i, m)[a] = IF a < i THEN options[a] ELSE IF a = i THEN m ELSE options[a - 1]
    <3> HIDE DEF Insertion
    <3> QED BY <2>1, Inserted
  <2> QED BY <1>3, <2>2, Zenon
<1>5. DOMAIN options = 1 .. Len(options) /\ DOMAIN options' = 1 .. Len(options) + 1 /\ Len(options) \in Nat
  BY <1>1, <1>4
<1>6. ASSUME NEW a \in 1 .. Len(options) + 1, NEW b \in 1 .. Len(options) + 1, options'[a] = options'[b], a # b
      PROVE  FALSE
  <2>1. CASE a < i /\ b < i
    BY <2>1, <1>2, <1>4, <1>5, <1>6 DEF Distinct
  <2>2. CASE a = i \/ b = i
    <3>1. ASSUME NEW c \in 1 .. Len(options) + 1, c # i PROVE options'[c] # m
      <4>1. CASE c < i
        BY <4>1, <1>1, <1>2, <1>4, <1>5
      <4>2. CASE c > i
        <5>1. options'[c] = options[c - 1] /\ c - 1 \in DOMAIN options
          BY <4>2, <1>2, <1>4, <1>5
        <5> QED BY <5>1, <1>1
      <4> QED BY <3>1, <4>1, <4>2, <1>2, <1>5
    <3>2. options'[i] = m
      BY <1>2, <1>4, <1>5
    <3> QED BY <2>2, <3>1, <3>2, <1>6
  <2>3. CASE a < i /\ b > i
    BY <2>3, <1>2, <1>4, <1>5, <1>6 DEF Distinct
  <2>4. CASE a > i /\ b < i
    BY <2>4, <1>2, <1>4, <1>5, <1>6 DEF Distinct
  <2>5. CASE a > i /\ b > i
    BY <2>5, <1>2, <1>4, <1>5, <1>6 DEF Distinct
  <2> QED BY <2>1, <2>2, <2>3, <2>4, <2>5, <1>2, <1>5
<1> QED BY <1>4, <1>5, <1>6 DEF Distinct

\* The steps that register and run options, that turn the Closeds around or
\* call them, and all the others, which leave the sequences alone.
Quiet ==
  \/ StartInit \/ UnknownEngine \/ OptionExits
  \/ Boot \/ Notify \/ ShutdownNext \/ Drained \/ DrainExpires
  \/ ServeStop \/ Exit \/ Signal
  \/ \E s \in Servers : ServerStep(s) \/ BeeEnds(s) \/ Accept(s) \/ Finish(s)

LEMMA Steps ==
  ASSUME Next
  PROVE  \/ \E m \in Modules, k \in Keys : Register(m, k)
         \/ \E b \in BOOLEAN : \E more \in Seq(Servers) : RunOption(b, more)
         \/ InitDone \/ OptionAborts \/ CloseModule \/ Quiet \/ UNCHANGED vars
<1>1. <<>> \in Seq(Servers) /\ \A s \in Servers : <<s>> \in Seq(Servers)
  BY EmptySeq
<1> QED BY <1>1, Zenon DEF Next, MainStep, Quiet, Over

LEMMA TypedStep ==
  ASSUME Typed, MainAt, Distinct(options), Next
  PROVE  Typed'
<1>0. /\ Len(options) \in Nat /\ DOMAIN options = 1 .. Len(options)
      /\ Len(closeds) \in Nat /\ DOMAIN closeds = 1 .. Len(closeds)
      /\ Len(servers) \in Nat /\ DOMAIN servers = 1 .. Len(servers)
  BY DEF Typed
<1>1. CASE \E m \in Modules, k \in Keys : Register(m, k)
  <2>1. PICK m \in Modules, k \in Keys : Register(m, k)
    BY <1>1
  <2>2. options' \in Seq(Modules)
    BY <2>1, RegisterOnce
  <2> QED BY <2>1, <2>2 DEF Register, Typed, srvVars
<1>2. CASE \E b \in BOOLEAN : \E more \in Seq(Servers) : RunOption(b, more)
  <2>1. PICK b \in BOOLEAN, more \in Seq(Servers) : RunOption(b, more)
    BY <1>2
  <2>2. at + 1 \in DOMAIN options /\ options[at + 1] \in Modules
    BY <2>1, <1>0 DEF RunOption, Typed
  <2>3. servers' \in Seq(Servers)
    BY <2>1, ConcatProperties DEF RunOption, Typed
  <2>4. closeds' \in Seq(Modules)
    BY <2>1, <2>2, AppendProperties DEF RunOption, Typed
  <2> QED BY <2>1, <2>3, <2>4 DEF RunOption, Typed, srvVars
<1>3. CASE InitDone
  <2>1. closeds' \in Seq(Modules)
    BY <1>3, <1>0 DEF InitDone, Unwind, Reversed, Typed
  <2> QED BY <1>3, <2>1 DEF InitDone, Typed, srvVars
<1>4. CASE OptionAborts
  BY <1>4 DEF OptionAborts, Typed, srvVars
<1>5. CASE CloseModule
  <2>1. at + 1 \in DOMAIN closeds /\ closeds[at + 1] \in Modules
    BY <1>5, <1>0 DEF CloseModule, MoreToClose, Typed
  <2>2. ran' \in Seq(Modules)
    BY <1>5, <2>1, AppendProperties DEF CloseModule, Typed
  <2> QED BY <1>5, <2>2 DEF CloseModule, Typed, srvVars
<1>6. CASE Quiet
  <2>1. /\ options' = options /\ closeds' = closeds /\ ran' = ran /\ servers' = servers /\ inited' = inited
    BY <1>6 DEF Quiet, StartInit, UnknownEngine, OptionExits, Boot, Notify, ShutdownNext, Drained,
                DrainExpires, ServeStop, Exit, Signal, ServerStep, Listen, ListenFails, BeeEnds,
                Accept, Finish, mainVars
  <2>2. at' \in Nat
    BY <1>6 DEF Quiet, StartInit, UnknownEngine, OptionExits, Boot, Notify, ShutdownNext, Drained,
                DrainExpires, ServeStop, Exit, Signal, ServerStep, Listen, ListenFails, BeeEnds,
                Accept, Finish, mainVars, Typed
  <2>4. abort' = abort \/ abort' = TRUE
    BY <1>6 DEF Quiet, StartInit, UnknownEngine, OptionExits, Boot, Notify, ShutdownNext, Drained,
                DrainExpires, ServeStop, Exit, Signal, ServerStep, Listen, ListenFails, BeeEnds,
                Accept, Finish, mainVars
  <2>5. expired' = expired \/ expired' = TRUE
    BY <1>6 DEF Quiet, StartInit, UnknownEngine, OptionExits, Boot, Notify, ShutdownNext, Drained,
                DrainExpires, ServeStop, Exit, Signal, ServerStep, Listen, ListenFails, BeeEnds,
                Accept, Finish
  <2>3. /\ srv' \in [Servers -> {"none", "booted", "listening", "returned"}]
        /\ inShut' \in [Servers -> BOOLEAN] /\ busy' \in [Servers -> BOOLEAN]
    BY <1>6 DEF Quiet, StartInit, UnknownEngine, OptionExits, Boot, Notify, ShutdownNext, Drained,
                DrainExpires, ServeStop, Exit, Signal, ServerStep, Listen, ListenFails, BeeEnds,
                Accept, Finish, srvVars, StopAccepting, StopListening, Typed
  <2> QED BY <2>1, <2>2, <2>3, <2>4, <2>5 DEF Typed
<1>7. CASE UNCHANGED vars
  BY <1>7 DEF vars, mainVars, srvVars, Typed
<1> QED BY <1>1, <1>2, <1>3, <1>4, <1>5, <1>6, <1>7, Steps

LEMMA MainAtStep ==
  ASSUME Typed, MainAt, Next
  PROVE  MainAt'
<1> USE DEF MainAt, Regs, Ends, Running
<1>0. /\ Len(options) \in Nat /\ Len(ran) \in Nat /\ Len(servers) \in Nat
      /\ ran = <<>> => Len(ran) = 0
      /\ servers = <<>> => Len(servers) = 0
  BY DEF Typed
<1>1. CASE \E m \in Modules, k \in Keys : Register(m, k)
  BY <1>1 DEF Register, srvVars
<1>2. CASE \E b \in BOOLEAN : \E more \in Seq(Servers) : RunOption(b, more)
  BY <1>0, <1>2 DEF RunOption, srvVars, Typed
<1>3. CASE InitDone
  BY <1>0, <1>3 DEF InitDone, Typed
<1>4. CASE OptionAborts
  BY <1>4 DEF OptionAborts, AbortedInit
<1>5. CASE CloseModule
  <2>1. at + 1 \in DOMAIN closeds /\ closeds[at + 1] \in Modules
    BY <1>5 DEF CloseModule, MoreToClose, Typed
  <2>2. Len(ran') = Len(ran) + 1
    BY <1>5, <2>1, AppendProperties DEF CloseModule, Typed
  <2> QED BY <1>5, <2>2 DEF CloseModule
<1>6. CASE Quiet
  <2>1. CASE StartInit \/ UnknownEngine \/ OptionExits
    BY <2>1, <1>0 DEF StartInit, UnknownEngine, OptionExits, mainVars, srvVars, Typed
  <2>2. CASE Boot \/ Notify
    BY <2>2, <1>0 DEF Boot, Notify, mainVars, Typed
  <2>3. CASE ShutdownNext \/ Drained \/ DrainExpires
    BY <2>3, <1>0 DEF ShutdownNext, Drained, DrainExpires, mainVars, srvVars, Typed
  <2>4. CASE ServeStop \/ Exit \/ Signal
    BY <2>4, <1>0 DEF ServeStop, Exit, Signal, mainVars, srvVars, Alive
  <2>5. CASE \E s \in Servers : ServerStep(s) \/ BeeEnds(s) \/ Accept(s) \/ Finish(s)
    <3>1. /\ UNCHANGED <<at, mainVars, expired>>
          /\ pc' \in {pc, "dead"} /\ (srv' = srv \/ \E s \in Servers : srv[s] # "none")
      BY <2>5 DEF ServerStep, Listen, ListenFails, BeeEnds, Accept, Finish
    <3> QED BY <3>1 DEF mainVars
  <2> QED BY <1>6, <2>1, <2>2, <2>3, <2>4, <2>5 DEF Quiet
<1>7. CASE UNCHANGED vars
  BY <1>7 DEF vars, mainVars, srvVars
<1> QED BY <1>1, <1>2, <1>3, <1>4, <1>5, <1>6, <1>7, Steps

\* The sequences that Follows is about do not change in the quiet steps.
LEMMA Kept ==
  ASSUME Quiet
  PROVE  UNCHANGED <<options, closeds, ran, inited>> /\ (servers' = servers)
BY DEF Quiet, StartInit, UnknownEngine, OptionExits, Boot, Notify, ShutdownNext, Drained,
                DrainExpires, ServeStop, Exit, Signal, ServerStep, Listen, ListenFails, BeeEnds,
                Accept, Finish, mainVars

LEMMA FollowsStep ==
  ASSUME Typed, MainAt, Follows, Next
  PROVE  Follows'
<1>0. /\ Len(options) \in Nat /\ DOMAIN options = 1 .. Len(options)
      /\ Len(closeds) \in Nat /\ DOMAIN closeds = 1 .. Len(closeds)
      /\ Len(ran) \in Nat /\ DOMAIN ran = 1 .. Len(ran)
  BY DEF Typed
<1>1. CASE \E m \in Modules, k \in Keys : Register(m, k)
  <2>1. PICK m \in Modules, k \in Keys : Register(m, k)
    BY <1>1
  <2>2. Distinct(options')
    BY <2>1, RegisterOnce DEF Follows
  <2>3. pc' = "register" /\ closeds' = closeds /\ ran' = ran /\ closeds = <<>> /\ ran = <<>> /\ inited' = inited /\ ~inited
    BY <2>1 DEF Register, MainAt
  <2> QED BY <2>2, <2>3 DEF Follows
<1>2. CASE \E b \in BOOLEAN : \E more \in Seq(Servers) : RunOption(b, more)
  <2>1. PICK b \in BOOLEAN, more \in Seq(Servers) : RunOption(b, more)
    BY <1>2
  <2>2. at + 1 \in DOMAIN options /\ options[at + 1] \in Modules /\ at \in Nat
    BY <2>1, <1>0 DEF RunOption, Typed
  <2>3. /\ pc = "init" /\ pc' = "init" /\ ~inited /\ inited' = inited /\ options' = options /\ ran' = ran
        /\ at' = at + 1 /\ ran = <<>> /\ Len(ran) = 0
    BY <2>1 DEF RunOption, MainAt
  <2>4. CASE closeds' = closeds
    BY <2>2, <2>3, <2>4 DEF Follows, Before, Distinct
  <2>5. CASE closeds' = Append(closeds, options[at + 1])
    <3>1. /\ DOMAIN closeds' = 1 .. Len(closeds) + 1 /\ Len(closeds') = Len(closeds) + 1
          /\ \A i \in 1 .. Len(closeds) : closeds'[i] = closeds[i]
          /\ closeds'[Len(closeds) + 1] = options[at + 1]
      BY <2>2, <2>5, <1>0, AppendProperties DEF Typed
    <3>2. \A i \in 1 .. Len(closeds) : \E a \in 1 .. at : options[a] = closeds[i]
      BY <2>3, <1>0 DEF Follows
    <3>3. ASSUME NEW i \in 1 .. Len(closeds) + 1, NEW j \in 1 .. Len(closeds) + 1, i < j
          PROVE  Before(options, closeds'[i], closeds'[j])
      <4>1. CASE j <= Len(closeds)
        <5>1. Before(options, closeds[i], closeds[j])
          BY <4>1, <3>3, <2>3, <1>0 DEF Follows
        <5> QED BY <5>1, <4>1, <3>3, <3>1, <2>3, <1>0 DEF Before
      <4>2. CASE j = Len(closeds) + 1
        <5>1. PICK a \in 1 .. at : options[a] = closeds[i]
          BY <4>2, <3>2, <3>3, <1>0
        <5>2. a < at + 1 /\ a \in DOMAIN options
          BY <2>2, <1>0
        <5> QED BY <5>1, <5>2, <4>2, <3>3, <3>1, <2>2, <2>3, <1>0 DEF Before
      <4> QED BY <4>1, <4>2, <1>0
    <3>4. ASSUME NEW i \in 1 .. Len(closeds) + 1
          PROVE  \E a \in 1 .. at + 1 : options[a] = closeds'[i]
      <4>1. CASE i <= Len(closeds)
        <5>1. PICK a \in 1 .. at : options[a] = closeds[i]
          BY <4>1, <3>2, <1>0
        <5>2. a \in 1 .. at + 1 /\ closeds'[i] = closeds[i]
          BY <4>1, <3>1, <2>2, <1>0
        <5> QED BY <5>1, <5>2
      <4>2. CASE i = Len(closeds) + 1
        BY <4>2, <3>1, <2>2
      <4> QED BY <4>1, <4>2, <1>0
    <3>5. ~inited' /\ Len(ran') = 0 /\ DOMAIN ran' = {} /\ pc' # "exited" /\ Distinct(options')
      BY <2>3, <1>0 DEF Follows
    <3> QED BY <3>1, <3>3, <3>4, <3>5, <2>3, <1>0 DEF Follows
  <2> QED BY <2>1, <2>4, <2>5 DEF RunOption
<1>3. CASE InitDone
  <2>1. /\ ~inited /\ inited' /\ options' = options /\ ran' = ran /\ ran = <<>> /\ Len(ran) = 0 /\ pc' = "boot"
    BY <1>3 DEF InitDone, MainAt
  <2>2. /\ DOMAIN closeds' = 1 .. Len(closeds) /\ Len(closeds') = Len(closeds)
        /\ \A i \in 1 .. Len(closeds) : closeds'[i] = closeds[Len(closeds) - i + 1]
    BY <1>3, <1>0 DEF InitDone, Unwind, Reversed
  <2>3. ASSUME NEW i \in 1 .. Len(closeds), NEW j \in 1 .. Len(closeds), i < j
        PROVE  Before(options, closeds'[j], closeds'[i])
    <3>1. Before(options, closeds[Len(closeds) - j + 1], closeds[Len(closeds) - i + 1])
      BY <2>1, <2>3, <1>0 DEF Follows
    <3> QED BY <3>1, <2>1, <2>2 DEF Before
  <2> QED BY <2>1, <2>2, <2>3, <1>0 DEF Follows, Distinct
<1>4. CASE OptionAborts
  <2>1. /\ ~inited /\ inited' = inited /\ options' = options /\ closeds' = closeds /\ ran' = closeds /\ pc' = "exited"
    BY <1>4 DEF OptionAborts, AbortedInit, MainAt
  <2>2. Distinct(options') /\ (\A i, j \in DOMAIN closeds' : i < j => Before(options', closeds'[i], closeds'[j]))
    BY <2>1 DEF Follows
  <2>3. Len(ran') <= Len(closeds') /\ (\A i \in DOMAIN ran' : ran'[i] = closeds'[i]) /\ Len(ran') = Len(closeds')
    BY <2>1, <1>0
  <2> QED BY <2>1, <2>2, <2>3 DEF Follows
<1>5. CASE CloseModule
  <2>1. at + 1 \in DOMAIN closeds /\ closeds[at + 1] \in Modules /\ at = Len(ran) /\ inited
    BY <1>5, <1>0 DEF CloseModule, MoreToClose, Typed, MainAt
  <2>2. /\ Len(ran') = Len(ran) + 1 /\ DOMAIN ran' = 1 .. Len(ran) + 1
        /\ \A i \in 1 .. Len(ran) : ran'[i] = ran[i]
        /\ ran'[Len(ran) + 1] = closeds[Len(ran) + 1]
    BY <1>5, <2>1, <1>0, AppendProperties DEF CloseModule, Typed
  <2>3. options' = options /\ closeds' = closeds /\ inited' = inited /\ pc' = "modules"
    BY <1>5 DEF CloseModule
  <2>4. Len(ran') <= Len(closeds) /\ \A i \in DOMAIN ran' : ran'[i] = closeds[i]
    BY <2>1, <2>2, <1>0 DEF Follows
  <2> QED BY <2>1, <2>3, <2>4, <1>0 DEF Follows, Before, Distinct
<1>6. CASE Quiet
  <2>1. UNCHANGED <<options, closeds, ran, inited>>
    BY <1>6, Kept
  <2>2. pc' = "init" => closeds = <<>> \/ (pc = "init" /\ at' = at)
    BY <1>6 DEF Quiet, StartInit, UnknownEngine, OptionExits, Boot, Notify, ShutdownNext, Drained,
                DrainExpires, ServeStop, Exit, Signal, ServerStep, Listen, ListenFails, BeeEnds,
                Accept, Finish, mainVars, MainAt
  <2>3. pc' = "exited" => Len(ran) = Len(closeds)
    <3>1. pc' = "exited" => pc = "exited" \/ UnknownEngine \/ (ServeStop /\ abort) \/ Exit
      BY <1>6 DEF Quiet, StartInit, UnknownEngine, OptionExits, Boot, Notify, ShutdownNext, Drained,
                DrainExpires, ServeStop, Exit, Signal, ServerStep, Listen, ListenFails, BeeEnds,
                Accept, Finish
    <3>2. CASE pc = "exited"
      BY <3>2 DEF Follows
    <3>3. CASE UnknownEngine
      BY <3>3 DEF UnknownEngine, MainAt
    <3>4. ServeStop => ~abort
      BY DEF ServeStop, MainAt, Running
    <3>5. CASE Exit
      BY <3>5, <1>0 DEF Exit, MoreToClose, MainAt, Follows
    <3> QED BY <3>1, <3>2, <3>3, <3>4, <3>5
  <2> QED BY <2>1, <2>2, <2>3 DEF Follows, Before, Distinct
<1>7. CASE UNCHANGED vars
  BY <1>7 DEF vars, mainVars, Follows, Before, Distinct
<1> QED BY <1>1, <1>2, <1>3, <1>4, <1>5, <1>6, <1>7, Steps

LEMMA Servers0Step ==
  ASSUME Typed, MainAt, Servers0, Next
  PROVE  Servers0'
<1> USE DEF Servers0
<1>0. Len(servers) \in Nat /\ DOMAIN servers = 1 .. Len(servers)
  BY DEF Typed
<1>1. CASE \E m \in Modules, k \in Keys : Register(m, k)
  BY <1>1 DEF Register, srvVars, InSeq
<1>2. CASE \E b \in BOOLEAN : \E more \in Seq(Servers) : RunOption(b, more)
  BY <1>2 DEF RunOption, srvVars, MainAt
<1>3. CASE InitDone \/ OptionAborts \/ CloseModule
  BY <1>3 DEF InitDone, OptionAborts, CloseModule, srvVars, InSeq
<1>4. CASE Quiet
  <2>0. servers' = servers
    BY <1>4, Kept
  <2>1. CASE UNCHANGED srvVars
    BY <2>0, <2>1 DEF srvVars, InSeq
  <2>2. CASE Boot
    <3>1. CASE at < Len(servers)
      <4>1. at + 1 \in DOMAIN servers /\ servers[at + 1] \in Servers
        BY <3>1, <1>0 DEF Typed
      <4>2. /\ srv' = [srv EXCEPT ![servers[at + 1]] = "booted"] /\ inShut' = inShut /\ busy' = busy
        BY <2>2, <3>1 DEF Boot
      <4> QED BY <2>0, <4>1, <4>2 DEF InSeq, Typed
    <3> QED BY <2>0, <2>2, <3>1 DEF InSeq, Boot
  <2>3. CASE ShutdownNext
    <3>1. CASE at < Len(servers)
      <4>1. at + 1 \in DOMAIN servers /\ servers[at + 1] \in Servers
        BY <3>1, <1>0 DEF Typed
      <4>2. StopAccepting(servers[at + 1]) /\ busy' = busy
        BY <2>3, <3>1 DEF ShutdownNext
      <4> QED BY <2>0, <4>1, <4>2 DEF StopAccepting, StopListening, InSeq, Typed
    <3> QED BY <2>0, <2>3, <3>1 DEF ShutdownNext, InSeq
  <2>4. CASE \E s \in Servers : ServerStep(s) \/ BeeEnds(s) \/ Accept(s) \/ Finish(s)
    BY <2>0, <2>4 DEF ServerStep, Listen, ListenFails, BeeEnds, Accept, Finish, InSeq, Typed
  <2> QED BY <1>4, <2>1, <2>2, <2>3, <2>4 DEF Quiet, StartInit, UnknownEngine, OptionExits, Notify, Drained,
                DrainExpires, ServeStop, Exit, Signal
<1>5. CASE UNCHANGED vars
  BY <1>5 DEF vars, mainVars, srvVars, InSeq
<1> QED BY <1>1, <1>2, <1>3, <1>4, <1>5, Steps

\* What is told to an http server stays so, whatever the servers do.
LEMMA ToldKept ==
  ASSUME Typed, Servers0, NEW s \in Servers, KindOf[s] = "http",
         \E t \in Servers : ServerStep(t) \/ BeeEnds(t) \/ Accept(t) \/ Finish(t)
  PROVE  inShut[s] => inShut'[s] /\ (busy'[s] => busy[s])
BY DEF Typed, Servers0, ServerStep, Listen, ListenFails, BeeEnds, Accept, Finish

LEMMA ToldStep ==
  ASSUME Typed, MainAt, Servers0, Told, Next
  PROVE  Told'
<1> USE DEF Drains
<1>0. /\ Len(servers) \in Nat /\ DOMAIN servers = 1 .. Len(servers) /\ at \in Nat
      /\ \A i \in 1 .. Len(servers) : servers[i] \in Servers
  BY DEF Typed
<1>1. CASE (\E m \in Modules, k \in Keys : Register(m, k)) \/ InitDone \/ OptionAborts
           \/ \E b \in BOOLEAN : \E more \in Seq(Servers) : RunOption(b, more)
  BY <1>1 DEF Told, Register, InitDone, OptionAborts, AbortedInit, RunOption
<1>2. CASE CloseModule
  BY <1>2 DEF CloseModule, Told, srvVars
<1>3. CASE Quiet
  <2>0. servers' = servers
    BY <1>3, Kept
  <2>1. CASE StartInit \/ UnknownEngine \/ OptionExits \/ Notify \/ Exit
    BY <2>1 DEF Told, StartInit, UnknownEngine, OptionExits, Notify, Exit
  <2>2. CASE Boot
    BY <2>0, <2>2, <1>0 DEF Told, Boot
  <2>3. CASE ServeStop
    BY <2>0, <2>3 DEF Told, ServeStop, srvVars
  <2>4. CASE Signal
    BY <2>0, <2>4, <1>0 DEF Told, Signal, MainAt, srvVars
  <2>5. CASE ShutdownNext
    <3>1. CASE at < Len(servers)
      <4>1. at + 1 \in 1 .. Len(servers) /\ servers[at + 1] \in Servers
        BY <3>1, <1>0
      <4>2. /\ StopAccepting(servers[at + 1]) /\ busy' = busy /\ expired' = expired
            /\ pc = "shutdown" /\ pc' = "draining" /\ at' = at + 1
        BY <2>5, <3>1 DEF ShutdownNext
      <4>3. inShut' = [inShut EXCEPT ![servers[at + 1]] = KindOf[servers[at + 1]] = "http"]
        BY <4>2 DEF StopAccepting
      <4>4. ASSUME NEW i \in 1 .. at + 1, KindOf[servers[i]] = "http"
            PROVE  inShut'[servers[i]] /\ (busy'[servers[i]] => expired' \/ i = at + 1)
        <5>0. servers[i] \in Servers
          BY <3>1, <1>0
        <5>1. CASE i = at + 1
          BY <5>0, <5>1, <4>3, <4>4 DEF Typed
        <5>2. CASE i \in 1 .. at
          <6>1. inShut[servers[i]] /\ (busy[servers[i]] => expired)
            BY <5>2, <4>2, <4>4 DEF Told
          <6> QED BY <6>1, <5>0, <4>2, <4>3, <4>4 DEF Typed
        <5> QED BY <5>1, <5>2, <1>0
      <4> QED BY <2>0, <4>2, <4>4 DEF Told
    <3>2. CASE ~ (at < Len(servers))
      <4>1. at = Len(servers)
        <5>1. at <= Len(servers)
          BY <2>5 DEF ShutdownNext, MainAt
        <5>2. at \in Nat /\ Len(servers) \in Nat
          BY <1>0
        <5> HIDE DEF Drains
        <5> QED BY <3>2, <5>1, <5>2
      <4>2. pc = "shutdown" /\ pc' = "closing" /\ UNCHANGED <<srv, inShut, busy, expired>>
        BY <2>5, <3>2 DEF ShutdownNext
      <4> QED BY <2>0, <4>1, <4>2, <1>0 DEF Told
    <3> QED BY <3>1, <3>2
  <2>6. CASE Drained \/ DrainExpires
    <3>1. /\ pc = "draining" /\ pc' = "shutdown" /\ at' = at /\ UNCHANGED <<inShut, busy>>
          /\ expired' \/ (expired' = expired /\ (KindOf[servers[at]] = "http" => ~busy[servers[at]]))
      BY <2>6 DEF Drained, DrainExpires, srvVars
    <3> QED BY <2>0, <3>1 DEF Told
  <2>7. CASE \E s \in Servers : ServerStep(s) \/ BeeEnds(s) \/ Accept(s) \/ Finish(s)
    <3>1. at' = at /\ expired' = expired /\ pc' \in {pc, "dead"}
      BY <2>7 DEF ServerStep, Listen, ListenFails, BeeEnds, Accept, Finish
    <3>2. \A i \in 1 .. Len(servers) : KindOf[servers[i]] = "http" /\ inShut[servers[i]] =>
            inShut'[servers[i]] /\ (busy'[servers[i]] => busy[servers[i]])
      BY <2>7, <1>0, ToldKept
    <3>3. pc \in {"shutdown", "draining"} => at <= Len(servers)
      BY DEF MainAt
    <3> QED BY <2>0, <3>1, <3>2, <3>3, <1>0 DEF Told
  <2> QED BY <1>3, <2>1, <2>2, <2>3, <2>4, <2>5, <2>6, <2>7 DEF Quiet
<1>4. CASE UNCHANGED vars
  BY <1>4 DEF vars, mainVars, srvVars, Told
<1> QED BY <1>1, <1>2, <1>3, <1>4, Steps

LEMMA RestsStep ==
  ASSUME Typed, MainAt, Servers0, Told, HttpBeforeModules, Next
  PROVE  HttpBeforeModules'
<1> USE DEF HttpBeforeModules
<1>1. CASE ran' = <<>>
  BY <1>1
<1>2. CASE OptionAborts
  BY <1>2 DEF OptionAborts, srvVars, MainAt, Servers0
<1>3. CASE CloseModule
  <2>1. ASSUME NEW s \in Servers, KindOf[s] = "http"
        PROVE  srv[s] # "listening" /\ (busy[s] => expired)
    <3>1. CASE srv[s] = "none"
      BY <3>1 DEF Servers0
    <3>2. CASE srv[s] # "none"
      <4>1. PICK i \in DOMAIN servers : servers[i] = s
        BY <3>2 DEF Servers0, InSeq
      <4> QED BY <4>1, <2>1, <1>3 DEF Told, CloseModule, Servers0
    <3> QED BY <3>1, <3>2
  <2> QED BY <1>3, <2>1 DEF CloseModule, srvVars
<1>4. CASE Quiet /\ ran' # <<>>
  <2>1. ran # <<>> /\ pc \in {"modules"} \cup Ends
    BY <1>4, Kept DEF MainAt, Regs, Ends, Running
  <2>2. CASE Exit \/ Signal
    BY <2>1, <2>2 DEF Exit, Signal, srvVars
  <2>3. CASE \E s \in Servers : ServerStep(s) \/ BeeEnds(s) \/ Accept(s) \/ Finish(s)
    <3>1. pc = "modules" /\ expired' = expired
      BY <2>1, <2>3 DEF ServerStep, Listen, ListenFails, BeeEnds, Accept, Finish, Alive
    <3>2. ASSUME NEW s \in Servers, KindOf[s] = "http"
          PROVE  srv'[s] # "listening" /\ (busy'[s] => expired)
      <4>1. srv[s] # "listening" /\ (busy[s] => expired)
        BY <2>1, <3>2
      <4>2. srv[s] # "none" => inShut[s]
        <5>1. ASSUME srv[s] # "none" PROVE inShut[s]
          <6>1. PICK i \in DOMAIN servers : servers[i] = s
            BY <5>1 DEF Servers0, InSeq
          <6> QED BY <6>1, <3>1, <3>2 DEF Told
        <5> QED BY <5>1
      <4> QED BY <4>1, <4>2, <2>3 DEF ServerStep, Listen, ListenFails, BeeEnds, Accept, Finish, Typed
    <3> QED BY <3>1, <3>2
  <2> QED BY <1>4, <2>1, <2>2, <2>3 DEF Quiet, StartInit, UnknownEngine, OptionExits, Boot, Notify, ShutdownNext,
                Drained, DrainExpires, ServeStop, Ends
<1>5. CASE UNCHANGED vars
  BY <1>5 DEF vars, mainVars, srvVars
<1>6. ASSUME (\E m \in Modules, k \in Keys : Register(m, k)) \/ InitDone
             \/ \E b \in BOOLEAN : \E more \in Seq(Servers) : RunOption(b, more)
      PROVE  ran' = <<>>
  BY <1>6 DEF Register, InitDone, RunOption, MainAt
<1> QED BY <1>1, <1>2, <1>3, <1>4, <1>5, <1>6, Steps

-----------------------------------------------------------------------------

LEMMA StepInductive == IInv /\ [Next]_vars => IInv'
<1> SUFFICES ASSUME IInv, [Next]_vars PROVE IInv'
  OBVIOUS
<1>1. CASE Next
  BY <1>1, TypedStep, MainAtStep, FollowsStep, Servers0Step, ToldStep, RestsStep DEF IInv, OrderInv, Follows
<1>2. CASE UNCHANGED vars
  <2> USE <1>2 DEF vars, mainVars, srvVars
  <2>1. Typed' /\ MainAt'
    BY DEF IInv, OrderInv, Typed, MainAt
  <2>2. Follows'
    BY DEF IInv, OrderInv, Follows, Before, Distinct
  <2>3. Servers0' /\ Told' /\ HttpBeforeModules'
    BY DEF IInv, Servers0, Told, Drains, HttpBeforeModules, InSeq
  <2> QED BY <2>1, <2>2, <2>3 DEF IInv, OrderInv
<1> QED BY <1>1, <1>2

\* The state of the program is always one that IInv describes.
THEOREM ProgramInductive == Spec => []IInv
BY InitInductive, StepInductive, PTL DEF Spec

\* When the first Closed is called no http server accepts any more, and every
\* request that is left was cut off by the deadline: WaitFor comes before
\* ServeStop (zgg.go), whatever the servers, the requests and the signals do.
THEOREM HttpRestsFirst == Spec => []HttpBeforeModules
<1>1. IInv => HttpBeforeModules
  BY DEF IInv
<1> QED BY <1>1, ProgramInductive, PTL

\* The Closeds are called against the order of the options, however these were
\* registered and whichever of them returned one.
THEOREM ClosedBackwards == Spec => []LastInFirstOut
<1>1. IInv => LastInFirstOut
  <2> SUFFICES ASSUME IInv, inited, NEW i \in DOMAIN ran, NEW j \in DOMAIN ran, i < j
               PROVE  Position(options, ran[i]) > Position(options, ran[j])
    BY DEF LastInFirstOut
  <2>1. /\ DOMAIN ran = 1 .. Len(ran) /\ DOMAIN closeds = 1 .. Len(closeds)
        /\ DOMAIN options = 1 .. Len(options) /\ Len(ran) \in Nat /\ Len(closeds) \in Nat
    BY DEF IInv, OrderInv, Typed
  <2>2. Distinct(options) /\ Before(options, ran[j], ran[i])
    <3>1. Follows /\ inited
      BY DEF IInv, OrderInv
    <3>2. ran[i] = closeds[i] /\ ran[j] = closeds[j] /\ i \in DOMAIN closeds /\ j \in DOMAIN closeds
      <4>1. Len(ran) <= Len(closeds) /\ \A k \in DOMAIN ran : ran[k] = closeds[k]
        BY <3>1 DEF Follows
      <4>2. i \in 1 .. Len(closeds) /\ j \in 1 .. Len(closeds)
        BY <4>1, <2>1
      <4> QED BY <4>1, <4>2, <2>1, Zenon
    <3> QED BY <3>1, <3>2 DEF Follows
  <2>3. PICK a \in DOMAIN options, b \in DOMAIN options : a < b /\ options[a] = ran[j] /\ options[b] = ran[i]
    BY <2>2 DEF Before
  <2>4. Position(options, ran[j]) = a /\ Position(options, ran[i]) = b
    BY <2>2, <2>3 DEF Position, Distinct
  <2> QED BY <2>1, <2>3, <2>4
<1> QED BY <1>1, ProgramInductive, PTL

LEMMA ClosedsOnce == IInv => ClosedAll /\ Distinct(closeds)
<1> SUFFICES ASSUME IInv PROVE ClosedAll /\ Distinct(closeds)
  OBVIOUS
<1>1. /\ DOMAIN ran = 1 .. Len(ran) /\ DOMAIN closeds = 1 .. Len(closeds)
      /\ Len(ran) \in Nat /\ Len(closeds) \in Nat
  BY DEF IInv, OrderInv, Typed
<1>2. Follows
  BY DEF IInv, OrderInv
<1>3. /\ \A i \in DOMAIN ran : ran[i] = closeds[i] /\ i \in DOMAIN closeds
      /\ pc = "exited" => DOMAIN ran = DOMAIN closeds
  <2>1. /\ Len(ran) <= Len(closeds) /\ \A i \in DOMAIN ran : ran[i] = closeds[i]
        /\ pc = "exited" => Len(ran) = Len(closeds)
    BY <1>2 DEF Follows
  <2>2. ASSUME NEW i \in DOMAIN ran PROVE i \in DOMAIN closeds
    <3>1. i \in 1 .. Len(ran) /\ Len(ran) <= Len(closeds)
      BY <1>1, <2>1
    <3> QED BY <1>1, <3>1
  <2>3. pc = "exited" => DOMAIN ran = DOMAIN closeds
    BY <1>1, <2>1
  <2> QED BY <2>1, <2>2, <2>3, Zenon
<1>4. ASSUME NEW i \in DOMAIN closeds, NEW j \in DOMAIN closeds, i < j
      PROVE  closeds[i] # closeds[j]
  <2>1. Before(options, closeds[i], closeds[j]) \/ Before(options, closeds[j], closeds[i])
    BY <1>2, <1>4 DEF Follows
  <2>2. DOMAIN options = 1 .. Len(options) /\ Len(options) \in Nat /\ Distinct(options)
    BY <1>2 DEF IInv, OrderInv, Typed, Follows
  <2> QED BY <2>1, <2>2 DEF Before, Distinct
<1>5. ASSUME NEW i \in DOMAIN ran, NEW j \in DOMAIN ran, i # j PROVE ran[i] # ran[j]
  <2>1. i < j \/ j < i
    BY <1>1, <1>5
  <2> QED BY <1>3, <1>4, <2>1
<1>6. ASSUME NEW i \in DOMAIN closeds, NEW j \in DOMAIN closeds, i # j PROVE closeds[i] # closeds[j]
  <2>1. i < j \/ j < i
    BY <1>1, <1>6
  <2> QED BY <1>4, <2>1
<1> QED BY <1>3, <1>5, <1>6 DEF ClosedAll, Distinct

\* A sequence without repetition is not longer than the set of its elements.
LEMMA NotLonger ==
  ASSUME NEW S, IsFiniteSet(S), NEW s \in Seq(S), Distinct(s)
  PROVE  IsSeqOf(s, S)
<1>1. DOMAIN s = 1 .. Len(s) /\ Len(s) \in Nat /\ s \in [1 .. Len(s) -> S]
  OBVIOUS
<1>2. s \in Injection(1 .. Len(s), S)
  <2>1. \A a, b \in 1 .. Len(s) : s[a] = s[b] => a = b
    BY <1>1 DEF Distinct
  <2> QED BY <1>1, <2>1, Zenon DEF Injection, IsInjective
<1>3. Cardinality(1 .. Len(s)) = Len(s)
  BY <1>1, FS_Interval
<1>4. Len(s) <= Cardinality(S)
  BY <1>2, <1>3, FS_Injection
<1> QED BY <1>1, <1>4 DEF IsSeqOf

\* What the types need beside IInv: each server is added once, and after an abort
\* nothing goes on.
Bounds ==
  /\ key \in [Modules -> Keys \cup {0}] /\ signalled \in BOOLEAN
  /\ Distinct(servers)
  /\ at <= Cardinality(Modules) + Cardinality(Servers)
  /\ abort /\ ~inited => pc \in Ends /\ \A s \in Servers : srv[s] = "none"

LEMMA Sizes ==
  ASSUME IInv, Distinct(servers)
  PROVE  /\ IsSeqOf(options, Modules) /\ IsSeqOf(closeds, Modules)
         /\ IsSeqOf(ran, Modules) /\ IsSeqOf(servers, Servers)
         /\ Cardinality(Modules) \in Nat /\ Cardinality(Servers) \in Nat
<1>1. Distinct(options) /\ Distinct(closeds) /\ Distinct(ran)
  BY ClosedsOnce DEF IInv, OrderInv, Follows, ClosedAll, Distinct
<1> QED BY <1>1, NotLonger, FS_CardinalityType, ZggAssumption DEF IInv, OrderInv, Typed

LEMMA BoundsStep == IInv /\ IInv' /\ Bounds /\ [Next]_vars => Bounds'
<1> SUFFICES ASSUME IInv, IInv', Bounds, [Next]_vars PROVE Bounds'
  OBVIOUS
<1>1. key' \in [Modules -> Keys \cup {0}] /\ signalled' \in BOOLEAN
  <2>1. (key' = key /\ signalled' \in {signalled, TRUE}) \/ \E m \in Modules, k \in Keys : Register(m, k)
    BY DEF Next, MainStep, StartInit, UnknownEngine, OptionExits, RunOption, InitDone, OptionAborts, Boot, Notify,
           ShutdownNext, Drained, DrainExpires, ServeStop, CloseModule, Exit, Signal, ServerStep, Listen, ListenFails,
           BeeEnds, Accept, Finish, Over, mainVars, vars
  <2> QED BY <2>1 DEF Bounds, Register
<1>2. Distinct(servers')
  <2>1. CASE \E b \in BOOLEAN, s \in Servers : ~InSeq(servers, s) /\ RunOption(b, <<s>>)
    <3>1. PICK s \in Servers : ~InSeq(servers, s) /\ servers' = servers \o <<s>>
      BY <2>1 DEF RunOption
    <3>2. servers \in Seq(Servers) /\ <<s>> \in Seq(Servers) /\ Len(<<s>>) = 1 /\ <<s>>[1] = s
      BY DEF IInv, OrderInv, Typed
    <3>3. /\ Len(servers') = Len(servers) + 1 /\ DOMAIN servers' = 1 .. Len(servers) + 1
          /\ \A i \in 1 .. Len(servers) + 1 :
               servers'[i] = IF i <= Len(servers) THEN servers[i] ELSE <<s>>[i - Len(servers)]
      BY <3>1, <3>2, ConcatProperties
    <3>4. Len(servers) \in Nat /\ DOMAIN servers = 1 .. Len(servers)
      BY <3>2
    <3>5. ASSUME NEW i \in 1 .. Len(servers) PROVE servers'[i] = servers[i] /\ servers[i] # s
      BY <3>1, <3>3, <3>4 DEF InSeq
    <3>6. servers'[Len(servers) + 1] = s
      BY <3>2, <3>3, <3>4
    <3> QED BY <3>3, <3>4, <3>5, <3>6 DEF Bounds, Distinct
  <2>2. CASE servers' = servers
    BY <2>2 DEF Bounds, Distinct
  <2>3. ASSUME NEW b \in BOOLEAN, RunOption(b, <<>>) PROVE servers' = servers
    BY <2>3, ConcatEmptySeq DEF RunOption, IInv, OrderInv, Typed
  <2>4. ASSUME Quiet \/ InitDone \/ OptionAborts \/ CloseModule \/ \E m \in Modules, k \in Keys : Register(m, k)
        PROVE servers' = servers
    BY <2>4, Kept DEF InitDone, OptionAborts, CloseModule, Register
  <2> QED BY <2>1, <2>2, <2>3, <2>4 DEF Next, MainStep, Quiet, Over, vars, mainVars
<1>3. at' <= Cardinality(Modules) + Cardinality(Servers)
  <2>1. /\ Len(options) <= Cardinality(Modules) /\ Len(closeds) <= Cardinality(Modules)
        /\ Len(servers) <= Cardinality(Servers)
        /\ Cardinality(Modules) \in Nat /\ Cardinality(Servers) \in Nat
        /\ Len(options) \in Nat /\ Len(closeds) \in Nat /\ Len(servers) \in Nat /\ at \in Nat
    BY Sizes DEF Bounds, IsSeqOf, IInv, OrderInv, Typed
  <2>2. \/ at' \in {at, 0}
        \/ at' = at + 1 /\ (at < Len(options) \/ at < Len(closeds) \/ at < Len(servers))
    BY DEF Next, MainStep, StartInit, UnknownEngine, OptionExits, RunOption, InitDone, OptionAborts, Boot, Notify,
           ShutdownNext, Drained, DrainExpires, ServeStop, CloseModule, MoreToClose, Exit, Signal, ServerStep, Listen,
           ListenFails, BeeEnds, Accept, Finish, Over, vars, Register
  <2> QED BY <2>1, <2>2 DEF Bounds
<1>4. abort' /\ ~inited' => pc' \in Ends /\ \A s \in Servers : srv'[s] = "none"
  <2>1. CASE OptionAborts
    BY <2>1 DEF OptionAborts, AbortedInit, Ends, srvVars, IInv, OrderInv, MainAt
  <2>2. CASE ServeStop
    BY <2>2 DEF ServeStop, IInv, OrderInv, MainAt, Running
  <2>3. CASE abort /\ ~inited
    <3>1. pc \in Ends /\ ~Alive
      BY <2>3 DEF Bounds, Alive
    <3>2. UNCHANGED vars
      BY <3>1 DEF Next, MainStep, StartInit, UnknownEngine, OptionExits, RunOption, InitDone, OptionAborts, Boot, Notify,
                  ShutdownNext, Drained, DrainExpires, ServeStop, CloseModule, Exit, Signal, ServerStep, Listen,
                  ListenFails, BeeEnds, Accept, Finish, Over, Register, Ends
    <3> QED BY <3>2 DEF Bounds, vars, mainVars, srvVars
  <2>4. OptionAborts \/ ServeStop \/ (abort' = abort /\ inited' = inited) \/ inited'
    BY DEF Next, MainStep, StartInit, UnknownEngine, OptionExits, RunOption, InitDone, Boot, Notify,
           ShutdownNext, Drained, DrainExpires, CloseModule, Exit, Signal, ServerStep, Listen,
           ListenFails, BeeEnds, Accept, Finish, Over, Register, mainVars, vars
  <2> QED BY <2>1, <2>2, <2>3, <2>4
<1> QED BY <1>1, <1>2, <1>3, <1>4 DEF Bounds

\* However ServeInit ends, no Closed is called twice and all were when the program
\* exits by itself, also when an option aborted the start; after an abort no server
\* runs (ServeInit and ServeStop of zgg.go).
THEOREM EveryModuleClosed == Spec => []ClosedOnce
<1>1. Init => Bounds
  <2> SUFFICES ASSUME Init PROVE Bounds
    OBVIOUS
  <2>1. Cardinality(Modules) \in Nat /\ Cardinality(Servers) \in Nat
    BY FS_CardinalityType, ZggAssumption
  <2>2. Distinct(servers) /\ at = 0
    BY DEF Init, Distinct
  <2>3. key \in [Modules -> Keys \cup {0}] /\ signalled \in BOOLEAN /\ ~abort
    BY DEF Init
  <2> QED BY <2>1, <2>2, <2>3 DEF Bounds
<1>2. IInv /\ Bounds => ClosedOnce
  <2> SUFFICES ASSUME IInv, Bounds PROVE ClosedOnce
    OBVIOUS
  <2>1. ClosedAll /\ AbortBootsNothing
    BY ClosedsOnce DEF Bounds, AbortBootsNothing
  <2>2. TypeOK
    <3>1. at \in 0 .. Cardinality(Modules) + Cardinality(Servers)
      BY Sizes DEF Bounds, IInv, OrderInv, Typed
    <3>2. {abort, inited, expired, signalled} \subseteq BOOLEAN
      BY DEF Bounds, IInv, OrderInv, Typed
    <3>3. pc \in Regs \cup Ends
      BY DEF IInv, OrderInv, MainAt
    <3> QED BY <3>1, <3>2, <3>3, Sizes DEF TypeOK, Bounds, IInv, OrderInv, Typed
  <2> QED BY <2>1, <2>2 DEF ClosedOnce
<1> QED BY <1>1, <1>2, InitInductive, StepInductive, BoundsStep, PTL DEF Spec

-----------------------------------------------------------------------------
(* The front end server.  A root is the longest that fits since the first    *)
(* of them is found and they are sorted; so are the routes, and those a      *)
(* request has passed do not answer it.                                      *)

\* The prefix of a sequence, character by character.
LEMMA PrefixIs ==
  ASSUME NEW s \in F!Texts, NEW t \in F!Texts
  PROVE  F!IsPrefix(s, t) <=> Len(s) <= Len(t) /\ \A i \in 1 .. Len(s) : s[i] = t[i]
<1>1. /\ s \in Seq(F!Letters) /\ t \in Seq(F!Letters) /\ Len(s) \in Nat /\ Len(t) \in Nat
  BY DEF F!Texts
<1>2. ASSUME Len(s) <= Len(t)
      PROVE  /\ SubSeq(t, 1, Len(s)) \in Seq(F!Letters) /\ Len(SubSeq(t, 1, Len(s))) = Len(s)
             /\ \A i \in 1 .. Len(s) : SubSeq(t, 1, Len(s))[i] = t[i]
  BY <1>1, <1>2
<1>3. SubSeq(s, 1, Len(s)) = s
  BY <1>1
<1>4. ASSUME Len(s) <= Len(t), \A i \in 1 .. Len(s) : s[i] = t[i] PROVE s = SubSeq(t, 1, Len(s))
  BY <1>1, <1>2, <1>4, SeqEqual
<1> QED BY <1>1, <1>2, <1>3, <1>4 DEF F!IsPrefix

LEMMA EndsWithIs ==
  ASSUME NEW p \in F!Texts, NEW c \in F!Letters
  PROVE  F!EndsWith(p, c) <=> p # <<>> /\ p[Len(p)] = c
<1>1. p \in Seq(F!Letters) /\ Len(p) \in Nat
  BY DEF F!Texts
<1>2. PICK s : s = F!Reverse(<<c>>)
  OBVIOUS
<1>3. s \in F!Texts /\ Len(s) = 1 /\ s[1] = c
  BY <1>2 DEF F!Reverse, F!Texts
<1>4. PICK t : t = F!Reverse(p)
  OBVIOUS
<1>5. t \in F!Texts /\ Len(t) = Len(p) /\ (Len(p) > 0 => t[1] = p[Len(p)])
  BY <1>1, <1>4 DEF F!Reverse, F!Texts
<1>6. F!IsPrefix(s, t) <=> Len(s) <= Len(t) /\ \A i \in 1 .. Len(s) : s[i] = t[i]
  BY <1>3, <1>5, PrefixIs
<1>7. F!IsPrefix(s, t) <=> Len(p) > 0 /\ p[Len(p)] = c
  BY <1>1, <1>3, <1>5, <1>6
<1>8. p # <<>> <=> Len(p) > 0
  BY <1>1
<1> QED BY <1>2, <1>4, <1>7, <1>8 DEF F!EndsWith, F!IsSuffix

\* A path with a slash behind it.
LEMMA SlashAdded ==
  ASSUME NEW p \in F!Texts
  PROVE  /\ p \o F!Slash \in F!Texts /\ Len(p \o F!Slash) = Len(p) + 1
         /\ \A i \in 1 .. Len(p) : (p \o F!Slash)[i] = p[i]
         /\ (p \o F!Slash)[Len(p) + 1] = "/"
<1>1. p \in Seq(F!Letters) /\ Len(p) \in Nat
  BY DEF F!Texts
<1>2. PICK s : s = F!Slash
  OBVIOUS
<1>3. s \in Seq(F!Letters) /\ Len(s) = 1 /\ s[1] = "/"
  BY <1>2 DEF F!Slash, F!Letters
<1>4. p \o s \in Seq(F!Letters) /\ Len(p \o s) = Len(p) + 1
  BY ONLY <1>1, <1>3, ConcatProperties
<1>5. \A i \in 1 .. Len(p) + 1 : (p \o s)[i] = IF i <= Len(p) THEN p[i] ELSE s[i - Len(p)]
  BY ONLY <1>1, <1>3, ConcatProperties
<1>6. (p \o s)[Len(p) + 1] = s[1]
  <2>1. Len(p) + 1 \in 1 .. Len(p) + 1 /\ ~(Len(p) + 1 <= Len(p)) /\ Len(p) + 1 - Len(p) = 1
    BY <1>1
  <2>2. PICK k : k = Len(p) + 1
    OBVIOUS
  <2>3. (p \o s)[k] = s[k - Len(p)]
    BY ONLY <1>5, <2>1, <2>2
  <2> QED BY <2>1, <2>2, <2>3
<1> QED BY <1>1, <1>2, <1>3, <1>4, <1>5, <1>6 DEF F!Texts

\* A root a path is under is a prefix of it, that ends where a segment does.
LEMMA UnderIs ==
  ASSUME NEW p \in F!Texts, NEW r \in F!Texts
  PROVE  /\ F!HasPathPrefix(p, r) <=> r = <<>> \/ F!Under(p, r)
         /\ F!Under(p, r) => /\ Len(r) > 0 /\ Len(r) <= Len(p) /\ \A i \in 1 .. Len(r) : r[i] = p[i]
                             /\ p # r => r[Len(r)] = "/" \/ (Len(p) > Len(r) /\ p[Len(r) + 1] = "/")
<1>1. p \in Seq(F!Letters) /\ Len(p) \in Nat /\ r \in Seq(F!Letters) /\ Len(r) \in Nat /\ (r = <<>> <=> Len(r) = 0)
  BY DEF F!Texts
<1>2. PICK t : t = r \o F!Slash
  OBVIOUS
<1>3. /\ t \in F!Texts /\ Len(t) = Len(r) + 1 /\ t[Len(r) + 1] = "/" /\ \A i \in 1 .. Len(r) : t[i] = r[i]
  BY <1>2, SlashAdded
<1>4. F!IsPrefix(t, p) <=> Len(r) + 1 <= Len(p) /\ \A i \in 1 .. Len(r) + 1 : t[i] = p[i]
  BY <1>3, PrefixIs
<1>5. F!IsPrefix(r, p) <=> Len(r) <= Len(p) /\ \A i \in 1 .. Len(r) : r[i] = p[i]
  BY PrefixIs
<1>6. F!IsPrefix(t, p) => F!IsPrefix(r, p) /\ Len(p) > Len(r) /\ p[Len(r) + 1] = "/"
  <2>1. \A i \in 1 .. Len(r) : i \in 1 .. Len(r) + 1
    BY <1>1
  <2>2. Len(r) + 1 \in 1 .. Len(r) + 1
    BY <1>1
  <2>3. ASSUME F!IsPrefix(t, p) PROVE Len(r) + 1 <= Len(p) /\ p[Len(r) + 1] = "/" /\ \A i \in 1 .. Len(r) : r[i] = p[i]
    BY ONLY <1>3, <1>4, <2>1, <2>2, <2>3
  <2> QED BY <1>1, <1>5, <2>3
<1>7. F!EndsWith(r, "/") <=> r # <<>> /\ r[Len(r)] = "/"
  <2>1. "/" \in F!Letters
    BY DEF F!Letters
  <2> QED BY <2>1, EndsWithIs
<1>8. p = r => F!IsPrefix(r, p)
  BY <1>1, <1>5
<1>9. r = <<>> => F!IsPrefix(r, p)
  BY <1>1, <1>5
<1>10. F!HasPathPrefix(p, r) <=> F!IsPrefix(r, p) /\ (r = <<>> \/ p = r \/ F!EndsWith(r, "/") \/ F!IsPrefix(t, p))
  BY <1>2 DEF F!HasPathPrefix
<1>11. F!Under(p, r) <=> r # <<>> /\ (IF F!EndsWith(r, "/") THEN F!IsPrefix(r, p) ELSE p = r \/ F!IsPrefix(t, p))
  BY <1>2 DEF F!Under
<1>12. F!HasPathPrefix(p, r) <=> r = <<>> \/ F!Under(p, r)
  BY ONLY <1>6, <1>8, <1>9, <1>10, <1>11
<1>13. F!Under(p, r) => /\ r # <<>> /\ F!IsPrefix(r, p)
                        /\ p # r => r[Len(r)] = "/" \/ (Len(p) > Len(r) /\ p[Len(r) + 1] = "/")
  BY ONLY <1>6, <1>7, <1>8, <1>11
<1> QED BY <1>1, <1>5, <1>12, <1>13

LEMMA SlashIs == F!Slash \in F!Texts /\ Len(F!Slash) = 1 /\ F!Slash # <<>> /\ F!Slash[1] = "/" /\ "/" \in F!Letters /\ <<>> \in F!Texts
<1>1. PICK s : s = F!Slash
  OBVIOUS
<1>2. s \in Seq(F!Letters) /\ Len(s) = 1 /\ s[1] = "/"
  BY <1>1 DEF F!Slash, F!Letters
<1>3. "/" \in F!Letters /\ <<>> \in Seq(F!Letters)
  BY DEF F!Letters
<1>4. s # <<>>
  BY <1>2
<1> QED BY <1>1, <1>2, <1>3, <1>4 DEF F!Texts

\* A path with a slash before it.
LEMMA SlashBefore ==
  ASSUME NEW p \in F!Texts, NEW q, q = F!Slash \o p
  PROVE  /\ q \in F!Texts /\ q # <<>> /\ q[1] = "/" /\ Len(p) \in Nat /\ Len(q) = Len(p) + 1
         /\ \A i \in 1 .. Len(p) : q[i + 1] = p[i]
<1>1. p \in Seq(F!Letters) /\ Len(p) \in Nat
  BY DEF F!Texts
<1>2. PICK s : s = F!Slash
  OBVIOUS
<1>3. s \in Seq(F!Letters) /\ Len(s) = 1 /\ s[1] = "/"
  BY <1>2, SlashIs DEF F!Texts
<1>4. PICK L : L = F!Letters
  OBVIOUS
<1>5. s \in Seq(L) /\ p \in Seq(L)
  BY <1>1, <1>3, <1>4
<1>6. s \o p \in Seq(L) /\ Len(s \o p) = Len(s) + Len(p)
  BY ONLY <1>5, ConcatProperties
<1>7. \A i \in 1 .. Len(s) + Len(p) : (s \o p)[i] = IF i <= Len(s) THEN s[i] ELSE p[i - Len(s)]
  BY ONLY <1>5, ConcatProperties
<1>8. q = s \o p
  BY <1>2
<1>9. q \in Seq(F!Letters) /\ Len(q) = 1 + Len(p)
  BY ONLY <1>1, <1>3, <1>4, <1>6, <1>8
<1>10. \A i \in 1 .. 1 + Len(p) : q[i] = IF i <= 1 THEN s[i] ELSE p[i - 1]
  BY ONLY <1>1, <1>3, <1>7, <1>8
<1>11. q[1] = "/"
  BY ONLY <1>1, <1>3, <1>10
<1>12. ASSUME NEW i \in 1 .. Len(p) PROVE q[i + 1] = p[i]
  <2>1. PICK k : k = i + 1
    OBVIOUS
  <2>2. k \in 1 .. 1 + Len(p) /\ ~(k <= 1) /\ k - 1 = i
    BY <1>1, <2>1
  <2>3. q[k] = p[k - 1]
    BY ONLY <1>10, <2>2
  <2> QED BY <2>1, <2>2, <2>3
<1> QED BY <1>1, <1>9, <1>11, <1>12 DEF F!Texts

\* What is sorted by length.
Descending(s, length) == \A i, j \in 1 .. Len(s) : i < j => length[s[i]] >= length[s[j]]

LEMMA SortedIs ==
  ASSUME NEW S, IsFiniteSet(S), NEW length, NEW s \in F!Sorted(S, length)
  PROVE  s \in Seq(S) /\ F!Range(s) = S /\ Descending(s, length)
<1>1. F!Cardinality(S) = Cardinality(S)
  BY DEF F!Cardinality, Cardinality
<1>2. Cardinality(S) \in Nat
  BY FS_CardinalityType
<1>3. PICK n \in Nat : n = F!Cardinality(S)
  BY <1>1, <1>2
<1>4. s \in [1 .. n -> S] /\ F!Range(s) = S /\ \A i, j \in DOMAIN s : i < j => F!Before(length[s[i]], length[s[j]])
  BY <1>3 DEF F!Sorted, F!Orders
<1>5. s \in Seq(S) /\ Len(s) = n /\ DOMAIN s = 1 .. n
  BY <1>3, <1>4
<1> QED BY <1>4, <1>5 DEF Descending, F!Before

\* The longest of the roots a path is under, or none.
Roots(p) == {r \in F!Range(conf.roots) : F!HasPathPrefix(p, r)}
Longest(p) == IF Roots(p) = {} THEN <<>> ELSE CHOOSE r \in Roots(p) : \A s \in Roots(p) : Len(s) <= Len(r)

Sorted0 == conf.roots \in Seq(F!Texts) /\ \A i, j \in 1 .. Len(conf.roots) : i < j => Len(conf.roots[i]) >= Len(conf.roots[j])

LEMMA FirstIs ==
  ASSUME Sorted0, NEW S
  PROVE  \/ F!FirstRoot(S) = <<>> /\ \A r \in F!Range(conf.roots) : r \notin S
         \/ /\ F!FirstRoot(S) \in F!Range(conf.roots) \cap S
            /\ \A r \in F!Range(conf.roots) \cap S : Len(r) <= Len(F!FirstRoot(S))
<1>1. PICK s : s = conf.roots
  OBVIOUS
<1>2. PICK n \in Nat : n = Len(s) /\ s \in Seq(F!Texts) /\ DOMAIN s = 1 .. n
  BY <1>1 DEF Sorted0
<1>3. \A i, j \in 1 .. n : i < j => Len(s[i]) >= Len(s[j])
  BY <1>1, <1>2 DEF Sorted0
<1>4. PICK places : places = {i \in 1 .. n : s[i] \in S}
  OBVIOUS
<1>5. F!Range(s) = {s[i] : i \in 1 .. n}
  BY <1>2 DEF F!Range
<1>6. F!FirstRoot(S) = IF places = {} THEN <<>> ELSE s[F!Min(places)]
  BY <1>1, <1>2, <1>4 DEF F!FirstRoot
<1>7. CASE places = {}
  BY <1>1, <1>4, <1>5, <1>6, <1>7
<1>8. CASE places # {}
  <2>1. places \subseteq Nat
    BY <1>4
  <2>2. PICK m \in places : \A j \in places : m <= j
    BY <1>8, <2>1, Least
  <2>3. F!Min(places) \in places /\ \A j \in places : F!Min(places) <= j
    BY <2>2 DEF F!Min
  <2>4. PICK k \in places : k = F!Min(places) /\ \A j \in places : k <= j
    BY <2>3
  <2>5. F!FirstRoot(S) = s[k] /\ k \in 1 .. n /\ s[k] \in S
    BY <1>4, <1>6, <1>8, <2>4
  <2>6. ASSUME NEW r \in F!Range(s) \cap S PROVE Len(r) <= Len(s[k])
    <3>1. PICK i \in 1 .. n : r = s[i]
      BY <1>5
    <3>2. k <= i
      BY <1>4, <2>4, <3>1
    <3>3. Len(s[i]) \in Nat /\ Len(s[k]) \in Nat
      BY <1>2, <2>5 DEF F!Texts
    <3> QED BY <1>3, <2>5, <3>1, <3>2, <3>3
  <2> QED BY <1>1, <1>5, <2>5, <2>6
<1> QED BY <1>7, <1>8

\* The root that is taken off is the longest.
LEMMA RootIs ==
  ASSUME Sorted0, NEW p \in F!Texts, NEW root, root = F!FixReqUrlPath(p).root
  PROVE  /\ root = Longest(p)
         /\ root = <<>> \/ (root \in F!Texts /\ F!Under(p, root))
<1>1. PICK S : S = {r \in F!Range(conf.roots) : F!Under(p, r)}
  OBVIOUS
<1>2. root = F!FirstRoot(S)
  BY <1>1 DEF F!FixReqUrlPath
<1>3. F!Range(conf.roots) \subseteq F!Texts
  BY DEF Sorted0, F!Range
<1>4. \A r \in F!Range(conf.roots) : r \in Roots(p) <=> r = <<>> \/ r \in S
  BY <1>1, <1>3, UnderIs DEF Roots
<1>5. \A r \in Roots(p) : r \in F!Range(conf.roots) /\ r \in F!Texts
  BY <1>3 DEF Roots
<1>6. \A r \in S : r \in F!Texts /\ r \in F!Range(conf.roots) /\ F!Under(p, r)
  BY <1>1, <1>3
<1>7. CASE root = <<>> /\ \A r \in F!Range(conf.roots) : r \notin S
  <2>1. \A r \in Roots(p) : r = <<>>
    BY <1>4, <1>5, <1>7
  <2>2. Longest(p) = <<>>
    <3>1. ASSUME Roots(p) # {} PROVE Roots(p) = {<<>>}
      BY <2>1, <3>1
    <3>2. ASSUME Roots(p) = {<<>>} PROVE (CHOOSE r \in Roots(p) : \A s \in Roots(p) : Len(s) <= Len(r)) = <<>>
      BY <3>2
    <3> QED BY <3>1, <3>2 DEF Longest
  <2> QED BY <1>7, <2>2
<1>8. CASE /\ root \in F!Range(conf.roots) \cap S
           /\ \A r \in F!Range(conf.roots) \cap S : Len(r) <= Len(root)
  <2>1. root \in Roots(p) /\ root \in F!Texts /\ F!Under(p, root)
    BY <1>4, <1>6, <1>8
  <2>2. \A s \in Roots(p) : Len(s) <= Len(root)
    <3>1. SUFFICES ASSUME NEW s \in Roots(p) PROVE Len(s) <= Len(root)
      OBVIOUS
    <3>2. Len(root) \in Nat
      BY <2>1 DEF F!Texts
    <3>3. s = <<>> => Len(s) = 0
      OBVIOUS
    <3> QED BY <1>4, <1>5, <1>8, <3>2, <3>3
  <2>3. PICK c : c = CHOOSE r \in Roots(p) : \A s \in Roots(p) : Len(s) <= Len(r)
    OBVIOUS
  <2>4. c \in Roots(p) /\ \A s \in Roots(p) : Len(s) <= Len(c)
    BY <2>1, <2>2, <2>3
  <2>5. c \in F!Texts /\ Len(c) \in Nat /\ Len(root) \in Nat /\ Len(c) = Len(root)
    <3>1. c \in F!Texts
      BY <1>5, <2>4
    <3>2. Len(c) \in Nat /\ Len(root) \in Nat
      BY <2>1, <3>1 DEF F!Texts
    <3> QED BY <2>1, <2>2, <2>4, <3>1, <3>2
  <2>6. Len(root) > 0 /\ \A i \in 1 .. Len(root) : root[i] = p[i]
    BY <2>1, UnderIs
  <2>7. F!Under(p, c)
    <3>1. c # <<>>
      BY <2>5, <2>6
    <3> QED BY <1>4, <1>5, <1>6, <2>4, <3>1
  <2>8. \A i \in 1 .. Len(c) : c[i] = p[i]
    BY <2>5, <2>7, UnderIs
  <2>9. c = root
    BY <2>1, <2>5, <2>6, <2>8, SeqEqual DEF F!Texts
  <2> QED BY <2>1, <2>3, <2>9 DEF Longest
<1> QED BY <1>2, <1>7, <1>8, FirstIs

Slashed(p) == p \in F!Texts /\ (p = <<>> \/ p[1] = "/")

\* What is left of a path without its root begins with a slash, or is nothing.
LEMMA LeftIs ==
  ASSUME Sorted0, NEW p, Slashed(p), p # <<>>
  PROVE  Slashed(F!FixReqUrlPath(p).path)
<1>1. PICK root : root = F!FixReqUrlPath(p).root
  OBVIOUS
<1>2. root = <<>> \/ (root \in F!Texts /\ F!Under(p, root))
  BY <1>1, RootIs DEF Slashed
<1>3. F!FixReqUrlPath(p).path = F!From(p, IF F!EndsWith(root, "/") THEN Len(root) - 1 ELSE Len(root))
  BY <1>1 DEF F!FixReqUrlPath
<1>4. p \in Seq(F!Letters) /\ Len(p) \in Nat /\ Len(p) > 0 /\ p[1] = "/"
  BY DEF Slashed, F!Texts
<1>5. root \in F!Texts /\ Len(root) \in Nat
  <2>1. root \in F!Texts
    BY <1>2, SlashIs
  <2> QED BY <2>1 DEF F!Texts
<1>6. "/" \in F!Letters
  BY DEF F!Letters
<1>7. F!EndsWith(root, "/") <=> root # <<>> /\ root[Len(root)] = "/"
  BY <1>5, <1>6, EndsWithIs
<1>8. ASSUME NEW n \in Nat, n < Len(p), p[n + 1] = "/" PROVE Slashed(F!From(p, n))
  <2>1. PICK q : q = SubSeq(p, n + 1, Len(p))
    OBVIOUS
  <2>2. q \in Seq(F!Letters) /\ Len(q) = Len(p) - n /\ \A i \in 1 .. Len(p) - n : q[i] = p[n + i]
    BY <1>4, <1>8, <2>1
  <2>3. q[1] = "/"
    BY <1>4, <1>8, <2>2
  <2> QED BY <2>1, <2>2, <2>3 DEF Slashed, F!From, F!Texts
<1>9. Slashed(F!From(p, Len(p)))
  <2>1. SubSeq(p, Len(p) + 1, Len(p)) = <<>>
    BY <1>4
  <2> QED BY <2>1 DEF Slashed, F!From, F!Texts
<1>10. CASE root = <<>>
  <2>1. Len(root) = 0 /\ ~F!EndsWith(root, "/")
    BY <1>7, <1>10
  <2> QED BY <1>3, <1>4, <1>8, <2>1
<1>11. CASE root # <<>>
  <2>1. /\ Len(root) > 0 /\ Len(root) <= Len(p) /\ \A i \in 1 .. Len(root) : root[i] = p[i]
        /\ p # root => root[Len(root)] = "/" \/ (Len(p) > Len(root) /\ p[Len(root) + 1] = "/")
    BY <1>2, <1>4, <1>5, <1>11, UnderIs DEF Slashed
  <2>2. CASE F!EndsWith(root, "/")
    <3>1. PICK n \in Nat : n = Len(root) - 1
      BY <1>5, <2>1
    <3>2. n < Len(p) /\ n + 1 = Len(root) /\ Len(root) \in 1 .. Len(root)
      BY <1>4, <1>5, <2>1, <3>1
    <3>3. p[n + 1] = "/"
      BY <1>7, <2>1, <2>2, <3>2
    <3> QED BY <1>3, <1>8, <2>2, <3>1, <3>2, <3>3
  <2>3. CASE ~F!EndsWith(root, "/")
    <3>1. p = root \/ (Len(p) > Len(root) /\ p[Len(root) + 1] = "/")
      BY <1>7, <1>11, <2>1, <2>3
    <3> QED BY <1>3, <1>5, <1>8, <1>9, <2>3, <3>1
  <2> QED BY <2>2, <2>3
<1> QED BY <1>10, <1>11

\* What is open under a path that begins with a slash.
LEMMA OpensIs ==
  ASSUME IsTree(files), NEW p, Slashed(p)
  PROVE  /\ F!Rooted(p) \in files => F!Opens(p) /\ ~F!IsDir(p) /\ p = F!Rooted(p)
         /\ F!Rooted(p) \notin files => F!Missing(p)
<1>1. p # <<>> => F!Rooted(p) = p
  BY DEF F!Rooted, Slashed
<1>2. p = <<>> => F!Rooted(p) = F!Slash
  <2>1. <<"/">> \o <<>> = <<"/">>
    OBVIOUS
  <2> QED BY <2>1 DEF F!Rooted, F!Slash
<1>3. F!Slash \notin files
  BY DEF IsTree
<1>4. ASSUME F!Rooted(p) \in files PROVE F!Opens(p) /\ ~F!IsDir(p) /\ p = F!Rooted(p)
  <2>1. p # <<>> /\ F!Rooted(p) = p /\ p \in files
    BY <1>1, <1>2, <1>3, <1>4
  <2>2. F!ValidPath(p) /\ p # F!Slash /\ \A f \in files : ~F!IsPrefix(p \o F!Slash, f)
    BY <2>1 DEF IsTree
  <2> QED BY <2>1, <2>2 DEF F!Opens, F!IsDir
<1>5. ASSUME F!Rooted(p) \notin files PROVE F!Missing(p)
  BY <1>5 DEF F!Missing, F!Opens
<1> QED BY <1>4, <1>5

LEMMA Agree ==
  ASSUME IsTree(conf.known), files = conf.known, NEW p, Slashed(p), NEW root,
         NEW i, i = F!IndexOf(root), i \in F!Texts, conf.index \in F!Texts,
         i # <<>> => ~F!IsDir(i), conf.index # <<>> => ~F!IsDir(conf.index)
  PROVE  F!IndexWithTRY(F!FirstOf(p, F!Slash), root) = F!IndexWithCHG(p, root)
<1>1. PICK q : q = F!FirstOf(p, F!Slash)
  OBVIOUS
<1>2. PICK index : index = F!FirstOf(i, conf.index)
  OBVIOUS
<1>3. index \in F!Texts /\ (index # <<>> => ~F!IsDir(index))
  BY <1>2 DEF F!FirstOf
<1>4. q \in F!Texts /\ q # <<>> /\ q[1] = "/" /\ q = F!Rooted(p)
  <2>1. F!Slash \in F!Texts /\ F!Slash # <<>> /\ F!Slash[1] = "/"
    BY SlashIs
  <2>2. p = <<>> => F!Rooted(p) = F!Slash
    <3>1. <<"/">> \o <<>> = <<"/">>
      OBVIOUS
    <3> QED BY <3>1 DEF F!Rooted, F!Slash
  <2> QED BY <1>1, <2>1, <2>2 DEF F!FirstOf, Slashed, F!Rooted
<1>5. \A r \in F!Texts : r # <<>> /\ r[1] = "/" => (F!Known(r) <=> r \in files)
  <2>1. SUFFICES ASSUME NEW r \in F!Texts, r # <<>>, r[1] = "/" PROVE F!Slash \o Tail(r) = r
    BY DEF F!Known
  <2>2. r \in Seq(F!Letters) /\ Len(r) \in Nat /\ Len(r) > 0
    BY <2>1 DEF F!Texts
  <2>3. PICK t : t = Tail(r)
    OBVIOUS
  <2>4. t \in Seq(F!Letters) /\ Len(t) = Len(r) - 1 /\ \A j \in 1 .. Len(r) - 1 : t[j] = r[j + 1]
    BY <2>2, <2>3
  <2>5. PICK u : u = F!Slash \o t
    OBVIOUS
  <2>6. u \in F!Texts /\ u[1] = "/" /\ Len(u) = Len(t) + 1 /\ \A j \in 1 .. Len(t) : u[j + 1] = t[j]
    BY <2>4, <2>5, SlashBefore DEF F!Texts
  <2>7. Len(u) = Len(r)
    BY <2>2, <2>4, <2>6
  <2>8. ASSUME NEW j \in 1 .. Len(r) PROVE u[j] = r[j]
    <3>1. CASE j = 1
      BY <2>1, <2>6, <3>1
    <3>2. CASE j # 1
      <4>1. PICK k : k = j - 1
        OBVIOUS
      <4>2. k \in 1 .. Len(t) /\ k \in 1 .. Len(r) - 1 /\ k + 1 = j
        BY <2>2, <2>4, <3>2, <4>1
      <4> QED BY <2>4, <2>6, <4>2
    <3> QED BY <3>1, <3>2
  <2>9. u \in Seq(F!Letters)
    BY <2>6 DEF F!Texts
  <2>10. u = r
    BY <2>2, <2>7, <2>8, <2>9, SeqEqual
  <2> QED BY <2>3, <2>5, <2>10
<1>6. PICK at0 : at0 = F!Rooted(index)
  OBVIOUS
<1>7. at0 \in F!Texts /\ at0 # <<>> /\ at0[1] = "/" /\ F!Rooted(at0) = at0
  <2>1. CASE index = <<>> \/ index[1] # "/"
    <3>1. at0 = F!Slash \o index
      BY <1>6, <2>1 DEF F!Rooted
    <3>2. at0 \in F!Texts /\ at0 # <<>> /\ at0[1] = "/"
      BY <1>3, <3>1, SlashBefore
    <3> QED BY <3>2 DEF F!Rooted
  <2>2. CASE ~(index = <<>> \/ index[1] # "/")
    BY <1>3, <1>6, <2>2 DEF F!Rooted
  <2> QED BY <2>1, <2>2
<1>8. F!Opens(index) <=> index # <<>> /\ at0 \in files
  <2>1. ASSUME index # <<>>, at0 \in files PROVE F!ValidPath(index)
    <3>1. F!ValidPath(at0) /\ at0 # F!Slash
      BY <2>1 DEF IsTree
    <3>2. ~F!EndsWith(at0, "/") /\ \A j \in 1 .. Len(at0) - 1 : ~(at0[j] = "/" /\ at0[j + 1] = "/")
      BY <1>7, <3>1 DEF F!ValidPath
    <3>3. "/" \in F!Letters
      BY DEF F!Letters
    <3>4. at0[Len(at0)] # "/"
      BY <1>7, <3>2, <3>3, EndsWithIs
    <3>5. ~F!EndsWith(index, "/")
      <4>1. CASE index[1] # "/"
        <5>1. at0 = F!Slash \o index
          BY <1>6, <4>1 DEF F!Rooted
        <5>2. Len(index) \in Nat /\ Len(at0) = Len(index) + 1 /\ \A j \in 1 .. Len(index) : at0[j + 1] = index[j]
          BY <1>3, <5>1, SlashBefore
        <5>3. Len(index) > 0
          BY <1>3, <2>1 DEF F!Texts
        <5>4. Len(index) \in 1 .. Len(index)
          BY <5>2, <5>3
        <5>5. at0[Len(index) + 1] = index[Len(index)]
          BY <5>2, <5>4
        <5>7. index[Len(index)] # "/"
          BY <3>4, <5>2, <5>5
        <5> QED BY <1>3, <3>3, <5>7, EndsWithIs
      <4>2. CASE index[1] = "/"
        BY <1>6, <2>1, <3>2, <4>2 DEF F!Rooted
      <4> QED BY <4>1, <4>2
    <3> QED BY <1>6, <3>1, <3>2, <3>5 DEF F!ValidPath
  <2> QED BY <1>3, <1>6, <2>1 DEF F!Opens
<1>9. at0 \in files => F!Opens(at0)
  BY <1>7, OpensIs DEF Slashed
<1>10. CASE q \in files
  <2>1. F!Opens(p) /\ ~F!IsDir(p) /\ p = q
    BY <1>4, <1>10, OpensIs
  <2>2. F!IndexWithCHG(p, root) = F!Content(p, root)
    BY <2>1 DEF F!IndexWithCHG, F!Missing
  <2>3. F!Known(q)
    BY <1>4, <1>5, <1>10
  <2>4. F!IndexWithTRY(q, root) = F!Content(q, root)
    BY <2>1, <2>3 DEF F!IndexWithTRY
  <2> QED BY <1>1, <2>1, <2>2, <2>4
<1>11. CASE q \notin files
  <2>1. F!Missing(p)
    BY <1>4, <1>11, OpensIs
  <2>2. F!IndexWithCHG(p, root) = IF F!HasExt(p) \/ ~F!Opens(index) THEN F!NotFound ELSE F!Content(index, root)
    BY <1>2, <2>1 DEF F!IndexWithCHG
  <2>3. ~F!Known(q)
    BY <1>4, <1>5, <1>11
  <2>4. F!IndexWithTRY(q, root) = IF F!HasExt(q) \/ ~F!Known(at0) \/ ~F!Opens(at0) THEN F!NotFound ELSE F!Content(at0, root)
    BY <1>2, <1>6, <2>3 DEF F!IndexWithTRY, F!IsPage
  <2>5. F!HasExt(q) <=> F!HasExt(p)
    <3>1. CASE p = <<>>
      <4>1. q = <<"/">>
        BY <1>1, <3>1 DEF F!FirstOf, F!Slash
      <4>2. ~F!HasExt(q)
        BY <4>1 DEF F!HasExt
      <4>3. ~F!HasExt(p)
        BY <3>1 DEF F!HasExt
      <4> QED BY <4>2, <4>3
    <3>2. CASE p # <<>>
      BY <1>1, <3>2 DEF F!FirstOf
    <3> QED BY <3>1, <3>2
  <2>6. F!Known(at0) <=> at0 \in files
    BY <1>5, <1>7
  <2>7. CASE index = <<>>
    <3>1. at0 = F!Slash
      <4>1. <<"/">> \o <<>> = <<"/">>
        OBVIOUS
      <4> QED BY <1>6, <2>7, <4>1 DEF F!Rooted, F!Slash
    <3>2. at0 \notin files
      BY <3>1 DEF IsTree
    <3> QED BY <1>1, <1>8, <2>2, <2>4, <2>6, <2>7, <3>2
  <2>8. CASE index # <<>>
    <3>1. at0 \in files => F!Content(at0, root) = F!Content(index, root)
      BY <1>6, <1>7 DEF F!Content
    <3> QED BY <1>1, <1>8, <1>9, <2>2, <2>4, <2>5, <2>6, <2>8, <3>1
  <2> QED BY <2>7, <2>8
<1> QED BY <1>10, <1>11

\* The route does not answer a request for the path.
Passed(r, p) == ~F!HasPathPrefix(p, r.path) \/ r.mark = "@:" \/ (r.mark \in {"@>", "@^"} /\ F!Base(p))

\* What is answered is so from the longest root and the longest route.
Fits(a, u) ==
  /\ a.kind \in {"file", "base"} => a.root = Longest(IF a.kind = "base" THEN a.of ELSE u.path)
  /\ (a.kind \in {"proxy", "text", "303", "fetch"} /\ ~u.moved) =>
       \A r \in conf.routes : F!KeyLen(r) > F!KeyLen(a.key) => Passed(r, u.path)

Configured ==
  /\ Sorted0 /\ conf.known \in Trees /\ conf.index \in F!Texts /\ conf.routes \subseteq F!Routes
  /\ \A r \in DOMAIN conf.indexs : conf.indexs[r] \in F!Texts

Queued ==
  /\ todo \in Seq(conf.routes)
  /\ \A i, j \in 1 .. Len(todo) : i < j => F!KeyLen(todo[i]) >= F!KeyLen(todo[j])
  /\ ~url.moved => \A r \in conf.routes :
       (\E i \in 1 .. Len(todo) : todo[i] = r) \/ (url.asked # <<>> /\ Passed(r, url.path))

Asking ==
  /\ url = [asked |-> url.asked, path |-> url.path, key |-> url.key, moved |-> url.moved]
  /\ Slashed(url.asked) /\ url.path \in F!Texts /\ url.moved \in BOOLEAN
  /\ ~url.moved => url.path = url.asked
  /\ url.asked = <<>> => answer = F!None /\ ~url.moved

FrontInv == Configured /\ files \in Trees /\ Asking /\ Queued /\ Fits(answer, url)

LEMMA FrontInit == F!Init => FrontInv
<1>1. SUFFICES ASSUME F!Init PROVE FrontInv
  OBVIOUS
<1>2. PICK c \in Configs : \E keys \in F!Sorted(c.roots, [r \in c.roots |-> Len(r)]) :
        conf = [known |-> c.known, roots |-> keys, indexs |-> c.indexs, index |-> c.index, change |-> c.change, routes |-> c.routes]
  BY <1>1 DEF F!Init
<1>3. PICK keys \in F!Sorted(c.roots, [r \in c.roots |-> Len(r)]) :
        conf = [known |-> c.known, roots |-> keys, indexs |-> c.indexs, index |-> c.index, change |-> c.change, routes |-> c.routes]
  BY <1>2
<1>4. F!IsConfig(c)
  BY FrontAssumption DEF FrontAssumed
<1>5. /\ c.known \in Trees /\ c.index \in F!Texts
      /\ IsFiniteSet(c.roots) /\ c.roots \subseteq F!Texts
      /\ DOMAIN c.indexs = c.roots /\ \A r \in c.roots : c.indexs[r] \in F!Texts
      /\ IsFiniteSet(c.routes) /\ c.routes \subseteq F!Routes
  BY <1>4 DEF F!IsConfig, F!IsFiniteSet, IsFiniteSet
<1>6. keys \in Seq(c.roots) /\ Descending(keys, [r \in c.roots |-> Len(r)])
  BY <1>5, SortedIs
<1>7. /\ conf.known = c.known /\ conf.roots = keys /\ conf.indexs = c.indexs /\ conf.index = c.index
      /\ conf.routes = c.routes
  BY <1>3
<1>8. Sorted0
  <2>1. keys \in Seq(F!Texts) /\ \A i \in 1 .. Len(keys) : keys[i] \in c.roots
    BY <1>5, <1>6
  <2>2. \A i, j \in 1 .. Len(keys) : i < j => Len(keys[i]) >= Len(keys[j])
    BY <1>6, <2>1 DEF Descending
  <2> QED BY <1>7, <2>1, <2>2 DEF Sorted0
<1>9. Configured
  BY <1>5, <1>7, <1>8 DEF Configured
<1>10. /\ todo \in F!Sorted(conf.routes, [r \in conf.routes |-> F!KeyLen(r)]) /\ files = conf.known
       /\ url = [asked |-> <<>>, path |-> <<>>, key |-> <<>>, moved |-> FALSE] /\ answer = F!None
  BY <1>1 DEF F!Init
<1>11. Asking
  BY <1>10, SlashIs DEF Asking, Slashed
<1>12. /\ todo \in Seq(conf.routes) /\ F!Range(todo) = conf.routes
       /\ Descending(todo, [r \in conf.routes |-> F!KeyLen(r)])
  BY <1>5, <1>7, <1>10, SortedIs
<1>13. \A i \in 1 .. Len(todo) : todo[i] \in conf.routes
  BY <1>12
<1>14. \A i, j \in 1 .. Len(todo) : i < j => F!KeyLen(todo[i]) >= F!KeyLen(todo[j])
  BY <1>12, <1>13 DEF Descending
<1>15. \A r \in conf.routes : \E i \in 1 .. Len(todo) : todo[i] = r
  BY <1>12 DEF F!Range
<1>16. Queued
  BY <1>12, <1>14, <1>15 DEF Queued
<1>17. Fits(answer, url)
  BY <1>10 DEF Fits, F!None
<1> QED BY <1>5, <1>7, <1>9, <1>10, <1>11, <1>16, <1>17 DEF FrontInv

\* A path that may be asked for.
LEMMA PathTyped ==
  ASSUME NEW n \in Int, NEW p \in F!Paths(n)
  PROVE  p \in F!Texts /\ p # <<>> /\ p[1] = "/"
<1>1. PICK k \in 0 .. n - 1 : \E t \in [1 .. k -> Chars \cup {"/"}] : p = F!Slash \o t
  BY DEF F!Paths
<1>2. Chars \cup {"/"} \subseteq F!Letters
  BY DEF F!Letters
<1>3. k \in Nat
  BY <1>1
<1>4. PICK t \in [1 .. k -> Chars \cup {"/"}] : p = F!Slash \o t
  BY <1>1
<1>5. t \in F!Texts
  BY <1>2, <1>3, <1>4 DEF F!Texts
<1> QED BY <1>4, <1>5, SlashBefore

\* The longest key of those that are left comes first.
LEMMA HeadLongest ==
  ASSUME FrontInv, todo # <<>>, ~url.moved, NEW r \in conf.routes, F!KeyLen(r) > F!KeyLen(Head(todo))
  PROVE  Passed(r, url.path)
<1>1. todo \in Seq(conf.routes) /\ Len(todo) \in Nat /\ Len(todo) > 0 /\ Head(todo) = todo[1]
  BY DEF FrontInv, Queued
<1>2. \A s \in conf.routes : F!KeyLen(s) \in Nat
  <2>1. SUFFICES ASSUME NEW s \in conf.routes PROVE F!KeyLen(s) \in Nat
    OBVIOUS
  <2>2. s \in F!Routes
    BY DEF FrontInv, Configured
  <2>3. Len(s.path) \in Nat
    BY <2>2 DEF F!Routes, F!Texts
  <2>4. PICK k \in Nat, m \in {0, 2}, t \in {0, 1} :
          k = Len(s.path) /\ m = (IF s.mark = "" THEN 0 ELSE 2) /\ t = (IF s.tilde THEN 1 ELSE 0)
    BY <2>3
  <2>5. F!KeyLen(s) = k + m + t
    BY <2>4 DEF F!KeyLen
  <2>6. k + m + t \in Nat
    OBVIOUS
  <2> QED BY <2>5, <2>6
<1>3. ASSUME NEW i \in 1 .. Len(todo), todo[i] = r PROVE FALSE
  <2>1. F!KeyLen(todo[1]) >= F!KeyLen(r)
    <3>1. CASE i = 1
      BY <1>2, <1>3, <3>1
    <3>2. CASE i # 1
      <4>1. 1 \in 1 .. Len(todo) /\ 1 < i
        BY <1>1, <3>2
      <4> QED BY <1>3, <4>1 DEF FrontInv, Queued
    <3> QED BY <3>1, <3>2
  <2>2. todo[1] \in conf.routes
    BY <1>1
  <2> QED BY <1>1, <1>2, <2>1, <2>2
<1> QED BY <1>3 DEF FrontInv, Queued

\* A step that answers leaves the request and the routes as they were.
LEMMA Answered ==
  ASSUME FrontInv, F!Asked, NEW a, Fits(a, url), F!Answers(a)
  PROVE  FrontInv'
<1>1. answer' = a /\ conf' = conf /\ files' = files /\ url' = url /\ todo' = todo
  BY DEF F!Answers
<1>2. url.asked # <<>>
  BY DEF F!Asked
<1>3. Configured'
  BY <1>1 DEF FrontInv, Configured, Sorted0
<1>4. Asking'
  BY <1>1, <1>2 DEF FrontInv, Asking, Slashed
<1>5. Queued'
  BY <1>1 DEF FrontInv, Queued, Passed
<1>6. Fits(answer, url)'
  BY <1>1 DEF Fits, Passed, Longest, Roots
<1> QED BY <1>1, <1>3, <1>4, <1>5, <1>6 DEF FrontInv

\* A route that does not answer leaves the others.
LEMMA WentOn ==
  ASSUME FrontInv, F!Asked, todo # <<>>, NEW u, F!GoesOn(u),
         u = [asked |-> u.asked, path |-> u.path, key |-> u.key, moved |-> u.moved],
         u.asked = url.asked, u.path \in F!Texts,
         \/ u.moved = TRUE
         \/ u.moved = url.moved /\ u.path = url.path /\ (~u.moved => Passed(Head(todo), url.path))
  PROVE  FrontInv'
<1>1. answer' = answer /\ conf' = conf /\ files' = files /\ url' = u /\ todo' = Tail(todo)
  BY DEF F!GoesOn
<1>2. url.asked # <<>> /\ answer = F!None
  BY DEF F!Asked
<1>3. Configured'
  BY <1>1 DEF FrontInv, Configured, Sorted0
<1>4. Asking'
  <2>1. u.moved \in BOOLEAN /\ (~u.moved => u.path = u.asked)
    BY DEF FrontInv, Asking
  <2> QED BY <1>1, <1>2, <2>1 DEF FrontInv, Asking, Slashed
<1>5. Queued'
  <2>1. PICK n \in Nat : n = Len(todo) /\ n > 0 /\ todo \in Seq(conf.routes) /\ Head(todo) = todo[1]
    BY DEF FrontInv, Queued
  <2>2. PICK t : t = Tail(todo)
    OBVIOUS
  <2>3. t \in Seq(conf.routes) /\ Len(t) = n - 1 /\ \A i \in 1 .. n - 1 : t[i] = todo[i + 1]
    BY <2>1, <2>2
  <2>4. \A i, j \in 1 .. n - 1 : i < j => F!KeyLen(t[i]) >= F!KeyLen(t[j])
    <3>1. SUFFICES ASSUME NEW i \in 1 .. n - 1, NEW j \in 1 .. n - 1, i < j PROVE F!KeyLen(t[i]) >= F!KeyLen(t[j])
      OBVIOUS
    <3>2. i + 1 \in 1 .. n /\ j + 1 \in 1 .. n /\ i + 1 < j + 1
      BY <2>1, <3>1
    <3>3. F!KeyLen(todo[i + 1]) >= F!KeyLen(todo[j + 1])
      BY <2>1, <3>2 DEF FrontInv, Queued
    <3> QED BY <2>3, <3>3
  <2>5. ASSUME ~u.moved, NEW r \in conf.routes
        PROVE  (\E i \in 1 .. n - 1 : t[i] = r) \/ (u.asked # <<>> /\ Passed(r, u.path))
    <3>1. /\ u.path = url.path /\ ~url.moved /\ Passed(todo[1], url.path)
          /\ (\E i \in 1 .. n : todo[i] = r) \/ Passed(r, url.path)
      BY <1>2, <2>1, <2>5 DEF FrontInv, Queued
    <3>2. ASSUME NEW i \in 1 .. n, todo[i] = r, i # 1 PROVE \E j \in 1 .. n - 1 : t[j] = r
      <4>1. i - 1 \in 1 .. n - 1 /\ i - 1 + 1 = i
        BY <2>1, <3>2
      <4>2. t[i - 1] = r
        BY <2>3, <3>2, <4>1
      <4> QED BY <4>1, <4>2
    <3> QED BY <1>2, <3>1, <3>2
  <2>6. /\ todo' = t /\ url'.moved = u.moved /\ url'.asked = u.asked /\ url'.path = u.path
        /\ conf'.routes = conf.routes
    BY <1>1, <2>2
  <2> QED BY <2>3, <2>4, <2>5, <2>6 DEF Queued, Passed
<1>6. Fits(answer, url)'
  BY <1>1, <1>2 DEF Fits, F!None
<1> QED BY <1>1, <1>3, <1>4, <1>5, <1>6 DEF FrontInv

\* A route that answers has the longest key of those that do.
LEMMA RouteFits ==
  ASSUME FrontInv, todo # <<>>, NEW a,
         a.kind \in {"proxy", "text", "303", "fetch"} => a.key = Head(todo), a.kind \notin {"file", "base"}
  PROVE  Fits(a, url)
BY HeadLongest DEF Fits

\* What is served comes from the root that was taken off.
LEMMA FileServed ==
  ASSUME NEW p, NEW root, NEW a, a = F!IndexWithTRY(p, root) \/ a = F!IndexWithCHG(p, root)
  PROVE  a.kind \in {"file", "404", "500"} /\ (a.kind = "file" => a.root = root)
<1>1. F!NotFound.kind = "404"
  BY DEF F!NotFound
<1>2. ASSUME NEW q, NEW b, b = F!Content(q, root)
      PROVE  b.kind \in {"file", "500"} /\ (b.kind = "file" => b.root = root)
  BY <1>2 DEF F!Content
<1>3. a = F!NotFound \/ \E q : a = F!Content(q, root)
  BY DEF F!IndexWithTRY, F!IndexWithCHG
<1> QED BY <1>1, <1>2, <1>3

LEMMA FileFits ==
  ASSUME FrontInv, NEW p, NEW a,
         a = F!IndexWithTRY(p, F!FixReqUrlPath(url.path).root) \/ a = F!IndexWithCHG(p, F!FixReqUrlPath(url.path).root)
  PROVE  Fits(a, url)
<1>1. PICK root : root = F!FixReqUrlPath(url.path).root
  OBVIOUS
<1>2. url.path \in F!Texts /\ Sorted0
  BY DEF FrontInv, Asking, Configured
<1>3. root = Longest(url.path)
  BY <1>1, <1>2, RootIs
<1>4. a.kind \in {"file", "404", "500"} /\ (a.kind = "file" => a.root = root)
  BY <1>1, FileServed
<1> QED BY <1>3, <1>4 DEF Fits

\* A path with two more letters still begins as it did.
LEMMA Longer ==
  ASSUME NEW L, NEW p \in Seq(L), p # <<>>, NEW x \in L, NEW y \in L
  PROVE  p \o <<x, y>> \in Seq(L) /\ p \o <<x, y>> # <<>> /\ (p \o <<x, y>>)[1] = p[1]
<1>1. PICK b : b = <<x, y>>
  OBVIOUS
<1>2. b \in Seq(L) /\ Len(b) = 2
  BY <1>1
<1>3. PICK m \in Nat : m = Len(p)
  OBVIOUS
<1>4. m >= 1
  BY <1>3
<1>5. p \o b \in Seq(L) /\ Len(p \o b) = m + 2
  <2>1. p \in Seq(L) /\ b \in Seq(L)
    BY <1>2
  <2>2. p \o b \in Seq(L) /\ Len(p \o b) = Len(p) + Len(b)
    BY ONLY <2>1, ConcatProperties
  <2> QED BY <1>2, <1>3, <2>2
<1>6. (p \o b)[1] = p[1]
  BY <1>2, <1>3, <1>4
<1>7. p \o b # <<>>
  BY <1>3, <1>5
<1> QED BY <1>1, <1>5, <1>6, <1>7

LEMMA Requested == FrontInv /\ F!Request => FrontInv'
<1>1. SUFFICES ASSUME FrontInv, F!Request PROVE FrontInv'
  OBVIOUS
<1>2. PICK n \in Int : n = IF conf.routes = {} THEN MaxPath ELSE MaxPath - 1
  BY FrontAssumption DEF FrontAssumed
<1>3. PICK p \in F!Paths(n) : \E q \in {p, p \o <<"/", "_">>} : url' = [asked |-> q, path |-> q, key |-> <<>>, moved |-> FALSE]
  BY <1>1, <1>2 DEF F!Request
<1>4. PICK q \in {p, p \o <<"/", "_">>} : url' = [asked |-> q, path |-> q, key |-> <<>>, moved |-> FALSE]
  BY <1>3
<1>5. url.asked = <<>> /\ conf' = conf /\ files' = files /\ todo' = todo /\ answer' = answer
  BY <1>1 DEF F!Request
<1>6. p \in F!Texts /\ p # <<>> /\ p[1] = "/"
  BY <1>3, PathTyped
<1>7. q \in F!Texts /\ q # <<>> /\ q[1] = "/"
  <2>1. PICK L : L = F!Letters
    OBVIOUS
  <2>2. "/" \in L /\ "_" \in L /\ p \in Seq(L)
    BY <1>6, <2>1 DEF F!Letters, F!Texts
  <2>3. p \o <<"/", "_">> \in Seq(L) /\ p \o <<"/", "_">> # <<>> /\ (p \o <<"/", "_">>)[1] = p[1]
    BY <1>6, <2>2, Longer
  <2>4. q = p \/ q = p \o <<"/", "_">>
    BY <1>4
  <2> QED BY <1>6, <2>1, <2>3, <2>4 DEF F!Texts
<1>8. url'.asked = q /\ url'.path = q /\ url'.moved = FALSE
  BY <1>4
<1>9. Configured'
  BY <1>1, <1>5 DEF FrontInv, Configured, Sorted0
<1>10. Asking'
  BY <1>4, <1>7, <1>8 DEF Asking, Slashed
<1>11. answer = F!None /\ ~url.moved
  BY <1>1, <1>5 DEF FrontInv, Asking
<1>12. Queued'
  <2>1. \A r \in conf.routes : \E i \in 1 .. Len(todo) : todo[i] = r
    BY <1>1, <1>5, <1>11 DEF FrontInv, Queued
  <2> QED BY <1>1, <1>5, <2>1 DEF FrontInv, Queued
<1>13. Fits(answer, url)'
  BY <1>5, <1>11 DEF Fits, F!None
<1> QED BY <1>1, <1>5, <1>9, <1>10, <1>12, <1>13 DEF FrontInv

LEMMA RouteTyped ==
  ASSUME FrontInv, todo # <<>>
  PROVE  Head(todo) \in conf.routes /\ Head(todo).value \in F!Texts
<1>1. Head(todo) \in conf.routes
  BY DEF FrontInv, Queued
<1>2. Head(todo) \in F!Routes
  BY <1>1 DEF FrontInv, Configured
<1> QED BY <1>1, <1>2 DEF F!Routes

LEMMA FrontNext == FrontInv /\ [F!Next]_frontVars => FrontInv'
<1>1. SUFFICES ASSUME FrontInv, [F!Next]_frontVars PROVE FrontInv'
  OBVIOUS
<1>2. /\ url = [asked |-> url.asked, path |-> url.path, key |-> url.key, moved |-> url.moved]
      /\ url.path \in F!Texts /\ url.moved \in BOOLEAN
  BY <1>1 DEF FrontInv, Asking
<1>3. CASE UNCHANGED frontVars
  BY <1>1, <1>3 DEF frontVars, FrontInv, Configured, Sorted0, Asking, Slashed, Queued, Fits, Passed, Longest, Roots
<1>4. CASE F!Request
  BY <1>1, <1>4, Requested
<1>5. CASE F!Change
  BY <1>1, <1>5 DEF F!Change, FrontInv, Configured, Sorted0, Asking, Slashed, Queued, Fits, Passed, Longest, Roots
<1>6. CASE F!SkipRoute
  <2>1. F!Asked /\ todo # <<>> /\ F!GoesOn(url) /\ Passed(Head(todo), url.path)
    BY <1>6 DEF F!SkipRoute, Passed
  <2> QED BY <1>1, <1>2, <2>1, WentOn
<1>7. CASE F!Proxy
  <2>1. PICK a : a = [kind |-> "proxy", key |-> Head(todo), path |-> url.path]
    OBVIOUS
  <2>2. F!Asked /\ todo # <<>> /\ F!Answers(a)
    BY <1>7, <2>1 DEF F!Proxy, F!OnRoute
  <2>3. Fits(a, url)
    BY <1>1, <2>1, <2>2, RouteFits
  <2> QED BY <1>1, <2>2, <2>3, Answered
<1>8. CASE F!Mark
  <2>1. PICK u : u = [url EXCEPT !.key = Head(todo).value]
    OBVIOUS
  <2>2. F!Asked /\ todo # <<>> /\ F!GoesOn(u) /\ Passed(Head(todo), url.path)
    BY <1>8, <2>1 DEF F!Mark, F!OnRoute, Passed
  <2>3. u = [asked |-> url.asked, path |-> url.path, key |-> Head(todo).value, moved |-> url.moved]
    BY <1>2, <2>1
  <2> QED BY <1>1, <1>2, <2>2, <2>3, WentOn
<1>9. CASE F!Exact
  <2>1. PICK a : a = IF Head(todo).path = url.path THEN [kind |-> "text", key |-> Head(todo)] ELSE F!NotFound
    OBVIOUS
  <2>2. F!Asked /\ todo # <<>> /\ F!Answers(a)
    BY <1>9, <2>1 DEF F!Exact, F!OnRoute
  <2>3. Fits(a, url)
    BY <1>1, <2>1, <2>2, RouteFits DEF F!NotFound
  <2> QED BY <1>1, <2>2, <2>3, Answered
<1>10. CASE F!Text
  <2>1. PICK a : a = [kind |-> "text", key |-> Head(todo)]
    OBVIOUS
  <2>2. F!Asked /\ todo # <<>> /\ F!Answers(a)
    BY <1>10, <2>1 DEF F!Text, F!OnRoute
  <2>3. Fits(a, url)
    BY <1>1, <2>1, <2>2, RouteFits
  <2> QED BY <1>1, <2>2, <2>3, Answered
<1>11. CASE F!Redirect
  <2>1. F!Asked /\ todo # <<>> /\ Head(todo).mark = "@>"
    BY <1>11 DEF F!Redirect, F!OnRoute
  <2>2. CASE F!Base(url.path)
    <3>1. F!GoesOn(url) /\ Passed(Head(todo), url.path)
      BY <1>11, <2>1, <2>2 DEF F!Redirect, Passed
    <3> QED BY <1>1, <1>2, <2>1, <3>1, WentOn
  <2>3. CASE ~F!Base(url.path) /\ Head(todo).tilde
    <3>1. PICK u : u = [url EXCEPT !.path = Head(todo).value, !.moved = TRUE]
      OBVIOUS
    <3>2. F!GoesOn(u)
      BY <1>11, <2>3, <3>1 DEF F!Redirect
    <3>3. u = [asked |-> url.asked, path |-> Head(todo).value, key |-> url.key, moved |-> TRUE]
      BY <1>2, <3>1
    <3>4. Head(todo).value \in F!Texts
      BY <1>1, <2>1, RouteTyped
    <3> QED BY <1>1, <2>1, <3>2, <3>3, <3>4, WentOn
  <2>4. CASE ~F!Base(url.path) /\ ~Head(todo).tilde
    <3>1. PICK a : a = [kind |-> "303", key |-> Head(todo)]
      OBVIOUS
    <3>2. F!Answers(a)
      BY <1>11, <2>4, <3>1 DEF F!Redirect
    <3>3. Fits(a, url)
      BY <1>1, <2>1, <3>1, RouteFits
    <3> QED BY <1>1, <2>1, <3>2, <3>3, Answered
  <2> QED BY <2>2, <2>3, <2>4
<1>12. CASE F!Fetch
  <2>1. F!Asked /\ todo # <<>> /\ Head(todo).mark = "@^"
    BY <1>12 DEF F!Fetch, F!OnRoute
  <2>2. CASE F!Base(url.path)
    <3>1. F!GoesOn(url) /\ Passed(Head(todo), url.path)
      BY <1>12, <2>1, <2>2 DEF F!Fetch, Passed
    <3> QED BY <1>1, <1>2, <2>1, <3>1, WentOn
  <2>3. CASE ~F!Base(url.path)
    <3>1. PICK a : a = [kind |-> IF Head(todo).tilde THEN "fetch" ELSE "proxy", key |-> Head(todo), path |-> F!GetRootPath(url.path)]
      OBVIOUS
    <3>2. F!Answers(a)
      BY <1>12, <2>3, <3>1 DEF F!Fetch
    <3>3. Fits(a, url)
      BY <1>1, <2>1, <3>1, RouteFits
    <3> QED BY <1>1, <2>1, <3>2, <3>3, Answered
  <2> QED BY <2>2, <2>3
<1>13. CASE F!BasePath
  <2>1. PICK of \in {url.path} \cup F!Paths(2) : F!Answers([kind |-> "base", of |-> of, root |-> F!FixReqUrlPath(of).root])
    BY <1>13 DEF F!BasePath
  <2>2. PICK root : root = F!FixReqUrlPath(of).root
    OBVIOUS
  <2>3. PICK a : a = [kind |-> "base", of |-> of, root |-> root]
    OBVIOUS
  <2>4. of \in F!Texts
    BY <1>2, <2>1, PathTyped
  <2>5. root = Longest(of)
    <3>1. Sorted0
      BY <1>1 DEF FrontInv, Configured
    <3> QED BY <2>2, <2>4, <3>1, RootIs
  <2>6. Fits(a, url)
    BY <2>3, <2>5 DEF Fits
  <2>7. F!Answers(a)
    BY <2>1, <2>2, <2>3
  <2>8. F!Asked
    BY <1>13 DEF F!BasePath
  <2> QED BY <1>1, <2>6, <2>7, <2>8, Answered
<1>14. CASE F!File
  <2>1. PICK p, q : F!Answers(IF conf.change THEN F!IndexWithCHG(p, F!FixReqUrlPath(url.path).root)
                              ELSE F!IndexWithTRY(q, F!FixReqUrlPath(url.path).root))
    BY <1>14 DEF F!File
  <2>2. PICK a : a = IF conf.change THEN F!IndexWithCHG(p, F!FixReqUrlPath(url.path).root)
                     ELSE F!IndexWithTRY(q, F!FixReqUrlPath(url.path).root)
    OBVIOUS
  <2>3. Fits(a, url)
    BY <1>1, <2>2, FileFits
  <2>4. F!Asked /\ F!Answers(a)
    BY <1>14, <2>1, <2>2 DEF F!File
  <2> QED BY <1>1, <2>3, <2>4, Answered
<1> QED BY <1>1, <1>3, <1>4, <1>5, <1>6, <1>7, <1>8, <1>9, <1>10, <1>11, <1>12, <1>13, <1>14 DEF F!Next

LEMMA FrontHolds == FrontInv => Files
<1>1. SUFFICES ASSUME FrontInv PROVE F!AnswersAgree /\ F!LongestFirst
  BY DEF Files
<1>2. F!LongestFirst
  BY <1>1 DEF FrontInv, Fits, F!LongestFirst, Longest, Roots, Passed
<1>3. ASSUME url.asked # <<>>, url.path = url.asked, files = conf.known, ~F!IsDir(F!FirstOf(conf.index, <<"x">>)),
             \A r \in DOMAIN conf.indexs : ~F!IsDir(conf.indexs[r])
      PROVE  F!IndexWithTRY(F!FirstOf(F!FixReqUrlPath(url.path).path, F!Slash), F!FixReqUrlPath(url.path).root)
               = F!IndexWithCHG(F!FixReqUrlPath(url.path).path, F!FixReqUrlPath(url.path).root)
  <2>1. PICK root : root = F!FixReqUrlPath(url.path).root
    OBVIOUS
  <2>2. PICK p : p = F!FixReqUrlPath(url.path).path
    OBVIOUS
  <2>3. Slashed(p)
    BY <1>1, <1>3, <2>2, LeftIs DEF FrontInv, Asking, Configured
  <2>4. IsTree(conf.known)
    BY <1>1, FrontAssumption DEF FrontInv, Configured, FrontAssumed
  <2>5. PICK i : i = F!IndexOf(root)
    OBVIOUS
  <2>6. i \in F!Texts /\ (i # <<>> => ~F!IsDir(i))
    BY <1>1, <1>3, <2>5, SlashIs DEF FrontInv, Configured, F!IndexOf
  <2>7. conf.index \in F!Texts /\ (conf.index # <<>> => ~F!IsDir(conf.index))
    BY <1>1, <1>3 DEF FrontInv, Configured, F!FirstOf
  <2>8. F!IndexWithTRY(F!FirstOf(p, F!Slash), root) = F!IndexWithCHG(p, root)
    BY <1>3, <2>3, <2>4, <2>5, <2>6, <2>7, Agree
  <2> QED BY <2>1, <2>2, <2>8
<1>4. F!AnswersAgree
  BY <1>3 DEF F!AnswersAgree
<1> QED BY <1>2, <1>4

\* Whatever the roots, routes, indexes and files, and whatever path is asked for: the
\* longest root is taken off, the longest route that is meant for the path answers, and
\* both ways to look for an index give the same answer (front2/handler.go, common.go,
\* index.go).
THEOREM LongestServes == F!Spec => []Files
<1>1. [F!Next]_(F!frontVars) => [F!Next]_frontVars
  BY DEF frontVars, F!frontVars
<1> QED BY <1>1, FrontInit, FrontNext, FrontHolds, PTL DEF F!Spec

-----------------------------------------------------------------------------
(* The requests of a service.  AnsweredOnce rests on the first function     *)
(* that answers being the last one that runs (Unanswered, AnsweredAt), and  *)
(* Guarded on a text being left over only for who has passed.  What a       *)
(* request is at is a matter of its context and answer alone, so AtCall is  *)
(* an operator of these; the routes give it one of the handlers.            *)

Lists == Svc!Handlers \cup {<<"json">>}
Rests == Lists \cup {<<"text">>, <<>>}

Setups == [engine : {"map", "mux"}, root : {<<>>, <<"api">>}, token : BOOLEAN, serves : BOOLEAN]
IsPair(k) == k = <<k[1], k[2]>>

RoutesTyped ==
  /\ setup \in Setups /\ default \in Svc!Handlers \cup {<<>>}
  /\ \A k \in DOMAIN routes : IsPair(k) /\ routes[k] \in Lists

Contexts == [stage : {"none", "run", "encode", "over"}, todo : Rests, holds : SUBSET Svc!Pointers, canceled : BOOLEAN,
             abort : BOOLEAN, says : {"fresh", "shared"}, panics : BOOLEAN]
Responses == [id : Requests \cup {NoRequest}, bodies : {0, 1}, fns : Seq(Svc!Fns)]
Works == [stage : {"none", "works", "canceled", "done"}, wants : SUBSET Svc!Pointers, holds : SUBSET Svc!Pointers]

CallsTyped ==
  /\ ctx \in [Requests -> Contexts] /\ resp \in [Requests -> Responses]
  /\ req \in [Requests -> Asked \cup {Svc!NoReq}] /\ work \in [Requests -> Works]
  /\ shared.id \in Requests \cup {NoRequest}

\* No function of the handler has answered: what ran of it, and what is left.
Unanswered(c, a, pass) ==
  /\ a.bodies = 0 /\ ~c.panics
  /\ \/ a.fns = <<>> /\ c.todo \in Lists \cup {<<>>}
     \/ a.fns = <<"note">> /\ c.todo \in {<<"json">>, <<>>}
     \/ a.fns = <<"secret">> /\ c.todo = <<"text">> /\ pass

AnsweredAt(c, a) ==
  /\ c.stage = "encode" => c.abort /\ a.bodies = 0 /\ ~c.panics
  /\ c.stage = "run" /\ c.abort => a.bodies = 1 \/ c.panics
  /\ c.stage = "over" => a.fns = <<>> \/ a.fns[Len(a.fns)] = "note" \/ a.bodies = 1 \/ c.panics

Did(a, f) == \E i \in DOMAIN a.fns : a.fns[i] = f

AtCall(r, c, a, pass) ==
  /\ c.stage = "none" \/ (c.stage = "run" /\ ~c.abort) => Unanswered(c, a, pass)
  /\ c.stage = "none" => a.fns = <<>>
  /\ AnsweredAt(c, a)
  /\ c.stage \in {"run", "encode"} => c.holds = Svc!Pointers
  /\ c.canceled => c.stage = "over"
  /\ c.says = "shared" \/ c.panics \/ a.id \notin {r, NoRequest} => Did(a, "shared")
  /\ Did(a, "secret") \/ Did(a, "text") => pass

\* A clone was made of a whole context, and is a value of its own.
AtWork(c, w) ==
  /\ w.holds = w.wants
  /\ w.stage = "canceled" => "Ctx" \in w.wants /\ c.stage = "over"

Allowed(q) == ~setup.token \/ q.auth
Pass(r) == Allowed(req[r])
CallsAt == \A r \in Requests : AtCall(r, ctx[r], resp[r], Pass(r)) /\ AtWork(ctx[r], work[r])

ServiceInv == RoutesTyped /\ CallsTyped /\ CallsAt

LEMMA ServiceInit == ASSUME Svc!Init PROVE ServiceInv
<1>1. RoutesTyped
  <2>1. DOMAIN routes = {} /\ default = <<>>
    BY DEF Svc!Init
  <2>2. setup \in Setups
    BY DEF Svc!Init, Setups
  <2> QED BY <2>1, <2>2 DEF RoutesTyped
<1>2. <<>> \in Seq(Svc!Fns)
  OBVIOUS
<1>3. Svc!EmptyCtx \in Contexts /\ Svc!EmptyResp \in Responses
  <2>1. <<>> \in Rests
    BY DEF Rests
  <2>2. Svc!EmptyCtx \in Contexts
    <3> HIDE DEF Rests
    <3> QED BY <2>1 DEF Svc!EmptyCtx, Contexts
  <2> QED BY <1>2, <2>2 DEF Svc!EmptyResp, Responses
<1>4. CallsTyped
  <2>1. Svc!NoWork \in Works
    BY DEF Svc!NoWork, Works
  <2> QED BY <1>3, <2>1 DEF Svc!Init, CallsTyped
<1>5. ASSUME NEW r \in Requests PROVE AtCall(r, ctx[r], resp[r], Pass(r)) /\ AtWork(ctx[r], work[r])
  <2>1. ctx[r] = Svc!EmptyCtx /\ resp[r] = Svc!EmptyResp /\ work[r] = Svc!NoWork
    BY DEF Svc!Init
  <2>2. AtWork(ctx[r], work[r])
    BY <2>1 DEF Svc!NoWork, AtWork
  <2> QED BY <2>1, <2>2 DEF Svc!EmptyCtx, Svc!EmptyResp, AtCall, Unanswered, AnsweredAt, Did
<1> QED BY <1>1, <1>4, <1>5 DEF ServiceInv, CallsAt

-----------------------------------------------------------------------------

\* Of the patterns that fit, one is best: the path before the root, and each with its
\* method before without.
LEMMA MuxFinds ==
  ASSUME RoutesTyped, NEW q \in Asked PROVE Svc!MuxRoute(q) \in Lists \cup {<<>>}
<1> DEFINE fits == {k \in DOMAIN routes : k[1] \in {"", q.method} /\ k[2] \in {q.path, <<>>}}
           better(k, l) == Len(k[2]) > Len(l[2]) \/ (k[2] = l[2] /\ k[1] # "")
           best == CHOOSE k \in fits : \A l \in fits \ {k} : better(k, l)
<1>1. q.method \in {"GET", "POST"} /\ q.path \in {<<"a">>, <<"api", "a">>, <<>>, <<"healthz">>}
  <2>1. CASE q = Ask("GET", <<"a">>, <<>>, TRUE, "3")
    BY <2>1 DEF Ask
  <2>2. CASE q = Ask("POST", <<"api", "a">>, <<>>, TRUE, "")
    BY <2>2 DEF Ask
  <2>3. CASE q = Ask("GET", <<"api", "a">>, <<>>, FALSE, "3")
    BY <2>3 DEF Ask
  <2>4. CASE q = Ask("GET", <<>>, <<"a">>, FALSE, "")
    BY <2>4 DEF Ask
  <2>5. CASE q = Ask("GET", <<"healthz">>, <<>>, FALSE, "")
    BY <2>5 DEF Ask
  <2> QED BY <2>1, <2>2, <2>3, <2>4, <2>5 DEF Asked
<1>2. \A k \in fits : k[2] = q.path \/ k[2] = <<>>
  OBVIOUS
<1>3. Len(<<>>) = 0 /\ (q.path # <<>> => Len(q.path) > 0)
  BY <1>1
<1>4. \A k, l \in fits : k[1] = l[1] /\ k[2] = l[2] => k = l
  BY DEF RoutesTyped, IsPair
<1>5. \A k \in fits : k[1] = "" \/ k[1] = q.method
  OBVIOUS
<1>6. ASSUME fits # {} PROVE \E k \in fits : \A l \in fits \ {k} : better(k, l)
  <2>1. CASE \E k \in fits : k[2] = q.path /\ k[1] = q.method
    <3>1. PICK k \in fits : k[2] = q.path /\ k[1] = q.method
      BY <2>1
    <3>2. \A l \in fits \ {k} : better(k, l)
      BY <1>1, <1>2, <1>3, <1>4, <3>1
    <3> QED BY <3>2
  <2>2. CASE (\E k \in fits : k[2] = q.path) /\ ~\E k \in fits : k[2] = q.path /\ k[1] = q.method
    <3>1. PICK k \in fits : k[2] = q.path
      BY <2>2
    <3>2. \A l \in fits \ {k} : l[2] = <<>> /\ l[2] # q.path
      BY <1>2, <1>4, <1>5, <2>2, <3>1
    <3>3. \A l \in fits \ {k} : better(k, l)
      BY <1>3, <3>1, <3>2
    <3> QED BY <3>3
  <2>3. CASE (~\E k \in fits : k[2] = q.path) /\ \E k \in fits : k[1] = q.method
    <3>1. PICK k \in fits : k[1] = q.method
      BY <2>3
    <3>2. \A l \in fits : l[2] = <<>>
      BY <1>2, <2>3
    <3>3. \A l \in fits \ {k} : better(k, l)
      BY <1>1, <3>1, <3>2
    <3> QED BY <3>3
  <2>4. CASE (~\E k \in fits : k[2] = q.path) /\ ~\E k \in fits : k[1] = q.method
    <3>1. PICK k \in fits : TRUE
      BY <1>6
    <3>2. \A l \in fits : l[2] = <<>> /\ l[1] = ""
      BY <1>2, <1>5, <2>4
    <3>3. \A l \in fits \ {k} : better(k, l)
      BY <1>4, <3>1, <3>2
    <3> QED BY <3>3
  <2> QED BY <2>1, <2>2, <2>3, <2>4
<1>7. fits # {} => best \in fits
  <2> HIDE DEF better, fits
  <2> QED BY <1>6
<1>8. Svc!MuxRoute(q) = IF fits = {} THEN <<>> ELSE routes[best]
  BY DEF Svc!MuxRoute
<1>9. \A k \in fits : routes[k] \in Lists
  BY DEF RoutesTyped
<1> HIDE DEF best, fits
<1> QED BY <1>7, <1>8, <1>9

LEMMA RouteFinds ==
  ASSUME RoutesTyped, NEW q \in Asked
  PROVE  Svc!Route(q) \in Lists \cup {<<>>} /\ (setup.engine = "map" => Svc!Route(q) \in Lists)
<1>1. Svc!MapRoute(q) \in Lists
  BY DEF RoutesTyped, Svc!MapRoute, Lists
<1> QED BY <1>1, MuxFinds DEF Svc!Route

LEMMA AddRouterKeeps ==
  ASSUME RoutesTyped, NEW k \in Svc!Keys, NEW h \in Svc!Handlers, Svc!AddRouter(k, h) PROVE RoutesTyped'
<1> DEFINE method == Svc!UpperOf(k.method)
           bare == k.method = "" /\ k.action = <<>>
           action == IF bare THEN <<>> ELSE setup.root \o k.action
           pattern == IF setup.engine = "map" THEN Svc!MapPattern(method, action) ELSE Svc!MuxPattern(method, action)
<1>4. IsPair(pattern)
  BY DEF Svc!MapPattern, Svc!MuxPattern, IsPair
<1>5. /\ UNCHANGED setup
      /\ \/ default' = h /\ UNCHANGED routes
         \/ routes' = Svc!With(routes, pattern, h) /\ UNCHANGED default
  BY DEF Svc!AddRouter
<1> HIDE DEF pattern
<1>6. CASE default' = h /\ UNCHANGED routes
  BY <1>5, <1>6 DEF RoutesTyped
<1>7. CASE routes' = Svc!With(routes, pattern, h) /\ UNCHANGED default
  BY <1>4, <1>5, <1>7 DEF RoutesTyped, Svc!With, Lists
<1> QED BY <1>5, <1>6, <1>7

LEMMA ServeKeeps == ASSUME RoutesTyped, Svc!Serve PROVE RoutesTyped' /\ setup'.token = setup.token
<1> DEFINE pattern == <<IF setup.engine = "map" THEN "GET" ELSE "", setup.root \o <<"healthz">> >>
<1>2. IsPair(pattern)
  BY DEF IsPair
<1>3. routes' = Svc!With(routes, pattern, <<"json">>) /\ UNCHANGED default /\ setup' = [setup EXCEPT !.serves = TRUE]
  BY DEF Svc!Serve
<1>4. setup' \in Setups /\ setup'.token = setup.token
  BY <1>3 DEF RoutesTyped, Setups
<1> HIDE DEF pattern
<1> QED BY <1>2, <1>3, <1>4 DEF RoutesTyped, Svc!With, Lists

-----------------------------------------------------------------------------

\* A step of one request: the others are where they were.
LEMMA OneCall ==
  ASSUME ServiceInv, Svc!InCall, NEW r \in Requests,
         NEW c \in Contexts, NEW a \in Responses, NEW w \in Works,
         NEW q \in Asked \cup {Svc!NoReq}, shared'.id \in Requests \cup {NoRequest},
         ctx' = [ctx EXCEPT ![r] = c], resp' = [resp EXCEPT ![r] = a], work' = [work EXCEPT ![r] = w],
         req' = [req EXCEPT ![r] = q], AtCall(r, c, a, Allowed(q)), AtWork(c, w)
  PROVE  ServiceInv'
<1>0. RoutesTyped /\ CallsTyped /\ CallsAt
  BY DEF ServiceInv
<1>1. RoutesTyped'
  BY <1>0 DEF Svc!InCall, RoutesTyped
<1>2. CallsTyped'
  BY <1>0 DEF CallsTyped
<1>3. ASSUME NEW p \in Requests PROVE AtCall(p, ctx'[p], resp'[p], Pass(p)') /\ AtWork(ctx'[p], work'[p])
  <2>1. CASE p = r
    <3>1. ctx'[p] = c /\ resp'[p] = a /\ work'[p] = w /\ req'[p] = q /\ setup' = setup
      BY <1>0, <2>1 DEF CallsTyped, Svc!InCall
    <3> QED BY <2>1, <3>1 DEF Pass, Allowed
  <2>2. CASE p # r
    <3>1. ctx'[p] = ctx[p] /\ resp'[p] = resp[p] /\ work'[p] = work[p] /\ req'[p] = req[p] /\ setup' = setup
      BY <1>0, <2>2 DEF CallsTyped, Svc!InCall
    <3> QED BY <1>0, <3>1 DEF Pass, Allowed, CallsAt
  <2> QED BY <2>1, <2>2
<1> QED BY <1>1, <1>2, <1>3 DEF ServiceInv, CallsAt

LEMMA NewCtxKeeps ==
  ASSUME ServiceInv, NEW r \in Requests, NEW q \in Asked, Svc!NewCtx(r, q) PROVE ServiceInv'
<1>0. RoutesTyped /\ CallsTyped /\ CallsAt /\ AtCall(r, ctx[r], resp[r], Pass(r))
  BY DEF ServiceInv, CallsAt
<1> DEFINE over == setup.engine = "mux" /\ Svc!Route(q) = <<>>
           c == IF over THEN [Svc!EmptyCtx EXCEPT !.stage = "over"]
                ELSE [Svc!EmptyCtx EXCEPT !.stage = "run", !.todo = Svc!Route(q), !.holds = Svc!Pointers]
<1>1. Svc!Route(q) \in Lists \cup {<<>>}
  BY <1>0, RouteFinds
<1>2. c \in Contexts /\ c.stage \in {"run", "over"} /\ c.todo \in Lists \cup {<<>>} /\ (c.stage = "run" => c.holds = Svc!Pointers)
      /\ ~c.canceled /\ ~c.abort /\ ~c.panics /\ c.says = "fresh"
  BY <1>1 DEF Svc!EmptyCtx, Contexts, Rests
<1> HIDE DEF c
<1>3. ctx[r].stage = "none"
  BY DEF Svc!NewCtx
<1>4. resp[r].fns = <<>> /\ resp[r].bodies = 0 /\ resp[r] \in Responses
  BY <1>0, <1>3 DEF AtCall, Unanswered, CallsTyped
<1>5. ~Did(resp[r], "shared") /\ ~Did(resp[r], "secret") /\ ~Did(resp[r], "text")
  BY <1>4 DEF Did
<1>6. resp[r].id \in {r, NoRequest}
  BY <1>0, <1>5 DEF AtCall
<1>7. AtCall(r, c, resp[r], Allowed(q))
  BY <1>2, <1>4, <1>5, <1>6 DEF AtCall, Unanswered, AnsweredAt
<1>8. ctx' = [ctx EXCEPT ![r] = c] /\ req' = [req EXCEPT ![r] = q] /\ UNCHANGED <<shared, resp, work>> /\ Svc!InCall
  BY DEF Svc!NewCtx, c
<1>9. resp' = [resp EXCEPT ![r] = resp[r]] /\ work' = [work EXCEPT ![r] = work[r]] /\ shared'.id \in Requests \cup {NoRequest}
      /\ work[r] \in Works
  BY <1>0, <1>8 DEF CallsTyped
<1>10. AtWork(c, work[r])
  BY <1>0, <1>3 DEF CallsAt, AtWork
<1> QED BY <1>2, <1>4, <1>7, <1>8, <1>9, <1>10, OneCall

\* Everything a lemma about a step of r takes from the invariant.
LEMMA CallFacts ==
  ASSUME ServiceInv, NEW r \in Requests
  PROVE  /\ AtCall(r, ctx[r], resp[r], Pass(r)) /\ ctx[r] \in Contexts /\ resp[r] \in Responses
         /\ work[r] \in Works /\ AtWork(ctx[r], work[r])
         /\ ctx[r].stage # "over" => \A c : AtWork(c, work[r])
         /\ req[r] \in Asked \cup {Svc!NoReq}
         /\ shared.id \in Requests \cup {NoRequest}
         /\ ctx = [ctx EXCEPT ![r] = ctx[r]] /\ resp = [resp EXCEPT ![r] = resp[r]]
         /\ work = [work EXCEPT ![r] = work[r]] /\ req = [req EXCEPT ![r] = req[r]]
BY DEF ServiceInv, CallsTyped, CallsAt, AtWork

LEMMA ClearKeeps == ASSUME ServiceInv, NEW r \in Requests, Svc!Clear(r) PROVE ServiceInv'
<1> DEFINE c == [ctx[r] EXCEPT !.stage = "over", !.holds = {}, !.canceled = TRUE]
<1>1. /\ ctx[r].stage = "run" /\ (ctx[r].todo = <<>> \/ ctx[r].abort)
      /\ ctx' = [ctx EXCEPT ![r] = c] /\ UNCHANGED <<req, shared, resp, work>> /\ Svc!InCall
  BY DEF Svc!Clear
<1>2. c \in Contexts /\ c.stage = "over" /\ c.panics = ctx[r].panics /\ c.says = ctx[r].says
  BY CallFacts DEF Contexts
<1> HIDE DEF c
<1>3. AtCall(r, ctx[r], resp[r], Pass(r))
  BY CallFacts
<1>4. resp[r].fns = <<>> \/ resp[r].fns[Len(resp[r].fns)] = "note" \/ resp[r].bodies = 1 \/ ctx[r].panics
  <2>1. CASE ctx[r].abort
    BY <1>1, <1>3, <2>1 DEF AtCall, AnsweredAt
  <2>2. CASE ~ctx[r].abort
    <3>1. Unanswered(ctx[r], resp[r], Pass(r)) /\ ctx[r].todo = <<>>
      BY <1>1, <1>3, <2>2 DEF AtCall
    <3>2. <<"text">> # <<>> /\ Len(<<"note">>) = 1
      OBVIOUS
    <3> QED BY <3>1, <3>2 DEF Unanswered
  <2> QED BY <2>1, <2>2
<1>5. AtCall(r, c, resp[r], Allowed(req[r]))
  BY <1>2, <1>3, <1>4 DEF AtCall, AnsweredAt, Pass
<1>6. /\ shared'.id \in Requests \cup {NoRequest} /\ req[r] \in Asked \cup {Svc!NoReq}
      /\ resp' = [resp EXCEPT ![r] = resp[r]] /\ resp[r] \in Responses
      /\ work' = [work EXCEPT ![r] = work[r]] /\ work[r] \in Works
      /\ req' = [req EXCEPT ![r] = req[r]]
  BY <1>1, CallFacts
<1>7. ctx' = [ctx EXCEPT ![r] = c] /\ Svc!InCall /\ c \in Contexts
  BY <1>1, <1>2
<1>8. AtWork(c, work[r])
  BY <1>1, CallFacts
<1> QED BY <1>5, <1>6, <1>7, <1>8, OneCall

LEMMA EncodeKeeps == ASSUME ServiceInv, NEW r \in Requests, Svc!Encode(r) PROVE ServiceInv'
<1> DEFINE owner == IF ctx[r].says = "shared" THEN shared.ctx ELSE r
           fails == req[r].reqType = "3" /\ "SvcKit" \notin ctx[owner].holds
           c == [ctx[r] EXCEPT !.stage = "run", !.panics = fails]
           a == [resp[r] EXCEPT !.bodies = IF fails THEN @ ELSE @ + 1]
<1>1. /\ ctx[r].stage = "encode" /\ UNCHANGED <<req, shared, work>> /\ Svc!InCall
      /\ ctx' = [ctx EXCEPT ![r] = c] /\ resp' = [resp EXCEPT ![r] = a]
  BY CallFacts DEF Svc!Encode
<1>2. AtCall(r, ctx[r], resp[r], Pass(r)) /\ ctx[r].abort /\ resp[r].bodies = 0 /\ ctx[r].holds = Svc!Pointers
  BY <1>1, CallFacts DEF AtCall, AnsweredAt
<1>3. fails \in BOOLEAN /\ (ctx[r].says # "shared" => ~fails)
  BY <1>2 DEF Svc!Pointers
<1> HIDE DEF fails
<1>4. c \in Contexts /\ c.stage = "run" /\ (c.panics <=> fails) /\ c.says = ctx[r].says /\ c.holds = Svc!Pointers /\ c.abort
      /\ ~c.canceled
  <2>1. ctx[r] \in Contexts
    BY CallFacts
  <2>2. c.stage = "run" /\ c.panics = fails /\ c.says = ctx[r].says /\ c.holds = ctx[r].holds /\ c.canceled = ctx[r].canceled /\ c.abort = ctx[r].abort
    BY <2>1 DEF Contexts
  <2>3. c \in Contexts
    BY <1>3, <2>1 DEF Contexts
  <2>4. ~ctx[r].canceled
    BY <1>1, <1>2 DEF AtCall
  <2> QED BY <1>2, <2>2, <2>3, <2>4
<1>5. a \in Responses /\ a.fns = resp[r].fns /\ a.id = resp[r].id /\ (fails \/ a.bodies = 1)
  BY <1>2, CallFacts DEF Responses
<1> HIDE DEF c, a
<1>6. \A f : Did(a, f) <=> Did(resp[r], f)
  BY <1>5 DEF Did
<1>7. ctx[r].says \in {"fresh", "shared"}
  BY CallFacts DEF Contexts
<1>8. AtCall(r, c, a, Allowed(req[r]))
  BY <1>2, <1>3, <1>4, <1>5, <1>6, <1>7 DEF AtCall, AnsweredAt, Pass
<1>9. /\ shared'.id \in Requests \cup {NoRequest} /\ req[r] \in Asked \cup {Svc!NoReq}
      /\ work' = [work EXCEPT ![r] = work[r]] /\ work[r] \in Works
      /\ req' = [req EXCEPT ![r] = req[r]]
  BY <1>1, CallFacts
<1>10. AtWork(c, work[r])
  BY <1>1, CallFacts
<1> QED BY <1>1, <1>4, <1>5, <1>8, <1>9, <1>10, OneCall

LEMMA WorkKeeps == ASSUME ServiceInv, NEW r \in Requests, Svc!Work(r) PROVE ServiceInv'
<1> DEFINE w == [work[r] EXCEPT !.stage = IF "Ctx" \in work[r].holds /\ ctx[r].canceled THEN "canceled" ELSE "done"]
<1>1. work' = [work EXCEPT ![r] = w]
  BY CallFacts DEF Svc!Work, Svc!Held, AtWork
<1>5. w \in Works /\ AtWork(ctx[r], w)
  BY CallFacts DEF Works, AtWork, AtCall
<1> HIDE DEF w
<1>2. UNCHANGED <<req, ctx, shared, resp>> /\ Svc!InCall
  BY DEF Svc!Work
<1>3. AtCall(r, ctx[r], resp[r], Allowed(req[r]))
  BY CallFacts DEF Pass
<1>4. /\ shared'.id \in Requests \cup {NoRequest} /\ req[r] \in Asked \cup {Svc!NoReq}
      /\ ctx' = [ctx EXCEPT ![r] = ctx[r]] /\ ctx[r] \in Contexts
      /\ resp' = [resp EXCEPT ![r] = resp[r]] /\ resp[r] \in Responses
      /\ req' = [req EXCEPT ![r] = req[r]]
  BY <1>2, CallFacts
<1> QED BY <1>1, <1>2, <1>3, <1>4, <1>5, OneCall

\* The heads and tails of what can be left over.
LEMMA CallSteps ==
  /\ Head(<<"secret", "text">>) = "secret" /\ Tail(<<"secret", "text">>) = <<"text">>
  /\ Head(<<"note", "json">>) = "note" /\ Tail(<<"note", "json">>) = <<"json">>
  /\ Head(<<"spawn", "json">>) = "spawn" /\ Tail(<<"spawn", "json">>) = <<"json">>
  /\ \A f : Head(<<f>>) = f /\ Tail(<<f>>) = <<>> /\ <<f>> # <<>>
  /\ \A f, g : <<f, g>> # <<>>
OBVIOUS

\* Which function is next decides what comes after it.
LEMMA HeadsAndTails ==
  ASSUME NEW rest \in Rests, rest # <<>>
  PROVE  /\ Tail(rest) \in Rests
         /\ Head(rest) = "secret" => Tail(rest) = <<"text">> /\ rest # <<"text">> /\ rest # <<"json">>
         /\ Head(rest) = "note" => Tail(rest) \in {<<"json">>, <<>>} /\ rest # <<"text">> /\ rest # <<"json">>
         /\ Head(rest) = "spawn" => Tail(rest) = <<"json">> /\ rest # <<"text">> /\ rest # <<"json">>
         /\ Head(rest) = "text" => rest = <<"text">>
         /\ Head(rest) \in {"secret", "note", "spawn", "json", "shared", "html", "text"}
BY CallSteps DEF Rests, Lists, Svc!Handlers

LEMMA Does ==
  ASSUME NEW a \in Responses, NEW b \in Responses, NEW f \in Svc!Fns, b.fns = Append(a.fns, f), NEW g
  PROVE  Did(b, g) <=> Did(a, g) \/ g = f
<1>1. a.fns \in Seq(Svc!Fns)
  BY DEF Responses
<1>2. DOMAIN a.fns = 1 .. Len(a.fns) /\ DOMAIN b.fns = 1 .. Len(a.fns) + 1 /\ Len(a.fns) \in Nat
  BY <1>1
<1>3. b.fns[Len(a.fns) + 1] = f /\ \A i \in DOMAIN a.fns : b.fns[i] = a.fns[i]
  BY <1>1, <1>2
<1>4. \A i \in DOMAIN b.fns : i = Len(a.fns) + 1 \/ i \in DOMAIN a.fns
  BY <1>2
<1>5. Len(a.fns) + 1 \in DOMAIN b.fns /\ DOMAIN a.fns \subseteq DOMAIN b.fns
  BY <1>2
<1> QED BY <1>3, <1>4, <1>5 DEF Did

\* The next function is one that answers.
LEMMA AnswersKeeps ==
  ASSUME ServiceInv, NEW r \in Requests, ctx[r].stage = "run", ctx[r].todo # <<>>, ~ctx[r].abort,
         NEW f \in {"json", "shared", "html", "text"}, f = "text" => Head(ctx[r].todo) = "text",
         Svc!Answers(r, f), UNCHANGED req, Svc!InCall
  PROVE  ServiceInv'
<1> DEFINE json == f \in {"json", "shared"}
           c == Svc!AfterAnswer([ctx[r] EXCEPT !.todo = Tail(@), !.stage = IF json THEN "encode" ELSE "run",
                                             !.says = IF f = "shared" THEN "shared" ELSE "fresh"])
           a == [resp[r] EXCEPT !.fns = Append(@, f), !.bodies = IF json THEN @ ELSE @ + 1,
                                !.id = IF f = "shared" /\ shared.id # NoRequest THEN shared.id ELSE r]
<1>1. /\ ctx' = [ctx EXCEPT ![r] = c] /\ UNCHANGED work
      /\ resp' = [resp EXCEPT ![r] = a]
  <2>1. ctx' = [ctx EXCEPT ![r] = c] /\ UNCHANGED work
    BY DEF Svc!Answers
  <2>2. /\ resp \in [Requests -> Responses]
        /\ resp' = [resp EXCEPT ![r].fns = Append(@, f), ![r].bodies = IF json THEN @ ELSE @ + 1,
                               ![r].id = IF f = "shared" /\ shared.id # NoRequest THEN shared.id ELSE r]
    BY DEF Svc!Answers, ServiceInv, CallsTyped
  <2>3. resp' = [resp EXCEPT ![r] = a]
    BY <2>2
  <2> QED BY <2>1, <2>3
<1>2. shared'.id \in Requests \cup {NoRequest}
  BY CallFacts DEF Svc!Answers
<1>3. AtCall(r, ctx[r], resp[r], Pass(r)) /\ ctx[r] \in Contexts /\ resp[r] \in Responses /\ shared.id \in Requests \cup {NoRequest}
  BY CallFacts
<1>4. Unanswered(ctx[r], resp[r], Pass(r)) /\ ctx[r].holds = Svc!Pointers /\ ~ctx[r].canceled
  BY <1>3 DEF AtCall
<1>5. resp[r].bodies = 0 /\ ~ctx[r].panics /\ resp[r].fns \in Seq(Svc!Fns)
  BY <1>3, <1>4 DEF Unanswered, Responses
<1>6. Tail(ctx[r].todo) \in Rests
  BY <1>3, HeadsAndTails DEF Contexts
<1>7. /\ c \in Contexts /\ c.stage = (IF json THEN "encode" ELSE "run") /\ c.abort /\ ~c.panics
      /\ c.holds = Svc!Pointers /\ ~c.canceled
      /\ c.says = "shared" => f = "shared"
  BY <1>3, <1>4, <1>5, <1>6 DEF Contexts, Svc!AfterAnswer
<1>8. Append(resp[r].fns, f) \in Seq(Svc!Fns) /\ f \in Svc!Fns
  BY <1>5 DEF Svc!Fns
<1>9. /\ a \in Responses /\ a.fns = Append(resp[r].fns, f) /\ a.bodies = (IF json THEN 0 ELSE 1)
      /\ a.id # r => f = "shared"
  <2>1. a.fns = Append(resp[r].fns, f) /\ a.bodies = (IF json THEN 0 ELSE 1) /\ (a.id # r => f = "shared")
    BY <1>3, <1>5 DEF Responses
  <2>2. (IF f = "shared" /\ shared.id # NoRequest THEN shared.id ELSE r) \in Requests \cup {NoRequest}
    BY <1>3
  <2>3. (IF json THEN resp[r].bodies ELSE resp[r].bodies + 1) \in {0, 1}
    BY <1>5
  <2>4. a \in Responses
    BY <1>3, <1>8, <2>2, <2>3 DEF Responses
  <2> QED BY <2>1, <2>4
<1> HIDE DEF c, a
<1>10. \A g : Did(a, g) <=> Did(resp[r], g) \/ g = f
  BY <1>3, <1>8, <1>9, Does
<1>11. f = "text" => Pass(r)
  <2>1. ASSUME f = "text" PROVE ctx[r].todo = <<"text">>
    BY <1>3, <2>1, HeadsAndTails DEF Contexts
  <2>2. <<"text">> \notin Lists \cup {<<>>} /\ <<"text">> \notin {<<"json">>, <<>>}
    BY DEF Lists, Svc!Handlers
  <2> QED BY <1>4, <2>1, <2>2 DEF Unanswered
<1>12. AtCall(r, c, a, Pass(r))
  <2>1. Did(a, "secret") \/ Did(a, "text") => Pass(r)
    BY <1>3, <1>10, <1>11 DEF AtCall
  <2>2. AnsweredAt(c, a)
    BY <1>7, <1>9 DEF AnsweredAt
  <2> QED BY <1>7, <1>9, <1>10, <2>1, <2>2 DEF AtCall
<1>13. req' = [req EXCEPT ![r] = req[r]] /\ req[r] \in Asked \cup {Svc!NoReq}
       /\ work' = [work EXCEPT ![r] = work[r]] /\ work[r] \in Works
  BY <1>1, CallFacts
<1>14. AtCall(r, c, a, Allowed(req[r])) /\ AtWork(c, work[r])
  BY <1>12, CallFacts DEF Pass
<1> QED BY <1>1, <1>2, <1>7, <1>9, <1>13, <1>14, OneCall

Moves(r, f) ==
  /\ ctx' = [ctx EXCEPT ![r].todo = Tail(@)]
  /\ resp' = [resp EXCEPT ![r].fns = IF f = "spawn" THEN @ ELSE Append(@, f)]

\* The next function notes something, lets the request pass or starts a goroutine.
LEMMA GoesOn ==
  ASSUME ServiceInv, NEW r \in Requests, ctx[r].stage = "run", ctx[r].todo # <<>>, ~ctx[r].abort,
         NEW f \in {"note", "secret", "spawn"}, f = Head(ctx[r].todo), f = "secret" => Pass(r),
         Moves(r, f), NEW w \in Works, work' = [work EXCEPT ![r] = w], \A c : AtWork(c, w),
         UNCHANGED <<req, shared>>, Svc!InCall
  PROVE  ServiceInv'
<1> DEFINE c == [ctx[r] EXCEPT !.todo = Tail(@)]
           a == [resp[r] EXCEPT !.fns = IF f = "spawn" THEN @ ELSE Append(@, f)]
<1>1. ctx' = [ctx EXCEPT ![r] = c] /\ resp' = [resp EXCEPT ![r] = a]
  BY DEF Moves
<1>2. AtCall(r, ctx[r], resp[r], Pass(r)) /\ ctx[r] \in Contexts /\ resp[r] \in Responses
  BY CallFacts
<1>3. Unanswered(ctx[r], resp[r], Pass(r)) /\ ctx[r].holds = Svc!Pointers /\ ~ctx[r].canceled
  BY <1>2 DEF AtCall
<1>4. ctx[r].todo \in Rests
  BY <1>2 DEF Contexts
<1>5. /\ Tail(ctx[r].todo) \in Rests /\ ctx[r].todo # <<"text">> /\ ctx[r].todo # <<"json">>
      /\ f = "secret" => Tail(ctx[r].todo) = <<"text">>
      /\ f = "note" => Tail(ctx[r].todo) \in {<<"json">>, <<>>}
      /\ f = "spawn" => Tail(ctx[r].todo) = <<"json">>
  BY <1>4, HeadsAndTails
<1>6. resp[r].fns = <<>> /\ resp[r].bodies = 0 /\ ~ctx[r].panics
  BY <1>3, <1>5 DEF Unanswered
<1>7. /\ c \in Contexts /\ c.todo = Tail(ctx[r].todo) /\ c.stage = "run" /\ ~c.abort /\ ~c.panics
      /\ c.holds = Svc!Pointers /\ ~c.canceled
      /\ c.says = ctx[r].says
  BY <1>2, <1>3, <1>5, <1>6 DEF Contexts
<1>8. Append(<<>>, f) = <<f>> /\ <<f>> \in Seq(Svc!Fns)
  BY DEF Svc!Fns
<1>9. /\ a \in Responses /\ a.fns = (IF f = "spawn" THEN <<>> ELSE <<f>>) /\ a.bodies = 0 /\ a.id = resp[r].id
  BY <1>2, <1>6, <1>8 DEF Responses
<1> HIDE DEF c, a
<1>10. ~Did(resp[r], "shared") /\ (\A g : Did(a, g) => g = f)
  BY <1>6, <1>9 DEF Did
<1>11. ctx[r].says # "shared" /\ resp[r].id \in {r, NoRequest}
  BY <1>2, <1>10 DEF AtCall
<1>12. Unanswered(c, a, Pass(r))
  BY <1>5, <1>7, <1>9 DEF Unanswered, Lists
<1>13. AtCall(r, c, a, Pass(r))
  BY <1>7, <1>9, <1>10, <1>11, <1>12 DEF AtCall, AnsweredAt
<1>14. req' = [req EXCEPT ![r] = req[r]] /\ req[r] \in Asked \cup {Svc!NoReq} /\ shared'.id \in Requests \cup {NoRequest}
  BY CallFacts
<1>15. AtCall(r, c, a, Allowed(req[r]))
  BY <1>13 DEF Pass
<1> QED BY <1>1, <1>7, <1>9, <1>14, <1>15, OneCall

LEMMA HandleKeeps == ASSUME ServiceInv, NEW r \in Requests, Svc!Handle(r) PROVE ServiceInv'
<1> DEFINE f == IF Head(ctx[r].todo) = "secret" /\ ~Svc!MayPass(r) THEN "json" ELSE Head(ctx[r].todo)
<1>1. ctx[r].stage = "run" /\ ctx[r].todo # <<>> /\ ~ctx[r].abort /\ UNCHANGED req /\ Svc!InCall
  BY DEF Svc!Handle
<1>2. /\ f = "text" => Head(ctx[r].todo) = "text"
      /\ f \in {"note", "secret", "spawn"} => f = Head(ctx[r].todo)
      /\ f = "secret" => Pass(r)
  BY DEF Svc!MayPass, Pass, Allowed
<1>3. Head(ctx[r].todo) \in {"secret", "note", "spawn", "json", "shared", "html", "text"}
  BY <1>1, CallFacts, HeadsAndTails DEF Contexts
<1>4. f \in {"secret", "note", "spawn", "json", "shared", "html", "text"}
  BY <1>3
<1>5. /\ f \in {"json", "shared", "html", "text"} => Svc!Answers(r, f)
      /\ f \in {"note", "secret"} => /\ ctx' = [ctx EXCEPT ![r].todo = Tail(@)]
                                     /\ resp' = [resp EXCEPT ![r].fns = Append(@, f)]
                                     /\ UNCHANGED <<shared, work>>
      /\ f = "spawn" => /\ ctx' = [ctx EXCEPT ![r].todo = Tail(@)]
                        /\ \E hasContext, hasRequest \in BOOLEAN :
                             work' = [work EXCEPT ![r] = [stage |-> "works", wants |-> Svc!Wants(hasContext, hasRequest),
                                                          holds |-> Svc!Clone(r, hasContext, hasRequest)]]
                        /\ UNCHANGED <<shared, resp>>
  BY DEF Svc!Handle
<1> HIDE DEF f
<1>6. CASE f \in {"json", "shared", "html", "text"}
  BY <1>1, <1>2, <1>5, <1>6, AnswersKeeps
<1>7. CASE f \in {"note", "secret"}
  <2>1. work' = [work EXCEPT ![r] = work[r]] /\ work[r] \in Works
    BY <1>5, <1>7, CallFacts
  <2>2. Moves(r, f)
    BY <1>5, <1>7 DEF Moves
  <2>3. \A c : AtWork(c, work[r])
    BY <1>1, CallFacts
  <2> QED BY <1>1, <1>2, <1>5, <1>7, <2>1, <2>2, <2>3, GoesOn
<1>8. CASE f = "spawn"
  <2>1. PICK w : /\ work' = [work EXCEPT ![r] = w]
                 /\ \E hasContext, hasRequest \in BOOLEAN :
                      w = [stage |-> "works", wants |-> Svc!Wants(hasContext, hasRequest),
                           holds |-> Svc!Clone(r, hasContext, hasRequest)]
    BY <1>5, <1>8
  <2>3. ctx[r].holds = Svc!Pointers
    BY <1>1, CallFacts DEF AtCall
  <2>4. PICK hasContext, hasRequest \in BOOLEAN :
          w = [stage |-> "works", wants |-> Svc!Wants(hasContext, hasRequest), holds |-> Svc!Clone(r, hasContext, hasRequest)]
    BY <2>1
  <2>5. Svc!Wants(hasContext, hasRequest) \subseteq Svc!Pointers
    BY DEF Svc!Wants, Svc!Pointers
  <2>6. Svc!Clone(r, hasContext, hasRequest) = Svc!Wants(hasContext, hasRequest)
    BY <2>3, <2>5 DEF Svc!Clone
  <2>7. w \in Works /\ \A c : AtWork(c, w)
    BY <2>4, <2>5, <2>6 DEF Works, AtWork
  <2>2. Moves(r, f)
    <3>1. resp = [resp EXCEPT ![r].fns = @]
      BY DEF ServiceInv, CallsTyped, Responses
    <3> QED BY <1>5, <1>8, <3>1 DEF Moves
  <2> QED BY <1>1, <1>2, <1>5, <1>8, <2>1, <2>2, <2>7, GoesOn
<1> QED BY <1>4, <1>6, <1>7, <1>8

LEMMA ServiceNext == ASSUME ServiceInv, [Svc!Next]_sVars PROVE ServiceInv'
<1>0. RoutesTyped /\ CallsTyped /\ CallsAt
  BY DEF ServiceInv
<1>1. ASSUME UNCHANGED sVars PROVE ServiceInv'
  BY <1>0, <1>1 DEF sVars, ServiceInv, RoutesTyped, CallsTyped, CallsAt, Pass, Allowed
<1>2. ASSUME UNCHANGED Svc!callVars, setup'.token = setup.token PROVE CallsTyped' /\ CallsAt'
  BY <1>0, <1>2 DEF Svc!callVars, CallsTyped, CallsAt, Pass, Allowed
<1>3. ASSUME NEW k \in Svc!Keys, NEW h \in Svc!Handlers, Svc!AddRouter(k, h) PROVE ServiceInv'
  <2>1. UNCHANGED <<setup, Svc!callVars>>
    BY <1>3 DEF Svc!AddRouter
  <2> QED BY <1>0, <1>2, <1>3, <2>1, AddRouterKeeps DEF ServiceInv
<1>4. ASSUME Svc!Serve PROVE ServiceInv'
  <2>1. UNCHANGED Svc!callVars
    BY <1>4 DEF Svc!Serve
  <2> QED BY <1>0, <1>2, <1>4, <2>1, ServeKeeps DEF ServiceInv
<1> QED BY <1>1, <1>3, <1>4, NewCtxKeeps, HandleKeeps, EncodeKeeps, ClearKeeps, WorkKeeps DEF Svc!Next

LEMMA ServiceHolds == ASSUME ServiceInv PROVE Svc!AnsweredOnce /\ Svc!Guarded /\ Svc!CloneLives
<1>1. ASSUME NEW r \in Requests
      PROVE  /\ AtCall(r, ctx[r], resp[r], Pass(r)) /\ resp[r].bodies \in {0, 1} /\ resp[r].fns \in Seq(Svc!Fns)
             /\ work[r].stage # "crashed" /\ (work[r].stage = "canceled" => "Ctx" \in work[r].wants /\ ctx[r].stage = "over")
  BY CallFacts DEF Responses, Works, AtWork
<1>2. ASSUME NEW r \in Requests, NEW f PROVE f \in Svc!Range(resp[r].fns) <=> Did(resp[r], f)
  BY DEF Svc!Range, Did
<1>3. Svc!AnsweredOnce
  <2>1. SUFFICES ASSUME NEW r \in Requests
                 PROVE  /\ resp[r].bodies <= 1
                        /\ ctx[r].stage = "over" /\ resp[r].fns # <<>> /\ Svc!Last(resp[r].fns) # "note"
                             => resp[r].bodies = 1 \/ ctx[r].panics
                        /\ resp[r].id \notin {r, NoRequest} \/ ctx[r].panics => "shared" \in Svc!Range(resp[r].fns)
    BY DEF Svc!AnsweredOnce
  <2>2. resp[r].bodies <= 1
    BY <1>1
  <2>3. AtCall(r, ctx[r], resp[r], Pass(r))
    BY <1>1
  <2>4. ctx[r].stage = "over" /\ resp[r].fns # <<>> /\ Svc!Last(resp[r].fns) # "note" => resp[r].bodies = 1 \/ ctx[r].panics
    BY <2>3 DEF AtCall, AnsweredAt, Svc!Last
  <2>5. resp[r].id \notin {r, NoRequest} \/ ctx[r].panics => "shared" \in Svc!Range(resp[r].fns)
    BY <1>2, <2>3 DEF AtCall
  <2> QED BY <2>2, <2>4, <2>5
<1>4. Svc!Guarded
  BY <1>1, <1>2 DEF Svc!Guarded, AtCall, Pass, Allowed
<1>5. Svc!CloneLives
  BY <1>1 DEF Svc!CloneLives
<1> QED BY <1>3, <1>4, <1>5

\* Whatever routes a service has and whichever of Asked comes, beside other requests: who
\* is answered is answered once, with an id of its own unless the answer is one that is
\* shared; what is behind TokenAuth runs for nobody without the token; and a goroutine
\* that holds a clone outlives its request (zgc.go, zgg.go).
THEOREM AnsweredAndGuarded == Svc!Spec => []Served
<1>1. [Svc!Next]_(Svc!svcVars) => [Svc!Next]_sVars
  BY DEF sVars, Svc!svcVars, Svc!callVars
<1>2. ServiceInv => Served
  BY ServiceHolds DEF Served
<1> QED BY <1>1, <1>2, ServiceInit, ServiceNext, PTL DEF Svc!Spec
=============================================================================
