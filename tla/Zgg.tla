--------------------------------- MODULE Zgg ---------------------------------
(***************************************************************************)
(* The life of the program (z/zgg.go, z/zgc.go): options are registered    *)
(* sorted by key, ServeInit runs them in that order, RunServe boots the    *)
(* servers they added, waits for a signal, shuts the servers down with one *)
(* deadline for all, and ServeStop closes the modules.  Beside this main   *)
(* goroutine run those of the servers, their requests and the system.      *)
(*                                                                         *)
(* Three kinds of servers meet here: "http" (servez, a net/http Server),   *)
(* "cat" (KwcatHandler, a TCP listener of its own) and "bee"               *)
(* (KwbeeHandler, a child process: see module Process).                    *)
(***************************************************************************)
EXTENDS Integers, Sequences, FiniteSets

CONSTANTS
  Modules,   \* the options that may be registered
  Servers,   \* the servers they may add
  KindOf,    \* the kind of each server
  Keys       \* the numbers the option keys sort by

ASSUME ZggAssumption ==
  /\ IsFiniteSet(Modules) /\ IsFiniteSet(Servers)
  /\ Keys \subseteq Nat
  /\ KindOf \in [Servers -> {"http", "cat", "bee"}]

VARIABLES
  pc,        \* where the main goroutine is
  key,       \* the key an option was registered under
  options,   \* z.options
  at,        \* how many of them, or of the servers or closeds, were visited
  closeds,   \* Zgg.Closeds
  servers,   \* Zgg.Servers
  abort,     \* Zgg._abort
  inited,    \* ServeInit returned true
  ran,       \* the modules whose Closed was called, in that order
  srv,       \* where the goroutine of the server is
  inShut,    \* http.Server.inShutdown
  busy,      \* the server is still working on a request or a connection
  expired,   \* the deadline of the context of WaitFor has passed
  signalled  \* SIGHUP, SIGINT, SIGTERM or SIGQUIT arrived

mainVars == <<key, options, closeds, servers, abort, inited, ran>>
srvVars  == <<srv, inShut, busy>>
vars == <<pc, at, mainVars, srvVars, expired, signalled>>

Regs == {"register", "init", "boot", "notify", "wait", "shutdown", "draining",
         "closing", "modules"}
Ends == {"exited", "dead", "killed"}

IsSeqOf(s, S) == Len(s) <= Cardinality(S) /\ \A i \in DOMAIN s : s[i] \in S

TypeOK ==
  /\ pc \in Regs \cup Ends
  /\ key \in [Modules -> Keys \cup {0}]
  /\ IsSeqOf(options, Modules) /\ IsSeqOf(closeds, Modules)
  /\ IsSeqOf(ran, Modules) /\ IsSeqOf(servers, Servers)
  /\ at \in 0 .. Cardinality(Modules) + Cardinality(Servers)
  /\ {abort, inited, expired, signalled} \subseteq BOOLEAN
  /\ srv \in [Servers -> {"none", "booted", "listening", "returned"}]
  /\ inShut \in [Servers -> BOOLEAN]
  /\ busy \in [Servers -> BOOLEAN]

Init ==
  /\ pc = "register"
  /\ key = [m \in Modules |-> 0]
  /\ options = <<>>
  /\ at = 0
  /\ closeds = <<>>
  /\ servers = <<>>
  /\ abort = FALSE
  /\ inited = FALSE
  /\ ran = <<>>
  /\ srv = [s \in Servers |-> "none"]
  /\ inShut = [s \in Servers |-> FALSE]
  /\ busy = [s \in Servers |-> FALSE]
  /\ expired = FALSE
  /\ signalled = FALSE

Alive == pc \notin Ends
InSeq(s, x) == \E i \in DOMAIN s : s[i] = x
Reversed(s) == [i \in DOMAIN s |-> s[Len(s) - i + 1]]

-----------------------------------------------------------------------------
(* Registration, by the init functions of the packages and by Initializ.   *)

\* The places of the options with a greater key; Insert takes the first.
Place(k) == {i \in DOMAIN options : key[options[i]] > k}

Register(m, k) ==
  /\ pc = "register"
  /\ ~InSeq(options, m)
  /\ key' = [key EXCEPT ![m] = k]
  /\ LET i == IF Place(k) = {} THEN Len(options) + 1
              ELSE CHOOSE i \in Place(k) : \A j \in Place(k) : i <= j IN
     options' = SubSeq(options, 1, i - 1) \o <<m>>
                \o SubSeq(options, i, Len(options))
  /\ UNCHANGED <<pc, at, closeds, servers, abort, inited, ran, srvVars, expired,
                 signalled>>

StartInit ==
  /\ pc = "register"
  /\ pc' = "init"
  /\ UNCHANGED <<at, mainVars, srvVars, expired, signalled>>

-----------------------------------------------------------------------------
(* ServeInit: one step per option.                                         *)

\* No router of the name given by -eng.
UnknownEngine ==
  /\ pc = "register"
  /\ pc' = "exited"
  /\ UNCHANGED <<at, mainVars, srvVars, expired, signalled>>

\* The option returns a Closed or nil, and may have added a server.
RunOption(hasClosed, added) ==
  LET m == options[at + 1] IN
  /\ pc = "init"
  /\ at < Len(options)
  /\ at' = at + 1
  /\ closeds' = IF hasClosed THEN Append(closeds, m) ELSE closeds
  /\ servers' = servers \o added
  /\ UNCHANGED <<pc, key, options, abort, inited, ran, srvVars, expired,
                 signalled>>

\* Mutant: the reversal is forgotten.
Unwind_Forgotten(s) == s

Unwind(s) == Reversed(s)
AbortedInit == "exited"

InitDone ==
  /\ pc = "init"
  /\ at = Len(options)
  /\ closeds' = Unwind(closeds)
  /\ inited' = TRUE
  /\ pc' = "boot"
  /\ at' = 0
  /\ UNCHANGED <<key, options, servers, abort, ran, srvVars, expired, signalled>>

\* The option calls ServeStop, which closes what was registered so far, and
\* returns nil, as every option of the repository does after that; ServeInit
\* finds _abort and returns false.
OptionAborts ==
  /\ pc = "init"
  /\ at < Len(options)
  /\ at' = 0
  /\ abort' = TRUE
  /\ ran' = closeds
  /\ pc' = AbortedInit
  /\ UNCHANGED <<key, options, closeds, servers, inited, srvVars, expired,
                 signalled>>

\* The option asks SvcKit.Inj for a service that is not there: os.Exit(1).
OptionExits ==
  /\ pc = "init"
  /\ at < Len(options)
  /\ pc' = "dead"
  /\ UNCHANGED <<at, mainVars, srvVars, expired, signalled>>

-----------------------------------------------------------------------------
(* RunServe and WaitFor.                                                   *)

Boot ==
  /\ pc = "boot"
  /\ IF at < Len(servers)
     THEN /\ at' = at + 1
          /\ srv' = [srv EXCEPT ![servers[at + 1]] = "booted"]
          /\ UNCHANGED pc
     ELSE /\ at' = 0
          /\ pc' = IF servers = <<>> THEN "closing" ELSE "notify"
          /\ UNCHANGED srv
  /\ UNCHANGED <<mainVars, inShut, busy, expired, signalled>>

Notify ==
  /\ pc = "notify"
  /\ pc' = "wait"
  /\ UNCHANGED <<at, mainVars, srvVars, expired, signalled>>

\* A signal ends the program by itself until signal.Notify was called; later
\* ones than the first are dropped.
Signal ==
  /\ Alive
  /\ ~signalled
  /\ signalled' = TRUE
  /\ pc' = IF pc = "wait" THEN "shutdown"
           ELSE IF pc \in {"shutdown", "draining", "closing", "modules"} THEN pc
           ELSE "killed"
  /\ UNCHANGED <<at, mainVars, srvVars, expired>>

StopListening(s) ==
  srv' = [srv EXCEPT ![s] = IF @ = "listening" THEN "returned" ELSE @]

\* Mutant: only the listener is closed.
StopAccepting_ListenerOnly(s) ==
  /\ IF KindOf[s] = "bee" THEN UNCHANGED srv ELSE StopListening(s)
  /\ UNCHANGED inShut

\* What Shutdown does at once: an http server and a listening cat stop to
\* accept; a cat that does not listen yet is left alone; a bee is sent SIGTERM.
StopAccepting(s) ==
  /\ IF KindOf[s] = "bee" THEN UNCHANGED srv ELSE StopListening(s)
  /\ inShut' = [inShut EXCEPT ![s] = KindOf[s] = "http"]

ShutdownNext ==
  /\ pc = "shutdown"
  /\ IF at < Len(servers)
     THEN /\ pc' = "draining"
          /\ at' = at + 1
          /\ StopAccepting(servers[at + 1])
     ELSE /\ pc' = "closing"
          /\ at' = 0
          /\ UNCHANGED <<srv, inShut>>
  /\ UNCHANGED <<mainVars, busy, expired, signalled>>

\* Shutdown of an http server returns when its requests are done ...
Drained ==
  LET s == servers[at] IN
  /\ pc = "draining"
  /\ KindOf[s] = "http" => ~busy[s]
  /\ pc' = "shutdown"
  /\ UNCHANGED <<at, mainVars, srvVars, expired, signalled>>

\* Mutant: the context has no deadline.
Deadline_Never == FALSE

Deadline == TRUE

\* ... or at the deadline, which all the servers share.
DrainExpires ==
  /\ pc = "draining"
  /\ Deadline
  /\ expired' = TRUE
  /\ pc' = "shutdown"
  /\ UNCHANGED <<at, mainVars, srvVars, signalled>>

\* The deferred ServeStop, unless it was called before.
ServeStop ==
  /\ pc = "closing"
  /\ abort' = TRUE
  /\ pc' = IF abort THEN "exited" ELSE "modules"
  /\ UNCHANGED <<at, key, options, closeds, servers, inited, ran, srvVars,
                 expired, signalled>>

\* Mutant: the last Closed is not called.
MoreToClose_ButOne == at + 1 < Len(closeds)

MoreToClose == at < Len(closeds)

\* Every Closed is called in turn, then main returns.
CloseModule ==
  /\ pc = "modules"
  /\ MoreToClose
  /\ at' = at + 1
  /\ ran' = Append(ran, closeds[at + 1])
  /\ UNCHANGED <<pc, key, options, closeds, servers, abort, inited, srvVars,
                 expired, signalled>>

Exit ==
  /\ pc = "modules"
  /\ ~MoreToClose
  /\ pc' = "exited"
  /\ UNCHANGED <<at, mainVars, srvVars, expired, signalled>>

-----------------------------------------------------------------------------
(* The goroutine of a server, and its requests.                            *)

\* ListenAndServe refuses when Shutdown came first; a cat listens all the same.
\* A bee listens when its child runs.
Listen(s) ==
  /\ Alive
  /\ srv[s] = "booted"
  /\ srv' = [srv EXCEPT ![s] = IF inShut[s] THEN "returned" ELSE "listening"]
  /\ UNCHANGED <<pc, at, mainVars, inShut, busy, expired, signalled>>

\* The address is in use, the child does not start: servez and the bee call
\* os.Exit(1), the cat only returns.
ListenFails(s) ==
  /\ Alive
  /\ srv[s] = "booted" /\ ~inShut[s]
  /\ srv' = [srv EXCEPT ![s] = "returned"]
  /\ pc' = IF KindOf[s] = "cat" THEN pc ELSE "dead"
  /\ UNCHANGED <<at, mainVars, inShut, busy, expired, signalled>>

\* The child of a bee ended by itself: Serve returns nil.
BeeEnds(s) ==
  /\ Alive
  /\ KindOf[s] = "bee"
  /\ srv[s] = "listening"
  /\ srv' = [srv EXCEPT ![s] = "returned"]
  /\ UNCHANGED <<pc, at, mainVars, inShut, busy, expired, signalled>>

Accept(s) ==
  /\ Alive
  /\ KindOf[s] # "bee"
  /\ srv[s] = "listening"
  /\ ~busy[s]
  /\ busy' = [busy EXCEPT ![s] = TRUE]
  /\ UNCHANGED <<pc, at, mainVars, srv, inShut, expired, signalled>>

Finish(s) ==
  /\ Alive
  /\ busy[s]
  /\ busy' = [busy EXCEPT ![s] = FALSE]
  /\ UNCHANGED <<pc, at, mainVars, srv, inShut, expired, signalled>>

\* The program has ended.
Over == ~Alive /\ UNCHANGED vars

MainStep ==
  \/ StartInit \/ UnknownEngine \/ OptionExits
  \/ \E b \in BOOLEAN : RunOption(b, <<>>)
  \/ \E b \in BOOLEAN, s \in Servers :
       ~InSeq(servers, s) /\ RunOption(b, <<s>>)
  \/ InitDone \/ OptionAborts
  \/ Boot \/ Notify \/ ShutdownNext \/ Drained \/ DrainExpires
  \/ ServeStop \/ CloseModule \/ Exit

ServerStep(s) == Listen(s) \/ ListenFails(s)

Next ==
  \/ \E m \in Modules, k \in Keys : Register(m, k)
  \/ MainStep
  \/ Signal
  \/ \E s \in Servers : ServerStep(s) \/ BeeEnds(s) \/ Accept(s) \/ Finish(s)
  \/ Over

Spec == Init /\ [][Next]_vars

\* The main goroutine runs and the deadline comes; a request may take for ever
\* and nobody has to send a signal.
FairSpec == Spec /\ WF_vars(MainStep) /\ \A s \in Servers : WF_vars(ServerStep(s))

-----------------------------------------------------------------------------
(* Properties. *)

Position(s, x) == CHOOSE i \in DOMAIN s : s[i] = x

\* Modules are closed last in, first out: a module that ServeInit ran later, and
\* that may use the services of an earlier one, is closed before it.
LastInFirstOut ==
  inited => \A i, j \in DOMAIN ran :
    i < j => Position(options, ran[i]) > Position(options, ran[j])

\* No module is closed twice, and when main returns every module that gave a
\* Closed has been closed, also when an option aborted the start.
ClosedAll ==
  /\ \A i, j \in DOMAIN ran : ran[i] = ran[j] => i = j
  /\ pc = "exited" => {ran[i] : i \in DOMAIN ran} = {closeds[i] : i \in DOMAIN closeds}

\* After an abort nothing is booted: no server ever runs beside closed modules.
AbortBootsNothing == abort /\ ~inited => \A s \in Servers : srv[s] = "none"

\* Every module that was started is closed, once, and nothing is booted after an
\* abort (ServeInit and ServeStop), in every state of the types the code can be in.
ClosedOnce == TypeOK /\ ClosedAll /\ AbortBootsNothing

\* When the first module is closed no http server accepts any more, booted late
\* or not, and the only requests left are those the deadline cut off.
HttpBeforeModules ==
  ran # <<>> =>
    \A s \in Servers : KindOf[s] = "http" =>
      srv[s] # "listening" /\ (busy[s] => expired)

\* A signal ends the program, whatever the requests and the children do.
SignalEnds == signalled ~> ~Alive
=============================================================================
