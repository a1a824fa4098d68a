------------------------------ MODULE EbpfServer ------------------------------
(***************************************************************************)
(* The Go monitor as a server (app/ebpfgo/server.go and the ends of        *)
(* monitor.go): RunServe loads the programs, opens the packet socket,      *)
(* attaches the probes and reads, Shutdown takes all of it away at any     *)
(* moment.  The descriptor of the socket is a number the rest of the       *)
(* program may get again once it is closed.                                *)
(***************************************************************************)
EXTENDS Integers, FiniteSets

CONSTANTS
  Runners,   \* goroutines that call RunServe
  Stoppers,  \* goroutines that call Shutdown
  Fds,       \* descriptors, numbers from 1
  Probes     \* how many probes are attached, one after the other

Nobody == "nobody"
NoFd == -1
Nothing == [sock |-> NoFd, links |-> 0, objs |-> FALSE]

VARIABLES
  mu,        \* who holds s.mu
  started, closed,
  canceled,  \* s.ctx
  server,    \* s.rawSock, s.links, s.objs
  table,     \* what each descriptor is: "free", the packet "socket" or of "others"
  probes,    \* probes attached in the kernel
  loaded,    \* the collection is in the kernel
  run,       \* where RunServe is
  mine,      \* what loadBPF holds that the server does not know yet, what
             \* cleanup took from it, and the number Recvfrom is called with
  stop,      \* where Shutdown is
  taken,     \* what it took from the server
  failed,    \* history: something outside failed
  exited     \* z.Exit

serverVars == <<mu, started, closed, canceled, server>>
kernelVars == <<table, probes, loaded>>
runVars == <<run, mine>>
stopVars == <<stop, taken>>
endVars == <<failed, exited>>
vars == <<serverVars, kernelVars, runVars, stopVars, endVars>>

Init ==
  /\ mu = Nobody /\ server = Nothing
  /\ started = FALSE /\ closed = FALSE /\ canceled = FALSE
  /\ table = [fd \in Fds |-> "free"] /\ probes = 0 /\ loaded = FALSE
  /\ run = [r \in Runners |-> "idle"] /\ mine = [r \in Runners |-> Nothing]
  /\ stop = [s \in Stoppers |-> "idle"] /\ taken = [s \in Stoppers |-> Nothing]
  /\ failed = FALSE /\ exited = FALSE

Goto(r, from, to) == ~exited /\ run[r] = from /\ run' = [run EXCEPT ![r] = to]
StopGoto(s, from, to) == ~exited /\ stop[s] = from /\ stop' = [stop EXCEPT ![s] = to]

Closed(fd) == [table EXCEPT ![fd] = "free"]

-----------------------------------------------------------------------------
(* RunServe.                                                               *)

RunServe(r) ==
  /\ mu = Nobody
  /\ Goto(r, "idle", IF started THEN "over" ELSE "load")
  /\ started' = TRUE
  /\ UNCHANGED <<mu, closed, canceled, server, kernelVars, mine, stopVars, endVars>>

\* loadBPF: the collection, its configuration.
Load(r) ==
  /\ Goto(r, "load", "socket")
  /\ loaded' = TRUE
  /\ mine' = [mine EXCEPT ![r].objs = TRUE]
  /\ UNCHANGED <<serverVars, table, probes, stopVars, endVars>>

\* openPacketSocket and its filter.
OpenSocket(r) ==
  /\ Goto(r, "socket", "attach")
  /\ \E fd \in Fds :
       /\ table[fd] = "free"
       /\ table' = [table EXCEPT ![fd] = "socket"]
       /\ mine' = [mine EXCEPT ![r].sock = fd]
  /\ UNCHANGED <<serverVars, probes, loaded, stopVars, endVars>>

\* attachProbeLinks, one probe.
Attach(r) ==
  /\ mine[r].links < Probes
  /\ Goto(r, "attach", "attach")
  /\ probes' = probes + 1
  /\ mine' = [mine EXCEPT ![r].links = @ + 1]
  /\ UNCHANGED <<serverVars, table, loaded, stopVars, endVars>>

\* What an error of loadBPF takes back.
Undo(r) ==
  /\ table' = IF mine[r].sock = NoFd THEN table ELSE Closed(mine[r].sock)
  /\ probes' = probes - mine[r].links
  /\ loaded' = FALSE

\* The error goes up to RunServe, which exits.
LoadFails(r) ==
  /\ run[r] \in {"load", "socket", "attach"} /\ mine[r].links < Probes
  /\ Goto(r, run[r], "over")
  /\ Undo(r)
  /\ mine' = [mine EXCEPT ![r] = Nothing]
  /\ failed' = TRUE /\ exited' = TRUE
  /\ UNCHANGED <<serverVars, stopVars>>

\* Now the server has it, and reading begins once /proc was read.
Hand(r) ==
  /\ mine[r].links = Probes /\ mu = Nobody
  /\ Goto(r, "attach", "select")
  /\ server' = mine[r]
  /\ mine' = [mine EXCEPT ![r] = Nothing]
  /\ UNCHANGED <<mu, started, closed, canceled, kernelVars, stopVars, endVars>>

-----------------------------------------------------------------------------
(* readLoop.                                                               *)

Done == canceled

Select(r) ==
  /\ Goto(r, "select", IF Done THEN "cleanup" ELSE "number")
  /\ UNCHANGED <<serverVars, kernelVars, mine, stopVars, endVars>>

\* s.rawSock is read without the lock.
Number(r) ==
  /\ Goto(r, "number", "recv")
  /\ mine' = [mine EXCEPT ![r].sock = server.sock]
  /\ UNCHANGED <<serverVars, kernelVars, stopVars, endVars>>

\* A packet, which is handled, or nothing for 50 ms.
Recv(r) ==
  /\ mine[r].sock \in Fds /\ table[mine[r].sock] # "free"
  /\ Goto(r, "recv", "select")
  /\ UNCHANGED <<serverVars, kernelVars, mine, stopVars, endVars>>

\* Whether an error of Recvfrom is one of the server.
Errs == ~canceled

\* The descriptor is closed or no socket, or the device fails.
RecvFails(r) ==
  /\ Goto(r, "recv", IF Errs THEN "fail" ELSE "cleanup")
  /\ LET fd == mine[r].sock IN
     failed' = (failed \/ (fd \in Fds /\ table[fd] = "socket"))
  /\ UNCHANGED <<serverVars, kernelVars, mine, stopVars, exited>>

\* cleanup takes what the server still has.
CleanupTakes(r) ==
  /\ mu = Nobody
  /\ \E end \in {"cleanup", "fail"} :
       Goto(r, end, IF end = "fail" THEN "failClose" ELSE "close")
  /\ table' = IF server.sock # NoFd THEN Closed(server.sock) ELSE table
  /\ mine' = [mine EXCEPT ![r] = [server EXCEPT !.sock = NoFd]]
  /\ server' = [server EXCEPT !.sock = NoFd, !.links = 0]
  /\ UNCHANGED <<mu, started, closed, canceled, probes, loaded, stopVars, endVars>>

\* Its deferred return, and the exit of RunServe.
Cleanup(r) ==
  /\ \/ Goto(r, "close", "over") /\ UNCHANGED exited
     \/ Goto(r, "failClose", "over") /\ exited' = TRUE
  /\ probes' = probes - mine[r].links
  /\ loaded' = FALSE
  /\ mine' = [mine EXCEPT ![r] = Nothing]
  /\ UNCHANGED <<serverVars, table, stopVars, failed>>

-----------------------------------------------------------------------------
(* Shutdown.                                                               *)

Shutdown(s) ==
  /\ mu = Nobody
  /\ IF closed
     THEN StopGoto(s, "idle", "over") /\ UNCHANGED <<mu, closed>>
     ELSE StopGoto(s, "idle", "cancel") /\ mu' = s /\ closed' = TRUE
  /\ UNCHANGED <<started, canceled, server, kernelVars, runVars, taken, endVars>>

Cancel(s) ==
  /\ StopGoto(s, "cancel", "socket")
  /\ canceled' = TRUE
  /\ UNCHANGED <<mu, started, closed, server, kernelVars, runVars, taken, endVars>>

CloseSocket(s) ==
  /\ StopGoto(s, "socket", "take")
  /\ table' = IF server.sock # NoFd THEN Closed(server.sock) ELSE table
  /\ UNCHANGED <<serverVars, probes, loaded, runVars, taken, endVars>>

\* Mutant: the links stay those of the server.
Left_Links == [server EXCEPT !.sock = NoFd]

\* What the server has from then on.
Left == [server EXCEPT !.sock = NoFd, !.links = 0]

TakeRest(s) ==
  /\ StopGoto(s, "take", "close")
  /\ taken' = [taken EXCEPT ![s] = server]
  /\ server' = Left
  /\ mu' = Nobody
  /\ UNCHANGED <<started, closed, canceled, kernelVars, runVars, endVars>>

CloseRest(s) ==
  /\ StopGoto(s, "close", "over")
  /\ probes' = probes - taken[s].links
  /\ loaded' = (loaded /\ ~taken[s].objs)
  /\ UNCHANGED <<serverVars, table, runVars, taken, endVars>>

-----------------------------------------------------------------------------

\* The rest of the program opens and closes files.
Others ==
  /\ ~exited
  /\ \E fd \in Fds : \/ table[fd] = "free" /\ table' = [table EXCEPT ![fd] = "others"]
                     \/ table[fd] = "others" /\ table' = Closed(fd)
  /\ UNCHANGED <<serverVars, probes, loaded, runVars, stopVars, endVars>>

RunStep(r) ==
  \/ RunServe(r) \/ Load(r) \/ OpenSocket(r) \/ Attach(r) \/ LoadFails(r) \/ Hand(r)
  \/ Select(r) \/ Number(r) \/ Recv(r) \/ RecvFails(r) \/ CleanupTakes(r) \/ Cleanup(r)

StopStep(s) ==
  \/ Shutdown(s) \/ Cancel(s) \/ CloseSocket(s) \/ TakeRest(s) \/ CloseRest(s)

Next ==
  \/ \E r \in Runners : RunStep(r)
  \/ \E s \in Stoppers : StopStep(s)
  \/ Others

Spec == Init /\ [][Next]_vars

\* Goroutines that run go on.  Nobody needs to call.
FairSpec ==
  /\ Spec
  /\ \A r \in Runners : WF_vars(run[r] # "idle" /\ RunStep(r))
  /\ \A s \in Stoppers : WF_vars(stop[s] # "idle" /\ StopStep(s))

-----------------------------------------------------------------------------
(* Properties. *)

Over == \A r \in Runners : run[r] \in {"idle", "over"}
Stopped == \A s \in Stoppers : stop[s] \in {"idle", "over"}

\* When RunServe is over and no Shutdown is under way, wherever they met,
\* nothing is left in the kernel; and no file of others was closed for it, as
\* the number of the socket is given up with it.
NothingLeft ==
  /\ Over /\ Stopped =>
       /\ probes = 0 /\ ~loaded
       /\ \A fd \in Fds : table[fd] # "socket"
  /\ server.sock # NoFd /\ mu = Nobody => table[server.sock] = "socket"

\* A shutdown does not look like an error: the program only exits from here if
\* something outside has failed.
NoFalseExit == exited => failed

\* Once Shutdown was called, RunServe comes back.
Ends == \A r \in Runners : closed /\ run[r] # "idle" ~> run[r] = "over" \/ exited
=============================================================================
