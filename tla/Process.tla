------------------------------- MODULE Process -------------------------------
(***************************************************************************)
(* The process controller of z/ze/proc/process.go: one child process at a  *)
(* time, started, stopped, awaited and restarted by any number of callers. *)
(*                                                                         *)
(* Each successful enforce() starts a new generation g of the child: an    *)
(* exec.Cmd, a done channel and a waiting function belong to it.  p.cmd    *)
(* and p.done hold the number of a generation, 0 standing for nil.  A      *)
(* critical section of p.mu is one action; what a caller or a goroutine    *)
(* does between two critical sections (system calls, selects) are actions  *)
(* of their own, so the steps of the callers, of the waiting function, of  *)
(* the goroutine Stop leaves behind and of the operating system interleave.*)
(***************************************************************************)
EXTENDS Integers, FiniteSets

CONSTANTS
  Callers,   \* the goroutines that call the controller
  MaxGen,    \* bound: how many generations may be started
  Piped,     \* TRUE when the logger is not an *os.File: exec.Cmd copies the
             \* output through a pipe and Wait returns only at its end
  Forks      \* TRUE when the child may leave descendants in its group

ASSUME ProcessAssumption ==
  /\ MaxGen \in Nat \ {0}
  /\ Piped \in BOOLEAN
  /\ Forks \in BOOLEAN

VARIABLES
  state,     \* p.state
  cmd,       \* p.cmd: the current generation, 0 for nil
  done,      \* p.done: the generation the channel belongs to, 0 for nil
  gens,      \* how many generations were started
  leader,    \* the child process itself, as the kernel sees it
  kids,      \* some descendant of the child lives in its process group
  waiter,    \* where the waiting function of the generation is
  killers,   \* goroutines left by Stop, as <<generation, caller>>
  sigkill,   \* generations whose group was sent SIGKILL
  pc,        \* where the caller is
  op,        \* the method it is in
  tgt,       \* the cmd or the done channel it captured under the lock
  res,       \* what its last call returned, or the error it is about to return
  before     \* history: p.cmd when the call began

lifeVars == <<state, cmd, done, gens>>
osVars   == <<leader, kids, waiter>>
callVars == <<pc, op, tgt, res, before>>
vars == <<lifeVars, osVars, killers, sigkill, callVars>>

Gens == 1 .. MaxGen
Ops  == {"Start", "Serve", "Stop", "Wait", "Restart"}
PCs  == {"idle", "enforce", "serve", "stop", "getpgid", "term", "undo",
         "wait", "select"}
Results == {"none", "ok", "already running", "not running", "start error",
            "esrch", "eperm", "timeout"}

TypeOK ==
  /\ state \in {"running", "stopped", "stopping"}
  /\ cmd \in 0 .. MaxGen
  /\ done \in 0 .. MaxGen
  /\ gens \in 0 .. MaxGen
  /\ leader \in [Gens -> {"none", "alive", "zombie", "reaped"}]
  /\ kids \in [Gens -> BOOLEAN]
  /\ waiter \in [Gens -> {"none", "reap", "drain", "mark", "closed"}]
  /\ killers \subseteq Gens \X Callers
  /\ sigkill \subseteq Gens
  /\ pc \in [Callers -> PCs]
  /\ op \in [Callers -> Ops \cup {"none"}]
  /\ tgt \in [Callers -> 0 .. MaxGen]
  /\ res \in [Callers -> Results]
  /\ before \in [Callers -> 0 .. MaxGen]

Init ==
  /\ state = "stopped"
  /\ cmd = 0
  /\ done = 0
  /\ gens = 0
  /\ leader = [g \in Gens |-> "none"]
  /\ kids = [g \in Gens |-> FALSE]
  /\ waiter = [g \in Gens |-> "none"]
  /\ killers = {}
  /\ sigkill = {}
  /\ pc = [t \in Callers |-> "idle"]
  /\ op = [t \in Callers |-> "none"]
  /\ tgt = [t \in Callers |-> 0]
  /\ res = [t \in Callers |-> "none"]
  /\ before = [t \in Callers |-> 0]

-----------------------------------------------------------------------------
(* What a caller's step does with its own variables. *)

\* It goes on at the label, holding the cmd or the channel of generation g.
Goto(t, label, g) ==
  /\ pc' = [pc EXCEPT ![t] = label]
  /\ tgt' = [tgt EXCEPT ![t] = g]
  /\ UNCHANGED <<op, res, before>>

\* It returns r; its locals are gone.
Return(t, r) ==
  /\ pc' = [pc EXCEPT ![t] = "idle"]
  /\ res' = [res EXCEPT ![t] = r]
  /\ op' = [op EXCEPT ![t] = "none"]
  /\ tgt' = [tgt EXCEPT ![t] = 0]
  /\ before' = [before EXCEPT ![t] = 0]

\* Stop returns: Restart goes on to Wait after nil and after ErrNotRunning.
StopReturns(t, r) ==
  IF op[t] = "Restart" /\ r \in {"ok", "not running"}
  THEN Goto(t, "wait", 0)
  ELSE Return(t, r)

\* Wait returns: Restart goes on to Start after nil only.
WaitReturns(t, r) ==
  IF op[t] = "Restart" /\ r = "ok" THEN Goto(t, "enforce", 0) ELSE Return(t, r)

\* Stop got the error e and still has to restore the state.
Fail(t, e) ==
  /\ pc' = [pc EXCEPT ![t] = "undo"]
  /\ res' = [res EXCEPT ![t] = e]
  /\ UNCHANGED <<op, tgt, before>>

\* The close of the generation's done channel was reached.
Closed(g) == waiter[g] = "closed"

\* kill(-pgid, ...) finds a process, a zombie included.
GroupExists(g) == leader[g] \in {"alive", "zombie"} \/ kids[g]

-----------------------------------------------------------------------------
(* The methods. *)

Entry(o) ==
  IF o \in {"Start", "Serve"} THEN "enforce"
  ELSE IF o = "Wait" THEN "wait" ELSE "stop"

Call(t, o) ==
  /\ pc[t] = "idle"
  /\ pc' = [pc EXCEPT ![t] = Entry(o)]
  /\ op' = [op EXCEPT ![t] = o]
  /\ res' = [res EXCEPT ![t] = "none"]
  /\ before' = [before EXCEPT ![t] = cmd]
  /\ UNCHANGED <<lifeVars, osVars, killers, sigkill, tgt>>

\* enforce(), all of it under p.mu: refuse, fail to start, or start.
EnforceRefuses(t) ==
  /\ pc[t] = "enforce"
  /\ state # "stopped"
  /\ Return(t, "already running")
  /\ UNCHANGED <<lifeVars, osVars, killers, sigkill>>

EnforceFails(t) ==
  /\ pc[t] = "enforce"
  /\ state = "stopped"
  /\ Return(t, "start error")
  /\ UNCHANGED <<lifeVars, osVars, killers, sigkill>>

Launch(t) ==
  LET g == gens + 1 IN
  /\ gens < MaxGen
  /\ gens' = g
  /\ cmd' = g
  /\ done' = g
  /\ state' = "running"
  /\ leader' = [leader EXCEPT ![g] = "alive"]
  /\ waiter' = [waiter EXCEPT ![g] = "reap"]
  /\ IF op[t] = "Serve" THEN Goto(t, "serve", g) ELSE Return(t, "ok")
  /\ UNCHANGED <<kids, killers, sigkill>>

\* Mutant: only a running process is in the way.
EnforceStarts_UnlessRunning(t) ==
  /\ pc[t] = "enforce"
  /\ state # "running"
  /\ Launch(t)

EnforceStarts(t) ==
  /\ pc[t] = "enforce"
  /\ state = "stopped"
  /\ Launch(t)

\* Serve runs the waiting function itself and returns when it is through.
ServeReturns(t) ==
  /\ pc[t] = "serve"
  /\ Closed(tgt[t])
  /\ Return(t, "ok")
  /\ UNCHANGED <<lifeVars, osVars, killers, sigkill>>

\* Stop's critical section.
StopNotRunning(t) ==
  /\ pc[t] = "stop"
  /\ cmd = 0 \/ state = "stopped"
  /\ StopReturns(t, "not running")
  /\ UNCHANGED <<lifeVars, osVars, killers, sigkill>>

StopAlready(t) ==
  /\ pc[t] = "stop"
  /\ cmd # 0 /\ state = "stopping"
  /\ StopReturns(t, "ok")
  /\ UNCHANGED <<lifeVars, osVars, killers, sigkill>>

StopBegins(t) ==
  /\ pc[t] = "stop"
  /\ cmd # 0 /\ state = "running"
  /\ state' = "stopping"
  /\ Goto(t, "getpgid", cmd)
  /\ UNCHANGED <<cmd, done, gens, osVars, killers, sigkill>>

\* syscall.Getpgid knows the pid until the child is reaped.
Getpgid(t) ==
  /\ pc[t] = "getpgid"
  /\ IF leader[tgt[t]] # "reaped" THEN Goto(t, "term", tgt[t])
                                  ELSE Fail(t, "esrch")
  /\ UNCHANGED <<lifeVars, osVars, killers, sigkill>>

\* kill(-pgid, SIGTERM): on success Stop leaves a goroutine behind and returns.
TermSent(t) ==
  /\ pc[t] = "term"
  /\ GroupExists(tgt[t])
  /\ killers' = killers \cup {<<tgt[t], t>>}
  /\ StopReturns(t, "ok")
  /\ UNCHANGED <<lifeVars, osVars, sigkill>>

TermFails(t) ==
  /\ pc[t] = "term"
  /\ Fail(t, IF GroupExists(tgt[t]) THEN "eperm" ELSE "esrch")
  /\ UNCHANGED <<lifeVars, osVars, killers, sigkill>>

\* Mutants: any generation is taken for the one Stop captured, or any state
\* for the one Stop set.
RestoreRunning_AnyCmd(g) == state' = IF state = "stopping" THEN "running" ELSE state
RestoreRunning_AnyState(g) == state' = "running"

RestoreRunning(g) ==
  state' = IF cmd = g /\ state = "stopping" THEN "running" ELSE state

\* restoreRunning(cmd), then the error is returned.
Undo(t) ==
  /\ pc[t] = "undo"
  /\ RestoreRunning(tgt[t])
  /\ Return(t, res[t])
  /\ UNCHANGED <<cmd, done, gens, osVars, killers, sigkill>>

\* Mutant: a process that is being stopped passes for a stopped one.
WaitBegins_UnlessRunning(t) ==
  /\ pc[t] = "wait"
  /\ IF state # "running" THEN WaitReturns(t, "ok") ELSE Goto(t, "select", done)
  /\ UNCHANGED <<lifeVars, osVars, killers, sigkill>>

\* Wait reads done and state under the lock and decides after it.
WaitBegins(t) ==
  /\ pc[t] = "wait"
  /\ \/ state = "stopped" /\ WaitReturns(t, "ok")
     \/ state # "stopped" /\ done = 0 /\ WaitReturns(t, "not running")
     \/ state # "stopped" /\ done # 0 /\ Goto(t, "select", done)
  /\ UNCHANGED <<lifeVars, osVars, killers, sigkill>>

\* The select of Wait: when both are ready Go takes either.
WaitDone(t) ==
  /\ pc[t] = "select"
  /\ Closed(tgt[t])
  /\ WaitReturns(t, "ok")
  /\ UNCHANGED <<lifeVars, osVars, killers, sigkill>>

\* Mutant: no timer.
WaitTimeout_Never(t) == FALSE

WaitTimeout(t) ==
  /\ pc[t] = "select"
  /\ WaitReturns(t, "timeout")
  /\ UNCHANGED <<lifeVars, osVars, killers, sigkill>>

-----------------------------------------------------------------------------
(* The waiting function of a generation: cmd.Wait, then markStopped.        *)

\* exec.Cmd.Wait reaps the child ...
Reap(g) ==
  /\ waiter[g] = "reap"
  /\ leader[g] = "zombie"
  /\ leader' = [leader EXCEPT ![g] = "reaped"]
  /\ waiter' = [waiter EXCEPT ![g] = "drain"]
  /\ UNCHANGED <<lifeVars, kids, killers, sigkill, callVars>>

\* ... and, with a pipe, waits until nobody holds its writing end.
Drain(g) ==
  /\ waiter[g] = "drain"
  /\ Piped => ~kids[g]
  /\ waiter' = [waiter EXCEPT ![g] = "mark"]
  /\ UNCHANGED <<lifeVars, leader, kids, killers, sigkill, callVars>>

\* Mutant: the end of the child has a state of its own.
Forget_Exited(g) == cmd' = 0 /\ done' = 0 /\ state' = "exited"

Forget(g) ==
  IF cmd = g
  THEN /\ cmd' = 0
       /\ done' = 0
       /\ state' = "stopped"
  ELSE UNCHANGED <<cmd, done, state>>

MarkStopped(g) ==
  /\ waiter[g] = "mark"
  /\ Forget(g)
  /\ waiter' = [waiter EXCEPT ![g] = "closed"]
  /\ UNCHANGED <<gens, leader, kids, killers, sigkill, callVars>>

-----------------------------------------------------------------------------
(* The goroutine Stop leaves behind: select on done and the timer.          *)

KillerDone(g, t) ==
  /\ <<g, t>> \in killers
  /\ Closed(g)
  /\ killers' = killers \ {<<g, t>>}
  /\ UNCHANGED <<lifeVars, osVars, sigkill, callVars>>

\* Mutant: SIGKILL goes to the child alone.
KillGroup_LeaderOnly(g) ==
  /\ leader' = [leader EXCEPT ![g] = IF @ = "alive" THEN "zombie" ELSE @]
  /\ UNCHANGED kids

KillGroup(g) ==
  /\ leader' = [leader EXCEPT ![g] = IF @ = "alive" THEN "zombie" ELSE @]
  /\ kids' = [kids EXCEPT ![g] = FALSE]

KillerFires(g, t) ==
  /\ <<g, t>> \in killers
  /\ killers' = killers \ {<<g, t>>}
  /\ sigkill' = sigkill \cup {g}
  /\ KillGroup(g)
  /\ UNCHANGED <<lifeVars, waiter, callVars>>

-----------------------------------------------------------------------------
(* The child and its descendants; SIGTERM may or may not end them, and they *)
(* may end without it.                                                      *)

ChildForks(g) ==
  /\ Forks
  /\ leader[g] = "alive"
  /\ ~kids[g]
  /\ kids' = [kids EXCEPT ![g] = TRUE]
  /\ UNCHANGED <<lifeVars, leader, waiter, killers, sigkill, callVars>>

ChildExits(g) ==
  /\ leader[g] = "alive"
  /\ leader' = [leader EXCEPT ![g] = "zombie"]
  /\ UNCHANGED <<lifeVars, kids, waiter, killers, sigkill, callVars>>

KidsExit(g) ==
  /\ kids[g]
  /\ kids' = [kids EXCEPT ![g] = FALSE]
  /\ UNCHANGED <<lifeVars, leader, waiter, killers, sigkill, callVars>>

-----------------------------------------------------------------------------
CallerStep(t) ==
  \/ EnforceRefuses(t) \/ EnforceFails(t) \/ EnforceStarts(t)
  \/ ServeReturns(t)
  \/ StopNotRunning(t) \/ StopAlready(t) \/ StopBegins(t)
  \/ Getpgid(t) \/ TermSent(t) \/ TermFails(t) \/ Undo(t)
  \/ WaitBegins(t) \/ WaitDone(t) \/ WaitTimeout(t)

WaiterStep(g) == Reap(g) \/ Drain(g) \/ MarkStopped(g)

KillerStep(g, t) == KillerDone(g, t) \/ KillerFires(g, t)

ChildStep(g) == ChildForks(g) \/ ChildExits(g) \/ KidsExit(g)

Next ==
  \/ \E t \in Callers : CallerStep(t) \/ \E o \in Ops : Call(t, o)
  \/ \E g \in Gens : WaiterStep(g) \/ ChildStep(g)
  \/ \E g \in Gens, t \in Callers : KillerStep(g, t)

Spec == Init /\ [][Next]_vars

\* The Go scheduler runs every runnable goroutine and every timer fires; the
\* child owes nothing, and nobody has to make a call.
Fairness ==
  /\ \A t \in Callers : WF_vars(CallerStep(t))
  /\ \A g \in Gens : WF_vars(WaiterStep(g))
  /\ \A g \in Gens, t \in Callers : WF_vars(KillerStep(g, t))

FairSpec == Spec /\ Fairness

-----------------------------------------------------------------------------
(* Properties. *)

\* Pid(): 0 unless a generation is current.
Pid == IF cmd # 0 /\ state # "stopped" THEN cmd ELSE 0

\* p.state, p.cmd and p.done, which three methods update at different times,
\* never disagree: they name one generation, the last one started, whose
\* done channel is still open, or none; every earlier channel is closed.
Coherent ==
  /\ (state = "stopped") = (cmd = 0)
  /\ done = cmd
  /\ Pid # 0 => Pid = gens
  /\ \A g \in 1 .. gens : Closed(g) = (g # cmd)

\* A generation is in the way of the next one: its child is not reaped yet or,
\* with a pipe, a descendant still writes into the logger.
Occupied(g) ==
  \/ leader[g] \in {"alive", "zombie"}
  \/ Piped /\ kids[g]

\* However Start, Serve, Stop and Restart interleave with exits and signals,
\* two generations never run at the same time.
OneGeneration == \A g, h \in Gens : Occupied(g) /\ Occupied(h) => g = h

\* A Stop that fails never takes back the Stop that sent SIGTERM: as long as
\* the goroutine for the current generation is armed, the state stays
\* "stopping", and no second goroutine exists for that generation.
SignalledStaysStopping ==
  \A k \in killers :
    /\ \A j \in killers : j[1] = k[1] => j = k
    /\ ~Closed(k[1]) => cmd = k[1] /\ state = "stopping"

\* The call of t returns r in this step.
Returns(t, o, r) == op[t] = o /\ pc'[t] = "idle" /\ res'[t] = r

\* Wait returns nil only when the generation that was current when it was
\* called is over, even if others stopped and restarted it in the meantime.
WaitSoundStep ==
  \A t \in Callers :
    Returns(t, "Wait", "ok") /\ before[t] # 0 => Closed(before[t])

WaitSound == [][WaitSoundStep]_vars

\* Restart succeeds only by launching a generation of its own, and only when
\* the one it found, and every one launched since, is over.
RestartReplacesStep ==
  \A t \in Callers :
    Returns(t, "Restart", "ok") =>
      /\ cmd' = gens + 1
      /\ before[t] # 0 => Closed(before[t])
      /\ \A g \in Gens : ~Occupied(g)

RestartReplaces == [][RestartReplacesStep]_vars

\* A closed done channel is final and a generation that was over stays over:
\* no interleaving of a late Stop, Undo or MarkStopped brings it back.
OverIsFinalStep == \A g \in Gens : Closed(g) => Closed(g)' /\ cmd' # g

OverIsFinal == [][OverIsFinalStep]_vars

\* Once SIGTERM was sent the generation ends, whether it obeys or not.
StopCompletes ==
  \A g \in Gens : (\E t \in Callers : <<g, t>> \in killers) ~> Closed(g)

\* Stop, Wait, Start and Restart always return, whatever the child does.
CallsReturn ==
  \A t \in Callers : pc[t] \notin {"idle", "serve"} ~> pc[t] \in {"idle", "serve"}

-----------------------------------------------------------------------------
(* The controller implements its promise.                                  *)

Promise == INSTANCE Supervisor WITH
  status <- state, current <- cmd, launched <- gens,
  over <- {g \in Gens : Closed(g)}

\* Every step of the controller is a step of the abstract supervisor or leaves
\* it alone: a generation is launched only when all earlier ones are over.
ImplementsSupervisor == Promise!Spec

=============================================================================
