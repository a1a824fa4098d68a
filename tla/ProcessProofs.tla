---------------------------- MODULE ProcessProofs ----------------------------
(***************************************************************************)
(* Proofs about the process controller, for any number of callers and of   *)
(* generations, with and without a pipe, with and without descendants.     *)
(*                                                                         *)
(* Coherent is not inductive: that a late restoreRunning or a late killer  *)
(* goroutine cannot touch the next generation rests on each generation     *)
(* having at most one stop under way (OneStop), on the waiting function    *)
(* running ahead of the kernel's bookkeeping in a fixed order (Waited) and *)
(* on each caller being where its method can take it (CallerOK).           *)
(***************************************************************************)
EXTENDS Process, TLAPS

\* The caller is between the two critical sections of Stop.
InStop(t) == pc[t] \in {"getpgid", "term", "undo"}

\* Generations that were not started have no child and no waiting function.
Fresh ==
  \A g \in Gens :
    IF g <= gens THEN waiter[g] # "none"
    ELSE waiter[g] = "none" /\ leader[g] = "none" /\ ~kids[g]

\* The child of a waiting function past its first step is reaped, and past its
\* second step nobody holds the pipe.
Waited ==
  \A g \in Gens :
    /\ waiter[g] = "reap" => leader[g] \in {"alive", "zombie"}
    /\ waiter[g] \in {"drain", "mark", "closed"} => leader[g] = "reaped"
    /\ Piped /\ waiter[g] \in {"mark", "closed"} => ~kids[g]

\* A generation has at most one stop under way, be it a caller in Stop or the
\* goroutine it left, and the current one is "stopping" while it has one.
OneStop ==
  /\ \A t \in Callers : InStop(t) =>
       /\ tgt[t] \in 1 .. gens
       /\ tgt[t] = cmd => state = "stopping"
       /\ \A u \in Callers : InStop(u) /\ tgt[u] = tgt[t] => u = t
       /\ \A k \in killers : k[1] # tgt[t]
  /\ \A k \in killers :
       /\ k[1] \in 1 .. gens
       /\ k[1] = cmd => state = "stopping"
       /\ \A j \in killers : j[1] = k[1] => j = k

\* Where a method can be, and what its caller holds there.
CallerOK ==
  \A t \in Callers :
    /\ (pc[t] = "idle") = (op[t] = "none")
    /\ pc[t] = "enforce" => op[t] \in {"Start", "Serve", "Restart"}
    /\ pc[t] = "serve" => op[t] = "Serve"
    /\ pc[t] \in {"stop", "getpgid", "term", "undo"} => op[t] \in {"Stop", "Restart"}
    /\ pc[t] \in {"wait", "select"} => op[t] \in {"Wait", "Restart"}
    /\ pc[t] = "undo" => res[t] \in {"esrch", "eperm"}
    /\ before[t] <= gens
    /\ pc[t] = "select" => tgt[t] \in 1 .. gens /\ before[t] <= tgt[t]

IInv == TypeOK /\ Coherent /\ Fresh /\ Waited /\ OneStop /\ CallerOK

-----------------------------------------------------------------------------
(* The control steps of a caller keep the types of what they touch. *)

CallVarsOK ==
  /\ pc \in [Callers -> PCs]
  /\ op \in [Callers -> Ops \cup {"none"}]
  /\ tgt \in [Callers -> 0 .. MaxGen]
  /\ res \in [Callers -> Results]
  /\ before \in [Callers -> 0 .. MaxGen]

LEMMA GotoType ==
  ASSUME CallVarsOK, NEW t \in Callers, NEW l \in PCs, NEW g \in 0 .. MaxGen,
         Goto(t, l, g)
  PROVE  CallVarsOK'
BY DEF Goto, CallVarsOK

LEMMA ReturnType ==
  ASSUME CallVarsOK, NEW t \in Callers, NEW r \in Results, Return(t, r)
  PROVE  CallVarsOK'
<1>1. "idle" \in PCs /\ 0 \in 0 .. MaxGen
  BY ProcessAssumption DEF PCs
<1> QED BY <1>1 DEF Return, CallVarsOK

LEMMA FailType ==
  ASSUME CallVarsOK, NEW t \in Callers, NEW r \in Results, Fail(t, r)
  PROVE  CallVarsOK'
<1>1. "undo" \in PCs
  BY DEF PCs
<1> QED BY <1>1 DEF Fail, CallVarsOK

LEMMA MethodReturnType ==
  ASSUME CallVarsOK, NEW t \in Callers, NEW r \in Results,
         StopReturns(t, r) \/ WaitReturns(t, r)
  PROVE  CallVarsOK'
<1>1. "wait" \in PCs /\ "enforce" \in PCs /\ 0 \in 0 .. MaxGen
  BY ProcessAssumption DEF PCs
<1> QED BY <1>1, GotoType, ReturnType DEF StopReturns, WaitReturns

LEMMA TypeInit == Init => TypeOK
BY ProcessAssumption DEF Init, TypeOK, PCs, Ops, Results, Gens

LEMMA TypeNext == ASSUME IInv, [Next]_vars PROVE TypeOK'
<1> TypeOK /\ OneStop
  BY DEF IInv
<1> USE ProcessAssumption DEF Gens, lifeVars, osVars, callVars
<1>0. CallVarsOK
  BY DEF CallVarsOK, TypeOK
<1>00. /\ "ok" \in Results /\ "already running" \in Results
       /\ "not running" \in Results /\ "start error" \in Results
       /\ "esrch" \in Results /\ "eperm" \in Results /\ "timeout" \in Results
       /\ "serve" \in PCs /\ "getpgid" \in PCs /\ "term" \in PCs /\ "select" \in PCs
  BY DEF Results, PCs
<1>1. ASSUME NEW t \in Callers, CallerStep(t) PROVE TypeOK'
  <2>1. CASE EnforceRefuses(t)
    BY <2>1, <1>0, <1>00, ReturnType
       DEF EnforceRefuses, TypeOK, CallVarsOK
  <2>2. CASE EnforceFails(t)
    BY <2>2, <1>0, <1>00, ReturnType
       DEF EnforceFails, TypeOK, CallVarsOK
  <2>3. CASE EnforceStarts(t)
    <3>1. gens + 1 \in 1 .. MaxGen /\ gens + 1 \in 0 .. MaxGen
      BY <2>3 DEF EnforceStarts, Launch, TypeOK
    <3>2. Goto(t, "serve", gens + 1) \/ Return(t, "ok")
      BY <2>3 DEF EnforceStarts, Launch
    <3>3. CallVarsOK'
      BY <3>1, <3>2, <1>0, <1>00, GotoType, ReturnType
    <3> QED BY <2>3, <3>1, <3>3 DEF EnforceStarts, Launch, TypeOK, CallVarsOK
  <2>4. CASE ServeReturns(t)
    BY <2>4, <1>0, <1>00, ReturnType
       DEF ServeReturns, TypeOK, CallVarsOK
  <2>5. CASE StopNotRunning(t)
    BY <2>5, <1>0, <1>00, MethodReturnType
       DEF StopNotRunning, TypeOK, CallVarsOK
  <2>6. CASE StopAlready(t)
    BY <2>6, <1>0, <1>00, MethodReturnType
       DEF StopAlready, TypeOK, CallVarsOK
  <2>7. CASE StopBegins(t)
    BY <2>7, <1>0, <1>00, GotoType
       DEF StopBegins, TypeOK, CallVarsOK
  <2>8. CASE Getpgid(t)
    BY <2>8, <1>0, <1>00, GotoType, FailType
       DEF Getpgid, TypeOK, CallVarsOK
  <2>9. CASE TermSent(t)
    <3>1. <<tgt[t], t>> \in Gens \X Callers
      BY <2>9 DEF TermSent, OneStop, InStop, TypeOK
    <3> QED BY <3>1, <2>9, <1>0, <1>00, MethodReturnType
       DEF TermSent, TypeOK, CallVarsOK
  <2>10. CASE TermFails(t)
    BY <2>10, <1>0, <1>00, FailType
       DEF TermFails, TypeOK, CallVarsOK
  <2>11. CASE Undo(t)
    BY <2>11, <1>0, <1>00, ReturnType
       DEF Undo, RestoreRunning, TypeOK, CallVarsOK
  <2>12. CASE WaitBegins(t)
    BY <2>12, <1>0, <1>00, MethodReturnType, GotoType
       DEF WaitBegins, TypeOK, CallVarsOK
  <2>13. CASE WaitDone(t)
    BY <2>13, <1>0, <1>00, MethodReturnType
       DEF WaitDone, TypeOK, CallVarsOK
  <2>14. CASE WaitTimeout(t)
    BY <2>14, <1>0, <1>00, MethodReturnType
       DEF WaitTimeout, TypeOK, CallVarsOK
  <2> QED BY <1>1, <2>1, <2>2, <2>3, <2>4, <2>5, <2>6, <2>7, <2>8, <2>9,
             <2>10, <2>11, <2>12, <2>13, <2>14 DEF CallerStep
<1>2. ASSUME NEW t \in Callers, NEW o \in Ops, Call(t, o) PROVE TypeOK'
  BY <1>2 DEF Call, Entry, TypeOK, PCs, Ops, Results
<1>3. ASSUME NEW g \in Gens, WaiterStep(g) PROVE TypeOK'
  <2>1. CASE Reap(g)  BY <2>1, <1>3 DEF Reap, TypeOK
  <2>2. CASE Drain(g) BY <2>2, <1>3 DEF Drain, TypeOK
  <2>3. CASE MarkStopped(g)
    BY <2>3, <1>3 DEF MarkStopped, Forget, TypeOK
  <2> QED BY <1>3, <2>1, <2>2, <2>3 DEF WaiterStep
<1>4. ASSUME NEW g \in Gens, ChildStep(g) PROVE TypeOK'
  BY <1>4 DEF ChildStep, ChildForks, ChildExits, KidsExit, TypeOK
<1>5. ASSUME NEW g \in Gens, NEW t \in Callers, KillerStep(g, t) PROVE TypeOK'
  BY <1>5 DEF KillerStep, KillerDone, KillerFires, KillGroup, TypeOK
<1>6. CASE UNCHANGED vars
  BY <1>6 DEF vars, TypeOK
<1> QED BY <1>1, <1>2, <1>3, <1>4, <1>5, <1>6 DEF Next

-----------------------------------------------------------------------------
(* The fields of the controller and the waiting functions.                 *)

LifeInv == Coherent /\ Fresh /\ Waited

LEMMA LifeNext == ASSUME IInv, [Next]_vars PROVE LifeInv'
<1> TypeOK /\ Coherent /\ Fresh /\ Waited
  BY DEF IInv
<1> USE ProcessAssumption DEF Gens, lifeVars, osVars, callVars,
                              LifeInv, Coherent, Fresh, Waited, Closed, Pid
<1>1. ASSUME UNCHANGED lifeVars, UNCHANGED osVars PROVE LifeInv'
  BY <1>1
<1>2. ASSUME NEW t \in Callers, CallerStep(t) PROVE LifeInv'
  <2>1. CASE EnforceStarts(t)
    BY <2>1 DEF EnforceStarts, Launch, TypeOK
  <2>2. CASE StopBegins(t)
    BY <2>2 DEF StopBegins, TypeOK
  <2>3. CASE Undo(t)
    BY <2>3 DEF Undo, RestoreRunning, TypeOK
  <2>4. CASE UNCHANGED <<lifeVars, osVars>>
    BY <2>4, <1>1
  <2> QED BY <1>2, <2>1, <2>2, <2>3, <2>4
          DEF CallerStep, EnforceRefuses, EnforceFails, ServeReturns,
              StopNotRunning, StopAlready, Getpgid, TermSent, TermFails,
              WaitBegins, WaitDone, WaitTimeout
<1>3. ASSUME NEW t \in Callers, NEW o \in Ops, Call(t, o) PROVE LifeInv'
  BY <1>3, <1>1 DEF Call
<1>4. ASSUME NEW g \in Gens, WaiterStep(g) PROVE LifeInv'
  <2>1. CASE Reap(g)        BY <2>1 DEF Reap, TypeOK
  <2>2. CASE Drain(g)       BY <2>2 DEF Drain, TypeOK
  <2>3. CASE MarkStopped(g) BY <2>3 DEF MarkStopped, Forget, TypeOK
  <2> QED BY <1>4, <2>1, <2>2, <2>3 DEF WaiterStep
<1>5. ASSUME NEW g \in Gens, ChildStep(g) PROVE LifeInv'
  <2>1. CASE ChildForks(g) BY <2>1 DEF ChildForks, TypeOK
  <2>2. CASE ChildExits(g) BY <2>2 DEF ChildExits, TypeOK
  <2>3. CASE KidsExit(g)   BY <2>3 DEF KidsExit, TypeOK
  <2> QED BY <1>5, <2>1, <2>2, <2>3 DEF ChildStep
<1>6. ASSUME NEW g \in Gens, NEW t \in Callers, KillerStep(g, t) PROVE LifeInv'
  <2>1. CASE KillerDone(g, t)
    BY <2>1, <1>1 DEF KillerDone
  <2>2. CASE KillerFires(g, t)
    <3>1. leader[g] \in {"alive", "zombie"} => leader'[g] = "zombie"
      BY <2>2 DEF KillerFires, KillGroup, TypeOK
    <3>2. leader[g] \notin {"alive", "zombie"} => leader'[g] = leader[g]
      BY <2>2 DEF KillerFires, KillGroup, TypeOK
    <3>3. \A h \in Gens \ {g} : leader'[h] = leader[h] /\ kids'[h] = kids[h]
      BY <2>2 DEF KillerFires, KillGroup, TypeOK
    <3>4. ~kids'[g] /\ UNCHANGED <<lifeVars, waiter>>
      BY <2>2 DEF KillerFires, KillGroup, TypeOK
    <3>5. Coherent'
      BY <3>4
    <3>6. Fresh'
      BY <3>1, <3>2, <3>3, <3>4
    <3>7. Waited'
      BY <3>1, <3>2, <3>3, <3>4
    <3> QED BY <3>5, <3>6, <3>7
  <2> QED BY <1>6, <2>1, <2>2 DEF KillerStep
<1>7. CASE UNCHANGED vars
  BY <1>7, <1>1 DEF vars
<1> QED BY <1>2, <1>3, <1>4, <1>5, <1>6, <1>7 DEF Next

-----------------------------------------------------------------------------
(* One stop at a time for each generation.                                 *)

Elsewhere == PCs \ {"getpgid", "term", "undo"}

\* A caller that returns, or goes on outside Stop, is out of Stop; the others
\* stay where they are.
LEMMA LeavesStop ==
  ASSUME TypeOK, NEW t \in Callers, NEW l \in Elsewhere, NEW g, NEW r,
         \/ Goto(t, l, g) \/ Return(t, r)
         \/ StopReturns(t, r) \/ WaitReturns(t, r)
  PROVE  /\ ~InStop(t)'
         /\ \A u \in Callers \ {t} : pc'[u] = pc[u] /\ tgt'[u] = tgt[u]
<1> USE DEF TypeOK, Elsewhere, PCs, InStop
<1>1. CASE Goto(t, l, g)  BY <1>1 DEF Goto
<1>2. CASE Return(t, r)   BY <1>2 DEF Return
<1>3. CASE StopReturns(t, r)
  BY <1>3 DEF StopReturns, Goto, Return
<1>4. CASE WaitReturns(t, r)
  BY <1>4 DEF WaitReturns, Goto, Return
<1> QED BY <1>1, <1>2, <1>3, <1>4

LEMMA StopOver ==
  ASSUME IInv, NEW t \in Callers, ~InStop(t)',
         \A u \in Callers \ {t} : pc'[u] = pc[u] /\ tgt'[u] = tgt[u],
         UNCHANGED <<lifeVars, killers>>
  PROVE  OneStop'
BY DEF IInv, OneStop, InStop, lifeVars

LEMMA OneStopNext == ASSUME IInv, [Next]_vars PROVE OneStop'
<1> IInv /\ TypeOK /\ Coherent /\ Fresh /\ OneStop
  BY DEF IInv
<1>0. "serve" \in Elsewhere /\ "select" \in Elsewhere
  BY DEF Elsewhere, PCs
<1> USE ProcessAssumption DEF Gens, lifeVars, osVars, callVars, OneStop, InStop
<1>1. ASSUME NEW t \in Callers, CallerStep(t) PROVE OneStop'
  <2>1. CASE EnforceStarts(t)
    <3>1. /\ ~InStop(t)'
          /\ \A u \in Callers \ {t} : pc'[u] = pc[u] /\ tgt'[u] = tgt[u]
      BY <2>1, <1>0, LeavesStop DEF EnforceStarts, Launch
    <3>2. cmd' = gens + 1 /\ gens' = gens + 1 /\ killers' = killers /\ gens \in Nat
      BY <2>1 DEF EnforceStarts, Launch, TypeOK
    <3> QED BY <3>1, <3>2
  <2>2. CASE StopBegins(t)
    BY <2>2 DEF StopBegins, Goto, TypeOK, Coherent, Pid
  <2>3. CASE Undo(t)
    BY <2>3 DEF Undo, RestoreRunning, Return, TypeOK
  <2>4. CASE Getpgid(t)
    BY <2>4 DEF Getpgid, Goto, Fail, TypeOK
  <2>5. CASE TermSent(t)
    <3>1. /\ ~InStop(t)'
          /\ \A u \in Callers \ {t} : pc'[u] = pc[u] /\ tgt'[u] = tgt[u]
      BY <2>5, <1>0, LeavesStop DEF TermSent
    <3>2. InStop(t) /\ killers' = killers \cup {<<tgt[t], t>>}
      BY <2>5 DEF TermSent
    <3>3. UNCHANGED lifeVars /\ <<tgt[t], t>>[1] = tgt[t]
      BY <2>5 DEF TermSent
    <3>4. \A u \in Callers : InStop(u)' => u # t /\ InStop(u)
      BY <3>1
    <3>5. \A k \in killers' : k \in killers \/ k = <<tgt[t], t>>
      BY <3>2
    <3> QED BY <3>1, <3>2, <3>3, <3>4, <3>5
  <2>6. CASE TermFails(t)
    BY <2>6 DEF TermFails, Fail, TypeOK
  <2>7. CASE EnforceRefuses(t) \/ EnforceFails(t) \/ ServeReturns(t)
    BY <2>7, <1>0, LeavesStop, StopOver
       DEF EnforceRefuses, EnforceFails, ServeReturns
  <2>8. CASE StopNotRunning(t) \/ StopAlready(t)
    BY <2>8, <1>0, LeavesStop, StopOver DEF StopNotRunning, StopAlready
  <2>9. CASE WaitBegins(t) \/ WaitDone(t) \/ WaitTimeout(t)
    BY <2>9, <1>0, LeavesStop, StopOver DEF WaitBegins, WaitDone, WaitTimeout
  <2> QED BY <1>1, <2>1, <2>2, <2>3, <2>4, <2>5, <2>6, <2>7, <2>8, <2>9
          DEF CallerStep
<1>2. ASSUME NEW t \in Callers, NEW o \in Ops, Call(t, o) PROVE OneStop'
  BY <1>2 DEF Call, Entry, TypeOK
<1>3. ASSUME NEW g \in Gens, WaiterStep(g) PROVE OneStop'
  BY <1>3 DEF WaiterStep, Reap, Drain, MarkStopped, Forget, TypeOK
<1>4. ASSUME NEW g \in Gens, ChildStep(g) PROVE OneStop'
  BY <1>4 DEF ChildStep, ChildForks, ChildExits, KidsExit, TypeOK
<1>5. ASSUME NEW g \in Gens, NEW t \in Callers, KillerStep(g, t) PROVE OneStop'
  BY <1>5 DEF KillerStep, KillerDone, KillerFires, KillGroup, TypeOK
<1>6. CASE UNCHANGED vars
  BY <1>6 DEF vars
<1> QED BY <1>1, <1>2, <1>3, <1>4, <1>5, <1>6 DEF Next

-----------------------------------------------------------------------------
(* Where the callers are.                                                  *)

\* A caller that has returned is nowhere, whatever it returned.
LEMMA ReturnedOK ==
  ASSUME IInv, NEW t \in Callers, NEW r, Return(t, r), gens' >= gens, gens' \in Nat
  PROVE  CallerOK'
BY ProcessAssumption DEF IInv, TypeOK, CallerOK, Return

\* Stop goes on with Wait only in Restart, which holds no channel yet.
LEMMA StopReturnedOK ==
  ASSUME IInv, NEW t \in Callers, NEW r, StopReturns(t, r), UNCHANGED gens
  PROVE  CallerOK'
<1>1. CASE Return(t, r)
  BY <1>1, ReturnedOK DEF IInv, TypeOK
<1>2. CASE op[t] = "Restart" /\ Goto(t, "wait", 0)
  BY <1>2 DEF IInv, TypeOK, CallerOK, Goto
<1> QED BY <1>1, <1>2 DEF StopReturns

LEMMA WaitReturnedOK ==
  ASSUME IInv, NEW t \in Callers, NEW r, WaitReturns(t, r), UNCHANGED gens
  PROVE  CallerOK'
<1>1. CASE Return(t, r)
  BY <1>1, ReturnedOK DEF IInv, TypeOK
<1>2. CASE op[t] = "Restart" /\ Goto(t, "enforce", 0)
  BY <1>2 DEF IInv, TypeOK, CallerOK, Goto
<1> QED BY <1>1, <1>2 DEF WaitReturns

LEMMA CallerNext == ASSUME IInv, [Next]_vars PROVE CallerOK'
<1> IInv /\ TypeOK /\ Coherent /\ CallerOK
  BY DEF IInv
<1> USE ProcessAssumption DEF Gens, lifeVars, osVars, callVars, CallerOK
<1>1. ASSUME NEW t \in Callers, CallerStep(t) PROVE CallerOK'
  <2>1. CASE EnforceStarts(t)
    <3>1. gens' = gens + 1 /\ gens \in Nat
      BY <2>1 DEF EnforceStarts, Launch, TypeOK
    <3>2. CASE Return(t, "ok")
      BY <3>1, <3>2, ReturnedOK
    <3>3. CASE op[t] = "Serve" /\ Goto(t, "serve", gens + 1)
      BY <3>1, <3>3 DEF Goto, TypeOK
    <3> QED BY <2>1, <3>2, <3>3 DEF EnforceStarts, Launch
  <2>2. CASE StopBegins(t)
    BY <2>2 DEF StopBegins, Goto, TypeOK
  <2>3. CASE Undo(t)
    BY <2>3 DEF Undo, Return, TypeOK
  <2>4. CASE Getpgid(t)
    BY <2>4 DEF Getpgid, Goto, Fail, TypeOK
  <2>5. CASE TermSent(t)
    BY <2>5, StopReturnedOK DEF TermSent
  <2>6. CASE TermFails(t)
    BY <2>6 DEF TermFails, Fail, TypeOK
  <2>7. CASE EnforceRefuses(t) \/ EnforceFails(t) \/ ServeReturns(t)
    <3>1. gens' = gens
      BY <2>7 DEF EnforceRefuses, EnforceFails, ServeReturns
    <3>2. gens' >= gens /\ gens' \in Nat
      BY <3>1 DEF TypeOK
    <3>3. PICK r : Return(t, r)
      BY <2>7 DEF EnforceRefuses, EnforceFails, ServeReturns
    <3> QED BY <3>2, <3>3, ReturnedOK
  <2>8. CASE StopNotRunning(t) \/ StopAlready(t)
    BY <2>8, StopReturnedOK DEF StopNotRunning, StopAlready
  <2>9. CASE WaitBegins(t)
    <3>1. CASE state # "stopped" /\ done # 0 /\ Goto(t, "select", done)
      <4>1. done = gens /\ gens \in 1 .. MaxGen
        BY <3>1 DEF Coherent, Pid, TypeOK
      <4>2. op[t] \in {"Wait", "Restart"} /\ before[t] <= gens /\ gens' = gens
        BY <2>9 DEF WaitBegins
      <4> QED BY <3>1, <4>1, <4>2 DEF Goto, TypeOK
    <3> QED BY <2>9, <3>1, WaitReturnedOK DEF WaitBegins
  <2>10. CASE WaitDone(t) \/ WaitTimeout(t)
    BY <2>10, WaitReturnedOK DEF WaitDone, WaitTimeout
  <2> QED BY <1>1, <2>1, <2>2, <2>3, <2>4, <2>5, <2>6, <2>7, <2>8, <2>9, <2>10
          DEF CallerStep
<1>2. ASSUME NEW t \in Callers, NEW o \in Ops, Call(t, o) PROVE CallerOK'
  BY <1>2 DEF Call, Entry, TypeOK, Coherent, Pid, Ops
<1>3. ASSUME NEW g \in Gens, WaiterStep(g) PROVE CallerOK'
  BY <1>3 DEF WaiterStep, Reap, Drain, MarkStopped, Forget, TypeOK
<1>4. ASSUME NEW g \in Gens, ChildStep(g) PROVE CallerOK'
  BY <1>4 DEF ChildStep, ChildForks, ChildExits, KidsExit, TypeOK
<1>5. ASSUME NEW g \in Gens, NEW t \in Callers, KillerStep(g, t) PROVE CallerOK'
  BY <1>5 DEF KillerStep, KillerDone, KillerFires, TypeOK
<1>6. CASE UNCHANGED vars
  BY <1>6 DEF vars
<1> QED BY <1>1, <1>2, <1>3, <1>4, <1>5, <1>6 DEF Next

-----------------------------------------------------------------------------
(* The inductive invariant, and what follows from it.                      *)

LEMMA IInvInit == Init => IInv
<1> SUFFICES ASSUME Init PROVE IInv
  OBVIOUS
<1>1. TypeOK
  BY TypeInit
<1>2. Coherent /\ Fresh /\ Waited /\ OneStop /\ CallerOK
  BY DEF Init, Coherent, Pid, Closed, Fresh, Waited, OneStop, InStop, CallerOK, Gens
<1> QED BY <1>1, <1>2 DEF IInv

LEMMA IInvNext == IInv /\ [Next]_vars => IInv'
<1> SUFFICES ASSUME IInv, [Next]_vars PROVE IInv'
  OBVIOUS
<1> QED BY TypeNext, LifeNext, OneStopNext, CallerNext DEF IInv, LifeInv

THEOREM Inductive == Spec => []IInv
BY IInvInit, IInvNext, PTL DEF Spec

\* Every variable of the controller keeps its type, for any callers and bound.
THEOREM TypeCorrect == Spec => []TypeOK
<1>1. IInv => TypeOK
  BY DEF IInv
<1> QED BY Inductive, <1>1, PTL

\* p.state, p.cmd and p.done name one generation, whose channel is open, or
\* none, and every earlier channel is closed.
THEOREM AlwaysCoherent == Spec => []Coherent
<1>1. IInv => Coherent
  BY DEF IInv
<1> QED BY Inductive, <1>1, PTL

\* An occupied generation is the current one: it was started, and a closed one
\* is reaped and, with a pipe, drained.
LEMMA OccupiedIsCurrent ==
  ASSUME IInv, NEW g \in Gens, Occupied(g)
  PROVE  g = cmd /\ g \in 1 .. gens
<1> TypeOK /\ Coherent /\ Fresh /\ Waited
  BY DEF IInv
<1>1. g \in 1 .. gens
  BY DEF Fresh, Occupied, TypeOK, Gens
<1>2. waiter[g] # "closed"
  BY DEF Waited, Occupied
<1> QED BY <1>1, <1>2 DEF Coherent, Closed

\* Two generations never run at the same time.
THEOREM NeverTwoGenerations == Spec => []OneGeneration
<1>1. IInv => OneGeneration
  BY OccupiedIsCurrent DEF OneGeneration
<1> QED BY Inductive, <1>1, PTL

\* No failing Stop takes back the one that sent SIGTERM.
THEOREM SignalledStops == Spec => []SignalledStaysStopping
<1>1. IInv => SignalledStaysStopping
  BY DEF IInv, Coherent, OneStop, SignalledStaysStopping
<1> QED BY Inductive, <1>1, PTL
-----------------------------------------------------------------------------
(* What one step may do.                                                   *)

\* Only its own steps move a caller that is in a method.
LEMMA OwnStep ==
  ASSUME IInv, [Next]_vars, NEW t \in Callers, pc[t] # "idle", pc'[t] = "idle"
  PROVE  CallerStep(t)
<1> TypeOK
  BY DEF IInv
<1>1. ASSUME NEW u \in Callers, CallerStep(u) PROVE u = t
  <2>1. CASE EnforceStarts(u)
    BY <2>1 DEF EnforceStarts, Launch, Goto, Return, TypeOK
  <2>2. CASE EnforceRefuses(u) \/ EnforceFails(u) \/ ServeReturns(u) \/ Undo(u)
    BY <2>2 DEF EnforceRefuses, EnforceFails, ServeReturns, Undo, Return, TypeOK
  <2>3. CASE StopNotRunning(u) \/ StopAlready(u) \/ TermSent(u)
    BY <2>3 DEF StopNotRunning, StopAlready, TermSent, StopReturns, Goto, Return, TypeOK
  <2>4. CASE StopBegins(u) \/ Getpgid(u) \/ TermFails(u)
    BY <2>4 DEF StopBegins, Getpgid, TermFails, Goto, Fail, TypeOK
  <2>5. CASE WaitBegins(u) \/ WaitDone(u) \/ WaitTimeout(u)
    BY <2>5 DEF WaitBegins, WaitDone, WaitTimeout, WaitReturns, Goto, Return, TypeOK
  <2> QED BY <1>1, <2>1, <2>2, <2>3, <2>4, <2>5 DEF CallerStep
<1>2. ASSUME NEW u \in Callers, NEW o \in Ops, Call(u, o) PROVE FALSE
  BY <1>2 DEF Call, Entry, TypeOK, Ops
<1>3. ASSUME UNCHANGED callVars PROVE FALSE
  BY <1>3 DEF callVars
<1>4. ASSUME NEW g \in Gens, WaiterStep(g) \/ ChildStep(g) PROVE FALSE
  BY <1>3, <1>4 DEF WaiterStep, Reap, Drain, MarkStopped,
                    ChildStep, ChildForks, ChildExits, KidsExit
<1>5. ASSUME NEW g \in Gens, NEW u \in Callers, KillerStep(g, u) PROVE FALSE
  BY <1>3, <1>5 DEF KillerStep, KillerDone, KillerFires
<1>6. CASE UNCHANGED vars
  BY <1>3, <1>6 DEF vars
<1> QED BY <1>1, <1>2, <1>4, <1>5, <1>6 DEF Next

\* A generation before the last one started is over.
LEMMA EarlierClosed ==
  ASSUME IInv, NEW g \in 1 .. gens, g < gens \/ state = "stopped"
  PROVE  Closed(g)
<1>1. gens \in Nat /\ cmd \in Nat /\ Coherent
  BY ProcessAssumption DEF IInv, TypeOK
<1>2. cmd # 0 => cmd = gens /\ state # "stopped"
  BY <1>1 DEF Coherent, Pid
<1>3. g # cmd
  BY <1>1, <1>2
<1> QED BY <1>1, <1>3 DEF Coherent

\* Wait returns nil only when the generation it was called for is over.
THEOREM WaitIsSound == Spec => WaitSound
<1>1. ASSUME IInv, [Next]_vars PROVE WaitSoundStep
  <2> SUFFICES ASSUME NEW t \in Callers, Returns(t, "Wait", "ok"), before[t] # 0
               PROVE  Closed(before[t])
    BY DEF WaitSoundStep
  <2>1. TypeOK /\ CallerOK
    BY <1>1 DEF IInv
  <2>2. /\ op[t] = "Wait" /\ pc'[t] = "idle" /\ res'[t] = "ok"
        /\ pc[t] \in {"wait", "select"}
        /\ before[t] \in 1 .. gens
    BY <2>1 DEF Returns, CallerOK, TypeOK, PCs
  <2>3. CallerStep(t)
    BY <1>1, <2>2, OwnStep
  <2>4. CASE WaitBegins(t)
    <3>1. state = "stopped"
      BY <2>1, <2>2, <2>4 DEF WaitBegins, WaitReturns, Return, Goto, TypeOK
    <3> QED BY <1>1, <2>2, <3>1, EarlierClosed
  <2>5. CASE WaitDone(t)
    <3>1. tgt[t] \in 1 .. gens /\ before[t] <= tgt[t] /\ Closed(tgt[t])
      BY <2>1, <2>5 DEF WaitDone, CallerOK
    <3>2. gens \in Nat
      BY <2>1, ProcessAssumption DEF TypeOK
    <3>3. CASE before[t] < gens
      BY <1>1, <2>2, <3>3, EarlierClosed
    <3>4. CASE before[t] = tgt[t]
      BY <3>1, <3>4
    <3> QED BY <2>2, <3>1, <3>2, <3>3, <3>4
  <2>6. CASE WaitTimeout(t)
    BY <2>1, <2>2, <2>6 DEF WaitTimeout, WaitReturns, Return, TypeOK
  <2> QED BY <2>2, <2>3, <2>4, <2>5, <2>6
          DEF CallerStep, EnforceRefuses, EnforceFails, EnforceStarts,
              ServeReturns, StopNotRunning, StopAlready, StopBegins, Getpgid,
              TermSent, TermFails, Undo
<1>2. IInv /\ [Next]_vars => [WaitSoundStep]_vars
  BY <1>1
<1> QED BY Inductive, <1>2, PTL DEF Spec, WaitSound

\* Restart succeeds only by launching a generation of its own, after every
\* earlier one was over and had left the machine.
THEOREM RestartDoesReplace == Spec => RestartReplaces
<1>1. ASSUME IInv, [Next]_vars PROVE RestartReplacesStep
  <2> SUFFICES ASSUME NEW t \in Callers, Returns(t, "Restart", "ok")
               PROVE  /\ cmd' = gens + 1
                      /\ before[t] # 0 => Closed(before[t])
                      /\ \A g \in Gens : ~Occupied(g)
    BY DEF RestartReplacesStep
  <2>1. TypeOK /\ CallerOK /\ Coherent
    BY <1>1 DEF IInv
  <2>2. /\ op[t] = "Restart" /\ pc'[t] = "idle" /\ res'[t] = "ok"
        /\ pc[t] # "idle" /\ pc[t] # "serve"
        /\ pc[t] = "undo" => res[t] # "ok"
        /\ before[t] # 0 => before[t] \in 1 .. gens
    BY <2>1 DEF Returns, CallerOK, TypeOK
  <2>3. CallerStep(t)
    BY <1>1, <2>2, OwnStep
  <2>4. CASE EnforceStarts(t)
    <3>1. state = "stopped" /\ cmd' = gens + 1
      BY <2>4 DEF EnforceStarts, Launch
    <3>2. cmd = 0
      BY <2>1, <3>1 DEF Coherent
    <3>3. \A g \in Gens : ~Occupied(g)
      BY <1>1, <3>2, OccupiedIsCurrent DEF Gens
    <3> QED BY <1>1, <2>2, <3>1, <3>3, EarlierClosed
  <2>5. CASE EnforceRefuses(t) \/ EnforceFails(t) \/ Undo(t)
    BY <2>1, <2>2, <2>5 DEF EnforceRefuses, EnforceFails, Undo, Return, TypeOK
  <2>6. CASE StopNotRunning(t) \/ StopAlready(t) \/ TermSent(t)
    BY <2>1, <2>2, <2>6 DEF StopNotRunning, StopAlready, TermSent, StopReturns,
                            Goto, TypeOK
  <2>7. CASE StopBegins(t) \/ Getpgid(t) \/ TermFails(t)
    BY <2>1, <2>2, <2>7 DEF StopBegins, Getpgid, TermFails, Goto, Fail, TypeOK
  <2>8. CASE WaitBegins(t) \/ WaitDone(t) \/ WaitTimeout(t)
    BY <2>1, <2>2, <2>8 DEF WaitBegins, WaitDone, WaitTimeout, WaitReturns,
                            Goto, Return, TypeOK
  <2> QED BY <2>2, <2>3, <2>4, <2>5, <2>6, <2>7, <2>8 DEF CallerStep, ServeReturns
<1>2. IInv /\ [Next]_vars => [RestartReplacesStep]_vars
  BY <1>1
<1> QED BY Inductive, <1>2, PTL DEF Spec, RestartReplaces

\* A generation that is over stays over and never becomes current again.
THEOREM OverStaysOver == Spec => OverIsFinal
<1>1. ASSUME IInv, IInv', [Next]_vars PROVE OverIsFinalStep
  <2> SUFFICES ASSUME NEW g \in Gens, Closed(g)
               PROVE  Closed(g)' /\ cmd' # g
    BY DEF OverIsFinalStep
  <2>1. TypeOK /\ Fresh /\ Coherent' /\ Fresh' /\ TypeOK'
    BY <1>1 DEF IInv
  <2>2. g \in 1 .. gens /\ waiter[g] = "closed" /\ gens \in Nat
    BY <2>1, ProcessAssumption DEF Fresh, Closed, Gens, TypeOK
  <2>3. ASSUME NEW h \in Gens, WaiterStep(h) PROVE waiter'[g] = "closed"
    BY <2>1, <2>2, <2>3 DEF WaiterStep, Reap, Drain, MarkStopped, TypeOK
  <2>4. ASSUME NEW t \in Callers, CallerStep(t) PROVE waiter'[g] = "closed"
    <3>1. CASE EnforceStarts(t)
      BY <2>1, <2>2, <3>1 DEF EnforceStarts, Launch, TypeOK
    <3>2. CASE UNCHANGED waiter
      BY <2>2, <3>2
    <3> QED BY <2>4, <3>1, <3>2
            DEF CallerStep, EnforceRefuses, EnforceFails, ServeReturns,
                StopNotRunning, StopAlready, StopBegins, Getpgid, TermSent,
                TermFails, Undo, WaitBegins, WaitDone, WaitTimeout, osVars
  <2>5. ASSUME UNCHANGED waiter PROVE waiter'[g] = "closed"
    BY <2>2, <2>5
  <2>6. waiter'[g] = "closed"
    BY <1>1, <2>3, <2>4, <2>5
       DEF Next, Call, ChildStep, ChildForks, ChildExits, KidsExit,
           KillerStep, KillerDone, KillerFires, osVars, vars
  <2>7. g \in 1 .. gens'
    BY <2>1, <2>6, ProcessAssumption DEF Fresh, Gens, TypeOK
  <2> QED BY <2>1, <2>6, <2>7 DEF Coherent, Closed
<1>2. IInv /\ IInv' /\ [Next]_vars => [OverIsFinalStep]_vars
  BY <1>1
<1> QED BY Inductive, <1>2, PTL DEF Spec, OverIsFinal

-----------------------------------------------------------------------------
(* The controller implements the abstract supervisor.                      *)

Over == {g \in Gens : Closed(g)}

LEMMA InitMaps == Init => Promise!Init
BY DEF Init, Promise!Init, Closed, Gens

LEMMA StepMaps ==
  ASSUME IInv, IInv', [Next]_vars PROVE [Promise!Next]_(Promise!vars)
<1> TypeOK /\ Coherent /\ Fresh /\ TypeOK' /\ Coherent' /\ Fresh'
  BY DEF IInv
<1> USE ProcessAssumption DEF Gens
<1>1. ASSUME UNCHANGED lifeVars, \A g \in Gens : Closed(g)' = Closed(g)
      PROVE  UNCHANGED Promise!vars
  BY <1>1 DEF Promise!vars, lifeVars
<1>2. ASSUME UNCHANGED lifeVars, UNCHANGED waiter PROVE UNCHANGED Promise!vars
  BY <1>1, <1>2 DEF Closed
<1>3. ASSUME NEW t \in Callers, CallerStep(t)
      PROVE  [Promise!Next]_(Promise!vars)
  <2>1. CASE EnforceStarts(t)
    <3>1. /\ state = "stopped" /\ state' = "running" /\ gens < MaxGen
          /\ gens' = gens + 1 /\ cmd' = gens + 1
      BY <2>1 DEF EnforceStarts, Launch
    <3>2. Over = 1 .. gens
      BY <3>1 DEF Over, Coherent, Fresh, Closed, TypeOK
    <3>3. Over' = Over
      BY <2>1 DEF EnforceStarts, Launch, Over, Closed, Fresh, TypeOK
    <3> QED BY <3>1, <3>2, <3>3 DEF Promise!Next, Promise!Launch, Over
  <2>2. CASE StopBegins(t)
    <3>1. Over' = Over
      BY <2>2 DEF StopBegins, osVars, Over, Closed
    <3> QED BY <2>2, <3>1 DEF StopBegins, Promise!Next, Promise!BeginStop, Over
  <2>3. CASE Undo(t)
    <3>1. Over' = Over
      BY <2>3 DEF Undo, osVars, Over, Closed
    <3> QED BY <2>3, <3>1 DEF Undo, RestoreRunning, Promise!Next,
                              Promise!AbandonStop, Promise!vars, Over
  <2>4. CASE UNCHANGED <<lifeVars, osVars>>
    BY <2>4, <1>2 DEF osVars
  <2> QED BY <1>3, <2>1, <2>2, <2>3, <2>4
          DEF CallerStep, EnforceRefuses, EnforceFails, ServeReturns,
              StopNotRunning, StopAlready, Getpgid, TermSent, TermFails,
              WaitBegins, WaitDone, WaitTimeout
<1>4. ASSUME NEW g \in Gens, WaiterStep(g)
      PROVE  [Promise!Next]_(Promise!vars)
  <2>1. CASE Reap(g)
    BY <2>1, <1>1 DEF Reap, Closed, TypeOK
  <2>2. CASE Drain(g)
    BY <2>2, <1>1 DEF Drain, Closed, TypeOK
  <2>3. CASE MarkStopped(g)
    <3>1. g = cmd /\ g # 0
      <4>1. waiter[g] = "mark" /\ g \in 1 .. gens
        BY <2>3 DEF MarkStopped, Fresh, TypeOK
      <4>2. ~Closed(g)
        BY <4>1 DEF Closed
      <4> QED BY <4>1, <4>2 DEF Coherent, Closed
    <3>2. cmd' = 0 /\ state' = "stopped" /\ gens' = gens /\ state # "stopped"
      BY <2>3, <3>1 DEF MarkStopped, Forget, Coherent
    <3>3. Over' = Over \cup {cmd}
      BY <2>3, <3>1 DEF MarkStopped, Over, Closed, TypeOK
    <3>4. state \in {"running", "stopping"}
      BY <3>2 DEF TypeOK
    <3>5. Promise!Finish
      BY <3>2, <3>3, <3>4 DEF Promise!Finish, Over
    <3> QED BY <3>5 DEF Promise!Next
  <2> QED BY <1>4, <2>1, <2>2, <2>3 DEF WaiterStep
<1>5. ASSUME NEW t \in Callers, NEW o \in Ops, Call(t, o)
      PROVE  UNCHANGED Promise!vars
  BY <1>5, <1>2 DEF Call, osVars
<1>6. ASSUME NEW g \in Gens, ChildStep(g) PROVE UNCHANGED Promise!vars
  BY <1>6, <1>2 DEF ChildStep, ChildForks, ChildExits, KidsExit
<1>7. ASSUME NEW g \in Gens, NEW t \in Callers, KillerStep(g, t)
      PROVE  UNCHANGED Promise!vars
  BY <1>7, <1>2 DEF KillerStep, KillerDone, KillerFires, osVars
<1>8. CASE UNCHANGED vars
  BY <1>8, <1>2 DEF vars, osVars
<1> QED BY <1>3, <1>4, <1>5, <1>6, <1>7, <1>8 DEF Next

\* The controller keeps its promise: it launches a generation only when every
\* earlier one is over, and changes state only as the supervisor may.
THEOREM ProcessRefines == Spec => ImplementsSupervisor
<1>1. IInv /\ IInv' /\ [Next]_vars => [Promise!Next]_(Promise!vars)
  BY StepMaps
<1> QED BY Inductive, InitMaps, <1>1, PTL DEF Spec, ImplementsSupervisor, Promise!Spec
=============================================================================
