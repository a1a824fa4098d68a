----------------------------- MODULE SocketsProofs -----------------------------
(***************************************************************************)
(* Proofs about the parts of MCSockets but HttpFlow: the two servers that   *)
(* hold something of the kernel, which are the Go monitor, for any number   *)
(* of goroutines that call RunServe and Shutdown, of descriptors and of     *)
(* probes, and the passthrough server, for any finite set of connections    *)
(* and any number of slots; the handshake, for any protocols; the lists in  *)
(* headers of any length; and the writer that holds back the end of a       *)
(* compressed message, for one of any length.                               *)
(***************************************************************************)
EXTENDS MCSockets, FiniteSetTheorems, SequenceTheorems, WellFoundedInduction, NaturalsInduction, TLAPS

-----------------------------------------------------------------------------
(* The monitor.  NothingLeft rests on there being one goroutine that loads  *)
(* and one that takes away (Alone), on what each of them holds where it is  *)
(* (Placed), and on every probe and every packet socket having a holder     *)
(* (Counted, Owned); NoFalseExit on nobody closing the socket before cancel *)
(* (Quiet).                                                                 *)

Holdings == [sock : Fds \cup {E!NoFd}, links : Nat, objs : BOOLEAN]

Typed ==
  /\ mu \in Stoppers \cup {E!Nobody}
  /\ started \in BOOLEAN /\ closed \in BOOLEAN /\ canceled \in BOOLEAN
  /\ failed \in BOOLEAN /\ exited \in BOOLEAN /\ loaded \in BOOLEAN
  /\ server \in Holdings
  /\ table \in [Fds -> {"free", "socket", "others"}]
  /\ probes \in Int
  /\ run \in [Runners -> {"idle", "load", "socket", "attach", "select", "number", "recv",
                          "cleanup", "fail", "close", "failClose", "over"}]
  /\ mine \in [Runners -> Holdings]
  /\ stop \in [Stoppers -> {"idle", "cancel", "socket", "take", "close", "over"}]
  /\ taken \in [Stoppers -> Holdings]

Active(r) == run[r] \notin {"idle", "over"}
Loads(r) == run[r] \in {"load", "socket", "attach"}
Busy(s) == stop[s] \notin {"idle", "over"}
Closing(s) == stop[s] = "close"

\* One goroutine loads and reads, one takes away, under the lock until it has all.
Alone ==
  /\ \A r \in Runners : run[r] # "idle" => started
  /\ \A r, p \in Runners : Active(r) /\ Active(p) => r = p
  /\ \A s \in Stoppers : Busy(s) => closed
  /\ \A s, t \in Stoppers : Busy(s) /\ Busy(t) => s = t
  /\ \A s \in Stoppers : mu = s <=> stop[s] \in {"cancel", "socket", "take"}

\* What a goroutine holds where it is.
Placed ==
  /\ \A r \in Runners :
       /\ run[r] \in {"idle", "load", "over"} => mine[r] = E!Nothing
       /\ run[r] = "socket" => mine[r].sock = E!NoFd /\ mine[r].links = 0
       /\ run[r] = "attach" => mine[r].sock # E!NoFd /\ table[mine[r].sock] = "socket"
       /\ run[r] \in {"select", "number", "recv", "cleanup", "fail"} => mine[r].links = 0
       /\ Loads(r) => server.sock = E!NoFd /\ server.links = 0
       /\ run[r] \in {"close", "failClose"} => server.sock = E!NoFd /\ server.links = 0
  /\ (\A r \in Runners : ~Active(r)) => server.sock = E!NoFd /\ server.links = 0 /\ ~loaded

\* Every probe is held once.
Held(m, k) == probes = m + server.links + k
NoneActive == \A r \in Runners : ~Active(r)
NoneClosing == \A s \in Stoppers : ~Closing(s)
Counted ==
  /\ \A r \in Runners, s \in Stoppers : Active(r) /\ Closing(s) => Held(mine[r].links, taken[s].links)
  /\ \A r \in Runners : Active(r) /\ NoneClosing => Held(mine[r].links, 0)
  /\ \A s \in Stoppers : NoneActive /\ Closing(s) => Held(0, taken[s].links)
  /\ NoneActive /\ NoneClosing => Held(0, 0)

\* Every packet socket is that of the server, or of the goroutine that loads it;
\* the server's is only closed under the lock it then loses it under.
Owned ==
  /\ \A fd \in Fds : table[fd] = "socket" =>
       fd = server.sock \/ \E r \in Runners : run[r] = "attach" /\ mine[r].sock = fd
  /\ server.sock # E!NoFd =>
       IF \E s \in Stoppers : stop[s] = "take" THEN table[server.sock] # "socket"
       ELSE table[server.sock] = "socket"

\* Before cancel the socket that is read is open.
Quiet ==
  /\ \A s \in Stoppers : stop[s] \in {"socket", "take", "close"} => canceled
  /\ \A r \in Runners :
       /\ run[r] \in {"select", "number", "recv"} /\ ~canceled => server.sock # E!NoFd
       /\ run[r] = "recv" /\ ~canceled => mine[r].sock = server.sock
       /\ run[r] \in {"fail", "failClose"} => failed
  /\ exited => failed

IInv == Typed /\ Alone /\ Placed /\ Counted /\ Owned /\ Quiet

-----------------------------------------------------------------------------

\* The constants: goroutines have other names than "nobody".
Assumed == Probes \in Nat /\ Fds \subseteq Nat /\ E!Nobody \notin Stoppers

LEMMA InitInductive == ASSUME Assumed, E!Init PROVE IInv
<1>1. Typed
  <2>1. E!Nothing \in Holdings
    BY DEF Holdings, E!Nothing
  <2>2. server \in Holdings /\ mine \in [Runners -> Holdings] /\ taken \in [Stoppers -> Holdings]
    BY <2>1 DEF E!Init
  <2>3. mu \in Stoppers \cup {E!Nobody} /\ probes \in Int
    BY DEF E!Init
  <2>4. table \in [Fds -> {"free", "socket", "others"}]
    BY DEF E!Init
  <2> QED BY <2>2, <2>3, <2>4 DEF Typed, E!Init
<1> USE DEF Assumed, E!Init, E!Nothing, E!NoFd, E!Nobody
<1>2. Alone /\ Placed /\ Owned /\ Quiet
  BY DEF Alone, Placed, Owned, Quiet, Active, Busy, Loads
<1>3. Counted
  BY DEF Counted, NoneActive, NoneClosing, Active, Closing, Held
<1> QED BY <1>1, <1>2, <1>3 DEF IInv

\* The types, action by action.
LEMMA TypedNext == ASSUME Assumed, IInv, [E!Next]_eVars PROVE Typed'
<1> USE DEF Assumed, IInv, Typed, Holdings, E!Nothing, E!NoFd, E!serverVars, E!kernelVars, E!runVars, E!stopVars, E!endVars
<1>1. ASSUME NEW r \in Runners, E!RunServe(r) PROVE Typed'
  BY <1>1 DEF E!RunServe, E!Goto
<1>2. ASSUME NEW r \in Runners, E!Load(r) PROVE Typed'
  BY <1>2 DEF E!Load, E!Goto
<1>3. ASSUME NEW r \in Runners, E!OpenSocket(r) PROVE Typed'
  BY <1>3 DEF E!OpenSocket, E!Goto
<1>4. ASSUME NEW r \in Runners, E!Attach(r) PROVE Typed'
  <2>1. mine[r].links \in Nat /\ probes + 1 \in Int
    OBVIOUS
  <2>2. mine' \in [Runners -> Holdings]
    BY <1>4, <2>1 DEF E!Attach
  <2> QED BY <1>4, <2>1, <2>2 DEF E!Attach, E!Goto
<1>5. ASSUME NEW r \in Runners, E!LoadFails(r) PROVE Typed'
  <2>1. probes - mine[r].links \in Int
    OBVIOUS
  <2>2. table' \in [Fds -> {"free", "socket", "others"}]
    BY <1>5 DEF E!LoadFails, E!Undo, E!Closed
  <2>3. mine' \in [Runners -> Holdings]
    BY <1>5 DEF E!LoadFails
  <2> QED BY <1>5, <2>1, <2>2, <2>3 DEF E!LoadFails, E!Goto, E!Undo
<1>6. ASSUME NEW r \in Runners, E!Hand(r) PROVE Typed'
  BY <1>6 DEF E!Hand, E!Goto
<1>7. ASSUME NEW r \in Runners, E!Select(r) PROVE Typed'
  BY <1>7 DEF E!Select, E!Goto, E!Done
<1>8. ASSUME NEW r \in Runners, E!Number(r) PROVE Typed'
  BY <1>8 DEF E!Number, E!Goto
<1>9. ASSUME NEW r \in Runners, E!Recv(r) PROVE Typed'
  BY <1>9 DEF E!Recv, E!Goto
<1>10. ASSUME NEW r \in Runners, E!RecvFails(r) PROVE Typed'
  BY <1>10 DEF E!RecvFails, E!Goto, E!Errs
<1>11. ASSUME NEW r \in Runners, E!CleanupTakes(r) PROVE Typed'
  BY <1>11 DEF E!CleanupTakes, E!Goto, E!Closed
<1>12. ASSUME NEW r \in Runners, E!Cleanup(r) PROVE Typed'
  <2>1. probes - mine[r].links \in Int
    OBVIOUS
  <2>2. mine' \in [Runners -> Holdings]
    BY <1>12 DEF E!Cleanup
  <2> QED BY <1>12, <2>1, <2>2 DEF E!Cleanup, E!Goto
<1>13. ASSUME NEW s \in Stoppers, E!Shutdown(s) PROVE Typed'
  BY <1>13 DEF E!Shutdown, E!StopGoto
<1>14. ASSUME NEW s \in Stoppers, E!Cancel(s) PROVE Typed'
  BY <1>14 DEF E!Cancel, E!StopGoto
<1>15. ASSUME NEW s \in Stoppers, E!CloseSocket(s) PROVE Typed'
  BY <1>15 DEF E!CloseSocket, E!StopGoto, E!Closed
<1>16. ASSUME NEW s \in Stoppers, E!TakeRest(s) PROVE Typed'
  BY <1>16 DEF E!TakeRest, E!StopGoto, E!Left
<1>17. ASSUME NEW s \in Stoppers, E!CloseRest(s) PROVE Typed'
  BY <1>17 DEF E!CloseRest, E!StopGoto
<1>18. CASE E!Others
  BY <1>18 DEF E!Others, E!Closed
<1>19. CASE UNCHANGED eVars
  BY <1>19 DEF eVars
<1> QED BY <1>1, <1>2, <1>3, <1>4, <1>5, <1>6, <1>7, <1>8, <1>9, <1>10, <1>11, <1>12, <1>13, <1>14, <1>15, <1>16, <1>17, <1>18, <1>19 DEF E!Next, E!RunStep, E!StopStep

\* Whoever came first has set a flag the others see.
LEMMA AloneNext == ASSUME Assumed, IInv, [E!Next]_eVars PROVE Alone'
<1> USE DEF Assumed, IInv, Typed, Alone, Active, Busy, E!Nobody, E!serverVars, E!kernelVars, E!runVars, E!stopVars, E!endVars
<1>1. ASSUME NEW r \in Runners, E!RunServe(r) PROVE Alone'
  BY <1>1 DEF E!RunServe, E!Goto
<1>2. ASSUME NEW r \in Runners, E!Load(r) PROVE Alone'
  BY <1>2 DEF E!Load, E!Goto
<1>3. ASSUME NEW r \in Runners, E!OpenSocket(r) PROVE Alone'
  BY <1>3 DEF E!OpenSocket, E!Goto
<1>4. ASSUME NEW r \in Runners, E!Attach(r) PROVE Alone'
  BY <1>4 DEF E!Attach, E!Goto
<1>5. ASSUME NEW r \in Runners, E!LoadFails(r) PROVE Alone'
  BY <1>5 DEF E!LoadFails, E!Goto, E!Undo, E!Closed
<1>6. ASSUME NEW r \in Runners, E!Hand(r) PROVE Alone'
  BY <1>6 DEF E!Hand, E!Goto
<1>7. ASSUME NEW r \in Runners, E!Select(r) PROVE Alone'
  BY <1>7 DEF E!Select, E!Goto, E!Done
<1>8. ASSUME NEW r \in Runners, E!Number(r) PROVE Alone'
  BY <1>8 DEF E!Number, E!Goto
<1>9. ASSUME NEW r \in Runners, E!Recv(r) PROVE Alone'
  BY <1>9 DEF E!Recv, E!Goto
<1>10. ASSUME NEW r \in Runners, E!RecvFails(r) PROVE Alone'
  BY <1>10 DEF E!RecvFails, E!Goto, E!Errs
<1>11. ASSUME NEW r \in Runners, E!CleanupTakes(r) PROVE Alone'
  BY <1>11 DEF E!CleanupTakes, E!Goto, E!Closed
<1>12. ASSUME NEW r \in Runners, E!Cleanup(r) PROVE Alone'
  BY <1>12 DEF E!Cleanup, E!Goto
<1>13. ASSUME NEW s \in Stoppers, E!Shutdown(s) PROVE Alone'
  BY <1>13 DEF E!Shutdown, E!StopGoto
<1>14. ASSUME NEW s \in Stoppers, E!Cancel(s) PROVE Alone'
  BY <1>14 DEF E!Cancel, E!StopGoto
<1>15. ASSUME NEW s \in Stoppers, E!CloseSocket(s) PROVE Alone'
  BY <1>15 DEF E!CloseSocket, E!StopGoto, E!Closed
<1>16. ASSUME NEW s \in Stoppers, E!TakeRest(s) PROVE Alone'
  BY <1>16 DEF E!TakeRest, E!StopGoto, E!Left
<1>17. ASSUME NEW s \in Stoppers, E!CloseRest(s) PROVE Alone'
  BY <1>17 DEF E!CloseRest, E!StopGoto
<1>18. CASE E!Others
  BY <1>18 DEF E!Others, E!Closed
<1>19. CASE UNCHANGED eVars
  BY <1>19 DEF eVars
<1> QED BY <1>1, <1>2, <1>3, <1>4, <1>5, <1>6, <1>7, <1>8, <1>9, <1>10, <1>11, <1>12, <1>13, <1>14, <1>15, <1>16, <1>17, <1>18, <1>19 DEF E!Next, E!RunStep, E!StopStep

\* The socket is closed after cancel.
LEMMA QuietNext == ASSUME Assumed, IInv, [E!Next]_eVars PROVE Quiet'
<1> USE DEF Assumed, IInv, Typed, Alone, Placed, Owned, Quiet, Active, Busy, Loads, E!Nothing, E!NoFd, Holdings, E!serverVars, E!kernelVars, E!runVars, E!stopVars, E!endVars
<1>1. ASSUME NEW r \in Runners, E!RunServe(r) PROVE Quiet'
  BY <1>1 DEF E!RunServe, E!Goto
<1>2. ASSUME NEW r \in Runners, E!Load(r) PROVE Quiet'
  BY <1>2 DEF E!Load, E!Goto
<1>3. ASSUME NEW r \in Runners, E!OpenSocket(r) PROVE Quiet'
  BY <1>3 DEF E!OpenSocket, E!Goto
<1>4. ASSUME NEW r \in Runners, E!Attach(r) PROVE Quiet'
  BY <1>4 DEF E!Attach, E!Goto
<1>5. ASSUME NEW r \in Runners, E!LoadFails(r) PROVE Quiet'
  BY <1>5 DEF E!LoadFails, E!Goto, E!Undo, E!Closed
<1>6. ASSUME NEW r \in Runners, E!Hand(r) PROVE Quiet'
  BY <1>6 DEF E!Hand, E!Goto
<1>7. ASSUME NEW r \in Runners, E!Select(r) PROVE Quiet'
  BY <1>7 DEF E!Select, E!Goto, E!Done
<1>8. ASSUME NEW r \in Runners, E!Number(r) PROVE Quiet'
  BY <1>8 DEF E!Number, E!Goto
<1>9. ASSUME NEW r \in Runners, E!Recv(r) PROVE Quiet'
  BY <1>9 DEF E!Recv, E!Goto
<1>10. ASSUME NEW r \in Runners, E!RecvFails(r) PROVE Quiet'
  BY <1>10 DEF E!RecvFails, E!Goto, E!Errs
<1>11. ASSUME NEW r \in Runners, E!CleanupTakes(r) PROVE Quiet'
  BY <1>11 DEF E!CleanupTakes, E!Goto, E!Closed
<1>12. ASSUME NEW r \in Runners, E!Cleanup(r) PROVE Quiet'
  BY <1>12 DEF E!Cleanup, E!Goto
<1>13. ASSUME NEW s \in Stoppers, E!Shutdown(s) PROVE Quiet'
  BY <1>13 DEF E!Shutdown, E!StopGoto
<1>14. ASSUME NEW s \in Stoppers, E!Cancel(s) PROVE Quiet'
  BY <1>14 DEF E!Cancel, E!StopGoto
<1>15. ASSUME NEW s \in Stoppers, E!CloseSocket(s) PROVE Quiet'
  BY <1>15 DEF E!CloseSocket, E!StopGoto, E!Closed
<1>16. ASSUME NEW s \in Stoppers, E!TakeRest(s) PROVE Quiet'
  BY <1>16 DEF E!TakeRest, E!StopGoto, E!Left
<1>17. ASSUME NEW s \in Stoppers, E!CloseRest(s) PROVE Quiet'
  BY <1>17 DEF E!CloseRest, E!StopGoto
<1>18. CASE E!Others
  BY <1>18 DEF E!Others, E!Closed
<1>19. CASE UNCHANGED eVars
  BY <1>19 DEF eVars
<1> QED BY <1>1, <1>2, <1>3, <1>4, <1>5, <1>6, <1>7, <1>8, <1>9, <1>10, <1>11, <1>12, <1>13, <1>14, <1>15, <1>16, <1>17, <1>18, <1>19 DEF E!Next, E!RunStep, E!StopStep

\* What a step takes or gives up is what it should have there.
LEMMA PlacedNext == ASSUME Assumed, IInv, [E!Next]_eVars PROVE Placed'
<1> USE DEF Assumed, IInv, Typed, Alone, Placed, Owned, Active, Loads, E!Nothing, E!NoFd, Holdings, E!serverVars, E!kernelVars, E!runVars, E!stopVars, E!endVars
<1>1. ASSUME NEW r \in Runners, E!RunServe(r) PROVE Placed'
  BY <1>1 DEF E!RunServe, E!Goto
<1>2. ASSUME NEW r \in Runners, E!Load(r) PROVE Placed'
  BY <1>2 DEF E!Load, E!Goto
<1>3. ASSUME NEW r \in Runners, E!OpenSocket(r) PROVE Placed'
  BY <1>3 DEF E!OpenSocket, E!Goto
<1>4. ASSUME NEW r \in Runners, E!Attach(r) PROVE Placed'
  BY <1>4 DEF E!Attach, E!Goto
<1>5. ASSUME NEW r \in Runners, E!LoadFails(r) PROVE Placed'
  BY <1>5 DEF E!LoadFails, E!Goto, E!Undo, E!Closed
<1>6. ASSUME NEW r \in Runners, E!Hand(r) PROVE Placed'
  BY <1>6 DEF E!Hand, E!Goto
<1>7. ASSUME NEW r \in Runners, E!Select(r) PROVE Placed'
  BY <1>7 DEF E!Select, E!Goto, E!Done
<1>8. ASSUME NEW r \in Runners, E!Number(r) PROVE Placed'
  BY <1>8 DEF E!Number, E!Goto
<1>9. ASSUME NEW r \in Runners, E!Recv(r) PROVE Placed'
  BY <1>9 DEF E!Recv, E!Goto
<1>10. ASSUME NEW r \in Runners, E!RecvFails(r) PROVE Placed'
  BY <1>10 DEF E!RecvFails, E!Goto, E!Errs
<1>11. ASSUME NEW r \in Runners, E!CleanupTakes(r) PROVE Placed'
  BY <1>11 DEF E!CleanupTakes, E!Goto, E!Closed
<1>12. ASSUME NEW r \in Runners, E!Cleanup(r) PROVE Placed'
  <2>1. /\ run'[r] = "over" /\ mine'[r] = E!Nothing /\ Active(r) /\ ~loaded'
        /\ \A p \in Runners \ {r} : run'[p] = run[p] /\ mine'[p] = mine[p]
        /\ UNCHANGED <<server, table>> /\ server.sock = E!NoFd /\ server.links = 0
    BY <1>12 DEF E!Cleanup, E!Goto
  <2> QED BY <2>1
<1>13. ASSUME NEW s \in Stoppers, E!Shutdown(s) PROVE Placed'
  BY <1>13 DEF E!Shutdown, E!StopGoto
<1>14. ASSUME NEW s \in Stoppers, E!Cancel(s) PROVE Placed'
  BY <1>14 DEF E!Cancel, E!StopGoto
<1>15. ASSUME NEW s \in Stoppers, E!CloseSocket(s) PROVE Placed'
  BY <1>15 DEF E!CloseSocket, E!StopGoto, E!Closed
<1>16. ASSUME NEW s \in Stoppers, E!TakeRest(s) PROVE Placed'
  BY <1>16 DEF E!TakeRest, E!StopGoto, E!Left
<1>17. ASSUME NEW s \in Stoppers, E!CloseRest(s) PROVE Placed'
  BY <1>17 DEF E!CloseRest, E!StopGoto
<1>18. CASE E!Others
  <2>1. \A fd \in Fds : table[fd] = "socket" <=> table'[fd] = "socket"
    <3>1. PICK fd \in Fds : \/ table[fd] = "free" /\ table' = [table EXCEPT ![fd] = "others"]
                            \/ table[fd] = "others" /\ table' = [table EXCEPT ![fd] = "free"]
      BY <1>18 DEF E!Others, E!Closed
    <3> QED BY <3>1
  <2>2. UNCHANGED <<server, loaded, run, mine, stop>>
    BY <1>18 DEF E!Others
  <2>3. ASSUME NEW r \in Runners, run[r] = "attach" PROVE table'[mine[r].sock] = "socket"
    <3>1. mine[r].sock \in Fds /\ table[mine[r].sock] = "socket"
      BY <2>3
    <3> QED BY <2>1, <3>1
  <2>4. \A r \in Runners : run'[r] = run[r] /\ mine'[r] = mine[r]
    BY <2>2
  <2>5. ASSUME NEW r \in Runners, run'[r] = "attach" PROVE mine'[r].sock # E!NoFd /\ table'[mine'[r].sock] = "socket"
    BY <2>3, <2>4, <2>5
  <2>6. \A r \in Runners : Active(r)' = Active(r) /\ Loads(r)' = Loads(r)
    BY <2>4
  <2> HIDE DEF Active, Loads, Typed, Alone, Owned, E!Nothing, E!NoFd
  <2> QED BY <2>2, <2>4, <2>5, <2>6
<1>19. CASE UNCHANGED eVars
  BY <1>19 DEF eVars
<1> QED BY <1>1, <1>2, <1>3, <1>4, <1>5, <1>6, <1>7, <1>8, <1>9, <1>10, <1>11, <1>12, <1>13, <1>14, <1>15, <1>16, <1>17, <1>18, <1>19 DEF E!Next, E!RunStep, E!StopStep

\* A packet socket goes from hand to hand.
LEMMA OwnedNext == ASSUME Assumed, IInv, [E!Next]_eVars PROVE Owned'
<1> USE DEF Assumed, IInv, Typed, Alone, Placed, Owned, Active, Loads, E!Nothing, E!NoFd, Holdings, E!serverVars, E!kernelVars, E!runVars, E!stopVars, E!endVars
<1>1. ASSUME NEW r \in Runners, E!RunServe(r) PROVE Owned'
  BY <1>1 DEF E!RunServe, E!Goto
<1>2. ASSUME NEW r \in Runners, E!Load(r) PROVE Owned'
  BY <1>2 DEF E!Load, E!Goto
<1>3. ASSUME NEW r \in Runners, E!OpenSocket(r) PROVE Owned'
  BY <1>3 DEF E!OpenSocket, E!Goto
<1>4. ASSUME NEW r \in Runners, E!Attach(r) PROVE Owned'
  BY <1>4 DEF E!Attach, E!Goto
<1>5. ASSUME NEW r \in Runners, E!LoadFails(r) PROVE Owned'
  BY <1>5 DEF E!LoadFails, E!Goto, E!Undo, E!Closed
<1>6. ASSUME NEW r \in Runners, E!Hand(r) PROVE Owned'
  BY <1>6 DEF E!Hand, E!Goto
<1>7. ASSUME NEW r \in Runners, E!Select(r) PROVE Owned'
  BY <1>7 DEF E!Select, E!Goto, E!Done
<1>8. ASSUME NEW r \in Runners, E!Number(r) PROVE Owned'
  BY <1>8 DEF E!Number, E!Goto
<1>9. ASSUME NEW r \in Runners, E!Recv(r) PROVE Owned'
  BY <1>9 DEF E!Recv, E!Goto
<1>10. ASSUME NEW r \in Runners, E!RecvFails(r) PROVE Owned'
  BY <1>10 DEF E!RecvFails, E!Goto, E!Errs
<1>11. ASSUME NEW r \in Runners, E!CleanupTakes(r) PROVE Owned'
  BY <1>11 DEF E!CleanupTakes, E!Goto, E!Closed
<1>12. ASSUME NEW r \in Runners, E!Cleanup(r) PROVE Owned'
  BY <1>12 DEF E!Cleanup, E!Goto
<1>13. ASSUME NEW s \in Stoppers, E!Shutdown(s) PROVE Owned'
  BY <1>13 DEF E!Shutdown, E!StopGoto
<1>14. ASSUME NEW s \in Stoppers, E!Cancel(s) PROVE Owned'
  BY <1>14 DEF E!Cancel, E!StopGoto
<1>15. ASSUME NEW s \in Stoppers, E!CloseSocket(s) PROVE Owned'
  BY <1>15 DEF E!CloseSocket, E!StopGoto, E!Closed
<1>16. ASSUME NEW s \in Stoppers, E!TakeRest(s) PROVE Owned'
  <2>1. /\ stop[s] = "take" /\ stop'[s] = "close" /\ server'.sock = E!NoFd /\ server'.links = 0
        /\ taken'[s] = server
        /\ \A t \in Stoppers \ {s} : stop'[t] = stop[t] /\ ~Busy(t)
        /\ UNCHANGED <<table, probes, run, mine>>
    BY <1>16 DEF E!TakeRest, E!StopGoto, E!Left, Busy
  <2> QED BY <2>1 DEF Busy
<1>17. ASSUME NEW s \in Stoppers, E!CloseRest(s) PROVE Owned'
  BY <1>17 DEF E!CloseRest, E!StopGoto
<1>18. CASE E!Others
  <2>1. \A fd \in Fds : table[fd] = "socket" <=> table'[fd] = "socket"
    <3>1. PICK fd \in Fds : \/ table[fd] = "free" /\ table' = [table EXCEPT ![fd] = "others"]
                            \/ table[fd] = "others" /\ table' = [table EXCEPT ![fd] = "free"]
      BY <1>18 DEF E!Others, E!Closed
    <3> QED BY <3>1
  <2>2. UNCHANGED <<server, loaded, run, mine, stop>>
    BY <1>18 DEF E!Others
  <2>3. server.sock # E!NoFd => (table[server.sock] = "socket" <=> table'[server.sock] = "socket")
    BY <2>1
  <2> HIDE DEF Typed, Alone, Placed, E!Nothing
  <2> QED BY <2>1, <2>2, <2>3
<1>19. CASE UNCHANGED eVars
  BY <1>19 DEF eVars
<1> QED BY <1>1, <1>2, <1>3, <1>4, <1>5, <1>6, <1>7, <1>8, <1>9, <1>10, <1>11, <1>12, <1>13, <1>14, <1>15, <1>16, <1>17, <1>18, <1>19 DEF E!Next, E!RunStep, E!StopStep

\* So do the probes.
LEMMA CountedNext == ASSUME Assumed, IInv, [E!Next]_eVars PROVE Counted'
<1> USE DEF Assumed, IInv, Typed, Alone, Placed, Counted, Active, Busy, Closing, Loads, E!Nothing, E!NoFd, Holdings, Held, NoneActive, NoneClosing, E!serverVars, E!kernelVars, E!runVars, E!stopVars, E!endVars
<1>1. ASSUME NEW r \in Runners, E!RunServe(r) PROVE Counted'
  BY <1>1 DEF E!RunServe, E!Goto
<1>2. ASSUME NEW r \in Runners, E!Load(r) PROVE Counted'
  BY <1>2 DEF E!Load, E!Goto
<1>3. ASSUME NEW r \in Runners, E!OpenSocket(r) PROVE Counted'
  BY <1>3 DEF E!OpenSocket, E!Goto
<1>4. ASSUME NEW r \in Runners, E!Attach(r) PROVE Counted'
  BY <1>4 DEF E!Attach, E!Goto
<1>5. ASSUME NEW r \in Runners, E!LoadFails(r) PROVE Counted'
  BY <1>5 DEF E!LoadFails, E!Goto, E!Undo, E!Closed
<1>6. ASSUME NEW r \in Runners, E!Hand(r) PROVE Counted'
  BY <1>6 DEF E!Hand, E!Goto
<1>7. ASSUME NEW r \in Runners, E!Select(r) PROVE Counted'
  BY <1>7 DEF E!Select, E!Goto, E!Done
<1>8. ASSUME NEW r \in Runners, E!Number(r) PROVE Counted'
  BY <1>8 DEF E!Number, E!Goto
<1>9. ASSUME NEW r \in Runners, E!Recv(r) PROVE Counted'
  BY <1>9 DEF E!Recv, E!Goto
<1>10. ASSUME NEW r \in Runners, E!RecvFails(r) PROVE Counted'
  BY <1>10 DEF E!RecvFails, E!Goto, E!Errs
<1>11. ASSUME NEW r \in Runners, E!CleanupTakes(r) PROVE Counted'
  BY <1>11 DEF E!CleanupTakes, E!Goto, E!Closed
<1>12. ASSUME NEW r \in Runners, E!Cleanup(r) PROVE Counted'
  BY <1>12 DEF E!Cleanup, E!Goto
<1>13. ASSUME NEW s \in Stoppers, E!Shutdown(s) PROVE Counted'
  BY <1>13 DEF E!Shutdown, E!StopGoto
<1>14. ASSUME NEW s \in Stoppers, E!Cancel(s) PROVE Counted'
  BY <1>14 DEF E!Cancel, E!StopGoto
<1>15. ASSUME NEW s \in Stoppers, E!CloseSocket(s) PROVE Counted'
  BY <1>15 DEF E!CloseSocket, E!StopGoto, E!Closed
<1>16. ASSUME NEW s \in Stoppers, E!TakeRest(s) PROVE Counted'
  <2>1. /\ stop[s] = "take" /\ stop'[s] = "close" /\ server'.sock = E!NoFd /\ server'.links = 0
        /\ taken'[s] = server
        /\ \A t \in Stoppers \ {s} : stop'[t] = stop[t] /\ ~Busy(t)
        /\ UNCHANGED <<table, probes, run, mine>>
    BY <1>16 DEF E!TakeRest, E!StopGoto, E!Left, Busy
  <2> QED BY <2>1 DEF Busy
<1>17. ASSUME NEW s \in Stoppers, E!CloseRest(s) PROVE Counted'
  <2>1. /\ stop[s] = "close" /\ stop'[s] = "over" /\ probes' = probes - taken[s].links
        /\ \A t \in Stoppers \ {s} : stop'[t] = stop[t] /\ ~Busy(t)
        /\ UNCHANGED <<server, run, mine>>
    BY <1>17 DEF E!CloseRest, E!StopGoto
  <2>2. NoneClosing'
    BY <2>1
  <2>3. taken[s].links \in Nat /\ server.links \in Nat /\ \A r \in Runners : mine[r].links \in Nat
    OBVIOUS
  <2>4. ASSUME NEW r \in Runners, Active(r)' PROVE Held(mine[r].links, 0)'
    BY <2>1, <2>3, <2>4
  <2>5. ASSUME NoneActive' PROVE Held(0, 0)'
    BY <2>1, <2>3, <2>5
  <2> QED BY <2>2, <2>4, <2>5
<1>18. CASE E!Others
  BY <1>18 DEF E!Others, E!Closed
<1>19. CASE UNCHANGED eVars
  BY <1>19 DEF eVars
<1> QED BY <1>1, <1>2, <1>3, <1>4, <1>5, <1>6, <1>7, <1>8, <1>9, <1>10, <1>11, <1>12, <1>13, <1>14, <1>15, <1>16, <1>17, <1>18, <1>19 DEF E!Next, E!RunStep, E!StopStep

-----------------------------------------------------------------------------

LEMMA EInvNext == ASSUME Assumed, IInv, [E!Next]_eVars PROVE IInv'
BY TypedNext, AloneNext, PlacedNext, CountedNext, OwnedNext, QuietNext DEF IInv

LEMMA EInvHolds == ASSUME Assumed, IInv PROVE E!NothingLeft /\ E!NoFalseExit
<1>1. ASSUME E!Over, E!Stopped
      PROVE  probes = 0 /\ ~loaded /\ \A fd \in Fds : table[fd] # "socket"
  <2>1. NoneActive /\ NoneClosing
    BY <1>1 DEF E!Over, E!Stopped, NoneActive, NoneClosing, Active, Closing
  <2>2. server.sock = E!NoFd /\ server.links = 0 /\ ~loaded
    BY <1>1, <2>1 DEF IInv, Placed, NoneActive
  <2>3. probes = 0
    BY <1>1, <2>1, <2>2 DEF IInv, Counted, Held
  <2>4. ASSUME NEW fd \in Fds PROVE table[fd] # "socket"
    BY <1>1, <2>1, <2>2 DEF IInv, Owned, NoneActive, Active, E!NoFd, Assumed
  <2> QED BY <2>2, <2>3, <2>4
<1>2. ASSUME server.sock # E!NoFd, mu = E!Nobody PROVE table[server.sock] = "socket"
  BY <1>2 DEF IInv, Owned, Alone, Assumed
<1> QED BY <1>1, <1>2 DEF E!NothingLeft, E!NoFalseExit, IInv, Quiet

-----------------------------------------------------------------------------
(* The passthrough server.  SlotsMatch is not inductive: that a handler     *)
(* leaves nothing behind rests on where its goroutine can be at each of its *)
(* steps (CatPlaced).                                                       *)

CatTyped ==
  /\ sem \in Nat
  /\ src \in [Conns -> {"none", "open", "half", "gone", "reset"}]
  /\ dst \in [Conns -> {"none", "open", "half", "gone", "reset"}]
  /\ step \in [Conns -> {"none", "refused", "peek", "dial", "hello", "copies", "waits", "end"}]
  /\ up \in [Conns -> {"none", "copies", "done"}]

\* Before the greeting is sent on no goroutine copies, and a handler that is
\* over has waited for it.
CatPlaced ==
  \A c \in Conns :
    /\ step[c] \in {"none", "refused", "peek", "dial"} => dst[c] = "none"
    /\ step[c] \in {"none", "refused", "peek", "dial", "hello"} => up[c] = "none"
    /\ step[c] = "end" => src[c] = "reset" /\ dst[c] \in {"none", "reset"} /\ up[c] # "copies"

Running == {c \in Conns : K!Handled(c)}

\* The slots that are taken.
CatCounted == sem = Cardinality(Running) /\ sem <= MaxConn

CatInv == CatTyped /\ CatPlaced /\ CatCounted

-----------------------------------------------------------------------------

LEMMA CatInit == ASSUME MaxConn \in Nat, K!Init PROVE CatInv
<1>1. Running = {}
  BY DEF K!Init, Running, K!Handled
<1>2. Cardinality(Running) = 0
  BY <1>1, FS_EmptySet
<1> QED BY <1>2 DEF K!Init, CatInv, CatTyped, CatPlaced, CatCounted

\* One connection more takes a slot, one that ends gives its slot back, and
\* any other step leaves the slots alone.
LEMMA Taken ==
  ASSUME IsFiniteSet(Conns), CatTyped, CatCounted, NEW c \in Conns, step[c] = "none", sem < MaxConn,
         step' = [step EXCEPT ![c] = "peek"], sem' = sem + 1, MaxConn \in Nat
  PROVE  CatCounted' /\ sem' \in Nat
<1>1. IsFiniteSet(Running)
  BY FS_Subset DEF Running
<1>2. Running' = Running \cup {c} /\ c \notin Running
  BY DEF Running, K!Handled, CatTyped
<1>3. Cardinality(Running \cup {c}) = Cardinality(Running) + 1
  BY <1>1, <1>2, FS_AddElement
<1> QED BY <1>2, <1>3 DEF CatCounted, CatTyped

LEMMA GivenBack ==
  ASSUME IsFiniteSet(Conns), CatTyped, CatCounted, NEW c \in Conns, K!Handled(c), K!Return(c), MaxConn \in Nat
  PROVE  CatCounted' /\ sem' \in Nat
<1>1. IsFiniteSet(Running)
  BY FS_Subset DEF Running
<1>2. Running' = Running \ {c} /\ c \in Running
  BY DEF Running, K!Handled, CatTyped, K!Return
<1>3. Cardinality(Running \ {c}) = Cardinality(Running) - 1
  BY <1>1, <1>2, FS_RemoveElement
<1>4. Cardinality(Running \ {c}) \in Nat
  BY <1>1, FS_RemoveElement, FS_CardinalityType
<1> QED BY <1>2, <1>3, <1>4 DEF CatCounted, CatTyped, K!Return, K!Freed

LEMMA NotTouched ==
  ASSUME CatCounted, sem' = sem, Running' = Running PROVE CatCounted'
BY DEF CatCounted

LEMMA CatNext == ASSUME IsFiniteSet(Conns), MaxConn \in Nat, CatInv, [K!Next]_kVars PROVE CatInv'
<1> USE DEF CatInv, CatTyped
<1>1. CASE K!RunServe \/ K!Shutdown \/ K!AcceptEnds
  <2>1. UNCHANGED <<sem, src, dst, step, up>>
    BY <1>1 DEF K!RunServe, K!Shutdown, K!AcceptEnds
  <2> QED BY <2>1 DEF CatPlaced, CatCounted, Running, K!Handled
<1>2. ASSUME NEW c \in Conns, K!Accept(c) PROVE CatInv'
  <2>1. CatCounted' /\ sem' \in Nat
    <3>1. CASE sem < MaxConn
      BY <1>2, <3>1, Taken DEF K!Accept
    <3>2. CASE ~(sem < MaxConn)
      <4>1. Running' = Running /\ sem' = sem
        BY <1>2, <3>2 DEF K!Accept, Running, K!Handled
      <4> QED BY <4>1, NotTouched
    <3> QED BY <3>1, <3>2
  <2>2. CatTyped' /\ CatPlaced'
    BY <1>2, <2>1 DEF K!Accept, CatPlaced
  <2> QED BY <2>1, <2>2
\* However a handler ends.
<1>3. ASSUME NEW c \in Conns, K!Handled(c), K!Return(c), up[c] # "copies" PROVE CatInv'
  <2>1. CatCounted' /\ sem' \in Nat
    BY <1>3, GivenBack
  <2>2. CatTyped' /\ CatPlaced'
    BY <1>3, <2>1 DEF K!Return, CatPlaced
  <2> QED BY <2>1, <2>2
<1>4. ASSUME NEW c \in Conns, K!Fails(c) PROVE CatInv'
  BY <1>3, <1>4 DEF K!Fails, K!Handled, CatPlaced
<1>5. ASSUME NEW c \in Conns, K!Done(c) PROVE CatInv'
  BY <1>3, <1>5 DEF K!Done, K!Waited, K!Handled
<1>6. ASSUME NEW c \in Conns,
             K!PeekSNI(c) \/ K!Dial(c) \/ K!DownEnds(c) \/ K!UpEnds(c) \/ K!WriteFails(c) \/ K!SrcMoves(c) \/ K!DstMoves(c)
      PROVE CatInv'
  <2>1. Running' = Running /\ sem' = sem
    BY <1>6 DEF K!PeekSNI, K!Dial, K!DownEnds, K!UpEnds, K!WriteFails, K!SrcMoves, K!DstMoves, Running, K!Handled
  <2>2. CatTyped' /\ CatPlaced'
    BY <1>6 DEF K!PeekSNI, K!Dial, K!DownEnds, K!UpEnds, K!WriteFails, K!SrcMoves, K!DstMoves, K!Closed, CatPlaced
  <2> QED BY <2>1, <2>2, NotTouched
<1>7. ASSUME NEW c \in Conns, K!Hello(c) PROVE CatInv'
  <2>1. CASE K!Return(c)
    BY <1>3, <1>7, <2>1 DEF K!Hello, K!Handled, CatPlaced
  <2>2. CASE ~K!Return(c)
    <3>1. Running' = Running /\ sem' = sem
      BY <1>7, <2>2 DEF K!Hello, Running, K!Handled
    <3>2. CatTyped' /\ CatPlaced'
      BY <1>7, <2>2 DEF K!Hello, CatPlaced
    <3> QED BY <3>1, <3>2, NotTouched
  <2> QED BY <2>1, <2>2
<1>8. CASE UNCHANGED kVars
  BY <1>8 DEF kVars, CatPlaced, CatCounted, Running, K!Handled
<1> QED BY <1>1, <1>2, <1>4, <1>5, <1>6, <1>7, <1>8 DEF K!Next, K!Handler

\* The instance has a Cardinality of its own.
LEMMA SameCardinality == \A Z : K!Cardinality(Z) = Cardinality(Z)
BY DEF K!Cardinality, Cardinality

LEMMA CatInvHolds == ASSUME CatInv PROVE K!SlotsMatch
<1>1. sem = Cardinality({c \in Conns : K!Handled(c)}) /\ sem <= MaxConn
  BY DEF CatInv, CatCounted, Running
<1>2. \A c \in Conns : step[c] = "end" => src[c] = "reset" /\ dst[c] \in {"none", "reset"} /\ up[c] # "copies"
  BY DEF CatInv, CatPlaced
<1> QED BY <1>1, <1>2, SameCardinality DEF K!SlotsMatch

-----------------------------------------------------------------------------
(* The handshake.  Who has the client's connection changes on the way: it   *)
(* is open wherever the dial is under way, and DialContext's deferred       *)
(* function has it as soon as nobody else closes it (ClientAt); the Conn of *)
(* the server, its answer and the Conn of the client have one setting       *)
(* (ServerAt, Answered).                                                    *)

Asks == [kind |-> "request", protocols |-> dialer.protocols, compress |-> dialer.compress,
         foreign |-> dialer.foreign]
Chosen == [protocol |-> H!selectSubprotocol(request), compress |-> H!Negotiated(request)]
Says == [kind |-> "101", protocol |-> Chosen.protocol, compress |-> Chosen.compress]

BeforeWrite == {"start", "dial", "greet", "limit", "connect", "answer", "tls", "write"}
UnderWay == (BeforeWrite \ {"start", "dial"}) \cup {"read", "clear"}

Wanted ==
  /\ client \in BeforeWrite \cup {"read", "clear", "done", "failed"}
  /\ dialer.protocols \in H!Orders /\ dialer.compress \in BOOLEAN
  /\ upgrader.isNil \in BOOLEAN /\ upgrader.compress \in BOOLEAN
  /\ settled = [side \in {"client", "server"} |-> settled[side]]

\* What the client has where it is; it writes one request.
ClientAt ==
  /\ client \in UnderWay \cup {"done"} => cconn = "open"
  /\ client \in {"start", "dial"} => cconn = "none"
  /\ client = "failed" => cconn # "open"
  /\ client \in {"tls", "write", "read", "clear"} => "client" \in netConn
  /\ client = "done" => "client" \notin limited
  /\ client \in BeforeWrite => request = H!None
  /\ client \in {"read", "clear", "done"} => request # H!None
  /\ client \in {"clear", "done"} => reply = Says /\ settled["client"] = Chosen
  /\ request \in {H!None, Asks}

\* What the server has where it is.
ServerAt ==
  /\ upgrade \in {"waits", "limit", "write", "clear", "refused", "done", "failed"}
  /\ upgrade = "waits" => sconn = IF request = H!None THEN "none" ELSE "http"
  /\ upgrade \in {"limit", "write", "clear", "done"} => sconn = "open"
  /\ upgrade \in {"limit", "write", "clear"} => "server" \in netConn
  /\ upgrade = "write" /\ ~upgrader.timeout => "server" \notin limited
  /\ upgrade = "done" => "server" \notin limited
  /\ upgrade \in {"limit", "write", "clear", "done", "failed"} => settled["server"] = Chosen
  /\ upgrade = "refused" => sconn = "http"
  /\ upgrade = "failed" => sconn = "closed"
  /\ upgrade # "waits" => request # H!None

Answered ==
  \/ upgrade \in {"waits", "limit", "write", "failed"} /\ reply = H!None
  \/ upgrade = "refused" /\ reply \in {[kind |-> "403"], [kind |-> "500"]}
  \/ upgrade \in {"clear", "done", "failed"} /\ reply = Says

HandshakeInv == Wanted /\ ClientAt /\ ServerAt /\ Answered

LEMMA HandshakeInit == ASSUME H!Init PROVE HandshakeInv
<1>1. dialer \in H!Dialers /\ upgrader \in H!Upgraders
  BY DEF H!Init
<1>2. Wanted
  BY <1>1 DEF H!Init, Wanted, H!Dialers, H!Upgraders, BeforeWrite
<1>3. ClientAt /\ ServerAt /\ Answered
  BY DEF H!Init, ClientAt, ServerAt, Answered, UnderWay, BeforeWrite
<1> QED BY <1>2, <1>3 DEF HandshakeInv

LEMMA OneRequest == H!None.kind = "none" /\ Asks.kind = "request" /\ Asks # H!None
               /\ Asks.protocols = dialer.protocols /\ Asks.compress = dialer.compress
BY DEF H!None, Asks

LEMMA OneAnswer == /\ Says.kind = "101" /\ Says # H!None /\ Says # [kind |-> "403"] /\ Says # [kind |-> "500"]
              /\ [protocol |-> Says.protocol, compress |-> Says.compress] = Chosen
              /\ H!None # [kind |-> "403"] /\ H!None # [kind |-> "500"]
<1>1. Says.kind = "101" /\ Says.protocol = Chosen.protocol /\ Says.compress = Chosen.compress
  BY DEF Says
<1>2. Chosen = [protocol |-> Chosen.protocol, compress |-> Chosen.compress]
  BY DEF Chosen
<1>3. H!None.kind = "none" /\ [kind |-> "403"].kind = "403" /\ [kind |-> "500"].kind = "500"
  BY DEF H!None
<1> QED BY <1>1, <1>2, <1>3

\* What was settled on stays, as the settings of both sides do.
LEMMA ChosenStays ==
  ASSUME UNCHANGED <<dialer, upgrader, request>> PROVE Chosen' = Chosen /\ Says' = Says /\ Asks' = Asks
<1>1. H!selectSubprotocol(request)' = H!selectSubprotocol(request)
      /\ H!Negotiated(request)' = H!Negotiated(request)
  BY DEF H!selectSubprotocol, H!Negotiated
<1> QED BY <1>1 DEF Chosen, Says, Asks

LEMMA HandshakeNext == ASSUME HandshakeInv, [H!Next]_hVars PROVE HandshakeInv'
<1>0. /\ H!None.kind = "none" /\ Asks.kind = "request" /\ Asks # H!None
      /\ Wanted /\ ClientAt /\ ServerAt /\ Answered
  BY OneRequest DEF HandshakeInv
<1> USE <1>0, OneAnswer DEF H!ends, H!wire
<1> DEFINE ServerKept == UNCHANGED <<dialer, upgrader, upgrade, reply, sconn>> /\ UNCHANGED request
                         /\ settled'["server"] = settled["server"]
                         /\ settled' = [side \in {"client", "server"} |-> settled'[side]]
                         /\ ("server" \in netConn' <=> "server" \in netConn)
                         /\ ("server" \in limited' <=> "server" \in limited)
           ClientKept == UNCHANGED <<dialer, upgrader, client, cconn>> /\ UNCHANGED request
                         /\ settled'["client"] = settled["client"]
                         /\ settled' = [side \in {"client", "server"} |-> settled'[side]]
                         /\ ("client" \in netConn' <=> "client" \in netConn)
                         /\ ("client" \in limited' <=> "client" \in limited)
<1>13. ASSUME ServerKept, ClientAt', client' \in BeforeWrite \cup {"read", "clear", "done", "failed"}
      PROVE  HandshakeInv'
  <2>1. Chosen' = Chosen /\ Says' = Says
    BY <1>13, ChosenStays
  <2>2. ServerAt' /\ Answered'
    BY <1>13, <2>1 DEF ServerAt, Answered
  <2>3. Wanted'
    BY <1>13 DEF Wanted
  <2> QED BY <1>13, <2>2, <2>3 DEF HandshakeInv
<1>14. ASSUME ClientKept, ServerAt', Answered', reply' = reply \/ client \notin {"clear", "done"}
      PROVE  HandshakeInv'
  <2>1. Chosen' = Chosen /\ Says' = Says /\ Asks' = Asks
    BY <1>14, ChosenStays
  <2>2. ClientAt'
    BY <1>14, <2>1 DEF ClientAt
  <2>3. Wanted'
    BY <1>14 DEF Wanted
  <2> QED BY <1>14, <2>2, <2>3 DEF HandshakeInv
<1>1. CASE H!Prepare \/ H!Connect \/ H!Greet \/ H!Ask \/ H!doHandshake
  <2>1. /\ ServerKept /\ UNCHANGED <<netConn, limited>>
        /\ \/ client = "start" /\ client' \in {"failed", "dial"} /\ cconn' = cconn
           \/ client = "dial" /\ client' \in {"greet", "limit"} /\ cconn' = "open"
           \/ client \in {"greet", "connect"} /\ client' \in {"limit", "answer"} /\ cconn' = cconn
           \/ client = "tls" /\ client' = "write" /\ cconn' = cconn
    BY <1>1 DEF H!Prepare, H!Connect, H!Greet, H!Ask, H!doHandshake, Wanted
  <2>2. ClientAt' /\ client' \in BeforeWrite \cup {"read", "clear", "done", "failed"}
    BY <2>1, ChosenStays DEF ClientAt, UnderWay, BeforeWrite
  <2> QED BY <1>13, <2>1, <2>2
<1>2. CASE H!Limit \/ H!Proxied
  <2>1. /\ ServerKept
        /\ client \in {"limit", "answer"} /\ cconn' = cconn
        /\ \/ client' \in {"tls", "write"} /\ "client" \in netConn'
           \/ client' = "connect"
    BY <1>2 DEF H!Limit, H!Proxied, H!Given, H!Limited, Wanted
  <2>2. ClientAt' /\ client' \in BeforeWrite \cup {"read", "clear", "done", "failed"}
    BY <2>1, ChosenStays DEF ClientAt, UnderWay, BeforeWrite
  <2> QED BY <1>13, <2>1, <2>2
<1>3. CASE H!WriteRequest
  <2>1. /\ UNCHANGED <<dialer, upgrader, upgrade, reply, cconn, netConn, limited, settled>>
        /\ client = "write" /\ client' = "read" /\ request' = Asks /\ sconn' = "http"
    BY <1>3 DEF H!WriteRequest, Asks
  <2>2. upgrade = "waits" /\ Asks' = Asks
    BY <2>1 DEF ClientAt, ServerAt, BeforeWrite, Asks
  <2>3. reply = H!None
    BY <2>2 DEF Answered
  <2>4. ClientAt' /\ ServerAt' /\ Answered' /\ Wanted'
    BY <2>1, <2>2, <2>3 DEF ClientAt, ServerAt, Answered, Wanted, UnderWay, BeforeWrite
  <2> QED BY <2>4 DEF HandshakeInv
<1>4. CASE H!ReadAnswer
  <2>1. /\ UNCHANGED <<dialer, upgrader, upgrade, reply, cconn, sconn, netConn, limited, request>>
        /\ client = "read" /\ client' = "clear" /\ reply.kind = "101"
        /\ settled' = [settled EXCEPT !["client"] = [protocol |-> reply.protocol, compress |-> reply.compress]]
    BY <1>4 DEF H!ReadAnswer
  <2>2. reply = Says
    <3>1. reply # H!None /\ reply # [kind |-> "403"] /\ reply # [kind |-> "500"]
      BY <2>1 DEF H!None
    <3> QED BY <3>1 DEF Answered
  <2>3. ServerKept /\ settled'["client"] = Chosen
    BY <2>1, <2>2 DEF Wanted
  <2>4. ClientAt' /\ client' \in BeforeWrite \cup {"read", "clear", "done", "failed"}
    BY <2>1, <2>2, <2>3, ChosenStays DEF ClientAt, UnderWay, BeforeWrite
  <2> QED BY <1>13, <2>3, <2>4
<1>5. CASE H!Return
  <2>1. /\ ServerKept /\ UNCHANGED settled
        /\ client = "clear" /\ client' = "done" /\ cconn' = cconn /\ "client" \notin limited'
    BY <1>5 DEF H!Return, Wanted
  <2>2. ClientAt' /\ client' \in BeforeWrite \cup {"read", "clear", "done", "failed"}
    BY <2>1, ChosenStays DEF ClientAt, UnderWay, BeforeWrite
  <2> QED BY <1>13, <2>1, <2>2
<1>6. CASE H!Errors
  <2>1. /\ ServerKept /\ client' = "failed" /\ cconn' # "open"
    BY <1>6 DEF H!Errors, H!ConnectFails, H!GreetFails, H!LimitFails, H!AskFails, H!Unproxied, H!DialFails,
                H!Fails, ClientAt, Wanted
  <2>2. ClientAt' /\ client' \in BeforeWrite \cup {"read", "clear", "done", "failed"}
    BY <2>1, ChosenStays DEF ClientAt, UnderWay, BeforeWrite
  <2> QED BY <1>13, <2>1, <2>2
<1>7. CASE H!Expire \/ H!Silence \/ UNCHANGED hVars
  <2>1. ServerKept /\ UNCHANGED <<client, cconn, netConn, limited, settled>>
    BY <1>7 DEF H!Expire, H!Silence, hVars, Wanted
  <2>2. ClientAt' /\ client' \in BeforeWrite \cup {"read", "clear", "done", "failed"}
    BY <2>1, ChosenStays DEF ClientAt, Wanted
  <2> QED BY <1>13, <2>1, <2>2
<1>8. CASE H!Refuse \/ H!HijackFails
  <2>1. /\ ClientKept /\ upgrade = "waits" /\ request.kind = "request"
        /\ upgrade' = "refused" /\ sconn' = sconn /\ reply' \in {[kind |-> "403"], [kind |-> "500"]}
    BY <1>8 DEF H!Refuse, H!HijackFails, Wanted
  <2>2. ServerAt' /\ Answered' /\ client \notin {"clear", "done"}
    BY <2>1 DEF ServerAt, Answered, ClientAt
  <2> QED BY <1>14, <2>1, <2>2
<1>9. CASE H!Hijack
  <2>1. /\ ClientKept /\ upgrade = "waits" /\ request.kind = "request" /\ reply' = reply
        /\ upgrade' = "limit" /\ sconn' = "open" /\ "server" \in netConn' /\ settled'["server"] = Chosen
    BY <1>9 DEF H!Hijack, Wanted, Chosen
  <2>2. ServerAt' /\ Answered'
    BY <2>1, ChosenStays DEF ServerAt, Answered
  <2> QED BY <1>14, <2>1, <2>2
<1>10. CASE H!LimitAnswer
  <2>1. /\ ClientKept /\ upgrade = "limit" /\ upgrade' = "write" /\ UNCHANGED <<sconn, reply, netConn, settled>>
        /\ ~upgrader.timeout => "server" \notin limited'
    BY <1>10 DEF H!LimitAnswer, Wanted
  <2>2. ServerAt' /\ Answered'
    BY <2>1, ChosenStays DEF ServerAt, Answered
  <2> QED BY <1>14, <2>1, <2>2
<1>11. CASE H!WriteAnswer
  <2>1. /\ ClientKept /\ upgrade = "write" /\ UNCHANGED <<sconn, settled, limited>>
        /\ reply' = [kind |-> "101", protocol |-> settled["server"].protocol, compress |-> settled["server"].compress]
        /\ \/ upgrade' = "clear" /\ netConn' = netConn
           \/ upgrade' = "done" /\ ~upgrader.timeout
    BY <1>11 DEF H!WriteAnswer, Wanted
  <2>2. reply' = Says /\ client \notin {"clear", "done"}
    BY <2>1 DEF Says, ServerAt, Answered, ClientAt
  <2>3. ServerAt' /\ Answered'
    BY <2>1, <2>2, ChosenStays DEF ServerAt, Answered
  <2> QED BY <1>14, <2>1, <2>2, <2>3
<1>12. CASE H!ClearLimit \/ H!UpgradeFails
  <2>1. /\ ClientKept /\ UNCHANGED <<reply, settled>>
        /\ \/ upgrade = "clear" /\ upgrade' = "done" /\ sconn' = sconn /\ "server" \notin limited'
           \/ upgrade \in {"limit", "write", "clear"} /\ upgrade' = "failed" /\ sconn' = "closed"
    BY <1>12 DEF H!ClearLimit, H!UpgradeFails, Wanted, ServerAt
  <2>2. ServerAt' /\ Answered'
    BY <2>1, ChosenStays DEF ServerAt, Answered
  <2> QED BY <1>14, <2>1, <2>2
<1> QED
  BY <1>1, <1>2, <1>3, <1>4, <1>5, <1>6, <1>7, <1>8, <1>9, <1>10, <1>11, <1>12
  DEF H!Next, H!ClientStep, H!ServerStep, H!TimedOut, H!BadAnswer, H!Errors

LEMMA Least ==
  ASSUME NEW T, T \subseteq Nat, T # {}
  PROVE  \E i \in T : \A j \in T : i <= j
<1>1. PICK i \in T : \A j \in T : ~ (<<j, i>> \in OpToRel(<, Nat))
  BY WFMin, NatLessThanWellFounded
<1>2. ASSUME NEW j \in T PROVE i <= j
  <2>1. <<j, i>> \in Nat \X Nat => ~ (j < i)
    BY <1>1, <1>2 DEF OpToRel
  <2> QED BY <2>1
<1> QED BY <1>2

\* What the server settles on was asked for, or is what the application says.
LEMMA AskedFor ==
  ASSUME dialer.protocols \in H!Orders
  PROVE  H!selectSubprotocol(Asks) \in {"", upgrader.chosen} \cup H!Range(dialer.protocols)
<1> DEFINE both == {i \in DOMAIN dialer.protocols : dialer.protocols[i] \in upgrader.protocols}
           least == CHOOSE i \in both : \A j \in both : i <= j
<1>1. H!selectSubprotocol(Asks) =
        IF upgrader.isNil THEN upgrader.chosen
        ELSE IF both = {} THEN "" ELSE dialer.protocols[least]
  BY OneRequest DEF H!selectSubprotocol
<1>2. both \subseteq Nat
  BY DEF H!Orders
<1>3. ASSUME both # {} PROVE least \in both
  <2>1. \E i \in both : \A j \in both : i <= j
    BY <1>2, <1>3, Least
  <2> HIDE DEF both
  <2> QED BY <2>1
<1>4. both # {} => dialer.protocols[least] \in H!Range(dialer.protocols)
  BY <1>3 DEF H!Range
<1> HIDE DEF both, least
<1> QED BY <1>1, <1>4

LEMMA HandshakeHolds == ASSUME HandshakeInv PROVE H!BothAgree /\ H!FailureCloses
<1>0. Wanted /\ ClientAt /\ ServerAt /\ Answered
  BY DEF HandshakeInv
<1>1. ASSUME client = "done"
      PROVE  /\ settled["client"] = settled["server"]
             /\ settled["client"].protocol \in {"", upgrader.chosen} \cup H!Range(dialer.protocols)
             /\ settled["client"].compress => dialer.compress /\ upgrader.compress
             /\ upgrade \in {"clear", "done", "failed"}
  <2>1. reply = Says /\ settled["client"] = Chosen /\ request = Asks
    BY <1>0, <1>1 DEF ClientAt
  <2>2. upgrade \in {"clear", "done", "failed"}
    BY <1>0, <2>1, OneAnswer DEF Answered
  <2>3. settled["server"] = Chosen
    BY <1>0, <2>2 DEF ServerAt
  <2>4. Chosen.protocol = H!selectSubprotocol(Asks) /\ Chosen.compress = (upgrader.compress /\ dialer.compress)
    BY <2>1, OneRequest DEF Chosen, H!Negotiated
  <2>5. Chosen.protocol \in {"", upgrader.chosen} \cup H!Range(dialer.protocols)
    BY <1>0, <2>4, AskedFor DEF Wanted
  <2> QED BY <2>1, <2>2, <2>3, <2>4, <2>5
<1>3. H!BothAgree
  BY <1>0, <1>1 DEF H!BothAgree, ClientAt, ServerAt
<1>2. H!FailureCloses
  BY <1>0 DEF H!FailureCloses, ClientAt, ServerAt
<1> QED BY <1>2, <1>3

-----------------------------------------------------------------------------
(* Headers.  What the loops read is known from the places where their       *)
(* rounds begin (RoundsAre); where these are what a definition by           *)
(* separators says, the token between two of them is the one that is read.  *)

Headers == Seq(W!Chars)

\* The first place without a character of C, and that there is one.
LEMMA PastIs ==
  ASSUME NEW s \in Headers, NEW i \in 1 .. Len(s) + 1, NEW C, "end" \notin C, NEW j, j = W!Past(s, i, C)
  PROVE  j \in i .. Len(s) + 1 /\ W!At(s, j) \notin C /\ \A k \in i .. j - 1 : s[k] \in C
<1>1. Len(s) \in Nat
  BY DEF Headers
<1>2. PICK T : T = {k \in i .. Len(s) + 1 : W!At(s, k) \notin C}
  OBVIOUS
<1>3. T \subseteq Nat
  BY <1>1, <1>2
<1>4. Len(s) + 1 \in T
  BY <1>1, <1>2 DEF W!At
<1>5. PICK least \in T : \A k \in T : least <= k
  BY <1>3, <1>4, Least
<1>6. ASSUME NEW k \in i .. least - 1 PROVE s[k] \in C
  <2>1. k \in i .. Len(s) + 1 /\ k <= Len(s) /\ ~(least <= k)
    BY <1>1, <1>2, <1>5
  <2>2. k \notin T
    BY <1>5, <2>1
  <2>3. W!At(s, k) \in C
    BY <1>2, <2>1, <2>2
  <2> QED BY <1>1, <2>1, <2>3 DEF W!At
<1>7. \E k \in i .. Len(s) + 1 : W!At(s, k) \notin C /\ \A l \in i .. k - 1 : s[l] \in C
  BY <1>2, <1>5, <1>6
<1> QED BY <1>7 DEF W!Past

LEMMA PastIf ==
  ASSUME NEW s \in Headers, NEW i \in 1 .. Len(s) + 1, NEW C, "end" \notin C,
         NEW j \in i .. Len(s) + 1, W!At(s, j) \notin C, \A k \in i .. j - 1 : s[k] \in C
  PROVE  W!Past(s, i, C) = j
<1>1. PICK p : p = W!Past(s, i, C)
  OBVIOUS
<1>2. p \in i .. Len(s) + 1 /\ W!At(s, p) \notin C /\ \A k \in i .. p - 1 : s[k] \in C
  BY <1>1, PastIs
<1>3. Len(s) \in Nat
  BY DEF Headers
<1>4. ASSUME p < j PROVE FALSE
  <2>1. p \in i .. j - 1 /\ p <= Len(s)
    BY <1>2, <1>3, <1>4
  <2> QED BY <1>2, <1>3, <2>1 DEF W!At
<1>5. ASSUME j < p PROVE FALSE
  <2>1. j \in i .. p - 1 /\ j <= Len(s)
    BY <1>2, <1>3, <1>5
  <2> QED BY <1>2, <1>3, <2>1 DEF W!At
<1> QED BY <1>1, <1>2, <1>3, <1>4, <1>5

\* A token, as it is read.
LEMMA TokenIs ==
  ASSUME NEW s \in Headers, NEW i \in 1 .. Len(s) + 1
  PROVE  \E first \in i .. Len(s) + 1 : \E end \in first .. Len(s) + 1 : \E at \in end .. Len(s) + 1 :
           /\ W!nextToken(s, i) = [token |-> SubSeq(s, first, end - 1), at |-> at]
           /\ \A k \in i .. first - 1 : s[k] = "space"
           /\ \A k \in first .. end - 1 : s[k] \in W!isTokenOctet
           /\ \A k \in end .. at - 1 : s[k] = "space"
           /\ W!At(s, first) # "space" /\ W!At(s, end) \notin W!isTokenOctet /\ W!At(s, at) # "space"
<1>0. Len(s) \in Nat
  BY DEF Headers
<1>1. PICK first : first = W!skipSpace(s, i)
  OBVIOUS
<1>2. first \in i .. Len(s) + 1 /\ W!At(s, first) # "space" /\ \A k \in i .. first - 1 : s[k] = "space"
  <2>1. PICK C : C = {"space"}
    OBVIOUS
  <2>2. first = W!Past(s, i, C) /\ "end" \notin C
    BY <1>1, <2>1 DEF W!skipSpace
  <2>3. first \in i .. Len(s) + 1 /\ W!At(s, first) \notin C /\ \A k \in i .. first - 1 : s[k] \in C
    BY <2>2, PastIs
  <2> QED BY <2>1, <2>3
<1>3. PICK end : end = W!Past(s, first, W!isTokenOctet)
  OBVIOUS
<1>4. end \in first .. Len(s) + 1 /\ W!At(s, end) \notin W!isTokenOctet /\ \A k \in first .. end - 1 : s[k] \in W!isTokenOctet
  <2>1. first \in 1 .. Len(s) + 1
    <3>1. first \in i .. Len(s) + 1 /\ i \in 1 .. Len(s) + 1
      BY <1>2
    <3> QED BY ONLY <1>0, <3>1
  <2>2. "end" \notin W!isTokenOctet
    BY DEF W!isTokenOctet
  <2> QED BY <1>3, <2>1, <2>2, PastIs
<1>5. PICK at : at = W!skipSpace(s, end)
  OBVIOUS
<1>6. at \in end .. Len(s) + 1 /\ W!At(s, at) # "space" /\ \A k \in end .. at - 1 : s[k] = "space"
  <2>1. PICK C : C = {"space"}
    OBVIOUS
  <2>2. end \in 1 .. Len(s) + 1
    <3>1. end \in first .. Len(s) + 1 /\ first \in i .. Len(s) + 1 /\ i \in 1 .. Len(s) + 1
      BY <1>2, <1>4
    <3> QED BY ONLY <1>0, <3>1
  <2>4. at = W!Past(s, end, C) /\ "end" \notin C
    BY <1>5, <2>1 DEF W!skipSpace
  <2>3. at \in end .. Len(s) + 1 /\ W!At(s, at) \notin C /\ \A k \in end .. at - 1 : s[k] \in C
    BY <2>2, <2>4, PastIs
  <2> QED BY <2>1, <2>3
<1>7. W!nextToken(s, i) = [token |-> SubSeq(s, first, end - 1), at |-> at]
  BY <1>1, <1>3, <1>5 DEF W!nextToken
<1> QED BY <1>2, <1>4, <1>6, <1>7

LEMMA Most ==
  ASSUME NEW n \in Nat, NEW T, T \subseteq 0 .. n, T # {}
  PROVE  \E i \in T : \A j \in T : j <= i
<1>1. PICK U : U = {n - k : k \in T}
  OBVIOUS
<1>2. U \subseteq Nat /\ U # {}
  <2>1. \A k \in T : n - k \in Nat
    OBVIOUS
  <2>2. PICK k \in T : TRUE
    OBVIOUS
  <2>3. n - k \in U
    BY <1>1
  <2> QED BY ONLY <1>1, <2>1, <2>3
<1>3. PICK u \in U : \A v \in U : u <= v
  BY <1>2, Least
<1>4. PICK i \in T : u = n - i
  BY <1>1
<1>5. ASSUME NEW j \in T PROVE j <= i
  <2>1. n - j \in U
    BY <1>1
  <2>2. n - i <= n - j
    BY <1>3, <1>4, <2>1
  <2>3. i \in 0 .. n /\ j \in 0 .. n
    OBVIOUS
  <2> QED BY ONLY n \in Nat, <2>2, <2>3
<1> QED BY <1>5

\* What has no spaces around it.
LEMMA TrimIf ==
  ASSUME NEW s \in Headers, NEW i \in Nat, NEW j \in Nat, NEW a \in i .. j - 1, NEW b \in a .. j - 1,
         s[a] # "space", s[b] # "space", \A k \in i .. a - 1 : s[k] = "space", \A k \in b + 1 .. j - 1 : s[k] = "space"
  PROVE  W!Trim(s, i, j) = SubSeq(s, a, b)
<1>1. PICK C : C = {k \in i .. j - 1 : s[k] # "space"}
  OBVIOUS
<1>2. a \in C /\ b \in C
  BY <1>1
<1>3. ASSUME NEW k \in C PROVE a <= k /\ k <= b
  <2>1. k \in i .. j - 1 /\ s[k] # "space"
    BY <1>1
  <2>2. ~(k \in i .. a - 1) /\ ~(k \in b + 1 .. j - 1)
    BY <2>1
  <2> QED BY <2>1, <2>2
<1>4. \A x \in C : (\A y \in C : x <= y) => x = a
  BY <1>1, <1>2, <1>3
<1>5. \A x \in C : (\A y \in C : y <= x) => x = b
  BY <1>1, <1>2, <1>3
<1>6. W!Min(C) = a
  BY <1>2, <1>3, <1>4 DEF W!Min
<1>7. W!Max(C) = b
  BY <1>2, <1>3, <1>5 DEF W!Max
<1> QED BY <1>1, <1>2, <1>6, <1>7 DEF W!Trim

Trimmed(s, i, j, a, b) ==
  /\ W!Trim(s, i, j) = SubSeq(s, a, b)
  /\ s[a] # "space" /\ s[b] # "space"
  /\ \A k \in i .. a - 1 : s[k] = "space"
  /\ \A k \in b + 1 .. j - 1 : s[k] = "space"

LEMMA TrimIs ==
  ASSUME NEW s \in Headers, NEW i \in Nat, NEW j \in Nat, W!Trim(s, i, j) # <<>>
  PROVE  \E a \in i .. j - 1 : \E b \in a .. j - 1 : Trimmed(s, i, j, a, b)
<1>1. PICK C : C = {k \in i .. j - 1 : s[k] # "space"}
  OBVIOUS
<1>2. C # {}
  BY <1>1 DEF W!Trim
<1>3. C \subseteq Nat /\ C \subseteq 0 .. j
  BY <1>1
<1>4. PICK a \in C : \A k \in C : a <= k
  BY <1>2, <1>3, Least
<1>5. PICK b \in C : \A k \in C : k <= b
  BY <1>2, <1>3, Most
<1>6. a \in i .. j - 1 /\ b \in i .. j - 1 /\ a <= b /\ s[a] # "space" /\ s[b] # "space"
  BY <1>1, <1>4, <1>5
<1>7. ASSUME NEW k \in i .. a - 1 PROVE s[k] = "space"
  <2>1. k \in i .. j - 1 /\ ~(a <= k)
    BY <1>6
  <2> QED BY <1>1, <1>4, <2>1
<1>8. ASSUME NEW k \in b + 1 .. j - 1 PROVE s[k] = "space"
  <2>1. k \in i .. j - 1 /\ ~(k <= b)
    BY <1>6
  <2> QED BY <1>1, <1>5, <2>1
<1>9. b \in a .. j - 1
  BY <1>6
<1>10. W!Trim(s, i, j) = SubSeq(s, a, b)
  BY <1>6, <1>7, <1>8, <1>9, TrimIf
<1> QED BY <1>6, <1>7, <1>8, <1>9, <1>10 DEF Trimmed

\* A token that a separator or the end follows is read.
LEMMA TokenRead ==
  ASSUME NEW s \in Headers, NEW i \in 1 .. Len(s) + 1, NEW j \in i .. Len(s) + 1,
         W!IsToken(W!Trim(s, i, j)), W!At(s, j) \notin W!isTokenOctet, W!At(s, j) # "space"
  PROVE  W!nextToken(s, i) = [token |-> W!Trim(s, i, j), at |-> j]
<1>0. Len(s) \in Nat
  BY DEF Headers
<1>1. i \in Nat /\ j \in Nat /\ i >= 1 /\ i <= j /\ j <= Len(s) + 1
  BY <1>0
<1>2. PICK t : t = W!Trim(s, i, j)
  OBVIOUS
<1>3. t # <<>> /\ \A k \in DOMAIN t : t[k] \in W!isTokenOctet
  BY <1>2 DEF W!IsToken
<1>4. PICK a \in i .. j - 1 : \E b \in a .. j - 1 : Trimmed(s, i, j, a, b)
  <2>1. s \in Headers /\ i \in Nat /\ j \in Nat /\ W!Trim(s, i, j) # <<>>
    BY <1>1, <1>2, <1>3
  <2> QED BY ONLY <2>1, TrimIs
<1>5. PICK b \in a .. j - 1 :
        /\ W!Trim(s, i, j) = SubSeq(s, a, b)
        /\ s[a] # "space" /\ s[b] # "space"
        /\ \A k \in i .. a - 1 : s[k] = "space"
        /\ \A k \in b + 1 .. j - 1 : s[k] = "space"
  BY <1>4 DEF Trimmed
<1>6. /\ a \in 1 .. Len(s) /\ b \in 1 .. Len(s) /\ a <= b /\ b + 1 <= j
      /\ a \in i .. Len(s) + 1 /\ b + 1 \in a .. Len(s) + 1 /\ j \in b + 1 .. Len(s) + 1
      /\ a \in 1 .. Len(s) + 1 /\ b + 1 \in 1 .. Len(s) + 1
  <2>1. a \in i .. j - 1 /\ b \in a .. j - 1
    OBVIOUS
  <2> QED BY ONLY <1>0, <1>1, <2>1
<1>7. ASSUME NEW k \in a .. b PROVE s[k] \in W!isTokenOctet
  <2>1. k - a + 1 \in 1 .. b - a + 1 /\ a + (k - a + 1) - 1 = k
    BY <1>6
  <2>2. Len(t) = b - a + 1 /\ \A m \in 1 .. b - a + 1 : t[m] = s[a + m - 1]
    <3>1. t = SubSeq(s, a, b) /\ s \in Seq(W!Chars)
      BY <1>2, <1>5 DEF Headers
    <3>2. a \in 1 .. Len(s) + 1 /\ b \in a - 1 .. Len(s)
      BY <1>6
    <3> QED BY ONLY <3>1, <3>2, SubSeqProperties
  <2>3. t[k - a + 1] = s[k]
    BY <2>1, <2>2
  <2>4. k - a + 1 \in DOMAIN t
    <3>1. t \in Seq(W!Chars)
      <4>1. t = SubSeq(s, a, b) /\ s \in Seq(W!Chars)
        BY <1>2, <1>5 DEF Headers
      <4>2. a \in 1 .. Len(s) + 1 /\ b \in a - 1 .. Len(s)
        BY <1>6
      <4> QED BY ONLY <4>1, <4>2, SubSeqProperties
    <3> QED BY <2>1, <2>2, <3>1
  <2> QED BY <1>3, <2>3, <2>4
<1>8. W!skipSpace(s, i) = a
  <2>1. PICK C : C = {"space"}
    OBVIOUS
  <2>2. "end" \notin C /\ W!At(s, a) \notin C /\ \A k \in i .. a - 1 : s[k] \in C
    <3>1. W!At(s, a) = s[a]
      BY <1>0, <1>6 DEF W!At
    <3> QED BY <1>5, <2>1, <3>1
  <2>3. W!Past(s, i, C) = a
    BY <1>6, <2>2, PastIf
  <2> QED BY <2>1, <2>3 DEF W!skipSpace
<1>9. W!Past(s, a, W!isTokenOctet) = b + 1
  <2>1. "end" \notin W!isTokenOctet /\ "space" \notin W!isTokenOctet
    BY DEF W!isTokenOctet
  <2>2. W!At(s, b + 1) \notin W!isTokenOctet
    <3>1. CASE b + 1 = j
      BY <3>1
    <3>2. CASE b + 1 # j
      <4>1. b + 1 \in b + 1 .. j - 1 /\ ~(b + 1 > Len(s))
        <5>1. b + 1 <= j /\ j <= Len(s) + 1 /\ b \in 1 .. Len(s) /\ j \in Nat
          BY <1>1, <1>6
        <5> QED BY ONLY <1>0, <3>2, <5>1
      <4>2. W!At(s, b + 1) = "space"
        BY <1>5, <4>1 DEF W!At
      <4> QED BY <2>1, <4>2
    <3> QED BY <3>1, <3>2
  <2>3. \A k \in a .. (b + 1) - 1 : s[k] \in W!isTokenOctet
    <3>1. (b + 1) - 1 = b
      BY <1>6
    <3> QED BY <1>7, <3>1
  <2> QED BY <1>6, <2>1, <2>2, <2>3, PastIf
<1>10. W!skipSpace(s, b + 1) = j
  <2>1. PICK C : C = {"space"}
    OBVIOUS
  <2>2. "end" \notin C /\ W!At(s, j) \notin C /\ \A k \in b + 1 .. j - 1 : s[k] \in C
    BY <1>5, <2>1
  <2>3. W!Past(s, b + 1, C) = j
    BY <1>6, <2>2, PastIf
  <2> QED BY <2>1, <2>3 DEF W!skipSpace
<1>11. (b + 1) - 1 = b
  BY <1>6
<1> QED BY <1>5, <1>8, <1>9, <1>10, <1>11 DEF W!nextToken

\* What is read is all there is up to the place behind it.
LEMMA ElementRead ==
  ASSUME NEW s \in Headers, NEW i \in 1 .. Len(s) + 1, NEW j, j = W!nextToken(s, i).at, W!nextToken(s, i).token # <<>>
  PROVE  /\ j \in i + 1 .. Len(s) + 1
         /\ W!Trim(s, i, j) = W!nextToken(s, i).token
         /\ \A k \in i .. j - 1 : s[k] \in W!isTokenOctet \cup {"space"}
<1>0. Len(s) \in Nat
  BY DEF Headers
<1> DEFINE Token(first, end, at) ==
      /\ W!nextToken(s, i) = [token |-> SubSeq(s, first, end - 1), at |-> at]
      /\ \A k \in i .. first - 1 : s[k] = "space"
      /\ \A k \in first .. end - 1 : s[k] \in W!isTokenOctet
      /\ \A k \in end .. at - 1 : s[k] = "space"
      /\ W!At(s, first) # "space" /\ W!At(s, end) \notin W!isTokenOctet /\ W!At(s, at) # "space"
<1>1. PICK first \in i .. Len(s) + 1 : \E end \in first .. Len(s) + 1 : \E at \in end .. Len(s) + 1 : Token(first, end, at)
  BY TokenIs
<1>2. PICK end \in first .. Len(s) + 1 : \E at \in end .. Len(s) + 1 : Token(first, end, at)
  BY <1>1
<1>3. PICK at \in end .. Len(s) + 1 : Token(first, end, at)
  BY <1>2
<1>4. at = j /\ W!nextToken(s, i).token = SubSeq(s, first, end - 1)
  BY <1>3
<1>5. i \in Nat /\ i >= 1 /\ first \in Nat /\ end \in Nat /\ j \in Nat /\ i <= first /\ first <= end /\ end <= j /\ j <= Len(s) + 1
  <2>1. i \in 1 .. Len(s) + 1 /\ first \in i .. Len(s) + 1 /\ end \in first .. Len(s) + 1 /\ j \in end .. Len(s) + 1
    BY <1>4
  <2> QED BY ONLY <1>0, <2>1
<1>6. first < end
  <2>1. CASE first = end
    <3>1. SubSeq(s, first, end - 1) = <<>>
      BY <1>5, <2>1
    <3> QED BY <1>4, <3>1
  <2> QED BY <1>5, <2>1
<1>7. first \in i .. j - 1 /\ end - 1 \in first .. j - 1 /\ (end - 1) + 1 = end /\ first \in first .. end - 1 /\ end - 1 \in first .. end - 1
  BY ONLY <1>5, <1>6
<1>8. s[first] \in W!isTokenOctet /\ s[end - 1] \in W!isTokenOctet /\ "space" \notin W!isTokenOctet
  <2>1. "space" \notin W!isTokenOctet
    BY DEF W!isTokenOctet
  <2> QED BY <1>3, <1>7, <2>1
<1>9. W!Trim(s, i, j) = SubSeq(s, first, end - 1)
  <2>1. PICK b : b = end - 1
    OBVIOUS
  <2>2. b \in first .. j - 1 /\ s[b] # "space" /\ s[first] # "space" /\ \A k \in b + 1 .. j - 1 : s[k] = "space"
    BY <1>3, <1>4, <1>7, <1>8, <2>1
  <2>3. \A k \in i .. first - 1 : s[k] = "space"
    BY <1>3
  <2>4. W!Trim(s, i, j) = SubSeq(s, first, b)
    <3>1. s \in Headers /\ i \in Nat /\ j \in Nat /\ first \in i .. j - 1
      BY <1>5, <1>7
    <3> QED BY ONLY <2>2, <2>3, <3>1, TrimIf
  <2> QED BY <2>1, <2>4
<1>10. ASSUME NEW k \in i .. j - 1 PROVE s[k] \in W!isTokenOctet \cup {"space"}
  <2>1. k \in i .. first - 1 \/ k \in first .. end - 1 \/ k \in end .. j - 1
    BY ONLY <1>5, k \in i .. j - 1
  <2> QED BY <1>3, <1>4, <2>1
<1>11. j \in i + 1 .. Len(s) + 1
  BY ONLY <1>0, <1>5, <1>6
<1> QED BY <1>4, <1>9, <1>10, <1>11

LEMMA SameCount == \A Z : W!Cardinality(Z) = Cardinality(Z)
  BY DEF W!Cardinality, Cardinality, W!IsFiniteSet, IsFiniteSet

\* A finite set of numbers in its order.
Ordered(e, S) ==
  /\ \A n \in DOMAIN e : e[n] \in S
  /\ \A m \in DOMAIN e, n \in DOMAIN e : m < n => e[m] < e[n]
  /\ \A k \in S : \E n \in DOMAIN e : e[n] = k

LEMMA Ranks ==
  ASSUME NEW S, S \subseteq Nat, IsFiniteSet(S), NEW size, size = Cardinality(S),
         NEW e, DOMAIN e = 1 .. size,
         \A n \in 1 .. size : (\E k \in S : Cardinality({m \in S : m < k}) = n - 1) =>
                                 e[n] \in S /\ Cardinality({m \in S : m < e[n]}) = n - 1
  PROVE  size \in Nat /\ Ordered(e, S)
<1>1. size \in Nat
  BY FS_CardinalityType
<1>2. PICK rank : rank = [k \in S |-> Cardinality({m \in S : m < k})]
  OBVIOUS
<1>3. ASSUME NEW k \in S PROVE rank[k] \in 0 .. size - 1
  <2>1. PICK T : T = {m \in S : m < k}
    OBVIOUS
  <2>2. T \in SUBSET S /\ T # S
    BY <2>1
  <2>3. IsFiniteSet(T) /\ Cardinality(T) <= size /\ Cardinality(T) # size
    BY <2>2, FS_Subset
  <2>4. Cardinality(T) \in Nat
    BY <2>3, FS_CardinalityType
  <2>5. rank[k] = Cardinality(T)
    BY <1>2, <2>1
  <2> QED BY <1>1, <2>3, <2>4, <2>5
<1>4. ASSUME NEW k \in S, NEW l \in S, k < l PROVE rank[k] < rank[l]
  <2>1. PICK T : T = {m \in S : m < k}
    OBVIOUS
  <2>2. PICK U : U = {m \in S : m < l}
    OBVIOUS
  <2>3. T \in SUBSET S /\ U \in SUBSET S /\ k \notin T /\ T \cup {k} \in SUBSET U
    <3>1. \A m \in S : m \in Nat
      OBVIOUS
    <3>2. \A m \in S : m < k => m < l
      BY <1>4, <3>1
    <3>3. ~(k < k)
      BY <3>1
    <3> QED BY <1>4, <2>1, <2>2, <3>2, <3>3
  <2>4. IsFiniteSet(T) /\ IsFiniteSet(U)
    BY <2>3, FS_Subset
  <2>5. Cardinality(T \cup {k}) = Cardinality(T) + 1
    BY <2>3, <2>4, FS_AddElement
  <2>6. Cardinality(T \cup {k}) <= Cardinality(U)
    BY <2>3, <2>4, FS_Subset
  <2>7. Cardinality(T) \in Nat /\ Cardinality(U) \in Nat
    BY <2>4, FS_CardinalityType
  <2>8. rank[k] = Cardinality(T) /\ rank[l] = Cardinality(U)
    BY <1>2, <2>1, <2>2
  <2> QED BY <2>5, <2>6, <2>7, <2>8
<1>5. ASSUME NEW k \in S, NEW l \in S, rank[k] = rank[l] PROVE k = l
  <2>1. k \in Nat /\ l \in Nat /\ rank[k] \in Nat /\ ~(rank[k] < rank[l]) /\ ~(rank[l] < rank[k])
    BY <1>1, <1>3, <1>5
  <2>2. ~(k < l) /\ ~(l < k)
    BY <1>4, <2>1
  <2> QED BY <2>1, <2>2
<1>6. \A n \in 0 .. size - 1 : \E k \in S : rank[k] = n
  <2>1. rank \in [S -> 0 .. size - 1]
    BY <1>2, <1>3
  <2>2. rank \in Injection(S, 0 .. size - 1)
    BY <1>5, <2>1 DEF Injection, IsInjective
  <2>3. 0 \in Int /\ size - 1 \in Int
    BY <1>1
  <2>4. IsFiniteSet(0 .. size - 1) /\ Cardinality(0 .. size - 1) = IF 0 > size - 1 THEN 0 ELSE (size - 1) - 0 + 1
    BY ONLY <2>3, FS_Interval
  <2>5. Cardinality(0 .. size - 1) = size
    BY <1>1, <2>4
  <2>6. rank \in Surjection(S, 0 .. size - 1)
    BY <2>2, <2>4, <2>5, FS_Injection
  <2> QED BY <2>6 DEF Surjection
<1>7. ASSUME NEW n \in 1 .. size PROVE e[n] \in S /\ rank[e[n]] = n - 1
  <2>1. n - 1 \in 0 .. size - 1
    BY <1>1
  <2>2. \E k \in S : Cardinality({m \in S : m < k}) = n - 1
    BY <1>2, <1>6, <2>1
  <2>3. e[n] \in S /\ Cardinality({m \in S : m < e[n]}) = n - 1
    BY <2>2
  <2> QED BY <1>2, <2>3
<1>9. ASSUME NEW m \in 1 .. size, NEW n \in 1 .. size, m < n PROVE e[m] < e[n]
  <2>1. e[m] \in S /\ e[n] \in S /\ rank[e[m]] = m - 1 /\ rank[e[n]] = n - 1
    BY <1>7
  <2>2. rank[e[m]] < rank[e[n]] /\ e[m] \in Nat /\ e[n] \in Nat
    <3>1. m - 1 < n - 1
      BY ONLY <1>1, <1>9, m \in 1 .. size, n \in 1 .. size
    <3> QED BY <2>1, <3>1
  <2>3. e[m] # e[n] /\ ~(e[n] < e[m])
    <3>1. rank[e[m]] \in Nat /\ rank[e[n]] \in Nat
      BY <1>1, <1>3, <2>1
    <3>2. ~(rank[e[n]] < rank[e[m]]) /\ rank[e[n]] # rank[e[m]]
      BY <2>2, <3>1
    <3> QED BY <1>4, <2>1, <3>2
  <2> QED BY ONLY <2>2, <2>3
<1>10. ASSUME NEW k \in S PROVE \E n \in 1 .. size : e[n] = k
  <2>1. rank[k] + 1 \in 1 .. size /\ (rank[k] + 1) - 1 = rank[k]
    BY <1>1, <1>3
  <2>2. e[rank[k] + 1] \in S /\ rank[e[rank[k] + 1]] = rank[k]
    BY <1>7, <2>1
  <2>3. e[rank[k] + 1] = k
    BY <1>5, <2>2
  <2> QED BY <2>1, <2>3
<1> QED BY <1>1, <1>7, <1>9, <1>10 DEF Ordered

\* Where the parts between i and j end.
Marks(s, i, j, c) == {i - 1, j} \cup {k \in i .. j - 1 : s[k] = c}

Divides(e, s, i, j, c) ==
  /\ e \in Seq(Nat) /\ Len(e) >= 2 /\ e[1] = i - 1 /\ e[Len(e)] = j
  /\ \A n \in 1 .. Len(e) - 1 :
       /\ e[n] \in i - 1 .. j /\ e[n + 1] \in i - 1 .. j /\ e[n] < e[n + 1]
       /\ \A k \in e[n] + 1 .. e[n + 1] - 1 : s[k] # c
       /\ n < Len(e) - 1 => e[n + 1] \in i .. j - 1 /\ s[e[n + 1]] = c
  /\ \A p \in Marks(s, i, j, c), q \in Marks(s, i, j, c) :
       p < q /\ (\A k \in p + 1 .. q - 1 : s[k] # c) => \E n \in 1 .. Len(e) - 1 : e[n] = p /\ e[n + 1] = q

LEMMA EndsAre ==
  ASSUME NEW s \in Headers, NEW i \in 1 .. Len(s) + 1, NEW j \in i .. Len(s) + 1, NEW c,
         NEW e, e = W!Ends(s, i, j, c)
  PROVE  Divides(e, s, i, j, c)
<1>0. i \in Nat /\ j \in Nat /\ 1 <= i /\ i <= j
  <2>1. Len(s) \in Nat /\ i \in 1 .. Len(s) + 1 /\ j \in i .. Len(s) + 1
    BY DEF Headers
  <2> QED BY ONLY <2>1
<1> DEFINE S == {i - 1, j} \cup {k \in i .. j - 1 : s[k] = c}
<1>a. e = [n \in 1 .. W!Cardinality(S) |-> CHOOSE k \in S : W!Cardinality({m \in S : m < k}) = n - 1]
  BY DEF W!Ends
<1>1. S = Marks(s, i, j, c)
  BY DEF Marks
<1> HIDE DEF S
<1>2. i - 1 \in S /\ j \in S /\ \A k \in S : k \in i - 1 .. j /\ (k # i - 1 /\ k # j => k \in i .. j - 1 /\ s[k] = c)
  BY <1>0, <1>1 DEF Marks
<1>3. \A k \in i .. j - 1 : s[k] = c => k \in S
  BY <1>1 DEF Marks
<1>4. S \subseteq Nat /\ IsFiniteSet(S)
  <2>1. i - 1 \in Int /\ j \in Int /\ S \in SUBSET (i - 1 .. j)
    BY <1>0, <1>2
  <2>2. IsFiniteSet(i - 1 .. j)
    BY ONLY <2>1, FS_Interval
  <2>3. IsFiniteSet(S)
    BY ONLY <2>1, <2>2, FS_Subset
  <2>4. \A k \in i - 1 .. j : k \in Nat
    BY <1>0
  <2> QED BY <2>1, <2>3, <2>4
<1>5. PICK size : size = Cardinality(S)
  OBVIOUS
<1>6. /\ DOMAIN e = 1 .. size
      /\ \A n \in 1 .. size : (\E k \in S : Cardinality({m \in S : m < k}) = n - 1) =>
                               e[n] \in S /\ Cardinality({m \in S : m < e[n]}) = n - 1
  <2>2. W!Cardinality(S) = size
    BY <1>5, SameCount
  <2>3. ASSUME NEW n \in 1 .. size, NEW k \in S, Cardinality({m \in S : m < k}) = n - 1
        PROVE  e[n] \in S /\ Cardinality({m \in S : m < e[n]}) = n - 1
    <3>1. e[n] = CHOOSE l \in S : W!Cardinality({m \in S : m < l}) = n - 1
      BY <1>a, <2>2
    <3>2. W!Cardinality({m \in S : m < k}) = n - 1
      BY <2>3, SameCount
    <3>3. e[n] \in S /\ W!Cardinality({m \in S : m < e[n]}) = n - 1
      BY <3>1, <3>2, Zenon
    <3> QED BY <3>3, SameCount
  <2> QED BY <1>a, <2>2, <2>3
<1>7. size \in Nat /\ Ordered(e, S)
  BY ONLY <1>4, <1>5, <1>6, Ranks
<1>8. DOMAIN e = 1 .. size /\ e = [n \in 1 .. size |-> e[n]]
  BY <1>5, <1>6, <1>a, SameCount
<1>9. /\ \A n \in 1 .. size : e[n] \in S
      /\ \A m \in 1 .. size, n \in 1 .. size : m < n => e[m] < e[n]
      /\ \A k \in S : \E n \in 1 .. size : e[n] = k
  BY <1>7, <1>8 DEF Ordered
<1>10. e \in Seq(Nat) /\ Len(e) = size
  <2>1. e \in [1 .. size -> Nat]
    BY <1>4, <1>6, <1>8, <1>9
  <2> QED BY <1>7, <2>1
<1>11. PICK first \in 1 .. size : e[first] = i - 1
  BY <1>2, <1>9
<1>12. PICK last \in 1 .. size : e[last] = j
  BY <1>2, <1>9
<1>13. first = 1
  <2>1. ASSUME first # 1 PROVE FALSE
    <3>1. 1 \in 1 .. size /\ 1 < first
      BY <1>7, <2>1
    <3>2. e[1] < i - 1 /\ e[1] \in i - 1 .. j
      BY <1>2, <1>9, <1>11, <3>1
    <3> QED BY ONLY <1>0, <3>2
  <2> QED BY <2>1
<1>14. last = size
  <2>1. ASSUME last # size PROVE FALSE
    <3>1. size \in 1 .. size /\ last < size
      BY <1>7, <2>1
    <3>2. j < e[size] /\ e[size] \in i - 1 .. j
      BY <1>2, <1>9, <1>12, <3>1
    <3> QED BY ONLY <1>0, <3>2
  <2> QED BY <2>1
<1>15. size >= 2
  <2>1. 1 # size
    BY <1>0, <1>11, <1>12, <1>13, <1>14
  <2> QED BY <1>7, <1>11, <2>1
<1>16. ASSUME NEW m \in 1 .. size, NEW n \in 1 .. size PROVE e[m] < e[n] => m < n
  <2>1. e[m] \in Nat /\ e[n] \in Nat
    BY <1>4, <1>9
  <2>2. m > n => e[n] < e[m]
    BY <1>9
  <2>3. m \in Nat /\ n \in Nat
    BY <1>7
  <2> QED BY <2>1, <2>2, <2>3
<1>17. ASSUME NEW n \in 1 .. size - 1, NEW k \in S PROVE ~(e[n] < k /\ k < e[n + 1])
  <2>1. n \in 1 .. size /\ n + 1 \in 1 .. size
    BY <1>7
  <2>2. PICK m \in 1 .. size : e[m] = k
    BY <1>9
  <2>3. ~(n < m /\ m < n + 1)
    BY <1>7
  <2> QED BY <1>16, <2>1, <2>2, <2>3
<1>18. ASSUME NEW n \in 1 .. size - 1
       PROVE  /\ e[n] \in i - 1 .. j /\ e[n + 1] \in i - 1 .. j /\ e[n] < e[n + 1]
              /\ \A k \in e[n] + 1 .. e[n + 1] - 1 : s[k] # c
              /\ n < size - 1 => e[n + 1] \in i .. j - 1 /\ s[e[n + 1]] = c
  <2>1. n \in 1 .. size /\ n + 1 \in 1 .. size /\ n < n + 1
    BY <1>7
  <2>2. e[n] \in S /\ e[n + 1] \in S /\ e[n] < e[n + 1]
    BY <1>9, <2>1
  <2>3. e[n] \in i - 1 .. j /\ e[n + 1] \in i - 1 .. j
    BY <1>2, <2>2
  <2>4. ASSUME NEW k \in e[n] + 1 .. e[n + 1] - 1 PROVE s[k] # c
    <3>1. k \in i .. j - 1 /\ e[n] < k /\ k < e[n + 1]
      BY ONLY <1>0, <2>3, k \in e[n] + 1 .. e[n + 1] - 1
    <3> QED BY <1>3, <1>17, <3>1
  <2>5. ASSUME n < size - 1 PROVE e[n + 1] \in i .. j - 1 /\ s[e[n + 1]] = c
    <3>1. n + 1 < size /\ 1 < n + 1 /\ 1 \in 1 .. size /\ size \in 1 .. size
      BY <1>7, <2>5
    <3>2. e[n + 1] < j /\ i - 1 < e[n + 1]
      BY <1>9, <1>11, <1>12, <1>13, <1>14, <2>1, <3>1
    <3>3. e[n + 1] # i - 1 /\ e[n + 1] # j
      BY ONLY <1>0, <2>3, <3>2
    <3> QED BY <1>2, <2>2, <3>3
  <2> QED BY <2>2, <2>3, <2>4, <2>5
<1>19. ASSUME NEW p \in S, NEW q \in S, p < q, \A k \in p + 1 .. q - 1 : s[k] # c
       PROVE  \E n \in 1 .. size - 1 : e[n] = p /\ e[n + 1] = q
  <2>1. PICK m \in 1 .. size : e[m] = p
    BY <1>9
  <2>2. PICK n \in 1 .. size : e[n] = q
    BY <1>9
  <2>3. m < n
    BY <1>16, <1>19, <2>1, <2>2
  <2>4. n = m + 1
    <3>1. ASSUME n # m + 1 PROVE FALSE
      <4>1. m + 1 \in 1 .. size /\ m < m + 1 /\ m + 1 < n
        BY <1>7, <2>3, <3>1
      <4>2. PICK k : k = e[m + 1]
        OBVIOUS
      <4>3. k \in S /\ p < k /\ k < q
        BY <1>9, <2>1, <2>2, <4>1, <4>2
      <4>4. k \in i - 1 .. j /\ p \in i - 1 .. j /\ q \in i - 1 .. j
        BY <1>2, <4>3
      <4>5. k \in p + 1 .. q - 1 /\ k # i - 1 /\ k # j
        BY ONLY <1>0, <4>3, <4>4
      <4> QED BY <1>2, <1>19, <4>3, <4>5
    <3> QED BY <3>1
  <2>5. m \in 1 .. size - 1
    BY <1>7, <2>3
  <2> QED BY <2>1, <2>2, <2>4, <2>5
<1> QED BY <1>1, <1>10, <1>11, <1>12, <1>13, <1>14, <1>15, <1>18, <1>19 DEF Divides

\* The rounds of a loop that only goes on.
Goes(t, next, i) ==
  /\ t \in Seq(DOMAIN next) /\ Len(t) >= 1 /\ t[1] = i
  /\ \A k \in 1 .. Len(t) - 1 : next[t[k]] # 0 /\ t[k + 1] = next[t[k]]
  /\ next[t[Len(t)]] = 0

LEMMA GoesOnce ==
  ASSUME NEW size \in Nat, NEW next \in [1 .. size -> 0 .. size], NEW i \in 1 .. size, next[i] = 0
  PROVE  Goes(<<i>> \o <<>>, next, i)
<1>1. PICK t : t = <<i>> \o <<>>
  OBVIOUS
<1>2. t = <<i>> /\ DOMAIN next = 1 .. size
  BY <1>1
<1>3. t \in Seq(1 .. size) /\ Len(t) = 1 /\ t[1] = i
  BY <1>2
<1> QED BY <1>1, <1>2, <1>3 DEF Goes

LEMMA GoesAgain ==
  ASSUME NEW size \in Nat, NEW next \in [1 .. size -> 0 .. size], NEW i \in 1 .. size, next[i] # 0,
         NEW r, Goes(r, next, next[i])
  PROVE  Goes(<<i>> \o r, next, i)
<1>1. PICK t : t = <<i>> \o r
  OBVIOUS
<1>2. DOMAIN next = 1 .. size
  OBVIOUS
<1>3. /\ r \in Seq(1 .. size) /\ Len(r) >= 1 /\ r[1] = next[i]
      /\ \A k \in 1 .. Len(r) - 1 : next[r[k]] # 0 /\ r[k + 1] = next[r[k]]
      /\ next[r[Len(r)]] = 0
  BY <1>2 DEF Goes
<1>4. t \in Seq(1 .. size) /\ Len(t) = Len(r) + 1 /\ t[1] = i /\ Len(r) \in Nat
  BY <1>1, <1>3
<1>5. ASSUME NEW k \in 2 .. Len(r) + 1 PROVE t[k] = r[k - 1]
  <2>1. k - 1 \in 1 .. Len(r) /\ k \in 1 .. Len(<<i>>) + Len(r) /\ ~(k <= Len(<<i>>)) /\ k - Len(<<i>>) = k - 1
    BY <1>4
  <2>2. <<i>> \in Seq(1 .. size)
    OBVIOUS
  <2> QED BY ONLY <1>1, <1>3, <2>1, <2>2, ConcatProperties
<1>6. ASSUME NEW k \in 1 .. Len(t) - 1 PROVE next[t[k]] # 0 /\ t[k + 1] = next[t[k]]
  <2>1. k \in 1 .. Len(r)
    BY <1>4
  <2>2. t[k + 1] = r[k]
    <3>1. k + 1 \in 2 .. Len(r) + 1 /\ (k + 1) - 1 = k
      BY <1>4, <2>1
    <3> QED BY <1>5, <3>1
  <2>3. CASE k = 1
    BY <1>3, <1>4, <2>2, <2>3
  <2>4. CASE k # 1
    <3>1. k \in 2 .. Len(r) + 1 /\ k - 1 \in 1 .. Len(r) - 1 /\ (k - 1) + 1 = k
      BY <1>4, <2>1, <2>4
    <3>2. t[k] = r[k - 1]
      BY <1>5, <3>1
    <3> QED BY <1>3, <2>2, <3>1, <3>2
  <2> QED BY <2>3, <2>4
<1>7. next[t[Len(t)]] = 0
  <2>1. Len(t) \in 2 .. Len(r) + 1 /\ Len(t) - 1 = Len(r)
    BY <1>3, <1>4
  <2>2. t[Len(t)] = r[Len(r)]
    BY <1>5, <2>1
  <2> QED BY <1>3, <2>2
<1>8. Len(t) >= 1
  BY <1>4
<1> QED BY <1>1, <1>2, <1>4, <1>6, <1>7, <1>8 DEF Goes

LEMMA RoundsAre ==
  ASSUME NEW size \in Nat, NEW next \in [1 .. size -> 0 .. size], NEW i \in 1 .. size,
         \A k \in 1 .. size : next[k] = 0 \/ next[k] > k
  PROVE  Goes(W!Rounds(next, i), next, i)
<1> DEFINE Makes(w) == w = [k \in DOMAIN next |-> <<k>> \o (IF next[k] = 0 THEN <<>> ELSE w[next[k]])]
           From(f, l) == \A k \in l .. size : f[k] = <<k>> \o (IF next[k] = 0 THEN <<>> ELSE f[next[k]])
           Lacks == {l \in 1 .. size + 1 : ~ \E f : From(f, l)}
<1>1. W!Rounds(next, i) = (CHOOSE w : Makes(w))[i]
  BY DEF W!Rounds
<1>2. Lacks = {}
  <2>1. SUFFICES ASSUME Lacks # {} PROVE FALSE
    OBVIOUS
  <2>2. Lacks \subseteq 0 .. size + 1 /\ size + 1 \in Nat
    OBVIOUS
  <2>3. PICK l \in Lacks : \A k \in Lacks : k <= l
    <3> HIDE DEF Lacks
    <3> QED BY <2>1, <2>2, Most
  <2>4. l \in 1 .. size + 1 /\ ~ \E f : From(f, l)
    BY <2>3
  <2>5. l # size + 1
    <3>1. \A f : From(f, size + 1)
      BY DEF From
    <3> HIDE DEF From
    <3> QED BY <2>4, <3>1
  <2>6. l \in 1 .. size /\ l + 1 \in 1 .. size + 1 /\ ~(l + 1 <= l)
    BY <2>4, <2>5
  <2>7. PICK f : From(f, l + 1)
    <3>1. l + 1 \notin Lacks
      <4> HIDE DEF Lacks
      <4> QED BY <2>3, <2>6
    <3> QED BY <2>6, <3>1
  <2>8. PICK g : g = [k \in 1 .. size |-> IF k = l THEN <<k>> \o (IF next[k] = 0 THEN <<>> ELSE f[next[k]]) ELSE f[k]]
    OBVIOUS
  <2>9. ASSUME NEW k \in l .. size PROVE g[k] = <<k>> \o (IF next[k] = 0 THEN <<>> ELSE g[next[k]])
    <3>1. k \in 1 .. size /\ next[k] \in 0 .. size /\ (next[k] = 0 \/ next[k] > k)
      BY <2>6
    <3>2. next[k] # 0 => g[next[k]] = f[next[k]]
      <4>1. next[k] # 0 => next[k] \in 1 .. size /\ next[k] # l
        <5>1. PICK x : x = next[k]
          OBVIOUS
        <5>2. x \in 0 .. size /\ (x = 0 \/ x > k) /\ k \in l .. size /\ l \in 1 .. size
          BY <2>6, <3>1, <5>1
        <5>3. x # 0 => x \in 1 .. size /\ x # l
          BY ONLY size \in Nat, <5>2
        <5> QED BY <5>1, <5>3
      <4> QED BY <2>8, <4>1
    <3>3. CASE k = l
      BY <2>8, <3>1, <3>2, <3>3
    <3>4. CASE k # l
      <4>1. k \in l + 1 .. size
        BY <2>6, <3>4
      <4>2. f[k] = <<k>> \o (IF next[k] = 0 THEN <<>> ELSE f[next[k]])
        BY <2>7, <4>1
      <4> QED BY <2>8, <3>1, <3>2, <3>4, <4>2
    <3> QED BY <3>3, <3>4
  <2>10. From(g, l)
    BY <2>9
  <2> HIDE DEF From
  <2> QED BY <2>4, <2>10
<1>3. PICK f : From(f, 1)
  <2>1. 1 \in 1 .. size + 1
    OBVIOUS
  <2> HIDE DEF From
  <2> QED BY <1>2, <2>1
<1>4. \E w : Makes(w)
  <2>1. PICK w : w = [k \in 1 .. size |-> f[k]]
    OBVIOUS
  <2>2. ASSUME NEW k \in 1 .. size PROVE w[k] = <<k>> \o (IF next[k] = 0 THEN <<>> ELSE w[next[k]])
    <3>1. next[k] # 0 => next[k] \in 1 .. size
      OBVIOUS
    <3>2. f[k] = <<k>> \o (IF next[k] = 0 THEN <<>> ELSE f[next[k]])
      BY <1>3
    <3> QED BY <2>1, <3>1, <3>2
  <2>3. w = [k \in 1 .. size |-> w[k]] /\ DOMAIN next = 1 .. size
    BY <2>1
  <2>4. Makes(w)
    BY <2>2, <2>3
  <2> QED BY <2>4
<1>5. PICK w : w = (CHOOSE v : Makes(v)) /\ Makes(w)
  BY <1>4
<1>6. \A k \in 1 .. size : w[k] = <<k>> \o (IF next[k] = 0 THEN <<>> ELSE w[next[k]])
  <2>1. DOMAIN next = 1 .. size
    OBVIOUS
  <2>2. w = [k \in 1 .. size |-> <<k>> \o (IF next[k] = 0 THEN <<>> ELSE w[next[k]])]
    BY <1>5, <2>1
  <2> QED BY ONLY <2>2
<1> DEFINE Odd == {k \in 1 .. size : ~Goes(w[k], next, k)}
<1>7. Odd = {}
  <2>1. SUFFICES ASSUME Odd # {} PROVE FALSE
    OBVIOUS
  <2>2. Odd \subseteq 0 .. size
    OBVIOUS
  <2>3. PICK k \in Odd : \A l \in Odd : l <= k
    <3> HIDE DEF Odd
    <3> QED BY <2>1, <2>2, Most
  <2>4. k \in 1 .. size /\ ~Goes(w[k], next, k)
    BY <2>3
  <2>5. CASE next[k] = 0
    <3>1. w[k] = <<k>> \o <<>>
      BY <1>6, <2>4, <2>5
    <3>2. Goes(<<k>> \o <<>>, next, k)
      BY <2>4, <2>5, GoesOnce
    <3> QED BY <2>4, <3>1, <3>2
  <2>6. CASE next[k] # 0
    <3>1. next[k] \in 1 .. size /\ ~(next[k] <= k)
      BY <2>4, <2>6
    <3>2. Goes(w[next[k]], next, next[k])
      BY <2>3, <3>1
    <3>3. w[k] = <<k>> \o w[next[k]]
      BY <1>6, <2>4, <2>6
    <3>4. Goes(<<k>> \o w[next[k]], next, k)
      BY <2>4, <2>6, <3>2, GoesAgain
    <3> QED BY <2>4, <3>3, <3>4
  <2> QED BY <2>5, <2>6
<1> HIDE DEF Makes
<1> QED BY <1>1, <1>5, <1>7

LEMMA TokenAt ==
  ASSUME NEW s \in Headers, NEW i \in 1 .. Len(s) + 1
  PROVE  W!nextToken(s, i).at \in i .. Len(s) + 1
<1>0. Len(s) \in Nat
  BY DEF Headers
<1> DEFINE Token(first, end, at) ==
      /\ W!nextToken(s, i) = [token |-> SubSeq(s, first, end - 1), at |-> at]
      /\ \A k \in i .. first - 1 : s[k] = "space"
      /\ \A k \in first .. end - 1 : s[k] \in W!isTokenOctet
      /\ \A k \in end .. at - 1 : s[k] = "space"
      /\ W!At(s, first) # "space" /\ W!At(s, end) \notin W!isTokenOctet /\ W!At(s, at) # "space"
<1>1. PICK first \in i .. Len(s) + 1 : \E end \in first .. Len(s) + 1 : \E at \in end .. Len(s) + 1 : Token(first, end, at)
  BY TokenIs
<1>2. PICK end \in first .. Len(s) + 1 : \E at \in end .. Len(s) + 1 : Token(first, end, at)
  BY <1>1
<1>3. PICK at \in end .. Len(s) + 1 : Token(first, end, at)
  BY <1>2
<1>4. at \in i .. Len(s) + 1
  <2>1. i \in 1 .. Len(s) + 1 /\ first \in i .. Len(s) + 1 /\ end \in first .. Len(s) + 1 /\ at \in end .. Len(s) + 1
    OBVIOUS
  <2> QED BY ONLY <1>0, <2>1
<1>5. W!nextToken(s, i).at = at
  BY <1>3
<1> QED BY <1>4, <1>5

\* What stands at a place.
LEMMA AtEnd ==
  ASSUME NEW s \in Headers, NEW i \in 1 .. Len(s) + 1
  PROVE  /\ W!At(s, i) = "end" <=> i = Len(s) + 1
         /\ i \in 1 .. Len(s) => W!At(s, i) = s[i]
<1>1. Len(s) \in Nat /\ s \in Seq(W!Chars)
  BY DEF Headers
<1>2. i \in 1 .. Len(s) => W!At(s, i) = s[i]
  BY <1>1 DEF W!At
<1>3. i \in 1 .. Len(s) => s[i] # "end"
  <2>1. i \in 1 .. Len(s) => s[i] \in W!Chars
    BY <1>1
  <2>2. "end" \notin W!Chars
    BY DEF W!Chars
  <2> QED BY <2>1, <2>2
<1>4. i = Len(s) + 1 \/ i \in 1 .. Len(s)
  BY <1>1
<1>5. i = Len(s) + 1 => W!At(s, i) = "end" /\ i \notin 1 .. Len(s)
  BY <1>1 DEF W!At
<1> QED BY <1>2, <1>3, <1>4, <1>5

\* A part that is a token is read as it stands.
LEMMA PartRead ==
  ASSUME NEW s \in Headers, NEW i \in 1 .. Len(s) + 1, NEW j \in i .. Len(s) + 1,
         NEW c, c \notin W!isTokenOctet, c # "space", W!At(s, j) \notin W!isTokenOctet, W!At(s, j) # "space",
         NEW e, e = W!Ends(s, i, j, c), NEW n \in 1 .. Len(e) - 1
  PROVE  /\ e[n] + 1 \in 1 .. Len(s) + 1 /\ e[n + 1] \in e[n] + 1 .. Len(s) + 1 /\ e[n + 1] \in 1 .. Len(s) + 1
         /\ n < Len(e) - 1 => W!At(s, e[n + 1]) = c /\ e[n + 1] < j
         /\ n = Len(e) - 1 => e[n + 1] = j
         /\ \A k \in e[n] + 1 .. e[n + 1] - 1 : s[k] # c
         /\ W!IsToken(W!Part(s, e, n)) => W!nextToken(s, e[n] + 1) = [token |-> W!Part(s, e, n), at |-> e[n + 1]]
<1>0. Len(s) \in Nat /\ i \in 1 .. Len(s) + 1 /\ j \in i .. Len(s) + 1
  BY DEF Headers
<1>1. Divides(e, s, i, j, c)
  BY EndsAre
<1>2. /\ e \in Seq(Nat) /\ Len(e) >= 2 /\ e[1] = i - 1 /\ e[Len(e)] = j
      /\ e[n] \in i - 1 .. j /\ e[n + 1] \in i - 1 .. j /\ e[n] < e[n + 1]
      /\ \A k \in e[n] + 1 .. e[n + 1] - 1 : s[k] # c
      /\ n < Len(e) - 1 => e[n + 1] \in i .. j - 1 /\ s[e[n + 1]] = c
  BY <1>1 DEF Divides
<1>3. PICK p : p = e[n]
  OBVIOUS
<1>4. PICK q : q = e[n + 1]
  OBVIOUS
<1>5. p \in i - 1 .. j /\ q \in i - 1 .. j /\ p < q
  BY <1>2, <1>3, <1>4
<1>6. p + 1 \in 1 .. Len(s) + 1 /\ q \in p + 1 .. Len(s) + 1 /\ q \in 1 .. Len(s) + 1
  BY ONLY <1>0, <1>5
<1>7. n < Len(e) - 1 => q \in i .. j - 1 /\ s[q] = c
  BY <1>2, <1>4
<1>8. n < Len(e) - 1 => q \in 1 .. Len(s) /\ q < j
  BY ONLY <1>0, <1>7
<1>9. n < Len(e) - 1 => W!At(s, q) = c
  BY <1>6, <1>7, <1>8, AtEnd
<1>10. n = Len(e) - 1 => q = j
  <2>1. n = Len(e) - 1 => n + 1 = Len(e)
    BY <1>2
  <2> QED BY <1>2, <1>4, <2>1
<1>11. W!At(s, q) \notin W!isTokenOctet /\ W!At(s, q) # "space"
  <2>1. n < Len(e) - 1 \/ n = Len(e) - 1
    BY <1>2
  <2> QED BY <1>9, <1>10, <2>1
<1>12. W!Part(s, e, n) = W!Trim(s, p + 1, q)
  BY <1>3, <1>4 DEF W!Part
<1>13. W!IsToken(W!Trim(s, p + 1, q)) => W!nextToken(s, p + 1) = [token |-> W!Trim(s, p + 1, q), at |-> q]
  BY <1>6, <1>11, TokenRead
<1> QED BY <1>2, <1>3, <1>4, <1>6, <1>8, <1>9, <1>10, <1>12, <1>13

-----------------------------------------------------------------------------
(* A list of tokens. *)

ListNext(s, value) ==
  [i \in 1 .. Len(s) + 1 |->
     IF W!IsElement(s, i) /\ ~W!Equal(s, i, value) /\ W!At(s, W!nextToken(s, i).at) = "comma" THEN W!nextToken(s, i).at + 1 ELSE 0]

LEMMA ListTyped ==
  ASSUME NEW s \in Headers, NEW value, NEW next, next = ListNext(s, value)
  PROVE  next \in [1 .. Len(s) + 1 -> 0 .. Len(s) + 1] /\ \A k \in 1 .. Len(s) + 1 : next[k] = 0 \/ next[k] > k
<1>0. Len(s) \in Nat
  BY DEF Headers
<1>1. Len(s) + 1 \in Nat /\ 1 \in 1 .. Len(s) + 1
  BY <1>0
<1>2. DOMAIN next = 1 .. Len(s) + 1 /\ next = [i \in 1 .. Len(s) + 1 |-> next[i]]
  BY DEF ListNext
<1>3. ASSUME NEW i \in 1 .. Len(s) + 1 PROVE next[i] \in 0 .. Len(s) + 1 /\ (next[i] = 0 \/ next[i] > i)
  <2>1. PICK at : at = W!nextToken(s, i).at
    OBVIOUS
  <2>2. at \in i .. Len(s) + 1
    BY <2>1, TokenAt
  <2>3. at \in 1 .. Len(s) + 1
    BY ONLY <1>0, <2>2, i \in 1 .. Len(s) + 1
  <2>4. W!At(s, at) = "comma" => at # Len(s) + 1
    <3>1. "comma" # "end"
      OBVIOUS
    <3> QED BY <2>3, <3>1, AtEnd
  <2>5. next[i] = 0 \/ (next[i] = at + 1 /\ W!At(s, at) = "comma")
    BY <2>1 DEF ListNext
  <2>6. PICK x : x = next[i]
    OBVIOUS
  <2>7. x = 0 \/ (x = at + 1 /\ at # Len(s) + 1)
    BY <2>4, <2>5, <2>6
  <2>8. x \in 0 .. Len(s) + 1 /\ (x = 0 \/ x > i)
    BY ONLY <1>0, <2>2, <2>7, i \in 1 .. Len(s) + 1
  <2> QED BY <2>6, <2>8
<1>4. next \in [1 .. Len(s) + 1 -> 0 .. Len(s) + 1]
  BY <1>2, <1>3
<1>5. \A k \in 1 .. Len(s) + 1 : next[k] = 0 \/ next[k] > k
  BY <1>3
<1> QED BY <1>4, <1>5

LEMMA ListGoes ==
  ASSUME NEW s \in Headers, NEW value, NEW next, next = ListNext(s, value)
  PROVE  Goes(W!Rounds(next, 1), next, 1) /\ DOMAIN next = 1 .. Len(s) + 1
<1>1. next \in [1 .. Len(s) + 1 -> 0 .. Len(s) + 1] /\ \A k \in 1 .. Len(s) + 1 : next[k] = 0 \/ next[k] > k
  BY ListTyped
<1>2. Len(s) + 1 \in Nat /\ 1 \in 1 .. Len(s) + 1
  <2>1. Len(s) \in Nat
    BY DEF Headers
  <2> QED BY ONLY <2>1
<1>3. Goes(W!Rounds(next, 1), next, 1)
  BY ONLY <1>1, <1>2, RoundsAre
<1> QED BY <1>1, <1>3

\* The rounds as they are used.
LEMMA ListIs ==
  ASSUME NEW s \in Headers, NEW value
  PROVE  \E t : /\ Goes(t, ListNext(s, value), 1)
                /\ W!tokenListContainsValue(s, value) <=> W!IsElement(s, t[Len(t)]) /\ W!Equal(s, t[Len(t)], value)
<1>1. PICK t : t = W!Rounds(ListNext(s, value), 1)
  OBVIOUS
<1>2. Goes(t, ListNext(s, value), 1)
  BY <1>1, ListGoes
<1>3. W!tokenListContainsValue(s, value) <=>
        /\ W!IsElement(s, W!Last(W!Rounds(ListNext(s, value), 1)))
        /\ W!Equal(s, W!Last(W!Rounds(ListNext(s, value), 1)), value)
  BY DEF W!tokenListContainsValue, ListNext
<1>4. W!Last(t) = t[Len(t)]
  BY DEF W!Last
<1> QED BY <1>1, <1>2, <1>3, <1>4

LEMMA ListSound ==
  ASSUME NEW s \in Headers, NEW value, W!tokenListContainsValue(s, value), NEW e, e = W!Ends(s, 1, Len(s) + 1, "comma")
  PROVE  \E n \in 1 .. Len(e) - 1 : W!Fold(W!Part(s, e, n)) = value
<1>0. Len(s) \in Nat
  BY DEF Headers
<1>1. PICK next : next = ListNext(s, value)
  OBVIOUS
<1>2. PICK t : Goes(t, next, 1) /\ W!IsElement(s, t[Len(t)]) /\ W!Equal(s, t[Len(t)], value)
  BY <1>1, ListIs
<1>3. /\ t \in Seq(1 .. Len(s) + 1) /\ Len(t) >= 1 /\ t[1] = 1
      /\ \A k \in 1 .. Len(t) - 1 : next[t[k]] # 0 /\ t[k + 1] = next[t[k]]
  BY <1>1, <1>2, ListGoes DEF Goes
<1>4. PICK i : i = t[Len(t)]
  OBVIOUS
<1>5. i \in 1 .. Len(s) + 1
  <2>1. Len(t) \in 1 .. Len(t)
    BY <1>3
  <2> QED BY <1>3, <1>4, <2>1
<1>6. PICK j : j = W!nextToken(s, i).at
  OBVIOUS
<1>7. W!nextToken(s, i).token # <<>> /\ W!At(s, j) \in {"end", "comma"} /\ W!Fold(W!nextToken(s, i).token) = value
  BY <1>2, <1>4, <1>6 DEF W!IsElement, W!Equal
<1>8. j \in i + 1 .. Len(s) + 1 /\ W!Trim(s, i, j) = W!nextToken(s, i).token /\ \A k \in i .. j - 1 : s[k] \in W!isTokenOctet \cup {"space"}
  BY <1>5, <1>6, <1>7, ElementRead
<1>9. j \in 1 .. Len(s) + 1
  BY ONLY <1>0, <1>5, <1>8
<1>10. i = 1 \/ (i - 1 \in 1 .. Len(s) /\ s[i - 1] = "comma")
  <2>1. CASE Len(t) = 1
    BY <1>3, <1>4, <2>1
  <2>2. CASE Len(t) # 1
    <3>1. Len(t) - 1 \in 1 .. Len(t) - 1 /\ Len(t) - 1 \in 1 .. Len(t) /\ (Len(t) - 1) + 1 = Len(t)
      <4>1. Len(t) \in Nat /\ Len(t) >= 1
        BY <1>3
      <4> QED BY ONLY <2>2, <4>1
    <3>2. PICK h : h = t[Len(t) - 1]
      OBVIOUS
    <3>3. h \in 1 .. Len(s) + 1 /\ next[h] # 0 /\ i = next[h]
      BY <1>3, <1>4, <3>1, <3>2
    <3>4. PICK at : at = W!nextToken(s, h).at
      OBVIOUS
    <3>5. i = at + 1 /\ W!At(s, at) = "comma"
      BY <1>1, <3>3, <3>4 DEF ListNext
    <3>6. at \in h .. Len(s) + 1
      BY <3>3, <3>4, TokenAt
    <3>7. at \in 1 .. Len(s) + 1
      BY ONLY <1>0, <3>3, <3>6
    <3>8. at # Len(s) + 1
      <4>1. "comma" # "end"
        OBVIOUS
      <4> QED BY <3>5, <3>7, <4>1, AtEnd
    <3>9. at \in 1 .. Len(s) /\ i - 1 = at
      BY ONLY <1>0, <3>5, <3>7, <3>8
    <3>10. s[at] = "comma"
      BY <3>5, <3>7, <3>9, AtEnd
    <3> QED BY <3>9, <3>10
  <2> QED BY <2>1, <2>2
<1>11. j = Len(s) + 1 \/ (j \in 1 .. Len(s) /\ s[j] = "comma")
  <2>1. j = Len(s) + 1 \/ j \in 1 .. Len(s)
    BY ONLY <1>0, <1>9
  <2> QED BY <1>7, <1>9, <2>1, AtEnd
<1>12. i - 1 \in Marks(s, 1, Len(s) + 1, "comma") /\ j \in Marks(s, 1, Len(s) + 1, "comma")
  <2>1. (Len(s) + 1) - 1 = Len(s) /\ (i = 1 => i - 1 = 1 - 1)
    BY <1>0
  <2> QED BY <1>10, <1>11, <2>1 DEF Marks
<1>13. \A k \in (i - 1) + 1 .. j - 1 : s[k] # "comma"
  <2>1. (i - 1) + 1 = i
    BY <1>5
  <2>2. "comma" \notin W!isTokenOctet \cup {"space"}
    BY DEF W!isTokenOctet
  <2> QED BY <1>8, <2>1, <2>2
<1>14. i - 1 < j /\ Len(s) + 1 \in 1 .. Len(s) + 1 /\ 1 \in 1 .. Len(s) + 1 /\ (i - 1) + 1 = i
  BY ONLY <1>0, <1>5, <1>8
<1>15. Divides(e, s, 1, Len(s) + 1, "comma")
  BY <1>14, EndsAre
<1>16. PICK n \in 1 .. Len(e) - 1 : e[n] = i - 1 /\ e[n + 1] = j
  BY <1>12, <1>13, <1>14, <1>15 DEF Divides
<1>17. W!Part(s, e, n) = W!Trim(s, i, j)
  BY <1>14, <1>16 DEF W!Part
<1> QED BY <1>7, <1>8, <1>17

\* The rounds of a loop that goes from one part to the next as long as it likes.
Walks(size, next, e, most, shift) ==
  /\ size \in Nat /\ next \in [1 .. size -> 0 .. size] /\ e \in Seq(Nat) /\ most \in 1 .. Len(e) /\ shift \in 0 .. 1
  /\ \A n \in 1 .. most : e[n] + shift \in 1 .. size
  /\ \A n \in 1 .. most - 1 : next[e[n] + shift] = e[n + 1] + shift
  /\ next[e[most] + shift] = 0

LEMMA GoesParts ==
  ASSUME NEW size, NEW next, NEW e, NEW most, NEW shift, Walks(size, next, e, most, shift),
         NEW t, Goes(t, next, e[1] + shift)
  PROVE  Len(t) = most /\ \A n \in 1 .. most : t[n] = e[n] + shift
<1>w. /\ size \in Nat /\ next \in [1 .. size -> 0 .. size] /\ e \in Seq(Nat) /\ most \in 1 .. Len(e) /\ shift \in 0 .. 1
      /\ \A n \in 1 .. most : e[n] + shift \in 1 .. size
      /\ \A n \in 1 .. most - 1 : next[e[n] + shift] = e[n + 1] + shift
      /\ next[e[most] + shift] = 0
  BY DEF Walks
<1>1. /\ t \in Seq(1 .. size) /\ Len(t) >= 1 /\ t[1] = e[1] + shift
      /\ \A k \in 1 .. Len(t) - 1 : next[t[k]] # 0 /\ t[k + 1] = next[t[k]]
      /\ next[t[Len(t)]] = 0
  <2>1. DOMAIN next = 1 .. size
    BY <1>w
  <2> QED BY <2>1 DEF Goes
<1>2. Len(t) \in Nat /\ Len(t) >= 1 /\ most \in Nat /\ most >= 1
  <2>1. Len(e) \in Nat
    BY <1>w
  <2> QED BY <1>1, <1>w, <2>1
<1> DEFINE Off == {n \in 1 .. most : ~(n <= Len(t) /\ t[n] = e[n] + shift)}
<1>3. Off = {}
  <2>1. SUFFICES ASSUME Off # {} PROVE FALSE
    OBVIOUS
  <2>2. Off \subseteq Nat
    OBVIOUS
  <2>3. PICK n \in Off : \A k \in Off : n <= k
    <3> HIDE DEF Off
    <3> QED BY <2>1, <2>2, Least
  <2>4. n \in 1 .. most /\ ~(n <= Len(t) /\ t[n] = e[n] + shift)
    BY <2>3
  <2>5. n # 1
    BY <1>1, <1>2, <2>4
  <2>6. PICK m : m = n - 1
    OBVIOUS
  <2>7. m \in 1 .. most /\ m \in 1 .. most - 1 /\ ~(n <= m) /\ m + 1 = n
    BY ONLY <1>2, <2>4, <2>5, <2>6
  <2>8. m <= Len(t) /\ t[m] = e[m] + shift
    <3>1. m \notin Off
      <4> HIDE DEF Off
      <4> QED BY <2>3, <2>7
    <3> QED BY <2>7, <3>1
  <2>9. next[t[m]] = e[n] + shift /\ e[n] + shift # 0
    <3>1. e[n] + shift \in 1 .. size
      BY <1>w, <2>4
    <3>2. next[e[m] + shift] = e[m + 1] + shift
      BY <1>w, <2>7
    <3>3. next[t[m]] = e[n] + shift
      BY <2>7, <2>8, <3>2
    <3>4. PICK x : x = e[n] + shift
      OBVIOUS
    <3>5. x # 0
      <4>1. x \in 1 .. size
        BY <3>1, <3>4
      <4> QED BY ONLY <1>w, <4>1
    <3> QED BY <3>3, <3>4, <3>5
  <2>10. m # Len(t)
    BY <1>1, <2>9
  <2>11. m \in 1 .. Len(t) - 1 /\ n <= Len(t)
    BY ONLY <1>2, <2>7, <2>8, <2>10
  <2>12. t[n] = e[n] + shift
    BY <1>1, <2>7, <2>9, <2>11
  <2> QED BY <2>4, <2>11, <2>12
<1>4. \A n \in 1 .. most : n <= Len(t) /\ t[n] = e[n] + shift
  BY <1>3
<1>5. Len(t) = most
  <2>1. most \in 1 .. most
    BY <1>2
  <2>2. most <= Len(t) /\ next[t[most]] = 0
    BY <1>4, <1>w, <2>1
  <2>3. ~(most \in 1 .. Len(t) - 1)
    BY <1>1, <2>2
  <2> QED BY ONLY <1>2, <2>2, <2>3
<1> QED BY <1>4, <1>5

LEMMA ListComplete ==
  ASSUME NEW s \in Headers, NEW value, NEW e, e = W!Ends(s, 1, Len(s) + 1, "comma"),
         \A n \in 1 .. Len(e) - 1 : W!IsToken(W!Part(s, e, n)),
         \E n \in 1 .. Len(e) - 1 : W!Fold(W!Part(s, e, n)) = value
  PROVE  W!tokenListContainsValue(s, value)
<1>0. Len(s) \in Nat /\ Len(s) + 1 \in 1 .. Len(s) + 1 /\ 1 \in 1 .. Len(s) + 1
  <2>1. Len(s) \in Nat
    BY DEF Headers
  <2> QED BY ONLY <2>1
<1>1. Divides(e, s, 1, Len(s) + 1, "comma")
  BY <1>0, EndsAre
<1>2. e \in Seq(Nat) /\ Len(e) >= 2 /\ Len(e) \in Nat /\ e[1] = 1 - 1
  BY <1>1 DEF Divides
<1>3. ASSUME NEW n \in 1 .. Len(e) - 1
      PROVE  /\ e[n] + 1 \in 1 .. Len(s) + 1 /\ e[n + 1] \in 1 .. Len(s) + 1
             /\ n < Len(e) - 1 => W!At(s, e[n + 1]) = "comma"
             /\ n = Len(e) - 1 => W!At(s, e[n + 1]) = "end"
             /\ W!nextToken(s, e[n] + 1) = [token |-> W!Part(s, e, n), at |-> e[n + 1]]
             /\ W!Part(s, e, n) # <<>>
  <2>1. W!At(s, Len(s) + 1) = "end"
    BY <1>0, AtEnd
  <2>2. W!At(s, Len(s) + 1) \notin W!isTokenOctet /\ W!At(s, Len(s) + 1) # "space" /\ "comma" \notin W!isTokenOctet /\ "comma" # "space"
    BY <2>1 DEF W!isTokenOctet
  <2>3. /\ e[n] + 1 \in 1 .. Len(s) + 1 /\ e[n + 1] \in e[n] + 1 .. Len(s) + 1 /\ e[n + 1] \in 1 .. Len(s) + 1
        /\ n < Len(e) - 1 => W!At(s, e[n + 1]) = "comma" /\ e[n + 1] < Len(s) + 1
        /\ n = Len(e) - 1 => e[n + 1] = Len(s) + 1
        /\ \A k \in e[n] + 1 .. e[n + 1] - 1 : s[k] # "comma"
        /\ W!IsToken(W!Part(s, e, n)) => W!nextToken(s, e[n] + 1) = [token |-> W!Part(s, e, n), at |-> e[n + 1]]
    BY <1>0, <2>2, PartRead, SMTT(60)
  <2>4. W!Part(s, e, n) # <<>>
    BY DEF W!IsToken
  <2> QED BY <2>1, <2>3, <2>4
<1> DEFINE Found(n) == W!Fold(W!Part(s, e, n)) = value
           Founds == {n \in 1 .. Len(e) - 1 : Found(n)}
<1>4. PICK most \in 1 .. Len(e) - 1 : Found(most) /\ \A n \in 1 .. most - 1 : ~Found(n)
  <2>1. Founds \subseteq Nat /\ Founds # {}
    OBVIOUS
  <2>2. PICK most \in Founds : \A n \in Founds : most <= n
    <3> HIDE DEF Founds
    <3> QED BY <2>1, Least
  <2>3. most \in 1 .. Len(e) - 1 /\ Found(most)
    BY <2>2
  <2>4. ASSUME NEW n \in 1 .. most - 1 PROVE ~Found(n)
    <3>1. n \in 1 .. Len(e) - 1 /\ ~(most <= n)
      BY <1>2, <2>3
    <3> QED BY <2>2, <3>1
  <2> QED BY <2>3, <2>4
<1>5. PICK next : next = ListNext(s, value)
  OBVIOUS
<1>6. PICK t : Goes(t, next, 1) /\ (W!tokenListContainsValue(s, value) <=> W!IsElement(s, t[Len(t)]) /\ W!Equal(s, t[Len(t)], value))
  BY <1>5, ListIs
<1>7. ASSUME NEW n \in 1 .. Len(e) - 1
      PROVE  W!IsElement(s, e[n] + 1) /\ (W!Equal(s, e[n] + 1, value) <=> Found(n))
  <2>1. n < Len(e) - 1 \/ n = Len(e) - 1
    BY <1>2
  <2>2. W!nextToken(s, e[n] + 1) = [token |-> W!Part(s, e, n), at |-> e[n + 1]]
    BY <1>3
  <2>3. W!nextToken(s, e[n] + 1).token = W!Part(s, e, n) /\ W!nextToken(s, e[n] + 1).at = e[n + 1]
    BY ONLY <2>2
  <2>4. W!Part(s, e, n) # <<>> /\ W!At(s, e[n + 1]) \in {"end", "comma"}
    BY <1>3, <2>1
  <2> QED BY <2>3, <2>4 DEF W!IsElement, W!Equal
<1>8. ASSUME NEW n \in 1 .. most PROVE e[n] + 1 \in 1 .. Len(s) + 1
  <2>1. n \in 1 .. Len(e) - 1
    BY <1>2
  <2> QED BY <1>3, <2>1
<1>9. ASSUME NEW n \in 1 .. most - 1 PROVE next[e[n] + 1] = e[n + 1] + 1
  <2>1. n \in 1 .. Len(e) - 1 /\ n < Len(e) - 1
    BY <1>2
  <2>2. e[n] + 1 \in 1 .. Len(s) + 1 /\ W!At(s, e[n + 1]) = "comma" /\ W!nextToken(s, e[n] + 1).at = e[n + 1]
    <3>1. W!nextToken(s, e[n] + 1) = [token |-> W!Part(s, e, n), at |-> e[n + 1]]
      BY <1>3, <2>1
    <3>2. W!nextToken(s, e[n] + 1).at = e[n + 1]
      BY ONLY <3>1
    <3> QED BY <1>3, <2>1, <3>2
  <2>3. W!IsElement(s, e[n] + 1) /\ ~W!Equal(s, e[n] + 1, value)
    BY <1>4, <1>7, <2>1
  <2> QED BY <1>5, <2>2, <2>3 DEF ListNext
<1>10. next[e[most] + 1] = 0
  <2>1. e[most] + 1 \in 1 .. Len(s) + 1 /\ W!Equal(s, e[most] + 1, value)
    BY <1>3, <1>4, <1>7
  <2> QED BY <1>5, <2>1 DEF ListNext
<1>11. Len(t) = most /\ \A n \in 1 .. most : t[n] = e[n] + 1
  <2>1. next \in [1 .. Len(s) + 1 -> 0 .. Len(s) + 1] /\ Len(s) + 1 \in Nat
    BY <1>0, <1>5, ListTyped
  <2>2. e[1] + 1 = 1 /\ 1 \in 0 .. 1
    BY <1>2
  <2>3. Goes(t, next, e[1] + 1)
    BY <1>6, <2>2
  <2>4. \A n \in 1 .. most : e[n] + 1 \in 1 .. Len(s) + 1
    BY <1>8
  <2>5. \A n \in 1 .. most - 1 : next[e[n] + 1] = e[n + 1] + 1
    BY <1>9
  <2>6. e \in Seq(Nat) /\ most \in 1 .. Len(e) - 1
    BY <1>2
  <2>7. PICK shift : shift = 1
    OBVIOUS
  <2>8. PICK size : size = Len(s) + 1
    OBVIOUS
  <2>9. /\ size \in Nat /\ next \in [1 .. size -> 0 .. size] /\ shift \in 0 .. 1
        /\ \A n \in 1 .. most : e[n] + shift \in 1 .. size
        /\ \A n \in 1 .. most - 1 : next[e[n] + shift] = e[n + 1] + shift
        /\ next[e[most] + shift] = 0
        /\ Goes(t, next, e[1] + shift)
    BY ONLY <1>10, <2>1, <2>2, <2>3, <2>4, <2>5, <2>7, <2>8
  <2>10. Len(t) = most /\ \A n \in 1 .. most : t[n] = e[n] + shift
    <3>1. Walks(size, next, e, most, shift)
      <4>1. most \in 1 .. Len(e)
        BY ONLY <2>6
      <4> QED BY ONLY <2>6, <2>9, <4>1 DEF Walks
    <3> QED BY ONLY <2>9, <3>1, GoesParts
  <2> QED BY ONLY <2>7, <2>10
<1>12. t[Len(t)] = e[most] + 1
  <2>1. most \in 1 .. most
    BY <1>2
  <2> QED BY <1>11, <2>1
<1> QED BY <1>4, <1>6, <1>7, <1>12

-----------------------------------------------------------------------------
(* A list of extensions. *)

LEMMA SkipAt ==
  ASSUME NEW s \in Headers, NEW i \in 1 .. Len(s) + 1
  PROVE  W!skipSpace(s, i) \in i .. Len(s) + 1 /\ W!skipSpace(s, i) \in 1 .. Len(s) + 1
<1>1. PICK C : C = {"space"}
  OBVIOUS
<1>2. PICK j : j = W!Past(s, i, C)
  OBVIOUS
<1>3. "end" \notin C
  BY <1>1
<1>4. j \in i .. Len(s) + 1
  BY <1>2, <1>3, PastIs
<1>5. j = W!skipSpace(s, i)
  BY <1>1, <1>2 DEF W!skipSpace
<1>6. Len(s) \in Nat /\ i \in 1 .. Len(s) + 1
  BY DEF Headers
<1>7. j \in 1 .. Len(s) + 1
  BY ONLY <1>4, <1>6
<1> QED BY <1>4, <1>5, <1>7

LEMMA AfterValueAt ==
  ASSUME NEW s \in Headers, NEW i \in 1 .. Len(s) + 1
  PROVE  W!AfterValue(s, i) \in i .. Len(s) + 1
<1>0. Len(s) \in Nat /\ i \in 1 .. Len(s) + 1
  BY DEF Headers
<1>1. CASE W!At(s, i) # "quote"
  <2>1. "end" \notin W!isTokenOctet
    BY DEF W!isTokenOctet
  <2>2. PICK j : j = W!Past(s, i, W!isTokenOctet)
    OBVIOUS
  <2>3. j \in i .. Len(s) + 1
    BY <2>1, <2>2, PastIs
  <2>4. W!AfterValue(s, i) = j
    BY <1>1, <2>2 DEF W!AfterValue
  <2> QED BY <2>3, <2>4
<1>2. CASE W!At(s, i) = "quote"
  <2> DEFINE ends == {p \in i + 1 .. Len(s) : W!Closes(s, i, p)}
  <2>1. W!AfterValue(s, i) = IF ends = {} THEN Len(s) + 1 ELSE W!Min(ends) + 1
    BY <1>2 DEF W!AfterValue
  <2>2. ends \subseteq Nat /\ \A p \in ends : p \in i + 1 .. Len(s)
    BY <1>0
  <2> HIDE DEF ends
  <2>3. CASE ends = {}
    <3>1. Len(s) + 1 \in i .. Len(s) + 1
      BY ONLY <1>0
    <3> QED BY <2>1, <2>3, <3>1
  <2>4. CASE ends # {}
    <3>1. PICK p \in ends : \A q \in ends : p <= q
      BY <2>2, <2>4, Least
    <3>2. PICK q : q = W!Min(ends)
      OBVIOUS
    <3>3. q \in ends
      BY <3>1, <3>2 DEF W!Min
    <3>4. q \in i + 1 .. Len(s)
      BY <2>2, <3>3
    <3>5. q + 1 \in i .. Len(s) + 1
      BY ONLY <1>0, <3>4
    <3> QED BY <2>1, <2>4, <3>2, <3>5
  <2> QED BY <2>3, <2>4
<1> QED BY <1>1, <1>2

\* A value that is a token is skipped like one.
LEMMA ValueRead ==
  ASSUME NEW s \in Headers, NEW i \in 1 .. Len(s) + 1, W!nextToken(s, i).token # <<>>
  PROVE  W!skipSpace(s, W!AfterValue(s, W!skipSpace(s, i))) = W!nextToken(s, i).at
<1>0. Len(s) \in Nat
  BY DEF Headers
<1>1. PICK first : first = W!skipSpace(s, i)
  OBVIOUS
<1>2. first \in 1 .. Len(s) + 1
  BY <1>1, SkipAt
<1>3. PICK end : end = W!Past(s, first, W!isTokenOctet)
  OBVIOUS
<1>4. end \in first .. Len(s) + 1 /\ \A k \in first .. end - 1 : s[k] \in W!isTokenOctet
  <2>1. "end" \notin W!isTokenOctet
    BY DEF W!isTokenOctet
  <2> QED BY <1>2, <1>3, <2>1, PastIs
<1>5. W!nextToken(s, i) = [token |-> SubSeq(s, first, end - 1), at |-> W!skipSpace(s, end)]
  BY <1>1, <1>3 DEF W!nextToken
<1>6. SubSeq(s, first, end - 1) # <<>> /\ W!nextToken(s, i).at = W!skipSpace(s, end)
  BY <1>5
<1>7. first # end
  <2>1. CASE first = end
    <3>1. first \in Nat /\ first - 1 < first
      BY <1>0, <1>2
    <3>2. SubSeq(s, first, first - 1) = <<>>
      BY <3>1
    <3> QED BY <1>6, <2>1, <3>2
  <2> QED BY <2>1
<1>8. first \in first .. end - 1 /\ first \in 1 .. Len(s)
  <2>1. end \in first .. Len(s) + 1
    BY <1>4
  <2> QED BY ONLY <1>0, <1>2, <1>7, <2>1
<1>9. W!At(s, first) \in W!isTokenOctet
  <2>1. W!At(s, first) = s[first]
    BY <1>2, <1>8, AtEnd
  <2> QED BY <1>4, <1>8, <2>1
<1>10. W!At(s, first) # "quote"
  <2>1. "quote" \notin W!isTokenOctet
    BY DEF W!isTokenOctet
  <2> QED BY <1>9, <2>1
<1>11. W!AfterValue(s, first) = end
  BY <1>3, <1>10 DEF W!AfterValue
<1> QED BY <1>1, <1>6, <1>11

LEMMA ParameterAt ==
  ASSUME NEW s \in Headers, NEW p \in 1 .. Len(s)
  PROVE  W!Parameter(s, p).at \in p + 1 .. Len(s) + 1
<1>0. Len(s) \in Nat /\ p \in 1 .. Len(s) /\ p + 1 \in 1 .. Len(s) + 1
  <2>1. Len(s) \in Nat
    BY DEF Headers
  <2>2. p \in 1 .. Len(s)
    OBVIOUS
  <2> QED BY ONLY <2>1, <2>2
<1>1. PICK k : k = W!nextToken(s, p + 1).at
  OBVIOUS
<1>2. k \in p + 1 .. Len(s) + 1
  BY <1>0, <1>1, TokenAt
<1>3. k \in 1 .. Len(s) + 1
  BY ONLY <1>0, <1>2
<1>4. CASE W!At(s, k) # "equals"
  <2>1. W!Parameter(s, p).at = k
    BY <1>1, <1>4 DEF W!Parameter
  <2> QED BY <1>2, <2>1
<1>5. CASE W!At(s, k) = "equals"
  <2>1. k # Len(s) + 1
    <3>1. "equals" # "end"
      OBVIOUS
    <3> QED BY <1>3, <1>5, <3>1, AtEnd
  <2>2. k + 1 \in 1 .. Len(s) + 1
    BY ONLY <1>0, <1>3, <2>1
  <2>3. PICK v : v = W!skipSpace(s, k + 1)
    OBVIOUS
  <2>4. v \in k + 1 .. Len(s) + 1 /\ v \in 1 .. Len(s) + 1
    BY <2>2, <2>3, SkipAt
  <2>5. PICK a : a = W!AfterValue(s, v)
    OBVIOUS
  <2>6. a \in v .. Len(s) + 1
    BY <2>4, <2>5, AfterValueAt
  <2>7. a \in 1 .. Len(s) + 1
    BY ONLY <1>0, <2>4, <2>6
  <2>8. PICK at : at = W!skipSpace(s, a)
    OBVIOUS
  <2>9. at \in a .. Len(s) + 1
    BY <2>7, <2>8, SkipAt
  <2>10. at \in p + 1 .. Len(s) + 1
    BY ONLY <1>0, <1>2, <2>4, <2>6, <2>9
  <2>11. W!Parameter(s, p).at = at
    BY <1>1, <1>5, <2>3, <2>5, <2>8 DEF W!Parameter
  <2> QED BY <2>10, <2>11
<1> QED BY <1>4, <1>5

\* A parameter that is well formed is read up to where it ends.
LEMMA ParameterRead ==
  ASSUME NEW s \in Headers, NEW p \in Nat, p + 1 \in 1 .. Len(s) + 1, NEW j \in p + 1 .. Len(s) + 1,
         W!At(s, j) \in {"end", "comma", "semicolon"}, W!IsParameter(s, p + 1, j)
  PROVE  /\ W!Parameter(s, p) = [name |-> W!Part(s, W!Ends(s, p + 1, j, "equals"), 1), at |-> j]
         /\ W!Part(s, W!Ends(s, p + 1, j, "equals"), 1) # <<>>
<1>0. Len(s) \in Nat /\ j \in p + 1 .. Len(s) + 1
  BY DEF Headers
<1>1. PICK e : e = W!Ends(s, p + 1, j, "equals")
  OBVIOUS
<1>2. Divides(e, s, p + 1, j, "equals")
  BY <1>1, EndsAre
<1>3. e \in Seq(Nat) /\ Len(e) \in Nat /\ Len(e) >= 2 /\ e[1] = (p + 1) - 1
  BY <1>2 DEF Divides
<1>4. Len(e) <= 3 /\ \A n \in 1 .. Len(e) - 1 : W!IsToken(W!Part(s, e, n))
  BY <1>1 DEF W!IsParameter
<1>5. /\ "equals" \notin W!isTokenOctet /\ "equals" # "space" /\ W!At(s, j) # "equals"
      /\ W!At(s, j) \notin W!isTokenOctet /\ W!At(s, j) # "space"
  BY DEF W!isTokenOctet
<1>6. ASSUME NEW n \in 1 .. Len(e) - 1
      PROVE  /\ e[n] + 1 \in 1 .. Len(s) + 1
             /\ n < Len(e) - 1 => W!At(s, e[n + 1]) = "equals"
             /\ n = Len(e) - 1 => e[n + 1] = j
             /\ W!nextToken(s, e[n] + 1).token = W!Part(s, e, n) /\ W!nextToken(s, e[n] + 1).at = e[n + 1]
             /\ W!Part(s, e, n) # <<>>
  <2>1. W!IsToken(W!Part(s, e, n))
    BY <1>4
  <2>2. /\ e[n] + 1 \in 1 .. Len(s) + 1
        /\ n < Len(e) - 1 => W!At(s, e[n + 1]) = "equals"
        /\ n = Len(e) - 1 => e[n + 1] = j
        /\ W!nextToken(s, e[n] + 1) = [token |-> W!Part(s, e, n), at |-> e[n + 1]]
    BY <1>1, <1>5, <2>1, PartRead
  <2>3. W!nextToken(s, e[n] + 1).token = W!Part(s, e, n) /\ W!nextToken(s, e[n] + 1).at = e[n + 1]
    BY <2>2
  <2> QED BY <2>1, <2>2, <2>3 DEF W!IsToken
<1>7. e[1] + 1 = p + 1 /\ 1 \in 1 .. Len(e) - 1
  BY <1>3
<1>8. W!nextToken(s, p + 1).token = W!Part(s, e, 1) /\ W!nextToken(s, p + 1).at = e[2] /\ W!Part(s, e, 1) # <<>>
  <2>1. 1 + 1 = 2
    OBVIOUS
  <2>2. W!nextToken(s, e[1] + 1).at = e[1 + 1]
    BY <1>6, <1>7
  <2> QED BY <1>6, <1>7, <2>1, <2>2
<1>9. CASE Len(e) = 2
  <2>1. 1 = Len(e) - 1 /\ 1 + 1 = 2
    BY <1>9
  <2>2. e[2] = j
    <3>1. e[1 + 1] = j
      BY <1>6, <1>7, <2>1
    <3> QED BY <2>1, <3>1
  <2> QED BY <1>1, <1>5, <1>8, <2>2 DEF W!Parameter
<1>10. CASE Len(e) = 3
  <2>1. 1 < Len(e) - 1 /\ 2 = Len(e) - 1 /\ 2 \in 1 .. Len(e) - 1 /\ 1 + 1 = 2 /\ 2 + 1 = 3
    BY <1>10
  <2>2. W!At(s, e[2]) = "equals"
    BY <1>6, <1>7, <2>1
  <2>3. e[2] + 1 \in 1 .. Len(s) + 1 /\ W!nextToken(s, e[2] + 1).token # <<>> /\ W!nextToken(s, e[2] + 1).at = j
    BY <1>6, <2>1
  <2>4. W!skipSpace(s, W!AfterValue(s, W!skipSpace(s, e[2] + 1))) = j
    BY <2>3, ValueRead
  <2> QED BY <1>1, <1>8, <2>2, <2>4 DEF W!Parameter
<1>11. Len(e) = 2 \/ Len(e) = 3
  <2>1. PICK l : l = Len(e)
    OBVIOUS
  <2>2. l \in Nat /\ l >= 2 /\ l <= 3
    BY <1>3, <1>4, <2>1
  <2>3. l = 2 \/ l = 3
    BY ONLY <2>2
  <2> QED BY <2>1, <2>3
<1> QED BY <1>9, <1>10, <1>11

\* No round of a loop is before the first.
LEMMA GoesUp ==
  ASSUME NEW size \in Nat, NEW next \in [1 .. size -> 0 .. size], \A k \in 1 .. size : next[k] = 0 \/ next[k] > k,
         NEW i \in 1 .. size, NEW t, Goes(t, next, i)
  PROVE  t[Len(t)] \in i .. size
<1>1. /\ t \in Seq(1 .. size) /\ Len(t) >= 1 /\ t[1] = i /\ Len(t) \in Nat
      /\ \A k \in 1 .. Len(t) - 1 : next[t[k]] # 0 /\ t[k + 1] = next[t[k]]
  <2>1. DOMAIN next = 1 .. size
    OBVIOUS
  <2> QED BY <2>1 DEF Goes
<1>2. \A k \in 1 .. Len(t) : t[k] \in 1 .. size
  BY <1>1
<1> DEFINE Low == {k \in 1 .. Len(t) : t[k] < i}
<1>3. Low = {}
  <2>1. SUFFICES ASSUME Low # {} PROVE FALSE
    OBVIOUS
  <2>2. Low \subseteq Nat
    OBVIOUS
  <2>3. PICK n \in Low : \A k \in Low : n <= k
    <3> HIDE DEF Low
    <3> QED BY <2>1, <2>2, Least
  <2>4. n \in 1 .. Len(t) /\ t[n] < i
    BY <2>3
  <2>5. n # 1
    BY <1>1, <2>4
  <2>6. PICK m : m = n - 1
    OBVIOUS
  <2>7. m \in 1 .. Len(t) - 1 /\ m \in 1 .. Len(t) /\ ~(n <= m) /\ m + 1 = n
    BY ONLY <1>1, <2>4, <2>5, <2>6
  <2>8. ~(t[m] < i)
    <3>1. m \notin Low
      <4> HIDE DEF Low
      <4> QED BY <2>3, <2>7
    <3> QED BY <2>7, <3>1
  <2>9. PICK a : a = t[m]
    OBVIOUS
  <2>10. a \in 1 .. size /\ next[a] # 0 /\ t[n] = next[a] /\ next[a] > a
    BY <1>1, <1>2, <2>7, <2>9
  <2>11. PICK b : b = t[n]
    OBVIOUS
  <2>12. b \in 1 .. size /\ b > a /\ ~(a < i) /\ b < i
    BY <1>2, <2>4, <2>8, <2>9, <2>10, <2>11
  <2> QED BY ONLY size \in Nat, i \in 1 .. size, <2>10, <2>12
<1>4. Len(t) \in 1 .. Len(t)
  BY <1>1
<1>5. ~(t[Len(t)] < i) /\ t[Len(t)] \in 1 .. size
  BY <1>2, <1>3, <1>4
<1> QED BY <1>5

ParametersNext(s) ==
  [p \in 1 .. Len(s) + 1 |->
     IF W!At(s, p) = "semicolon" /\ W!Parameter(s, p).name # <<>> /\ W!EndsWell(s, W!Parameter(s, p).at)
     THEN W!Parameter(s, p).at ELSE 0]

LEMMA ParametersTyped ==
  ASSUME NEW s \in Headers, NEW next, next = ParametersNext(s)
  PROVE  next \in [1 .. Len(s) + 1 -> 0 .. Len(s) + 1] /\ \A k \in 1 .. Len(s) + 1 : next[k] = 0 \/ next[k] > k
<1>0. Len(s) \in Nat
  BY DEF Headers
<1>1. DOMAIN next = 1 .. Len(s) + 1 /\ next = [i \in 1 .. Len(s) + 1 |-> next[i]]
  BY DEF ParametersNext
<1>2. ASSUME NEW i \in 1 .. Len(s) + 1 PROVE next[i] \in 0 .. Len(s) + 1 /\ (next[i] = 0 \/ next[i] > i)
  <2>1. PICK x : x = next[i]
    OBVIOUS
  <2>2. CASE W!At(s, i) = "semicolon"
    <3>1. i # Len(s) + 1
      <4>1. "semicolon" # "end"
        OBVIOUS
      <4> QED BY <2>2, <4>1, AtEnd
    <3>2. i \in 1 .. Len(s)
      BY ONLY <1>0, <3>1, i \in 1 .. Len(s) + 1
    <3>3. PICK at : at = W!Parameter(s, i).at
      OBVIOUS
    <3>4. at \in i + 1 .. Len(s) + 1
      BY <3>2, <3>3, ParameterAt
    <3>5. x = 0 \/ x = at
      BY <2>1, <3>3 DEF ParametersNext
    <3>6. x \in 0 .. Len(s) + 1 /\ (x = 0 \/ x > i)
      BY ONLY <1>0, <3>2, <3>4, <3>5
    <3> QED BY <2>1, <3>6
  <2>3. CASE W!At(s, i) # "semicolon"
    <3>1. x = 0
      BY <2>1, <2>3 DEF ParametersNext
    <3>2. x \in 0 .. Len(s) + 1
      BY ONLY <1>0, <3>1
    <3> QED BY <2>1, <3>1, <3>2
  <2> QED BY <2>2, <2>3
<1>3. next \in [1 .. Len(s) + 1 -> 0 .. Len(s) + 1]
  BY <1>1, <1>2
<1>4. \A k \in 1 .. Len(s) + 1 : next[k] = 0 \/ next[k] > k
  BY <1>2
<1> QED BY <1>3, <1>4

LEMMA ParametersAre ==
  ASSUME NEW s \in Headers, NEW i \in 1 .. Len(s) + 1, NEW t, t = W!Parameters(s, i)
  PROVE  Goes(t, ParametersNext(s), i) /\ t[Len(t)] \in i .. Len(s) + 1
<1>1. PICK next : next = ParametersNext(s)
  OBVIOUS
<1>2. t = W!Rounds(next, i)
  <2>1. W!Parameters(s, i) = W!Rounds(ParametersNext(s), i)
    BY DEF W!Parameters, ParametersNext
  <2> QED BY <1>1, <2>1
<1>3. next \in [1 .. Len(s) + 1 -> 0 .. Len(s) + 1] /\ \A k \in 1 .. Len(s) + 1 : next[k] = 0 \/ next[k] > k
  BY <1>1, ParametersTyped
<1>4. Len(s) + 1 \in Nat /\ i \in 1 .. Len(s) + 1
  <2>1. Len(s) \in Nat
    BY DEF Headers
  <2>2. i \in 1 .. Len(s) + 1
    OBVIOUS
  <2> QED BY ONLY <2>1, <2>2
<1>5. Goes(t, next, i)
  BY ONLY <1>2, <1>3, <1>4, RoundsAre
<1>6. t[Len(t)] \in i .. Len(s) + 1
  BY ONLY <1>3, <1>4, <1>5, GoesUp
<1> QED BY <1>1, <1>5, <1>6

LEMMA ParsedIs ==
  ASSUME NEW s \in Headers, NEW i \in 1 .. Len(s) + 1
  PROVE  /\ W!ParsedAt(s, i).at \in i .. Len(s) + 1
         /\ \A t : t = W!Parameters(s, W!nextToken(s, i).at) =>
              W!ParsedAt(s, i) = [token |-> W!nextToken(s, i).token,
                                  names |-> {W!Parameter(s, t[k]).name : k \in 1 .. Len(t) - 1}, at |-> t[Len(t)]]
<1>1. PICK a : a = W!nextToken(s, i).at
  OBVIOUS
<1>2. a \in i .. Len(s) + 1 /\ a \in 1 .. Len(s) + 1
  <2>1. a \in i .. Len(s) + 1
    BY <1>1, TokenAt
  <2>2. Len(s) \in Nat /\ i \in 1 .. Len(s) + 1
    BY DEF Headers
  <2>3. a \in 1 .. Len(s) + 1
    BY ONLY <2>1, <2>2
  <2> QED BY <2>1, <2>3
<1>3. PICK t : t = W!Parameters(s, a)
  OBVIOUS
<1>4. t[Len(t)] \in a .. Len(s) + 1
  BY <1>2, <1>3, ParametersAre
<1>5. W!ParsedAt(s, i) = [token |-> W!nextToken(s, i).token,
                          names |-> {W!Parameter(s, t[k]).name : k \in 1 .. Len(t) - 1}, at |-> t[Len(t)]]
  BY <1>1, <1>3 DEF W!ParsedAt, W!Last
<1>6. W!ParsedAt(s, i).at = t[Len(t)]
  BY <1>5
<1>7. t[Len(t)] \in i .. Len(s) + 1
  <2>1. PICK x : x = t[Len(t)]
    OBVIOUS
  <2>2. x \in a .. Len(s) + 1 /\ i \in 1 .. Len(s) + 1 /\ Len(s) \in Nat
    BY <1>4, <2>1 DEF Headers
  <2>3. x \in i .. Len(s) + 1
    BY ONLY <1>2, <2>2
  <2> QED BY <2>1, <2>3
<1> QED BY <1>1, <1>3, <1>5, <1>6, <1>7

\* An extension that is well formed is read as it stands.
LEMMA ExtensionRead ==
  ASSUME NEW s \in Headers, NEW i \in 1 .. Len(s) + 1, NEW j \in i .. Len(s) + 1,
         W!At(s, j) \in {"end", "comma"}, W!IsExtension(s, i, j)
  PROVE  /\ W!ParsedAt(s, i).at = j /\ W!ParsedAt(s, i).token # <<>>
         /\ [token |-> W!ParsedAt(s, i).token, names |-> W!ParsedAt(s, i).names] = W!Extension(s, i, j)
<1>0. Len(s) \in Nat /\ i \in 1 .. Len(s) + 1 /\ j \in i .. Len(s) + 1
  BY DEF Headers
<1>1. PICK e : e = W!Ends(s, i, j, "semicolon")
  OBVIOUS
<1>2. Divides(e, s, i, j, "semicolon")
  BY <1>1, EndsAre
<1>3. e \in Seq(Nat) /\ Len(e) \in Nat /\ Len(e) >= 2 /\ e[1] = i - 1 /\ e[Len(e)] = j
  BY <1>2 DEF Divides
<1>4. W!IsToken(W!Part(s, e, 1)) /\ \A n \in 2 .. Len(e) - 1 : W!IsParameter(s, e[n] + 1, e[n + 1])
  BY <1>1 DEF W!IsExtension
<1>5. /\ "semicolon" \notin W!isTokenOctet /\ "semicolon" # "space" /\ W!At(s, j) # "semicolon"
      /\ W!At(s, j) \notin W!isTokenOctet /\ W!At(s, j) # "space"
  BY DEF W!isTokenOctet
<1>6. ASSUME NEW n \in 1 .. Len(e) - 1
      PROVE  /\ e[n] + 1 \in 1 .. Len(s) + 1 /\ e[n + 1] \in e[n] + 1 .. Len(s) + 1 /\ e[n + 1] \in 1 .. Len(s) + 1
             /\ n < Len(e) - 1 => W!At(s, e[n + 1]) = "semicolon"
             /\ W!At(s, e[n + 1]) \in {"end", "comma", "semicolon"}
             /\ W!IsToken(W!Part(s, e, n)) => W!nextToken(s, e[n] + 1) = [token |-> W!Part(s, e, n), at |-> e[n + 1]]
  <2>1. /\ e[n] + 1 \in 1 .. Len(s) + 1 /\ e[n + 1] \in e[n] + 1 .. Len(s) + 1 /\ e[n + 1] \in 1 .. Len(s) + 1
        /\ n < Len(e) - 1 => W!At(s, e[n + 1]) = "semicolon"
        /\ n = Len(e) - 1 => e[n + 1] = j
        /\ W!IsToken(W!Part(s, e, n)) => W!nextToken(s, e[n] + 1) = [token |-> W!Part(s, e, n), at |-> e[n + 1]]
    BY <1>1, <1>5, PartRead
  <2>2. n < Len(e) - 1 \/ n = Len(e) - 1
    BY <1>3
  <2>3. W!At(s, e[n + 1]) \in {"end", "comma", "semicolon"}
    BY <2>1, <2>2
  <2> QED BY <2>1, <2>3
<1>7. W!nextToken(s, i).token = W!Part(s, e, 1) /\ W!nextToken(s, i).at = e[2] /\ e[2] \in 1 .. Len(s) + 1 /\ W!Part(s, e, 1) # <<>>
  <2>1. 1 \in 1 .. Len(e) - 1 /\ e[1] + 1 = i /\ 1 + 1 = 2
    BY <1>3
  <2>2. W!nextToken(s, e[1] + 1) = [token |-> W!Part(s, e, 1), at |-> e[1 + 1]] /\ e[1 + 1] \in 1 .. Len(s) + 1
    BY <1>4, <1>6, <2>1
  <2>3. W!nextToken(s, i) = [token |-> W!Part(s, e, 1), at |-> e[2]] /\ e[2] \in 1 .. Len(s) + 1
    BY <2>1, <2>2
  <2>4. W!Part(s, e, 1) # <<>>
    BY <1>4 DEF W!IsToken
  <2> QED BY <2>3, <2>4
<1> DEFINE Name(n) == W!Part(s, W!Ends(s, e[n] + 1, e[n + 1], "equals"), 1)
<1>8. ASSUME NEW n \in 2 .. Len(e) - 1
      PROVE  /\ W!Parameter(s, e[n]).name = Name(n) /\ W!Parameter(s, e[n]).name # <<>>
             /\ W!Parameter(s, e[n]).at = e[n + 1] /\ W!EndsWell(s, e[n + 1]) /\ W!At(s, e[n]) = "semicolon"
  <2>1. n \in 1 .. Len(e) - 1 /\ n - 1 \in 1 .. Len(e) - 1 /\ n - 1 < Len(e) - 1 /\ (n - 1) + 1 = n /\ n \in 1 .. Len(e)
    BY <1>3
  <2>2. PICK p : p = e[n]
    OBVIOUS
  <2>3. PICK q : q = e[n + 1]
    OBVIOUS
  <2>4. p \in Nat
    BY <1>3, <2>1, <2>2, ElementOfSeq
  <2>5. p + 1 \in 1 .. Len(s) + 1 /\ q \in p + 1 .. Len(s) + 1 /\ W!At(s, q) \in {"end", "comma", "semicolon"}
    BY <1>6, <2>1, <2>2, <2>3
  <2>6. W!IsParameter(s, p + 1, q)
    BY <1>4, <2>2, <2>3
  <2>7. /\ W!Parameter(s, p) = [name |-> W!Part(s, W!Ends(s, p + 1, q, "equals"), 1), at |-> q]
        /\ W!Part(s, W!Ends(s, p + 1, q, "equals"), 1) # <<>>
    BY <2>4, <2>5, <2>6, ParameterRead
  <2>8. W!EndsWell(s, q)
    BY <2>5 DEF W!EndsWell
  <2>9. W!At(s, p) = "semicolon"
    BY <1>6, <2>1, <2>2
  <2> QED BY <2>2, <2>3, <2>7, <2>8, <2>9
<1>9. PICK t : t = W!Parameters(s, e[2])
  OBVIOUS
<1>10. PICK next : next = ParametersNext(s)
  OBVIOUS
<1>11. Goes(t, next, e[2])
  BY <1>7, <1>9, <1>10, ParametersAre
<1>12. PICK most : most = Len(e) - 1
  OBVIOUS
<1>13. PICK d : d = [k \in 1 .. most |-> e[k + 1]]
  OBVIOUS
<1>14. most \in Nat /\ most >= 1 /\ d \in Seq(Nat) /\ Len(d) = most /\ d[1] = e[2] /\ d[most] = j
  <2>1. most \in Nat /\ most >= 1
    BY ONLY <1>3, <1>12
  <2>2. \A k \in 1 .. most : e[k + 1] \in Nat
    <3>1. \A k \in 1 .. most : k + 1 \in 1 .. Len(e)
      BY ONLY <1>3, <1>12
    <3> QED BY <1>3, <3>1
  <2>3. d \in Seq(Nat) /\ Len(d) = most
    BY <1>13, <2>1, <2>2
  <2>4. 1 \in 1 .. most /\ most \in 1 .. most /\ 1 + 1 = 2 /\ most + 1 = Len(e)
    BY ONLY <1>3, <1>12, <2>1
  <2>5. d[1] = e[2] /\ d[most] = e[Len(e)]
    BY <1>13, <2>4
  <2> QED BY <1>3, <2>1, <2>3, <2>5
<1>15. ASSUME NEW k \in 1 .. most - 1
       PROVE  /\ k + 1 \in 2 .. Len(e) - 1 /\ k \in 1 .. most /\ k + 1 \in 1 .. most
              /\ d[k] = e[k + 1] /\ d[k + 1] = e[(k + 1) + 1]
  <2>1. k + 1 \in 2 .. Len(e) - 1 /\ k \in 1 .. most /\ k + 1 \in 1 .. most
    BY ONLY <1>3, <1>12, k \in 1 .. most - 1
  <2> QED BY <1>13, <2>1
<1>16. ASSUME NEW k \in 1 .. most PROVE d[k] \in 1 .. Len(s) + 1
  <2>1. k \in 1 .. Len(e) - 1
    BY <1>12
  <2> QED BY <1>6, <1>13, <2>1
<1>17. ASSUME NEW k \in 1 .. most - 1 PROVE next[d[k]] = d[k + 1]
  <2>1. d[k] \in 1 .. Len(s) + 1
    BY <1>15, <1>16
  <2>2. PICK n : n = k + 1
    OBVIOUS
  <2>3. n \in 2 .. Len(e) - 1 /\ d[k] = e[n] /\ d[k + 1] = e[n + 1]
    BY <1>15, <2>2
  <2>4. /\ W!Parameter(s, e[n]).name # <<>>
        /\ W!Parameter(s, e[n]).at = e[n + 1] /\ W!EndsWell(s, e[n + 1]) /\ W!At(s, e[n]) = "semicolon"
    BY <1>8, <2>3
  <2> QED BY <1>10, <2>1, <2>3, <2>4 DEF ParametersNext
<1>18. next[d[most]] = 0
  <2>1. j \in 1 .. Len(s) + 1
    BY ONLY <1>0
  <2> QED BY <1>5, <1>10, <1>14, <2>1 DEF ParametersNext
<1>19. Len(t) = most /\ \A k \in 1 .. most : t[k] = d[k]
  <2>1. PICK shift : shift = 0
    OBVIOUS
  <2>2. PICK size : size = Len(s) + 1
    OBVIOUS
  <2>3. size \in Nat /\ next \in [1 .. size -> 0 .. size]
    BY <1>0, <1>10, <2>2, ParametersTyped
  <2>4. \A k \in 1 .. most : d[k] \in Nat /\ d[k] + shift = d[k]
    BY <1>14, <2>1
  <2>5. \A k \in 1 .. most - 1 : k \in 1 .. most /\ k + 1 \in 1 .. most
    BY ONLY <1>14
  <2>6. 1 \in 1 .. most /\ most \in 1 .. most /\ most \in 1 .. Len(d)
    BY ONLY <1>14
  <2>7. \A k \in 1 .. most : d[k] + shift \in 1 .. size
    BY <1>16, <2>2, <2>4
  <2>8. \A k \in 1 .. most - 1 : next[d[k] + shift] = d[k + 1] + shift
    BY <1>17, <2>4, <2>5
  <2>9. next[d[most] + shift] = 0 /\ Goes(t, next, d[1] + shift)
    BY <1>11, <1>14, <1>18, <2>4, <2>6
  <2>10. shift \in 0 .. 1
    BY <2>1
  <2>11. Walks(size, next, d, most, shift)
    BY ONLY <1>14, <2>3, <2>6, <2>7, <2>8, <2>9, <2>10 DEF Walks
  <2>12. Len(t) = most /\ \A k \in 1 .. most : t[k] = d[k] + shift
    BY ONLY <2>9, <2>11, GoesParts
  <2> QED BY <2>4, <2>12
<1>20. t[Len(t)] = j
  <2>1. most \in 1 .. most
    BY ONLY <1>14
  <2> QED BY <1>14, <1>19, <2>1
<1>21. {W!Parameter(s, t[k]).name : k \in 1 .. Len(t) - 1} = {Name(n) : n \in 2 .. Len(e) - 1}
  <2>1. ASSUME NEW k \in 1 .. Len(t) - 1 PROVE k + 1 \in 2 .. Len(e) - 1 /\ W!Parameter(s, t[k]).name = Name(k + 1)
    <3>1. k \in 1 .. most - 1
      BY <1>19
    <3>2. k + 1 \in 2 .. Len(e) - 1 /\ t[k] = e[k + 1]
      BY <1>15, <1>19, <3>1
    <3> HIDE DEF Name
    <3> QED BY <1>8, <3>2
  <2>2. ASSUME NEW n \in 2 .. Len(e) - 1 PROVE n - 1 \in 1 .. Len(t) - 1 /\ W!Parameter(s, t[n - 1]).name = Name(n)
    <3>1. n - 1 \in 1 .. most - 1 /\ (n - 1) + 1 = n
      BY ONLY <1>3, <1>12, n \in 2 .. Len(e) - 1
    <3>2. n - 1 \in 1 .. Len(t) - 1
      BY <1>19, <3>1
    <3>3. Name((n - 1) + 1) = Name(n)
      BY <3>1
    <3> HIDE DEF Name
    <3> QED BY <2>1, <3>2, <3>3
  <2> HIDE DEF Name
  <2> QED BY <2>1, <2>2
<1>22. W!ParsedAt(s, i) = [token |-> W!nextToken(s, i).token,
                           names |-> {W!Parameter(s, t[k]).name : k \in 1 .. Len(t) - 1}, at |-> t[Len(t)]]
  BY <1>7, <1>9, ParsedIs
<1>23. W!Extension(s, i, j) = [token |-> W!Part(s, e, 1), names |-> {Name(n) : n \in 2 .. Len(e) - 1}]
  BY <1>1 DEF W!Extension
<1>24. PICK names : names = {Name(n) : n \in 2 .. Len(e) - 1}
  OBVIOUS
<1>25. W!ParsedAt(s, i) = [token |-> W!Part(s, e, 1), names |-> names, at |-> j]
  BY <1>7, <1>20, <1>21, <1>22, <1>24
<1>26. W!ParsedAt(s, i).token = W!Part(s, e, 1) /\ W!ParsedAt(s, i).names = names /\ W!ParsedAt(s, i).at = j
  BY <1>25
<1> QED BY <1>7, <1>23, <1>24, <1>26

ExtensionsNext(s) ==
  [i \in 1 .. Len(s) + 1 |->
     IF W!IsParsed(s, i) /\ W!At(s, W!ParsedAt(s, i).at) = "comma" THEN W!ParsedAt(s, i).at + 1 ELSE 0]

LEMMA ExtensionsTyped ==
  ASSUME NEW s \in Headers, NEW next, next = ExtensionsNext(s)
  PROVE  next \in [1 .. Len(s) + 1 -> 0 .. Len(s) + 1] /\ \A k \in 1 .. Len(s) + 1 : next[k] = 0 \/ next[k] > k
<1>0. Len(s) \in Nat
  BY DEF Headers
<1>1. DOMAIN next = 1 .. Len(s) + 1 /\ next = [i \in 1 .. Len(s) + 1 |-> next[i]]
  BY DEF ExtensionsNext
<1>2. ASSUME NEW i \in 1 .. Len(s) + 1 PROVE next[i] \in 0 .. Len(s) + 1 /\ (next[i] = 0 \/ next[i] > i)
  <2>1. PICK x : x = next[i]
    OBVIOUS
  <2>2. PICK at : at = W!ParsedAt(s, i).at
    OBVIOUS
  <2>3. at \in i .. Len(s) + 1
    BY <2>2, ParsedIs
  <2>4. at \in 1 .. Len(s) + 1
    BY ONLY <1>0, <2>3, i \in 1 .. Len(s) + 1
  <2>5. W!At(s, at) = "comma" => at # Len(s) + 1
    <3>1. "comma" # "end"
      OBVIOUS
    <3> QED BY <2>4, <3>1, AtEnd
  <2>6. x = 0 \/ (x = at + 1 /\ at # Len(s) + 1)
    BY <2>1, <2>2, <2>5 DEF ExtensionsNext
  <2>7. x \in 0 .. Len(s) + 1 /\ (x = 0 \/ x > i)
    BY ONLY <1>0, <2>3, <2>6, i \in 1 .. Len(s) + 1
  <2> QED BY <2>1, <2>7
<1>3. next \in [1 .. Len(s) + 1 -> 0 .. Len(s) + 1]
  BY <1>1, <1>2
<1>4. \A k \in 1 .. Len(s) + 1 : next[k] = 0 \/ next[k] > k
  BY <1>2
<1> QED BY <1>3, <1>4

LEMMA ExtensionsRead ==
  ASSUME NEW s \in Headers, NEW e, e = W!Ends(s, 1, Len(s) + 1, "comma"),
         \A n \in 1 .. Len(e) - 1 : W!IsExtension(s, e[n] + 1, e[n + 1])
  PROVE  W!Extensions(s) = [n \in 1 .. Len(e) - 1 |-> W!Extension(s, e[n] + 1, e[n + 1])]
<1>0. Len(s) \in Nat /\ Len(s) + 1 \in 1 .. Len(s) + 1 /\ 1 \in 1 .. Len(s) + 1
  <2>1. Len(s) \in Nat
    BY DEF Headers
  <2> QED BY ONLY <2>1
<1>1. Divides(e, s, 1, Len(s) + 1, "comma")
  BY <1>0, EndsAre
<1>2. e \in Seq(Nat) /\ Len(e) >= 2 /\ Len(e) \in Nat /\ e[1] = 1 - 1
  BY <1>1 DEF Divides
<1>3. ASSUME NEW n \in 1 .. Len(e) - 1
      PROVE  /\ e[n] + 1 \in 1 .. Len(s) + 1
             /\ W!At(s, e[n + 1]) = IF n < Len(e) - 1 THEN "comma" ELSE "end"
             /\ W!ParsedAt(s, e[n] + 1).at = e[n + 1] /\ W!IsParsed(s, e[n] + 1)
             /\ [token |-> W!ParsedAt(s, e[n] + 1).token, names |-> W!ParsedAt(s, e[n] + 1).names]
                  = W!Extension(s, e[n] + 1, e[n + 1])
  <2>1. W!At(s, Len(s) + 1) = "end"
    BY <1>0, AtEnd
  <2>2. W!At(s, Len(s) + 1) \notin W!isTokenOctet /\ W!At(s, Len(s) + 1) # "space" /\ "comma" \notin W!isTokenOctet /\ "comma" # "space"
    BY <2>1 DEF W!isTokenOctet
  <2>3. /\ e[n] + 1 \in 1 .. Len(s) + 1 /\ e[n + 1] \in e[n] + 1 .. Len(s) + 1 /\ e[n + 1] \in 1 .. Len(s) + 1
        /\ n < Len(e) - 1 => W!At(s, e[n + 1]) = "comma" /\ e[n + 1] < Len(s) + 1
        /\ n = Len(e) - 1 => e[n + 1] = Len(s) + 1
        /\ \A k \in e[n] + 1 .. e[n + 1] - 1 : s[k] # "comma"
        /\ W!IsToken(W!Part(s, e, n)) => W!nextToken(s, e[n] + 1) = [token |-> W!Part(s, e, n), at |-> e[n + 1]]
    BY <1>0, <2>2, PartRead
  <2>4. n < Len(e) - 1 \/ n = Len(e) - 1
    BY <1>2
  <2>5. ~(n < Len(e) - 1) => n = Len(e) - 1
    BY <2>4
  <2>6. W!At(s, e[n + 1]) = (IF n < Len(e) - 1 THEN "comma" ELSE "end") /\ W!At(s, e[n + 1]) \in {"end", "comma"}
    BY <2>1, <2>3, <2>5
  <2>7. PICK i : i = e[n] + 1
    OBVIOUS
  <2>8. PICK j : j = e[n + 1]
    OBVIOUS
  <2>9. i \in 1 .. Len(s) + 1 /\ j \in i .. Len(s) + 1 /\ W!At(s, j) \in {"end", "comma"} /\ W!IsExtension(s, i, j)
    BY <2>3, <2>6, <2>7, <2>8
  <2>10. /\ W!ParsedAt(s, i).at = j /\ W!ParsedAt(s, i).token # <<>>
         /\ [token |-> W!ParsedAt(s, i).token, names |-> W!ParsedAt(s, i).names] = W!Extension(s, i, j)
    BY <2>9, ExtensionRead
  <2>11. W!IsParsed(s, i)
    BY <2>9, <2>10 DEF W!IsParsed
  <2> QED BY <2>3, <2>6, <2>7, <2>8, <2>10, <2>11
<1>4. PICK next : next = ExtensionsNext(s)
  OBVIOUS
<1>5. PICK t : t = W!Rounds(next, 1)
  OBVIOUS
<1>6. PICK most : most = Len(e) - 1
  OBVIOUS
<1>7. most \in Nat /\ most >= 1 /\ most \in 1 .. Len(e) /\ most \in 1 .. most
  BY ONLY <1>2, <1>6
<1>8. next \in [1 .. Len(s) + 1 -> 0 .. Len(s) + 1] /\ \A k \in 1 .. Len(s) + 1 : next[k] = 0 \/ next[k] > k
  BY <1>4, ExtensionsTyped
<1>9. Goes(t, next, 1)
  <2>1. Len(s) + 1 \in Nat /\ 1 \in 1 .. Len(s) + 1
    BY <1>0
  <2> QED BY ONLY <1>5, <1>8, <2>1, RoundsAre
<1>10. ASSUME NEW n \in 1 .. most - 1 PROVE next[e[n] + 1] = e[n + 1] + 1
  <2>1. n \in 1 .. Len(e) - 1 /\ n < Len(e) - 1
    BY ONLY <1>2, <1>6, n \in 1 .. most - 1
  <2>2. /\ e[n] + 1 \in 1 .. Len(s) + 1 /\ W!At(s, e[n + 1]) = "comma"
        /\ W!ParsedAt(s, e[n] + 1).at = e[n + 1] /\ W!IsParsed(s, e[n] + 1)
    BY <1>3, <2>1
  <2> QED BY <1>4, <2>2 DEF ExtensionsNext
<1>11. next[e[most] + 1] = 0
  <2>1. most \in 1 .. Len(e) - 1 /\ ~(most < Len(e) - 1)
    BY ONLY <1>2, <1>6
  <2>2. e[most] + 1 \in 1 .. Len(s) + 1 /\ W!At(s, e[most + 1]) = "end" /\ W!ParsedAt(s, e[most] + 1).at = e[most + 1]
    BY <1>3, <2>1
  <2> QED BY <1>4, <2>2 DEF ExtensionsNext
<1>12. Len(t) = most /\ \A n \in 1 .. most : t[n] = e[n] + 1
  <2>1. PICK shift : shift = 1
    OBVIOUS
  <2>2. PICK size : size = Len(s) + 1
    OBVIOUS
  <2>3. \A n \in 1 .. most : e[n] + 1 \in 1 .. Len(s) + 1
    BY <1>3, <1>6
  <2>4. \A n \in 1 .. most - 1 : next[e[n] + 1] = e[n + 1] + 1
    BY <1>10
  <2>5. e[1] + 1 = 1
    BY <1>2
  <2>6. Goes(t, next, e[1] + 1)
    BY <1>9, <2>5
  <2>7. size \in Nat /\ shift \in 0 .. 1
    BY <1>0, <2>1, <2>2
  <2>8. Walks(size, next, e, most, shift) /\ Goes(t, next, e[1] + shift)
    BY ONLY <1>2, <1>7, <1>8, <1>11, <2>1, <2>2, <2>3, <2>4, <2>6, <2>7 DEF Walks
  <2>9. Len(t) = most /\ \A n \in 1 .. most : t[n] = e[n] + shift
    BY ONLY <2>8, GoesParts
  <2> QED BY ONLY <2>1, <2>9
<1>13. W!IsParsed(s, t[Len(t)])
  <2>1. t[Len(t)] = e[most] + 1
    BY <1>7, <1>12
  <2>2. most \in 1 .. Len(e) - 1
    BY <1>6, <1>7
  <2> QED BY <1>3, <2>1, <2>2
<1>14. W!Extensions(s) = [k \in 1 .. (IF W!IsParsed(s, t[Len(t)]) THEN Len(t) ELSE Len(t) - 1) |->
                            [token |-> W!ParsedAt(s, t[k]).token, names |-> W!ParsedAt(s, t[k]).names]]
  <2>1. PICK read : read = [k \in 1 .. (IF W!IsParsed(s, W!Last(W!Rounds(ExtensionsNext(s), 1)))
                                         THEN Len(W!Rounds(ExtensionsNext(s), 1)) ELSE Len(W!Rounds(ExtensionsNext(s), 1)) - 1) |->
                              [token |-> W!ParsedAt(s, W!Rounds(ExtensionsNext(s), 1)[k]).token,
                               names |-> W!ParsedAt(s, W!Rounds(ExtensionsNext(s), 1)[k]).names]]
    OBVIOUS
  <2>2. W!Extensions(s) = read
    BY <2>1 DEF W!Extensions, ExtensionsNext
  <2>3. W!Rounds(ExtensionsNext(s), 1) = t
    BY <1>4, <1>5
  <2>4. W!Last(t) = t[Len(t)]
    BY DEF W!Last
  <2> QED BY <2>1, <2>2, <2>3, <2>4
<1>15. W!Extensions(s) = [k \in 1 .. most |-> [token |-> W!ParsedAt(s, t[k]).token, names |-> W!ParsedAt(s, t[k]).names]]
  BY <1>12, <1>13, <1>14
<1>16. ASSUME NEW n \in 1 .. most
       PROVE  [token |-> W!ParsedAt(s, t[n]).token, names |-> W!ParsedAt(s, t[n]).names] = W!Extension(s, e[n] + 1, e[n + 1])
  <2>1. n \in 1 .. Len(e) - 1 /\ t[n] = e[n] + 1
    BY <1>6, <1>12
  <2> QED BY <1>3, <2>1
<1>17. W!Extensions(s) = [n \in 1 .. most |-> W!Extension(s, e[n] + 1, e[n + 1])]
  BY ONLY <1>15, <1>16
<1> QED BY <1>6, <1>17

ListInv ==
  /\ text \in Headers
  /\ parsed = W!Unread \/ parsed = [found |-> W!tokenListContainsValue(text, <<"u">>), extensions |-> W!Extensions(text), read |-> TRUE]

LEMMA ListHolds == ASSUME ListInv PROVE W!ListRead
<1>1. PICK e : e = W!Ends(text, 1, Len(text) + 1, "comma")
  OBVIOUS
<1>2. PICK v : v = <<"u">>
  OBVIOUS
<1>3. text \in Headers
  BY DEF ListInv
<1>4. SUFFICES ASSUME parsed.read
               PROVE  LET among == \E n \in 1 .. Len(e) - 1 : W!Fold(W!Part(text, e, n)) = v
                      IN /\ parsed.found => among
                         /\ (\A n \in 1 .. Len(e) - 1 : W!IsToken(W!Part(text, e, n))) => (among => parsed.found)
                         /\ (\A n \in 1 .. Len(e) - 1 : W!IsExtension(text, e[n] + 1, e[n + 1])) =>
                              parsed.extensions = [n \in 1 .. Len(e) - 1 |-> W!Extension(text, e[n] + 1, e[n + 1])]
  BY <1>1, <1>2 DEF W!ListRead
<1>5. parsed.found = W!tokenListContainsValue(text, v) /\ parsed.extensions = W!Extensions(text)
  BY <1>2, <1>4 DEF ListInv, W!Unread
<1>6. parsed.found => \E n \in 1 .. Len(e) - 1 : W!Fold(W!Part(text, e, n)) = v
  BY <1>1, <1>3, <1>5, ListSound
<1>7. (\A n \in 1 .. Len(e) - 1 : W!IsToken(W!Part(text, e, n))) /\ (\E n \in 1 .. Len(e) - 1 : W!Fold(W!Part(text, e, n)) = v)
        => parsed.found
  BY <1>1, <1>3, <1>5, ListComplete
<1>8. (\A n \in 1 .. Len(e) - 1 : W!IsExtension(text, e[n] + 1, e[n + 1])) =>
        parsed.extensions = [n \in 1 .. Len(e) - 1 |-> W!Extension(text, e[n] + 1, e[n + 1])]
  BY <1>1, <1>3, <1>5, ExtensionsRead
<1> QED BY <1>6, <1>7, <1>8

LEMMA ListInit == ASSUME MaxText \in Nat, W!Init PROVE ListInv
<1>1. <<>> \in Headers
  BY DEF Headers
<1>2. ASSUME NEW n \in 0 .. MaxText, text \in [1 .. n -> W!Chars] PROVE text \in Headers
  <2>1. n \in Nat
    OBVIOUS
  <2> QED BY <1>2, <2>1 DEF Headers
<1>3. text \in Headers
  BY <1>1, <1>2 DEF W!Init
<1>4. parsed = W!Unread
  BY DEF W!Init
<1> QED BY <1>3, <1>4 DEF ListInv

LEMMA ListKept == ASSUME ListInv, [W!Next]_wVars PROVE ListInv'
<1>1. ASSUME W!Read PROVE ListInv'
  BY <1>1 DEF ListInv, W!Read
<1>2. ASSUME UNCHANGED <<text, parsed>> PROVE ListInv'
  BY <1>2 DEF ListInv
<1>3. ASSUME W!Next, ~W!Read PROVE UNCHANGED <<text, parsed>>
  BY <1>3 DEF W!Next, W!TruncWrite, W!Ask, W!Make, W!Made, W!Send
<1>4. UNCHANGED wVars => UNCHANGED <<text, parsed>>
  BY DEF wVars
<1> QED BY <1>1, <1>2, <1>3, <1>4

-----------------------------------------------------------------------------
(* The writer that holds back the end, and the frames of prepared messages. *)
(* HoldsBack needs to be known byte by byte: what was written are the first *)
(* of them and what is held are the next (Bytes), however they came.        *)

TruncTyped == trunc \in [n : 0 .. 4, given : Nat, held : [1 .. 4 -> Nat], out : Seq(Nat)]

\* n bytes are held of g, and those before are written.
Bytes(n, g, h, o) ==
  /\ n = IF g < 4 THEN g ELSE 4
  /\ Len(o) = g - n
  /\ \A i \in 1 .. Len(o) : o[i] = i
  /\ \A i \in 1 .. n : h[i] = Len(o) + i

\* A writer to which nothing is given is full from the start, or it is as it should be.
EndKept ==
  \/ trunc.n = 0 /\ trunc.given = MaxBytes
  \/ Bytes(trunc.n, trunc.given, trunc.held, trunc.out)

Frames == Seq([kind : FrameKinds, frame : {"made"}])
Asking == user \in [Users -> [at : {"idle", "once", "makes"}, kind : FrameKinds \cup {"none"}]]
          /\ \A u \in Users : user[u].at # "idle" => user[u].kind \in FrameKinds

CodecInv == TruncTyped /\ EndKept /\ got \in [Users -> Frames] /\ Asking

LEMMA CodecInit == ASSUME MaxBytes \in Nat, W!Init PROVE CodecInv
<1>1. PICK g \in {0, MaxBytes} : trunc = [n |-> 0, given |-> g, held |-> <<0, 0, 0, 0>>, out |-> <<>>]
  BY DEF W!Init
<1>2. <<>> \in Seq(Nat) /\ <<0, 0, 0, 0>> \in [1 .. 4 -> Nat] /\ Len(<<>>) = 0
  OBVIOUS
<1>3. TruncTyped
  BY <1>1, <1>2 DEF TruncTyped
<1>4. EndKept
  BY <1>1, <1>2 DEF EndKept, Bytes
<1>5. <<>> \in Seq([kind : FrameKinds, frame : {"made"}])
  OBVIOUS
<1>6. got \in [Users -> Frames] /\ Asking
  BY <1>5 DEF W!Init, Asking, Frames
<1> QED BY <1>3, <1>4, <1>6 DEF CodecInv

\* The steps of a Write of k more bytes: the piece, how much of it fills up what is
\* held, what that is then, the rest of the piece and how much of it is held.
Piece(g, k) == [i \in 1 .. k |-> g + i]
Fills(n, k) == W!Least(4 - n, k)
Filled(n, g, h, k) == [i \in 1 .. 4 |-> IF i > n /\ i <= n + Fills(n, k) THEN Piece(g, k)[i - n] ELSE h[i]]
RestOf(n, g, k) == W!Cut(Piece(g, k), Fills(n, k))
HoldsOf(n, g, k) == W!Least(Len(RestOf(n, g, k)), 4)
NowHeld(n, g, h, k) ==
  [i \in 1 .. 4 |-> IF i > 4 - HoldsOf(n, g, k) THEN RestOf(n, g, k)[Len(RestOf(n, g, k)) - 4 + i]
                    ELSE W!Moved(Filled(n, g, h, k), HoldsOf(n, g, k))[i]]
NowOut(n, g, h, o, k) ==
  o \o SubSeq(Filled(n, g, h, k), 1, HoldsOf(n, g, k)) \o SubSeq(RestOf(n, g, k), 1, Len(RestOf(n, g, k)) - HoldsOf(n, g, k))

LEMMA Beginning ==
  ASSUME NEW s, NEW l \in Nat, \A i \in 1 .. l : s[i] \in Nat
  PROVE  SubSeq(s, 1, l) \in Seq(Nat) /\ Len(SubSeq(s, 1, l)) = l /\ \A i \in 1 .. l : SubSeq(s, 1, l)[i] = s[i]
<1>1. /\ SubSeq(s, 1, l) \in Seq(Nat) /\ Len(SubSeq(s, 1, l)) = IF 1 <= l THEN l - 1 + 1 ELSE 0
      /\ \A i \in 1 .. l - 1 + 1 : SubSeq(s, 1, l)[i] = s[1 + i - 1]
  BY SubSeqProperties
<1>2. l - 1 + 1 = l /\ \A i \in 1 .. l : 1 + i - 1 = i
  OBVIOUS
<1> QED BY <1>1, <1>2

LEMMA Ending ==
  ASSUME NEW k \in Nat, NEW s, NEW d \in 0 .. k, \A i \in 1 .. k : s[i] \in Nat
  PROVE  /\ SubSeq(s, d + 1, k) \in Seq(Nat) /\ Len(SubSeq(s, d + 1, k)) = k - d
         /\ \A i \in 1 .. k - d : SubSeq(s, d + 1, k)[i] = s[d + i]
<1>1. d + 1 \in Int /\ k \in Int /\ \A i \in d + 1 .. k : s[i] \in Nat
  OBVIOUS
<1>2. /\ SubSeq(s, d + 1, k) \in Seq(Nat) /\ Len(SubSeq(s, d + 1, k)) = IF d + 1 <= k THEN k - (d + 1) + 1 ELSE 0
      /\ \A i \in 1 .. k - (d + 1) + 1 : SubSeq(s, d + 1, k)[i] = s[d + 1 + i - 1]
  BY <1>1, SubSeqProperties
<1>3. k - (d + 1) + 1 = k - d /\ \A i \in 1 .. k - d : d + 1 + i - 1 = d + i
  OBVIOUS
<1> QED BY <1>2, <1>3

LEMMA BytesOn ==
  ASSUME NEW n \in 0 .. 4, NEW g \in Nat, NEW h \in [1 .. 4 -> Nat], NEW o \in Seq(Nat), Bytes(n, g, h, o),
         NEW k \in Nat, k > 0
  PROVE  /\ n + Fills(n, k) \in 0 .. 4 /\ NowHeld(n, g, h, k) \in [1 .. 4 -> Nat] /\ NowOut(n, g, h, o, k) \in Seq(Nat)
         /\ Bytes(n + Fills(n, k), g + k, NowHeld(n, g, h, k), NowOut(n, g, h, o, k))
<1> DEFINE p == Piece(g, k)
           d == Fills(n, k)
           filled == Filled(n, g, h, k)
           rest == RestOf(n, g, k)
           m == HoldsOf(n, g, k)
           moved == W!Moved(filled, m)
           held == NowHeld(n, g, h, k)
           wrote == NowOut(n, g, h, o, k)
<1>a. p = [i \in 1 .. k |-> g + i] /\ d = W!Least(4 - n, k) /\ rest = W!Cut(p, d) /\ m = W!Least(Len(rest), 4)
  BY DEF Piece, Fills, RestOf, HoldsOf
<1>b. \A i \in 1 .. 4 : filled[i] = IF i > n /\ i <= n + d THEN p[i - n] ELSE h[i]
  BY DEF Filled
<1>c. DOMAIN filled = 1 .. 4 /\ filled = [i \in 1 .. 4 |-> filled[i]]
  BY DEF Filled
<1>d. \A i \in 1 .. 4 : held[i] = IF i > 4 - m THEN rest[Len(rest) - 4 + i] ELSE moved[i]
  BY DEF NowHeld
<1>e. held = [i \in 1 .. 4 |-> held[i]]
  BY DEF NowHeld
<1>f. wrote = o \o SubSeq(filled, 1, m) \o SubSeq(rest, 1, Len(rest) - m)
  BY DEF NowOut
<1>g. \A i \in 1 .. 4 : moved[i] = IF i + m <= 4 THEN filled[i + m] ELSE filled[i]
  BY DEF W!Moved, W!Size
<1> HIDE DEF p, d, filled, rest, m, moved, held, wrote
<1>1. p \in Seq(Nat) /\ Len(p) = k /\ \A i \in 1 .. k : p[i] = g + i
  BY <1>a
<1>2. d \in Nat /\ d <= k /\ n + d <= 4 /\ (n + d < 4 => d = k)
  BY <1>a DEF W!Least
<1>3. rest = SubSeq(p, d + 1, k)
  BY <1>1, <1>a DEF W!Cut
<1>4. rest \in Seq(Nat) /\ Len(rest) = k - d /\ \A i \in 1 .. k - d : rest[i] = g + d + i
  <2>1. d \in 0 .. k /\ \A i \in 1 .. k : p[i] \in Nat
    BY <1>1, <1>2
  <2>2. rest \in Seq(Nat) /\ Len(rest) = k - d /\ \A i \in 1 .. k - d : rest[i] = p[d + i]
    BY <1>3, <2>1, Ending
  <2>3. \A i \in 1 .. k - d : d + i \in 1 .. k
    BY <1>2
  <2> QED BY <1>1, <1>2, <2>2, <2>3
<1>5. m \in 0 .. 4 /\ m <= k - d /\ (m < 4 => m = k - d)
  <2>1. m = W!Least(k - d, 4)
    BY <1>4, <1>a
  <2>2. k - d \in Nat
    BY <1>2
  <2> QED BY <2>1, <2>2 DEF W!Least
<1>6. /\ Len(o) \in Nat /\ Len(o) = g - n /\ n <= g
      /\ \A i \in 1 .. Len(o) : o[i] = i
      /\ \A i \in 1 .. n : h[i] = Len(o) + i
  BY DEF Bytes
<1>7. filled \in [1 .. 4 -> Nat] /\ \A i \in 1 .. n + d : filled[i] = Len(o) + i
  <2>1. ASSUME NEW i \in 1 .. 4, i > n, i <= n + d PROVE p[i - n] = Len(o) + i
    <3>1. i - n \in 1 .. k
      BY <1>2, <2>1
    <3>2. p[i - n] = g + (i - n)
      BY <1>1, <3>1
    <3> QED BY <1>6, <3>2
  <2>2. \A i \in 1 .. 4 : filled[i] = IF i > n /\ i <= n + d THEN Len(o) + i ELSE h[i]
    BY <2>1, <1>b
  <2>3. ASSUME NEW i \in 1 .. 4 PROVE filled[i] \in Nat
    <3>1. Len(o) + i \in Nat /\ h[i] \in Nat
      BY <1>6
    <3> QED BY <2>2, <3>1
  <2>4. \A i \in 1 .. n + d : i \in 1 .. 4
    BY <1>2
  <2>5. \A i \in 1 .. n + d : i \in 1 .. n \/ i > n
    BY <1>2
  <2>6. \A i \in 1 .. n + d : filled[i] = Len(o) + i
    <3> SUFFICES ASSUME NEW i \in 1 .. n + d PROVE filled[i] = Len(o) + i
      OBVIOUS
    <3>1. i \in 1 .. 4 /\ i <= n + d
      BY <1>2, <2>4
    <3>2. CASE i > n
      BY <2>2, <3>1, <3>2
    <3>3. CASE ~(i > n)
      <4>1. i \in 1 .. n
        BY <3>3
      <4>2. filled[i] = h[i]
        BY <2>2, <3>1, <3>3
      <4> QED BY <1>6, <4>1, <4>2
    <3> QED BY <3>2, <3>3
  <2>7. filled \in [1 .. 4 -> Nat]
    BY <1>c, <2>3
  <2> QED BY <2>6, <2>7
<1>8. \A i \in 1 .. 4 : filled[i] \in Nat
  BY <1>7
<1> DEFINE a == SubSeq(filled, 1, m)
           b == SubSeq(rest, 1, Len(rest) - m)
<1>9. a \in Seq(Nat) /\ Len(a) = m /\ \A i \in 1 .. m : a[i] = filled[i]
  <2>1. m \in Nat /\ \A i \in 1 .. m : filled[i] \in Nat
    <3>1. m \in Nat
      BY <1>5
    <3>2. ASSUME NEW i \in 1 .. m PROVE filled[i] \in Nat
      <4>1. i \in 1 .. 4
        BY <1>5, <3>2
      <4> QED BY <1>8, <4>1
    <3> QED BY <3>1, <3>2
  <2> QED BY <2>1, Beginning
<1>10. b \in Seq(Nat) /\ Len(b) = k - d - m /\ \A i \in 1 .. k - d - m : b[i] = rest[i]
  <2>1. Len(rest) - m = k - d - m /\ k - d - m \in Nat
    BY <1>2, <1>4, <1>5
  <2>2. \A i \in 1 .. k - d - m : rest[i] \in Nat
    <3>1. \A i \in 1 .. k - d - m : i \in 1 .. k - d /\ g + d + i \in Nat
      BY <1>2, <1>5
    <3> QED BY <1>4, <3>1
  <2> QED BY <2>1, <2>2, Beginning
<1> HIDE DEF a, b
<1>11. wrote = (o \o a) \o b
  BY <1>f DEF a, b
<1>12. o \o a \in Seq(Nat) /\ Len(o \o a) = Len(o) + m
       /\ \A i \in 1 .. Len(o) + m : (o \o a)[i] = IF i <= Len(o) THEN o[i] ELSE a[i - Len(o)]
  <2>1. /\ o \o a \in Seq(Nat) /\ Len(o \o a) = Len(o) + Len(a)
        /\ \A i \in 1 .. Len(o) + Len(a) : (o \o a)[i] = IF i <= Len(o) THEN o[i] ELSE a[i - Len(o)]
    BY <1>9, ConcatProperties
  <2> QED BY <1>9, <2>1
<1>13. wrote \in Seq(Nat) /\ Len(wrote) = Len(o) + k - d
       /\ \A i \in 1 .. Len(o) + k - d : wrote[i] = IF i <= Len(o) + m THEN (o \o a)[i] ELSE b[i - (Len(o) + m)]
  <2> DEFINE oa == o \o a
  <2>1. oa \in Seq(Nat) /\ b \in Seq(Nat) /\ wrote = oa \o b
    BY <1>10, <1>11, <1>12
  <2>2. Len(oa) = Len(o) + m
    BY <1>12
  <2> HIDE DEF oa
  <2>3. /\ oa \o b \in Seq(Nat) /\ Len(oa \o b) = Len(oa) + Len(b)
        /\ \A i \in 1 .. Len(oa) + Len(b) : (oa \o b)[i] = IF i <= Len(oa) THEN oa[i] ELSE b[i - Len(oa)]
    BY <2>1, ConcatProperties
  <2>4. Len(oa) + Len(b) = Len(o) + k - d
    BY <1>2, <1>5, <1>6, <1>10, <2>2
  <2> QED BY <2>1, <2>2, <2>3, <2>4 DEF oa
<1>14. ASSUME NEW i \in 1 .. Len(wrote) PROVE wrote[i] = i
  <2>1. CASE i <= Len(o)
    <3>1. i \in 1 .. Len(o) /\ i \in 1 .. Len(o) + m /\ i \in 1 .. Len(o) + k - d
      BY <1>2, <1>5, <1>6, <1>13, <2>1
    <3>2. wrote[i] = (o \o a)[i] /\ (o \o a)[i] = o[i]
      <4>1. i <= Len(o) + m
        BY <3>1
      <4> QED BY <1>12, <1>13, <2>1, <3>1, <4>1
    <3> QED BY <1>6, <3>1, <3>2
  <2>2. CASE i > Len(o) /\ i <= Len(o) + m
    <3>1. i - Len(o) \in 1 .. m /\ m > 0
      BY <1>5, <1>6, <2>2
    <3>2. n + d = 4
      BY <1>2, <1>5, <3>1
    <3>3. i - Len(o) \in 1 .. n + d
      BY <1>5, <3>1, <3>2
    <3>4. filled[i - Len(o)] = Len(o) + (i - Len(o))
      BY <1>7, <3>3
    <3>5. wrote[i] = a[i - Len(o)]
      <4>1. i \in 1 .. Len(o) + m /\ i \in 1 .. Len(o) + k - d /\ ~(i <= Len(o))
        BY <1>2, <1>5, <1>6, <1>13, <2>2
      <4> QED BY <1>12, <1>13, <2>2, <4>1
    <3>6. a[i - Len(o)] = filled[i - Len(o)]
      BY <1>9, <3>1
    <3>7. Len(o) + (i - Len(o)) = i
      BY <1>6
    <3> QED BY <3>4, <3>5, <3>6, <3>7
  <2>3. CASE i > Len(o) + m
    <3>1. i - (Len(o) + m) \in 1 .. k - d - m
      BY <1>2, <1>5, <1>6, <1>13, <2>3
    <3>2. m = 4 /\ n + d = 4
      BY <1>2, <1>5, <3>1
    <3>3. i - (Len(o) + m) \in 1 .. k - d
      BY <1>2, <1>5, <3>1
    <3>4. wrote[i] = b[i - (Len(o) + m)]
      <4>1. i \in 1 .. Len(o) + k - d /\ ~(i <= Len(o) + m)
        BY <1>5, <1>6, <1>13, <2>3
      <4> QED BY <1>13, <4>1
    <3>5. wrote[i] = g + d + (i - (Len(o) + m))
      BY <1>4, <1>10, <3>1, <3>3, <3>4
    <3> QED BY <1>2, <1>6, <3>2, <3>5
  <2> QED BY <1>5, <1>6, <2>1, <2>2, <2>3
<1>15. ASSUME NEW i \in 1 .. 4
       PROVE  held[i] \in Nat /\ (i <= n + d => held[i] = Len(wrote) + i)
  <2>1. CASE i > 4 - m
    <3>1. Len(rest) - 4 + i \in 1 .. k - d
      BY <1>2, <1>4, <1>5, <2>1
    <3>2. rest[Len(rest) - 4 + i] = g + d + (Len(rest) - 4 + i)
      BY <1>4, <3>1
    <3>3. held[i] = g + d + (k - d - 4 + i)
      BY <1>4, <1>d, <2>1, <3>2
    <3>4. n + d = 4
      BY <1>2, <1>5, <2>1
    <3> QED BY <1>2, <1>6, <1>13, <3>3, <3>4
  <2>2. CASE i <= 4 - m
    <3>1. i + m \in 1 .. 4 /\ i \in 1 .. 4
      BY <1>5, <2>2
    <3>2. held[i] = moved[i]
      BY <1>5, <1>d, <2>2
    <3>3. moved[i] = filled[i + m]
      <4>1. i \in 1 .. 4 /\ i + m <= 4
        BY <3>1
      <4> QED BY <1>g, <4>1
    <3>4. held[i] \in Nat
      BY <1>7, <3>1, <3>2, <3>3
    <3>5. ASSUME i <= n + d PROVE held[i] = Len(wrote) + i
      <4>1. m = k - d
        BY <1>5, <2>2
      <4>2. i + m \in 1 .. n + d
        BY <1>2, <1>5, <3>1, <3>5, <4>1
      <4>3. held[i] = Len(o) + (i + m)
        BY <1>7, <3>2, <3>3, <4>2
      <4> QED BY <1>2, <1>6, <1>13, <4>1, <4>3
    <3> QED BY <3>4, <3>5
  <2> QED BY <1>5, <2>1, <2>2
<1>16. n + d \in 0 .. 4 /\ \A i \in 1 .. n + d : i \in 1 .. 4 /\ i <= n + d
  BY <1>2
<1>17. n + d = IF g + k < 4 THEN g + k ELSE 4
  BY <1>2 DEF Bytes
<1>18. Len(wrote) = g + k - (n + d)
  BY <1>2, <1>6, <1>13
<1>19. held \in [1 .. 4 -> Nat]
  BY <1>15, <1>e
<1>20. Bytes(n + d, g + k, held, wrote)
  <2>1. \A i \in 1 .. Len(wrote) : wrote[i] = i
    BY <1>14
  <2>2. \A i \in 1 .. n + d : held[i] = Len(wrote) + i
    BY <1>15, <1>16
  <2> DEFINE y == n + d
             x == g + k
  <2>3. y = (IF x < 4 THEN x ELSE 4) /\ Len(wrote) = x - y /\ \A i \in 1 .. y : held[i] = Len(wrote) + i
    BY <1>17, <1>18, <2>2
  <2> HIDE DEF x, y
  <2>4. Bytes(y, x, held, wrote)
    BY <2>1, <2>3 DEF Bytes
  <2> QED BY <2>4 DEF x, y
<1> QED BY <1>13, <1>16, <1>19, <1>20 DEF d, held, wrote

LEMMA TruncKeeps ==
  ASSUME MaxBytes \in Nat, TruncTyped, EndKept, NEW k \in 1 .. MaxBytes, W!TruncWrite(k) PROVE TruncTyped' /\ EndKept'
<1>1. k > 0 /\ k \in Nat /\ trunc.given + k <= MaxBytes
  BY DEF W!TruncWrite
<1>2. trunc.n \in 0 .. 4 /\ trunc.given \in Nat /\ trunc.held \in [1 .. 4 -> Nat] /\ trunc.out \in Seq(Nat)
  BY DEF TruncTyped
<1>3. Bytes(trunc.n, trunc.given, trunc.held, trunc.out)
  BY <1>1, <1>2 DEF EndKept
<1>4. PICK n, g, h, o : n = trunc.n /\ g = trunc.given /\ h = trunc.held /\ o = trunc.out
  OBVIOUS
<1>5. trunc' = [n |-> n + Fills(n, k), given |-> g + k, held |-> NowHeld(n, g, h, k), out |-> NowOut(n, g, h, o, k)]
  BY <1>4 DEF W!TruncWrite, W!Size, NowHeld, NowOut, HoldsOf, RestOf, Filled, Piece, Fills
<1>6. /\ n + Fills(n, k) \in 0 .. 4 /\ NowHeld(n, g, h, k) \in [1 .. 4 -> Nat] /\ NowOut(n, g, h, o, k) \in Seq(Nat)
      /\ Bytes(n + Fills(n, k), g + k, NowHeld(n, g, h, k), NowOut(n, g, h, o, k)) /\ g + k \in Nat
  <2>1. n \in 0 .. 4 /\ g \in Nat /\ h \in [1 .. 4 -> Nat] /\ o \in Seq(Nat) /\ Bytes(n, g, h, o)
    BY <1>2, <1>3, <1>4
  <2>2. g + k \in Nat
    BY <1>1, <2>1
  <2> QED BY <1>1, <2>1, <2>2, BytesOn
<1>7. TruncTyped'
  BY <1>5, <1>6 DEF TruncTyped
<1>8. EndKept'
  BY <1>5, <1>6 DEF EndKept
<1> QED BY <1>7, <1>8

LEMMA CodecNext == ASSUME MaxBytes \in Nat, CodecInv, [W!Next]_wVars PROVE CodecInv'
<1>0. TruncTyped /\ EndKept /\ got \in [Users -> Frames] /\ Asking
  BY DEF CodecInv
<1>1. ASSUME UNCHANGED trunc PROVE TruncTyped' /\ EndKept'
  BY <1>0, <1>1 DEF TruncTyped, EndKept
<1>2. ASSUME UNCHANGED <<user, got>> PROVE got' \in [Users -> Frames] /\ Asking'
  BY <1>0, <1>2 DEF Asking
<1>3. ASSUME UNCHANGED wVars \/ W!Read PROVE CodecInv'
  BY <1>1, <1>2, <1>3 DEF wVars, W!Read, CodecInv
<1>4. ASSUME NEW k \in 1 .. MaxBytes, W!TruncWrite(k) PROVE CodecInv'
  <2>1. UNCHANGED <<user, got>>
    BY <1>4 DEF W!TruncWrite
  <2> QED BY <1>0, <1>2, <1>4, <2>1, TruncKeeps DEF CodecInv
<1>5. ASSUME NEW u \in Users, NEW k \in FrameKinds, W!Ask(u, k) PROVE CodecInv'
  <2>1. UNCHANGED <<trunc, got>> /\ user' = [user EXCEPT ![u] = [at |-> "once", kind |-> k]]
    BY <1>5 DEF W!Ask
  <2>2. Asking'
    BY <1>0, <2>1 DEF Asking
  <2> QED BY <1>0, <1>1, <2>1, <2>2 DEF CodecInv
<1>6. ASSUME NEW u \in Users, W!Make(u) \/ W!Made(u) PROVE CodecInv'
  <2>1. UNCHANGED <<trunc, got>> /\ user[u].at \in {"once", "makes"}
        /\ (user' = [user EXCEPT ![u].at = "makes"] \/ user' = [user EXCEPT ![u].at = "once"])
    BY <1>6 DEF W!Make, W!Made
  <2>2. Asking'
    BY <1>0, <2>1 DEF Asking
  <2> QED BY <1>0, <1>1, <2>1, <2>2 DEF CodecInv
<1>7. ASSUME NEW u \in Users, W!Send(u) PROVE CodecInv'
  <2>1. /\ UNCHANGED trunc /\ user[u].at = "once" /\ user' = [user EXCEPT ![u].at = "idle"]
        /\ got' = [got EXCEPT ![u] = Append(@, [kind |-> user[u].kind, frame |-> "made"])]
    BY <1>7 DEF W!Send, W!Once
  <2>2. Asking'
    BY <1>0, <2>1 DEF Asking
  <2>3. [kind |-> user[u].kind, frame |-> "made"] \in [kind : FrameKinds, frame : {"made"}]
    BY <1>0, <2>1 DEF Asking
  <2>4. Append(got[u], [kind |-> user[u].kind, frame |-> "made"]) \in Frames
    <3> DEFINE R == [kind : FrameKinds, frame : {"made"}]
               e == [kind |-> user[u].kind, frame |-> "made"]
    <3>1. got[u] \in Seq(R) /\ e \in R
      BY <1>0, <2>3 DEF Frames
    <3> HIDE DEF R, e
    <3>2. Append(got[u], e) \in Seq(R)
      BY <3>1
    <3> QED BY <3>2 DEF Frames, R, e
  <2>5. got' \in [Users -> Frames]
    BY <1>0, <2>1, <2>4
  <2> QED BY <1>1, <2>1, <2>2, <2>5 DEF CodecInv
<1> QED BY <1>3, <1>4, <1>5, <1>6, <1>7 DEF W!Next

LEMMA CodecHolds == ASSUME CodecInv PROVE W!HoldsBack /\ W!FrameWhole
<1>0. TruncTyped /\ EndKept /\ got \in [Users -> Frames]
  BY DEF CodecInv
<1>1. PICK n, g, h, o : n = trunc.n /\ g = trunc.given /\ h = trunc.held /\ o = trunc.out
  OBVIOUS
<1>2. n \in 0 .. 4 /\ g \in Nat /\ h \in [1 .. 4 -> Nat] /\ o \in Seq(Nat)
  BY <1>0, <1>1 DEF TruncTyped
<1>3. ASSUME n > 0 PROVE o \o SubSeq(h, 1, n) = [i \in 1 .. g |-> i] /\ n = W!Least(4, g)
  <2>1. Bytes(n, g, h, o)
    BY <1>0, <1>1, <1>3 DEF EndKept
  <2>2. /\ n = (IF g < 4 THEN g ELSE 4) /\ Len(o) = g - n
        /\ (\A i \in 1 .. Len(o) : o[i] = i) /\ (\A i \in 1 .. n : h[i] = Len(o) + i)
    BY <2>1 DEF Bytes
  <2>3. n = W!Least(4, g)
    BY <1>2, <2>2 DEF W!Least
  <2>4. n \in Nat /\ \A i \in 1 .. n : i \in 1 .. 4
    BY <1>2
  <2>5. \A i \in 1 .. n : h[i] \in Nat
    BY <1>2, <2>4
  <2> DEFINE b == SubSeq(h, 1, n)
  <2>6. b \in Seq(Nat) /\ Len(b) = n /\ \A i \in 1 .. n : b[i] = h[i]
    BY <2>4, <2>5, Beginning
  <2> HIDE DEF b
  <2>7. /\ o \o b \in Seq(Nat) /\ Len(o \o b) = Len(o) + Len(b)
        /\ \A i \in 1 .. Len(o) + Len(b) : (o \o b)[i] = IF i <= Len(o) THEN o[i] ELSE b[i - Len(o)]
    BY <1>2, <2>6, ConcatProperties
  <2>8. Len(o) \in Nat /\ Len(o) + n = g
    BY <1>2, <2>2
  <2>9. ASSUME NEW i \in 1 .. g PROVE (o \o b)[i] = i
    <3>1. CASE i <= Len(o)
      <4>1. i \in 1 .. Len(o)
        BY <2>8, <3>1
      <4> QED BY <2>2, <2>6, <2>7, <2>8, <3>1, <4>1
    <3>2. CASE ~(i <= Len(o))
      <4>1. i - Len(o) \in 1 .. n /\ Len(o) + (i - Len(o)) = i
        BY <1>2, <2>8, <3>2
      <4>2. b[i - Len(o)] = i
        BY <2>2, <2>6, <4>1
      <4> QED BY <2>6, <2>7, <2>8, <3>2, <4>2
    <3> QED BY <3>1, <3>2
  <2>10. DOMAIN (o \o b) = 1 .. g
    BY <2>6, <2>7, <2>8
  <2>11. o \o b = [i \in 1 .. g |-> i]
    <3> DEFINE s == o \o b
               t == [i \in 1 .. g |-> i]
    <3>1. t \in Seq(Nat) /\ Len(t) = g /\ \A i \in 1 .. g : t[i] = i
      BY <1>2
    <3>2. s \in Seq(Nat) /\ Len(s) = g /\ \A i \in 1 .. g : s[i] = i
      BY <2>6, <2>7, <2>8, <2>9
    <3> HIDE DEF s, t
    <3>3. s = t
      BY <3>1, <3>2, SeqEqual
    <3> QED BY <3>3 DEF s, t
  <2> QED BY <2>3, <2>11 DEF b
<1>4. W!HoldsBack
  BY <1>1, <1>3 DEF W!HoldsBack, W!Size
<1>5. ASSUME NEW u \in Users, NEW i \in DOMAIN got[u] PROVE got[u][i].frame = "made"
  <2> DEFINE R == [kind : FrameKinds, frame : {"made"}]
  <2>1. PICK s \in Seq(R) : s = got[u]
    BY <1>0 DEF Frames
  <2>2. \A e \in R : e.frame = "made"
    OBVIOUS
  <2> HIDE DEF R
  <2>3. i \in 1 .. Len(s)
    BY <1>5, <2>1, LenProperties
  <2>4. s[i] \in R
    BY <2>3, ElementOfSeq
  <2> QED BY <2>1, <2>2, <2>4
<1> QED BY <1>4, <1>5 DEF W!FrameWhole

-----------------------------------------------------------------------------

\* What goroutines and handlers hold is accounted for in every reachable state, beside
\* the other parts: who has which descriptor, probe, slot and connection, and where both
\* sides of a handshake are (server.go, kwcat.go; client.go).
THEOREM SocketsInductive ==
  ASSUME Assumed, IsFiniteSet(Conns), MaxConn \in Nat PROVE Spec => [](IInv /\ CatInv /\ HandshakeInv)
<1>1. Init => IInv /\ CatInv /\ HandshakeInv
  BY InitInductive, CatInit, HandshakeInit DEF Init
<1>2. IInv /\ CatInv /\ HandshakeInv /\ [Next]_socketVars => IInv' /\ CatInv' /\ HandshakeInv'
  <2>1. [Next]_socketVars => [E!Next]_eVars /\ [K!Next]_kVars /\ [H!Next]_hVars
    BY DEF Next, socketVars
  <2> QED BY <2>1, EInvNext, CatNext, HandshakeNext
<1> QED BY <1>1, <1>2, PTL DEF Spec

\* Wherever RunServe and Shutdown meet, once both are over no probe, no collection and
\* no packet socket is left, and the server never keeps the number of a socket that was
\* closed (server.go, Shutdown; monitor.go, cleanup and loadBPF).
THEOREM NothingIsLeft ==
  ASSUME Assumed, IsFiniteSet(Conns), MaxConn \in Nat PROVE Spec => []E!NothingLeft
<1>1. IInv /\ CatInv /\ HandshakeInv => E!NothingLeft
  BY EInvHolds
<1> QED BY <1>1, SocketsInductive, PTL

\* A Shutdown, whenever it comes, does not make the program exit with an error
\* (monitor.go, readLoop; server.go, RunServe).
THEOREM ExitsForCause ==
  ASSUME Assumed, IsFiniteSet(Conns), MaxConn \in Nat PROVE Spec => []E!NoFalseExit
<1>1. IInv /\ CatInv /\ HandshakeInv => E!NoFalseExit
  BY EInvHolds
<1> QED BY <1>1, SocketsInductive, PTL

\* The slots taken are those of the handlers that run, there are never more than
\* MaxConn, and a handler that has returned left nothing open (kwcat.go, RunServe and
\* handle).
THEOREM SlotsAlwaysMatch ==
  ASSUME Assumed, IsFiniteSet(Conns), MaxConn \in Nat PROVE Spec => []K!SlotsMatch
<1>1. IInv /\ CatInv /\ HandshakeInv => K!SlotsMatch
  BY CatInvHolds
<1> QED BY <1>1, SocketsInductive, PTL

\* The monitor and the passthrough server give back all they hold of the kernel
\* (server.go, monitor.go; kwcat.go).
THEOREM NothingIsHeld ==
  ASSUME Assumed, IsFiniteSet(Conns), MaxConn \in Nat PROVE Spec => []NothingHeld
<1>1. E!NothingLeft /\ E!NoFalseExit /\ K!SlotsMatch => NothingHeld
  BY DEF NothingHeld
<1> QED BY <1>1, NothingIsLeft, ExitsForCause, SlotsAlwaysMatch, PTL

\* Whatever a client asks and a server chooses, through a proxy or not, wherever a step
\* fails, is late or is not answered: a connection Dial returns is open, has no deadline
\* of the handshake any more, and has the settings of the server's; the protocol is one
\* the client named or the server was told to answer, and both compress only if both
\* want it; and a dial that fails, in whichever of its functions, and an upgrade that
\* fails leave no connection open (client.go, DialContext and what it dials with;
\* proxy.go; server.go, Upgrade).
THEOREM HandsAreShaken ==
  ASSUME Assumed, IsFiniteSet(Conns), MaxConn \in Nat PROVE Spec => []Shaken
<1>1. IInv /\ CatInv /\ HandshakeInv => Shaken
  BY HandshakeHolds DEF Shaken
<1> QED BY <1>1, SocketsInductive, PTL

\* Of a message of any length, written in pieces of any lengths, the last four bytes are
\* held back and all the others are written in order; and who sends a prepared message
\* sends a frame that is made, whoever asked for it at the same time (compression.go,
\* truncWriter; prepared.go, frame).
THEOREM EndHeldBack == ASSUME MaxBytes \in Nat PROVE Spec => [](W!HoldsBack /\ W!FrameWhole)
<1>1. Init => CodecInv
  BY CodecInit DEF Init
<1>2. CodecInv /\ [Next]_socketVars => CodecInv'
  <2>1. [Next]_socketVars => [W!Next]_wVars
    BY DEF Next, socketVars
  <2> QED BY <2>1, CodecNext
<1>3. CodecInv => W!HoldsBack /\ W!FrameWhole
  BY CodecHolds
<1> QED BY <1>1, <1>2, <1>3, PTL DEF Spec

\* Whatever stands in a header of any length: a token is found in it only if it is one of
\* the elements between the commas, and always if they all are tokens; and a list of
\* extensions by the grammar, of any number with any parameters, is read as it stands
\* (util.go, tokenListContainsValue and parseExtensions).
THEOREM HeadersAreRead == ASSUME MaxText \in Nat PROVE Spec => []W!ListRead
<1>1. Init => ListInv
  BY ListInit DEF Init
<1>2. ListInv /\ [Next]_socketVars => ListInv'
  <2>1. [Next]_socketVars => [W!Next]_wVars
    BY DEF Next, socketVars
  <2> QED BY <2>1, ListKept
<1>3. ListInv => W!ListRead
  BY ListHolds
<1> QED BY <1>1, <1>2, <1>3, PTL DEF Spec

\* The helpers of the WebSocket library do what they are for, whatever the lengths of
\* headers and messages and whoever sends (util.go, compression.go, prepared.go).
THEOREM CodecsHold == ASSUME MaxText \in Nat, MaxBytes \in Nat PROVE Spec => []Framed
<1>1. W!ListRead /\ W!HoldsBack /\ W!FrameWhole => Framed
  BY DEF Framed
<1> QED BY <1>1, EndHeldBack, HeadersAreRead, PTL
===============================================================================
