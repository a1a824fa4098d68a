------------------------------- MODULE MCGateway -------------------------------
(***************************************************************************)
(* What a request meets in a gateway: what becomes of it and of the answer *)
(* (Forward), how the answer is carried (Reverse), which gateway and which *)
(* certificate a name gets (Routes), and what is recorded (GwRecord); and  *)
(* what the program behind it holds: services and templates by their names *)
(* (Registry) and transactions (SqlTx).  They share no state, so a         *)
(* behaviour takes one of them through its steps while the others stand as *)
(* they began.                                                             *)
(***************************************************************************)
EXTENDS Naturals, Sequences

CONSTANTS MaxPath, MaxQuery, MaxWrites, MaxUnits, MaxHints, Asks, Routed, Hosts, Bad, Reqs, Nobody,
          Threads, MaxSets, MaxStmts, MaxDepth

VARIABLES
  part,
  job, out, done,
  answer, latency, handler, tripDone, hints, header, wire, shown, left, body,
  pending, timer, gone, conn, copier, errc, closer, closeCh, late,
  routerMap, lmap, svcLock, lock, writing, ask, cached, thrown,
  pc, rec, sends, pool, made, field, aborted, saver, of, saved, wrote,
  svcmap, typmap, changes, holds, fields, tpl, given,
  via, depth, tx, ends, stmts, rows, error, passed, ret

fVars == <<job, out, done>>
rVars == <<answer, latency, handler, tripDone, hints, header, wire, shown, left, body,
           pending, timer, gone, conn, copier, errc, closer, closeCh, late>>
tVars == <<routerMap, lmap, svcLock, lock, writing, ask, cached, thrown>>
oVars == <<pc, rec, sends, pool, made, field, aborted, saver, of, saved, wrote>>
nVars == <<svcmap, typmap, changes, holds, fields, tpl, given>>
qVars == <<via, depth, tx, ends, stmts, rows, error, passed, ret>>
gatewayVars == <<part, fVars, rVars, tVars, oVars, nVars, qVars>>

F == INSTANCE Forward
R == INSTANCE Reverse
T == INSTANCE Routes
O == INSTANCE GwRecord WITH body <- sends, job <- saver
N == INSTANCE Registry
Q == INSTANCE SqlTx WITH done <- stmts

Init ==
  /\ part \in {"forward", "reverse", "routes", "records", "registry", "sqltx"}
  /\ part = "forward" \/ (part # "forward" /\ job = [kind |-> "query", s |-> <<>>])
  /\ part = "reverse" \/ (part # "reverse" /\ answer = (CHOOSE a \in R!Answers : TRUE) /\ latency = "none")
  /\ part = "records" \/ (part # "records" /\ sends = [q \in Reqs |-> "none"])
  /\ part = "sqltx" \/ (part # "sqltx" /\ via = "WithTx")
  /\ F!Init /\ R!Init /\ T!Init /\ O!Init /\ N!Init /\ Q!Init

Next ==
  /\ UNCHANGED part
  /\ \/ part = "forward" /\ F!Next /\ UNCHANGED <<rVars, tVars, oVars, nVars, qVars>>
     \/ part = "reverse" /\ R!Next /\ UNCHANGED <<fVars, tVars, oVars, nVars, qVars>>
     \/ part = "routes" /\ T!Next /\ UNCHANGED <<fVars, rVars, oVars, nVars, qVars>>
     \/ part = "records" /\ O!Next /\ UNCHANGED <<fVars, rVars, tVars, nVars, qVars>>
     \/ part = "registry" /\ N!Next /\ UNCHANGED <<fVars, rVars, tVars, oVars, qVars>>
     \/ part = "sqltx" /\ Q!Next /\ UNCHANGED <<fVars, rVars, tVars, oVars, nVars>>

Spec == Init /\ [][Next]_gatewayVars

\* The fairness of each part.
FairSpec ==
  /\ Spec
  /\ WF_rVars(part = "reverse" /\ R!HandlerStep)
  /\ WF_rVars(part = "reverse" /\ R!Others)

-----------------------------------------------------------------------------

\* What the backend is asked, and what the client is told, is what the other side
\* meant: hop-by-hop headers aside, with paths joined by one slash, without queries
\* that two readers read differently, and with the status first (reverse.go).
Forwarded == part = "forward" => F!EndToEnd /\ F!PathJoined /\ F!QueryCleaned /\ F!StatusFirst

\* The handler gives back the answer it got, uses the ResponseWriter only while it may,
\* and leaves no connection open (reverse.go, ServeHTTP and maxLatencyWriter).
Proxied == part = "reverse" => R!NotLate /\ R!AnswerFaithful /\ R!Released

\* Who asks by a name gets what was made for it: a key keeps the gateway that was made
\* last, a host has one certificate (kwdog.go, tls.go), what is injected is what was
\* registered, and a template is read once (zgg.go).
Kept ==
  /\ part = "routes" => T!GatewayKept /\ T!OneCertificate
  /\ part = "registry" => N!Wired /\ N!OneTemplate

\* A record has one owner, and what is saved of a request is all of it and nothing of
\* another (gateway.go, record.go, record_fn.go).
Recorded == part = "records" => O!TypeOK /\ O!OneOwner /\ O!SavedWhole

\* What WithTx and DscWithTx return is what became of the statements, and the
\* transaction is ended once (sqlx/kmod.go, sqlx.go).
Transacted == part = "sqltx" => Q!AsReturned /\ Q!FailedUndone /\ Q!EndsOnce

\* What was received is shown, and all goroutines of an answer end.
CopiesEnd == R!ShownInTime /\ R!AllEnd
=============================================================================
