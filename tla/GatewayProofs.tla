----------------------------- MODULE GatewayProofs -----------------------------
(***************************************************************************)
(* Proofs about a gateway and what the program behind it holds: the        *)
(* records of its requests, for any finite set of requests and whatever    *)
(* kind their bodies are; the gateways and certificates that are made once *)
(* and kept, for any requests, keys and hosts; one request through the     *)
(* reverse proxy, for a body of any number of pieces and any number of 1xx *)
(* answers; the registry, for any goroutines and changes; a transaction,   *)
(* for any number of statements and functions; and what of a request       *)
(* reaches the other side, for any header, and paths, queries and tunnels  *)
(* of any length.                                                          *)
(***************************************************************************)
EXTENDS MCGateway, FiniteSetTheorems, SequenceTheorems, WellFoundedInduction, NaturalsInduction, TLAPS

-----------------------------------------------------------------------------
(* The records.  OneOwner is not inductive: a request must be where its      *)
(* record is (Placed), and a record that was never made must be as clean as  *)
(* one in the pool (Clean0).  SavedWhole rests on what the record of a       *)
(* request holds at each place, as long as no goroutine runs ahead (InStep). *)

\* The instance has a Cardinality of its own.
LEMMA SameCardinality == \A S : O!Cardinality(S) = Cardinality(S)
BY DEF O!Cardinality, Cardinality

\* Where a request holds a record, and where its goroutine does.
Placed ==
  \A q \in Reqs :
    /\ pc[q] \in {"new", "over"} <=> rec[q] = 0
    /\ pc[q] = "over" <=> saver[q]["recycle"] # "none"
    /\ rec[q] <= made /\ of[q] <= made
    /\ \A j \in O!Jobs : saver[q][j] # "none" => of[q] # 0
    /\ saver[q]["ahead"] # "put"

\* A record nobody has, because it lies in the pool or was never made, is empty.
Free(r) == r \in pool \/ r > made
Clean0 == \A r \in O!Recs : Free(r) => field[r] = O!Empty

\* What the request has noted so far.
Noted(q) == [f \in O!Fields |-> IF f \in wrote[q] THEN q ELSE Nobody]

NoneAhead == \A q \in Reqs : saver[q]["ahead"] = "none"

\* The record of a request holds what it noted, until that is saved; only the
\* goroutine that has set the mark finds it set.
Unmarked == \A r \in O!Recs : Free(r) => ~aborted[r]

Mine(q) ==
  /\ pc[q] = "new" => wrote[q] = {}
  /\ rec[q] # 0 => field[rec[q]] = Noted(q) /\ ~aborted[rec[q]]
  /\ saver[q]["recycle"] \in {"check", "set"} => field[of[q]] = Noted(q) /\ ~aborted[of[q]]
  /\ saver[q]["recycle"] = "save" => field[of[q]] = Noted(q)
  /\ saver[q]["recycle"] \in {"clean", "put", "done"} => saved[q]["recycle"] = Noted(q)

InStep == NoneAhead => Unmarked /\ \A q \in Reqs : Mine(q)

RecordsInv == O!TypeOK /\ Placed /\ O!OneOwner /\ Clean0 /\ InStep

-----------------------------------------------------------------------------

LEMMA RecordsInit == ASSUME IsFiniteSet(Reqs) PROVE O!Init => RecordsInv
<1>1. O!Cardinality(Reqs) \in Nat
  BY FS_CardinalityType, SameCardinality
<1>2. ASSUME O!Init PROVE O!TypeOK
  <2>1. pool \subseteq 1 .. made /\ made \in 0 .. O!Cardinality(Reqs)
    BY <1>1, <1>2 DEF O!Init
  <2>2. field \in [O!Recs -> [O!Fields -> Reqs \cup {Nobody}]]
    BY <1>2 DEF O!Init, O!Empty
  <2>3. saved \in [Reqs -> [O!Jobs -> [O!Fields -> Reqs \cup {Nobody}] \cup {<<>>}]]
    <3> DEFINE None == <<>>
    <3>1. saved = [q \in Reqs |-> [j \in O!Jobs |-> None]]
      BY <1>2 DEF O!Init
    <3> HIDE DEF None
    <3>2. saved \in [Reqs -> [O!Jobs -> [O!Fields -> Reqs \cup {Nobody}] \cup {None}]]
      BY <3>1
    <3> QED BY <3>2 DEF None
  <2> QED BY <1>2, <2>1, <2>2, <2>3 DEF O!Init, O!TypeOK
<1>3. O!Init => Placed /\ O!OneOwner /\ Clean0
  BY <1>1 DEF O!Init, Placed, O!OneOwner, Clean0, O!Uses, O!Recs, O!Jobs
<1>4. O!Init => InStep
  BY DEF O!Init, InStep, Unmarked, Mine, Noted, O!Empty, O!Recs, O!Jobs
<1> QED BY <1>2, <1>3, <1>4 DEF RecordsInv

\* The types, action by action.
LEMMA TypeNext == ASSUME IsFiniteSet(Reqs), RecordsInv, [O!Next]_oVars PROVE O!TypeOK'
<1>1. O!Cardinality(Reqs) \in Nat
  BY FS_CardinalityType, SameCardinality
<1> USE <1>1 DEF RecordsInv, O!TypeOK, O!reqVars, O!poolVars, O!jobVars
<1>2. ASSUME NEW q \in Reqs, O!Take(q) PROVE O!TypeOK'
  <2>1. CASE \E r \in pool : rec' = [rec EXCEPT ![q] = r] /\ pool' = pool \ {r} /\ made' = made
    <3>1. PICK r \in pool : rec' = [rec EXCEPT ![q] = r] /\ pool' = pool \ {r} /\ made' = made
      BY <2>1
    <3>2. r \in O!Recs
      BY <1>1 DEF O!Recs
    <3> QED BY <1>2, <3>1, <3>2 DEF O!Take, O!Goto
  <2>2. CASE made < O!Cardinality(Reqs) /\ rec' = [rec EXCEPT ![q] = made + 1] /\ made' = made + 1 /\ pool' = pool
    <3>1. made + 1 \in O!Recs /\ made + 1 \in 0 .. O!Cardinality(Reqs) /\ pool \subseteq 1 .. made + 1
      BY <1>1, <2>2 DEF O!Recs
    <3> QED BY <1>2, <2>2, <3>1 DEF O!Take, O!Goto
  <2> QED BY <1>2, <2>1, <2>2 DEF O!Take, O!Available
<1>3. ASSUME NEW q \in Reqs, NEW fs \in SUBSET O!Fields, O!Log(q, fs)
      PROVE  field' \in [O!Recs -> [O!Fields -> Reqs \cup {Nobody}]] /\ wrote' \in [Reqs -> SUBSET O!Fields]
  BY <1>3 DEF O!Log
<1>4. ASSUME NEW q \in Reqs, O!Leave(q)
      PROVE  /\ pc' \in [Reqs -> {"new", "logRequest", "authz", "direct", "roundTrip",
                                   "modify", "upgrade", "copy", "over"}]
             /\ rec' \in [Reqs -> O!Recs \cup {0}] /\ of' \in [Reqs -> O!Recs \cup {0}]
             /\ saver' \in [Reqs -> [O!Jobs -> {"none", "check", "set", "save", "clean", "put", "done"}]]
  BY <1>4 DEF O!Leave, O!Goto, O!Jobs
<1>5. ASSUME NEW q \in Reqs, O!LogRequest(q) PROVE O!TypeOK'
  <2>1. {"request"} \cup O!BodyFields(sends[q]) \in SUBSET O!Fields
    BY DEF O!BodyFields, O!Fields
  <2> QED BY <1>5, <2>1, <1>3 DEF O!LogRequest, O!Goto
<1>6. ASSUME NEW q \in Reqs, O!Refused(q) \/ O!Rejected(q) PROVE O!TypeOK'
  BY <1>6, <1>4 DEF O!Refused, O!Rejected
<1>7. ASSUME NEW q \in Reqs, O!Passed(q) \/ O!WriteHeader(q) PROVE O!TypeOK'
  BY <1>7 DEF O!Passed, O!WriteHeader, O!Goto
<1>8. ASSUME NEW q \in Reqs, O!Fails(q) PROVE O!TypeOK'
  <2>1. {"respBody"} \in SUBSET O!Fields
    BY DEF O!Fields
  <2> QED BY <1>8, <2>1, <1>3, <1>4 DEF O!Fails
<1>9. ASSUME NEW q \in Reqs, O!LogOutRequest(q) \/ O!LogResponse(q) PROVE O!TypeOK'
  <2>1. {"outRequest"} \in SUBSET O!Fields /\ {"response"} \in SUBSET O!Fields
    BY DEF O!Fields
  <2> QED BY <1>9, <2>1, <1>3 DEF O!LogOutRequest, O!LogResponse, O!Goto
<1>10. ASSUME NEW q \in Reqs, O!LogUpgrade(q) PROVE O!TypeOK'
  <2>1. {"response", "respBody"} \in SUBSET O!Fields
    BY DEF O!Fields
  <2> QED BY <1>10, <2>1, <1>3 DEF O!LogUpgrade, O!Goto, O!Jobs
<1>11. ASSUME NEW q \in Reqs, O!CopyResponse(q) PROVE O!TypeOK'
  <2>1. {"respBody"} \in SUBSET O!Fields
    BY DEF O!Fields
  <2> QED BY <1>11, <2>1, <1>3, <1>4 DEF O!CopyResponse
<1>12. ASSUME NEW q \in Reqs, NEW j \in O!Jobs, O!Work(q, j) PROVE O!TypeOK'
  <2>1. CASE O!Check(q, j)
    BY <1>12, <2>1 DEF O!Check, O!Turn, O!AfterTrack
  <2>2. CASE O!SetAbort(q, j)
    BY <1>12, <2>2 DEF O!SetAbort, O!Turn
  <2>3. CASE O!Save(q, j)
    <3>1. of[q] \in O!Recs
      BY <1>12, <2>3 DEF O!Save, O!At, Placed
    <3>2. saved' \in [Reqs -> [O!Jobs -> [O!Fields -> Reqs \cup {Nobody}] \cup {<<>>}]]
      BY <2>3, <3>1 DEF O!Save
    <3> QED BY <2>3, <3>2 DEF O!Save, O!Turn
  <2>4. CASE O!Clean(q, j)
    BY <1>12, <2>4 DEF O!Clean, O!Turn, O!AfterTrack, O!Cleaned, O!Empty
  <2> QED BY <1>12, <2>1, <2>2, <2>3, <2>4 DEF O!Work
<1>13. ASSUME NEW q \in Reqs, O!Put(q) PROVE O!TypeOK'
  <2>1. of[q] \in 1 .. made
    BY <1>13 DEF O!Put, O!At, Placed, O!Recs, O!Jobs
  <2> QED BY <1>13, <2>1 DEF O!Put, O!Turn, O!Cleaned, O!Empty, O!Jobs
<1>14. CASE UNCHANGED oVars
  BY <1>14 DEF oVars
<1> QED BY <1>2, <1>5, <1>6, <1>7, <1>8, <1>9, <1>10, <1>11, <1>12, <1>13, <1>14
        DEF O!Next, O!Serve, O!Over, O!vars, O!reqVars, O!poolVars, O!jobVars, oVars

\* A request and its goroutine stay where its record is.
LEMMA PlacedNext == ASSUME IsFiniteSet(Reqs), RecordsInv, [O!Next]_oVars PROVE Placed'
<1>1. O!Cardinality(Reqs) \in Nat
  BY FS_CardinalityType, SameCardinality
<1> /\ pc \in [Reqs -> {"new", "logRequest", "authz", "direct", "roundTrip",
                         "modify", "upgrade", "copy", "over"}]
    /\ rec \in [Reqs -> O!Recs \cup {0}] /\ of \in [Reqs -> O!Recs \cup {0}]
    /\ saver \in [Reqs -> [O!Jobs -> {"none", "check", "set", "save", "clean", "put", "done"}]]
    /\ pool \subseteq 1 .. made /\ made \in Nat
    /\ Placed
  BY <1>1 DEF RecordsInv, O!TypeOK
<1> USE <1>1 DEF Placed, O!Jobs, O!Recs, O!reqVars, O!poolVars, O!jobVars
<1>2. ASSUME NEW q \in Reqs, O!Take(q) PROVE Placed'
  BY <1>2 DEF O!Take, O!Goto, O!Available
<1>3. ASSUME NEW q \in Reqs, O!Leave(q), pc[q] \notin {"new", "over"}, UNCHANGED made PROVE Placed'
  BY <1>3 DEF O!Leave, O!Goto
<1>4. ASSUME NEW q \in Reqs, O!Refused(q) \/ O!Rejected(q) \/ O!Fails(q) \/ O!CopyResponse(q) PROVE Placed'
  BY <1>4, <1>3 DEF O!Refused, O!Rejected, O!Fails, O!CopyResponse
<1>5. ASSUME NEW q \in Reqs,
             O!LogRequest(q) \/ O!Passed(q) \/ O!LogOutRequest(q) \/ O!LogResponse(q) \/ O!WriteHeader(q)
      PROVE  Placed'
  BY <1>5 DEF O!LogRequest, O!Passed, O!LogOutRequest, O!LogResponse, O!WriteHeader, O!Goto
<1>6. ASSUME NEW q \in Reqs, O!LogUpgrade(q) PROVE Placed'
  BY <1>6 DEF O!LogUpgrade, O!Goto
<1>7. ASSUME NEW q \in Reqs, NEW j \in O!Jobs, O!Work(q, j) PROVE Placed'
  BY <1>7 DEF O!Work, O!Check, O!SetAbort, O!Save, O!Clean, O!At, O!Turn, O!AfterTrack
<1>8. ASSUME NEW q \in Reqs, O!Put(q) PROVE Placed'
  BY <1>8 DEF O!Put, O!At, O!Turn
<1>9. CASE UNCHANGED oVars
  BY <1>9 DEF oVars
<1> QED BY <1>2, <1>4, <1>5, <1>6, <1>7, <1>8, <1>9 DEF O!Next, O!Serve, O!Over, O!vars, O!reqVars, O!poolVars, O!jobVars, oVars

\* What Take hands out is a record nobody has.
Hands(q, r) ==
  /\ rec' = [rec EXCEPT ![q] = r] /\ Free(r)
  /\ \A i \in O!Recs : Free(i)' <=> Free(i) /\ i # r

LEMMA TakeHands ==
  ASSUME IsFiniteSet(Reqs), O!TypeOK, NEW q \in Reqs, O!Take(q)
  PROVE  \E r \in O!Recs : Hands(q, r)
<1>1. O!Cardinality(Reqs) \in Nat
  BY FS_CardinalityType, SameCardinality
<1>2. pool \subseteq 1 .. made /\ made \in 0 .. O!Cardinality(Reqs)
  BY DEF O!TypeOK
<1>3. CASE \E r \in pool : rec' = [rec EXCEPT ![q] = r] /\ pool' = pool \ {r} /\ made' = made
  <2>1. PICK r \in pool : rec' = [rec EXCEPT ![q] = r] /\ pool' = pool \ {r} /\ made' = made
    BY <1>3
  <2>2. r \in O!Recs /\ ~(r > made)
    BY <1>1, <1>2 DEF O!Recs
  <2>3. Hands(q, r)
    BY <2>1, <2>2 DEF Hands, Free
  <2> QED BY <2>2, <2>3
<1>4. CASE /\ made < O!Cardinality(Reqs) /\ rec' = [rec EXCEPT ![q] = made + 1]
           /\ made' = made + 1 /\ pool' = pool
  <2>1. made + 1 \in O!Recs /\ made + 1 \notin pool /\ made + 1 > made
    BY <1>1, <1>2, <1>4 DEF O!Recs
  <2>2. \A i \in O!Recs : i > made + 1 <=> i > made /\ i # made + 1
    BY <1>1, <1>2 DEF O!Recs
  <2>3. Hands(q, made + 1)
    BY <1>4, <2>1, <2>2 DEF Hands, Free
  <2> QED BY <2>1, <2>3
<1> QED BY <1>3, <1>4 DEF O!Take, O!Available

\* A record keeps its one owner: only the pool hands it out, and only its owner
\* gives it back.
LEMMA OwnerNext == ASSUME IsFiniteSet(Reqs), RecordsInv, [O!Next]_oVars PROVE O!OneOwner' /\ Clean0'
<1>1. O!Cardinality(Reqs) \in Nat
  BY FS_CardinalityType, SameCardinality
<1> /\ rec \in [Reqs -> O!Recs \cup {0}] /\ of \in [Reqs -> O!Recs \cup {0}]
    /\ saver \in [Reqs -> [O!Jobs -> {"none", "check", "set", "save", "clean", "put", "done"}]]
    /\ field \in [O!Recs -> [O!Fields -> Reqs \cup {Nobody}]]
    /\ pool \subseteq 1 .. made /\ made \in Nat
    /\ Placed /\ O!OneOwner /\ Clean0
  BY <1>1 DEF RecordsInv, O!TypeOK
<1> USE <1>1 DEF Placed, O!OneOwner, Clean0, O!Uses, O!Jobs, O!Recs, O!reqVars, O!poolVars, O!jobVars
<1>2. ASSUME NEW q \in Reqs, O!Take(q) PROVE O!OneOwner' /\ Clean0'
  <2>1. PICK r \in O!Recs : Hands(q, r)
    BY <1>2, TakeHands DEF RecordsInv
  <2>2. /\ UNCHANGED <<field, of, saver>>
        /\ rec[q] = 0
    BY <1>2 DEF O!Take
  <2>3. \A p \in Reqs : ~O!Uses(p, r)
    BY <2>1 DEF Hands, Free
  <2>4. \A p \in Reqs, i \in O!Recs : O!Uses(p, i)' => O!Uses(p, i) \/ (p = q /\ i = r)
    BY <2>1, <2>2 DEF Hands
  <2>5. \A i \in O!Recs : Free(i)' => Free(i) /\ i # r
    BY <2>1 DEF Hands
  <2>6. O!OneOwner'
    BY <2>2, <2>3, <2>4, <2>5 DEF Free
  <2>7. Clean0'
    BY <2>2, <2>5
  <2> QED BY <2>6, <2>7
<1> USE DEF Free
<1>3. ASSUME NEW q \in Reqs, O!Leave(q), pc[q] \notin {"new", "over"}, UNCHANGED O!poolVars,
             UNCHANGED field \/ \E fs \in SUBSET O!Fields : O!Log(q, fs)
      PROVE  O!OneOwner' /\ Clean0'
  BY <1>3 DEF O!Leave, O!Goto, O!Log
<1>4. ASSUME NEW q \in Reqs, NEW fs \in SUBSET O!Fields, O!Log(q, fs), rec[q] # 0, UNCHANGED O!poolVars,
             UNCHANGED <<rec, of, saver>>
      PROVE  O!OneOwner' /\ Clean0'
  BY <1>4 DEF O!Log
<1>5. ASSUME NEW q \in Reqs, O!Refused(q) \/ O!Rejected(q) \/ O!Fails(q) \/ O!CopyResponse(q)
      PROVE  O!OneOwner' /\ Clean0'
  BY <1>5, <1>3 DEF O!Refused, O!Rejected, O!Fails, O!CopyResponse, O!Fields
<1>6. ASSUME NEW q \in Reqs, O!LogRequest(q) \/ O!LogOutRequest(q) \/ O!LogResponse(q) PROVE O!OneOwner' /\ Clean0'
  <2>1. {"request"} \cup O!BodyFields(sends[q]) \in SUBSET O!Fields
    BY DEF O!BodyFields, O!Fields
  <2> QED BY <1>6, <1>4, <2>1, ZenonT(40) DEF O!LogRequest, O!LogOutRequest, O!LogResponse, O!Goto, O!Fields
<1>7. ASSUME NEW q \in Reqs, O!LogUpgrade(q) PROVE O!OneOwner' /\ Clean0'
  BY <1>7 DEF O!LogUpgrade, O!Goto, O!Log
<1>8. ASSUME NEW q \in Reqs, O!Passed(q) \/ O!WriteHeader(q) PROVE O!OneOwner' /\ Clean0'
  BY <1>8 DEF O!Passed, O!WriteHeader, O!Goto
<1>9. ASSUME NEW q \in Reqs, NEW j \in O!Jobs, O!Work(q, j) PROVE O!OneOwner' /\ Clean0'
  <2>1. \A p \in Reqs, i \in O!Recs : O!Uses(p, i)' => O!Uses(p, i)
    BY <1>9, SMTT(40) DEF O!Work, O!Check, O!SetAbort, O!Save, O!Clean, O!At, O!Turn, O!AfterTrack
  <2>2. UNCHANGED O!poolVars /\ (field' = field \/ field' = O!Cleaned(of[q]))
    BY <1>9 DEF O!Work, O!Check, O!SetAbort, O!Save, O!Clean
  <2>3. \A i \in O!Recs : field[i] = O!Empty => field'[i] = O!Empty
    BY <2>2 DEF O!Cleaned
  <2>4. ASSUME NEW i \in O!Recs, i \in pool' PROVE field'[i] = O!Empty /\ \A p \in Reqs : ~O!Uses(p, i)'
    <3>1. i \in pool /\ field[i] = O!Empty /\ \A p \in Reqs : ~O!Uses(p, i)
      BY <1>1, <2>2, <2>4 DEF O!OneOwner
    <3> QED BY <2>1, <2>3, <3>1
  <2>5. \A i \in O!Recs : \A p, o \in Reqs : O!Uses(p, i)' /\ O!Uses(o, i)' => p = o
    BY <1>1, <2>1 DEF O!OneOwner
  <2>6. O!OneOwner'
    BY <2>4, <2>5 DEF O!OneOwner
  <2>7. Clean0'
    BY <1>1, <2>2, <2>3 DEF Clean0
  <2> QED BY <2>6, <2>7
<1>10. ASSUME NEW q \in Reqs, O!Put(q) PROVE O!OneOwner' /\ Clean0'
  BY <1>10 DEF O!Put, O!At, O!Turn, O!Cleaned
<1>11. CASE UNCHANGED oVars
  BY <1>11 DEF oVars
<1> QED BY <1>2, <1>5, <1>6, <1>7, <1>8, <1>9, <1>10, <1>11 DEF O!Next, O!Serve, O!Over, O!vars, O!reqVars, O!poolVars, O!jobVars, oVars

\* Once a goroutine runs ahead, that it does or did can be seen for ever.
LEMMA AheadStays ==
  ASSUME O!TypeOK, [O!Next]_oVars, NoneAhead' PROVE NoneAhead
<1> USE DEF NoneAhead, O!Jobs, O!reqVars, O!poolVars, O!jobVars
<1> saver \in [Reqs -> [O!Jobs -> {"none", "check", "set", "save", "clean", "put", "done"}]]
  BY DEF O!TypeOK
<1>1. ASSUME NEW q \in Reqs, O!Refused(q) \/ O!Fails(q) \/ O!Rejected(q) \/ O!CopyResponse(q) PROVE NoneAhead
  <2>1. saver' = [saver EXCEPT ![q]["recycle"] = "check"]
    BY <1>1 DEF O!Refused, O!Fails, O!Rejected, O!CopyResponse, O!Leave
  <2> QED BY <2>1
<1>2. ASSUME NEW q \in Reqs, O!Take(q) \/ O!LogRequest(q) \/ O!Passed(q) \/ O!LogOutRequest(q) \/ O!LogResponse(q)
                              \/ O!WriteHeader(q)
      PROVE  NoneAhead
  <2>1. saver' = saver
    BY <1>2 DEF O!Take, O!LogRequest, O!Passed, O!LogOutRequest, O!LogResponse, O!WriteHeader
  <2> QED BY <2>1
<1>3. ASSUME NEW q \in Reqs, O!LogUpgrade(q) PROVE NoneAhead
  <2>1. saver' = [saver EXCEPT ![q]["ahead"] = "check"]
    BY <1>3 DEF O!LogUpgrade
  <2> QED BY <2>1
<1>4. ASSUME NEW q \in Reqs, NEW j \in O!Jobs, O!Work(q, j) \/ O!Put(q) PROVE NoneAhead
  <2>1. PICK i \in O!Jobs, l \in {"set", "save", "clean", "put", "done"} : saver' = [saver EXCEPT ![q][i] = l]
    BY <1>4 DEF O!Work, O!Check, O!SetAbort, O!Save, O!Clean, O!Put, O!Turn, O!AfterTrack
  <2> QED BY <2>1
<1>5. CASE UNCHANGED oVars
  BY <1>5 DEF oVars
<1> QED BY <1>1, <1>2, <1>3, <1>4, <1>5 DEF O!Next, O!Over, O!vars, O!reqVars, O!poolVars, O!jobVars, oVars, O!Serve

\* A request that a step leaves alone, and its records too.
LEMMA MineStays ==
  ASSUME O!TypeOK, Placed, NEW p \in Reqs, Mine(p),
         pc'[p] = pc[p], rec'[p] = rec[p], of'[p] = of[p], saver'[p] = saver[p], wrote'[p] = wrote[p],
         saved'[p] = saved[p],
         \A r \in O!Recs : O!Uses(p, r) => field'[r] = field[r] /\ aborted'[r] = aborted[r]
  PROVE  Mine(p)'
<1>1. Noted(p)' = Noted(p)
  BY DEF Noted
<1>2. rec[p] \in O!Recs \cup {0} /\ (saver[p]["recycle"] # "none" => of[p] \in O!Recs)
  BY DEF O!TypeOK, Placed, O!Jobs
<1>3. rec[p] # 0 => field'[rec[p]] = field[rec[p]] /\ aborted'[rec[p]] = aborted[rec[p]]
  BY <1>2 DEF O!Uses
<1>4. saver[p]["recycle"] \notin {"none", "done"} =>
        field'[of[p]] = field[of[p]] /\ aborted'[of[p]] = aborted[of[p]]
  BY <1>2 DEF O!Uses
<1> QED BY <1>1, <1>3, <1>4 DEF Mine

LEMMA LogNotes ==
  ASSUME O!TypeOK, O!OneOwner, NEW q \in Reqs, NEW fs \in SUBSET O!Fields, O!Log(q, fs),
         rec[q] # 0, field[rec[q]] = Noted(q)
  PROVE  /\ field'[rec[q]] = Noted(q)'
         /\ \A p \in Reqs \ {q} : /\ wrote'[p] = wrote[p]
                                 /\ \A r \in O!Recs : O!Uses(p, r) => field'[r] = field[r]
<1>1. /\ field \in [O!Recs -> [O!Fields -> Reqs \cup {Nobody}]] /\ rec[q] \in O!Recs
      /\ wrote \in [Reqs -> SUBSET O!Fields]
  BY DEF O!TypeOK
<1>2. field'[rec[q]] = [f \in O!Fields |-> IF f \in fs THEN q ELSE field[rec[q]][f]]
  BY <1>1 DEF O!Log
<1>3. wrote'[q] = wrote[q] \cup fs
  BY <1>1 DEF O!Log
<1>4. field'[rec[q]] = Noted(q)'
  BY <1>2, <1>3 DEF Noted
<1>5. ASSUME NEW p \in Reqs \ {q}, NEW r \in O!Recs, O!Uses(p, r) PROVE r # rec[q]
  BY <1>5 DEF O!OneOwner, O!Uses
<1> QED BY <1>1, <1>4, <1>5 DEF O!Log

\* What a request noted stays in its record as long as nobody else touches it.
LEMMA InStepNext == ASSUME IsFiniteSet(Reqs), RecordsInv, [O!Next]_oVars PROVE InStep'
<1>1. O!Cardinality(Reqs) \in Nat
  BY FS_CardinalityType, SameCardinality
<1> /\ rec \in [Reqs -> O!Recs \cup {0}] /\ of \in [Reqs -> O!Recs \cup {0}]
    /\ saver \in [Reqs -> [O!Jobs -> {"none", "check", "set", "save", "clean", "put", "done"}]]
    /\ field \in [O!Recs -> [O!Fields -> Reqs \cup {Nobody}]] /\ aborted \in [O!Recs -> BOOLEAN]
    /\ wrote \in [Reqs -> SUBSET O!Fields]
    /\ pc \in [Reqs -> {"new", "logRequest", "authz", "direct", "roundTrip",
                         "modify", "upgrade", "copy", "over"}]
    /\ saved \in [Reqs -> [O!Jobs -> [O!Fields -> Reqs \cup {Nobody}] \cup {<<>>}]]
    /\ pool \subseteq 1 .. made /\ made \in Nat
    /\ Placed /\ O!OneOwner /\ Clean0 /\ InStep
  BY <1>1 DEF RecordsInv, O!TypeOK
<1>2. NoneAhead' => NoneAhead
  BY AheadStays DEF RecordsInv
<1> SUFFICES ASSUME NoneAhead, NoneAhead' PROVE Unmarked' /\ \A q \in Reqs : Mine(q)'
  BY <1>2 DEF InStep
<1>3. Unmarked /\ \A q \in Reqs : Mine(q)
  BY DEF InStep
<1> USE <1>1, <1>3 DEF O!reqVars, O!poolVars, O!jobVars
<1>4. ASSUME NEW q \in Reqs, O!Take(q) PROVE Unmarked' /\ \A p \in Reqs : Mine(p)'
  <2>1. PICK r \in O!Recs : Hands(q, r)
    BY <1>4, TakeHands DEF RecordsInv
  <2>2. Unmarked'
    BY <1>4, <2>1 DEF O!Take, Hands, Unmarked
  <2>3. ASSUME NEW p \in Reqs \ {q} PROVE Mine(p)'
    BY <1>4, <2>1, MineStays DEF O!Take, O!Goto, Hands, RecordsInv
  <2>4. field[r] = Noted(q)' /\ ~aborted[r]
    BY <1>4, <2>1 DEF O!Take, Hands, Clean0, Unmarked, Mine, Noted, O!Empty
  <2>5. saver[q]["recycle"] = "none" /\ saver' = saver
    BY <1>4 DEF O!Take, Placed
  <2>6. Mine(q)'
    BY <1>4, <2>1, <2>4, <2>5 DEF O!Take, O!Goto, Hands, Mine
  <2> QED BY <2>2, <2>3, <2>6
<1>5. ASSUME NEW q \in Reqs, NEW fs \in SUBSET O!Fields, O!Log(q, fs), pc[q] \notin {"new", "over"},
             UNCHANGED <<rec, of, saver, O!poolVars, aborted, saved>>, pc'[q] # "new",
             \A p \in Reqs \ {q} : pc'[p] = pc[p]
      PROVE  Unmarked' /\ \A p \in Reqs : Mine(p)'
  <2>1. rec[q] # 0 /\ field[rec[q]] = Noted(q) /\ saver[q]["recycle"] = "none"
    BY <1>5 DEF Placed, Mine
  <2>2. ASSUME NEW p \in Reqs \ {q} PROVE Mine(p)'
    BY <1>5, <2>1, LogNotes, MineStays DEF RecordsInv
  <2>3. Mine(q)'
    BY <1>5, <2>1, LogNotes DEF Mine, RecordsInv
  <2> QED BY <1>5, <2>2, <2>3 DEF Unmarked, Free
<1>6. ASSUME NEW q \in Reqs, O!LogRequest(q) \/ O!LogOutRequest(q) \/ O!LogResponse(q)
      PROVE Unmarked' /\ \A p \in Reqs : Mine(p)'
  <2>1. {"request"} \cup O!BodyFields(sends[q]) \in SUBSET O!Fields
    BY DEF O!BodyFields, O!Fields
  <2> QED BY <1>6, <1>5, <2>1 DEF O!LogRequest, O!LogOutRequest, O!LogResponse, O!Goto, O!Fields
<1>7. ASSUME NEW q \in Reqs, O!Passed(q) \/ O!WriteHeader(q) PROVE Unmarked' /\ \A p \in Reqs : Mine(p)'
  <2>1. ASSUME NEW p \in Reqs \ {q} PROVE Mine(p)'
    BY <1>7, MineStays DEF O!Passed, O!WriteHeader, O!Goto, RecordsInv
  <2>2. Mine(q)'
    <3>1. pc'[q] # "new" /\ UNCHANGED <<rec, field, aborted, saver, of, saved, wrote>>
      BY <1>7 DEF O!Passed, O!WriteHeader, O!Goto
    <3>2. Noted(q)' = Noted(q)
      BY <3>1 DEF Noted
    <3> QED BY <3>1, <3>2 DEF Mine
  <2> QED BY <1>7, <2>1, <2>2 DEF O!Passed, O!WriteHeader, Unmarked, Free
<1>8. ASSUME NEW q \in Reqs, O!Leave(q), pc[q] \notin {"new", "over"}, UNCHANGED <<O!poolVars, aborted, saved>>,
             UNCHANGED <<field, wrote>> \/ \E fs \in SUBSET O!Fields : O!Log(q, fs)
      PROVE  Unmarked' /\ \A p \in Reqs : Mine(p)'
  <2>1. rec[q] # 0 /\ field[rec[q]] = Noted(q) /\ ~aborted[rec[q]]
    BY <1>8 DEF Placed, Mine
  <2>2. ASSUME NEW p \in Reqs \ {q}
        PROVE  wrote'[p] = wrote[p] /\ \A r \in O!Recs : O!Uses(p, r) => field'[r] = field[r]
    BY <1>8, <2>1, LogNotes DEF RecordsInv
  <2>3. ASSUME NEW p \in Reqs \ {q} PROVE Mine(p)'
    BY <1>8, <2>2, MineStays DEF O!Leave, O!Goto, RecordsInv
  <2>4. field'[rec[q]] = Noted(q)'
    <3>1. CASE UNCHANGED <<field, wrote>>
      BY <2>1, <3>1 DEF Noted
    <3> QED BY <1>8, <2>1, <3>1, LogNotes DEF RecordsInv
  <2>5. pc'[q] = "over" /\ rec'[q] = 0 /\ of'[q] = rec[q] /\ saver'[q]["recycle"] = "check"
    BY <1>8 DEF O!Leave, O!Goto, O!Jobs
  <2>6. Mine(q)'
    BY <1>8, <2>1, <2>4, <2>5 DEF Mine
  <2> QED BY <1>8, <2>3, <2>6 DEF Unmarked, Free
<1>9. ASSUME NEW q \in Reqs, O!Refused(q) \/ O!Rejected(q) \/ O!Fails(q) \/ O!CopyResponse(q)
      PROVE  Unmarked' /\ \A p \in Reqs : Mine(p)'
  <2>1. {"respBody"} \in SUBSET O!Fields
    BY DEF O!Fields
  <2> QED BY <1>9, <1>8, <2>1 DEF O!Refused, O!Rejected, O!Fails, O!CopyResponse
\* The goroutine that recycles has its record for itself.
<1>10. ASSUME NEW q \in Reqs, saver[q]["recycle"] \in {"check", "set", "save", "clean", "put"},
              UNCHANGED <<pc, rec, of, wrote>>,
              \A p \in Reqs \ {q} : saver'[p] = saver[p] /\ saved'[p] = saved[p],
              \A r \in O!Recs \ {of[q]} : field'[r] = field[r] /\ aborted'[r] = aborted[r]
       PROVE  /\ \A p \in Reqs \ {q} : Mine(p)'
              /\ of[q] \in O!Recs /\ ~Free(of[q]) /\ rec[q] = 0 /\ pc[q] # "new"
  <2>1. of[q] \in O!Recs /\ of[q] <= made /\ rec[q] = 0 /\ pc[q] # "new"
    BY <1>10 DEF Placed, O!Jobs
  <2>2. O!Uses(q, of[q])
    BY <1>10 DEF O!Uses
  <2>3. ASSUME NEW p \in Reqs \ {q} PROVE Mine(p)'
    <3>1. ~O!Uses(p, of[q])
      BY <2>1, <2>2 DEF O!OneOwner
    <3> QED BY <1>10, <3>1, MineStays DEF RecordsInv
  <2>4. of[q] \notin pool
    BY <2>1, <2>2 DEF O!OneOwner
  <2> QED BY <2>1, <2>3, <2>4 DEF Free, O!Recs
<1>11. ASSUME NEW q \in Reqs, O!Work(q, "recycle") \/ O!Put(q) PROVE Unmarked' /\ \A p \in Reqs : Mine(p)'
  <2>1. /\ saver[q]["recycle"] \in {"check", "set", "save", "clean", "put"}
        /\ UNCHANGED <<pc, rec, of, wrote>>
    BY <1>11 DEF O!Work, O!Check, O!SetAbort, O!Save, O!Clean, O!Put, O!At
  <2>2. \A p \in Reqs \ {q} : saver'[p] = saver[p] /\ saved'[p] = saved[p]
    BY <1>11 DEF O!Work, O!Check, O!SetAbort, O!Save, O!Clean, O!Put, O!Turn
  <2>3. \A r \in O!Recs \ {of[q]} : field'[r] = field[r] /\ aborted'[r] = aborted[r]
    BY <1>11 DEF O!Work, O!Check, O!SetAbort, O!Save, O!Clean, O!Put, O!Cleaned
  <2>4. /\ \A p \in Reqs \ {q} : Mine(p)'
        /\ of[q] \in O!Recs /\ ~Free(of[q]) /\ rec[q] = 0 /\ pc[q] # "new"
    BY <1>10, <2>1, <2>2, <2>3
  <2>5. Noted(q)' = Noted(q)
    BY <2>1 DEF Noted
  <2>6. Mine(q)
    OBVIOUS
  <2>7. CASE O!Check(q, "recycle")
    <3>1. saver'[q]["recycle"] = "set" /\ saver[q]["recycle"] = "check" /\ UNCHANGED <<field, aborted, pool, made>>
      BY <2>6, <2>7 DEF O!Check, O!At, O!Turn, O!Stops, Mine, O!Jobs
    <3>2. Mine(q)'
      BY <2>1, <2>4, <2>5, <2>6, <3>1 DEF Mine
    <3> QED BY <2>4, <3>1, <3>2 DEF Unmarked, Free
  <2>8. CASE O!SetAbort(q, "recycle")
    <3>1. /\ saver'[q]["recycle"] = "save" /\ saver[q]["recycle"] = "set" /\ UNCHANGED <<field, pool, made>>
      BY <2>8 DEF O!SetAbort, O!At, O!Turn, O!Jobs
    <3>2. Mine(q)'
      BY <2>1, <2>4, <2>5, <2>6, <3>1 DEF Mine
    <3> QED BY <2>3, <2>4, <3>1, <3>2 DEF Unmarked, Free
  <2>9. CASE O!Save(q, "recycle")
    <3>1. /\ saver'[q]["recycle"] = "clean" /\ saver[q]["recycle"] = "save" /\ UNCHANGED <<aborted, pool, made>>
          /\ saved'[q]["recycle"] = field[of[q]]
      BY <2>9 DEF O!Save, O!At, O!Turn, O!Jobs
    <3>2. Mine(q)'
      BY <2>1, <2>4, <2>5, <2>6, <3>1 DEF Mine
    <3> QED BY <2>4, <3>1, <3>2 DEF Unmarked, Free
  <2>10. CASE O!Clean(q, "recycle")
    <3>1. /\ saver'[q]["recycle"] = "put" /\ saver[q]["recycle"] = "clean" /\ UNCHANGED <<pool, made, saved>>
      BY <2>10 DEF O!Clean, O!At, O!Turn, O!AfterTrack, O!Jobs
    <3>2. Mine(q)'
      BY <2>1, <2>4, <2>5, <2>6, <3>1 DEF Mine
    <3> QED BY <2>3, <2>4, <3>1, <3>2 DEF Unmarked, Free
  <2>11. CASE O!Put(q)
    <3>1. /\ saver'[q]["recycle"] = "done" /\ saver[q]["recycle"] = "put" /\ UNCHANGED <<made, saved>>
          /\ pool' = pool \cup {of[q]} /\ ~aborted'[of[q]]
      BY <2>4, <2>11 DEF O!Put, O!At, O!Turn, O!Jobs
    <3>2. Mine(q)'
      BY <2>1, <2>4, <2>5, <2>6, <3>1 DEF Mine
    <3> QED BY <2>3, <2>4, <3>1, <3>2 DEF Unmarked, Free
  <2> QED BY <1>11, <2>7, <2>8, <2>9, <2>10, <2>11 DEF O!Work
<1>12. CASE UNCHANGED oVars
  BY <1>12, MineStays DEF oVars, Unmarked, Free, RecordsInv
<1>13. ASSUME NEW q \in Reqs PROVE ~O!LogUpgrade(q) /\ ~O!Work(q, "ahead")
  BY DEF O!LogUpgrade, O!Work, O!Check, O!SetAbort, O!Save, O!Clean, O!At, NoneAhead, O!Jobs
<1> QED BY <1>4, <1>6, <1>7, <1>9, <1>11, <1>12, <1>13 DEF O!Next, O!Serve, O!Over, O!vars, O!reqVars, O!poolVars, O!jobVars, oVars, O!Jobs

-----------------------------------------------------------------------------
(* What is made once and kept.  OneCertificate and GatewayKept rest on who   *)
(* made what lies in the two maps (Known), and on what each request has seen *)
(* of them where it is (Sought): who came when its gateway or certificate    *)
(* was there never makes one.                                                *)

Waits == {"rlock", "get", "lock", "make"}
Guarded == {"again", "store"}

RoutesTyped ==
  /\ ask \in [Asks -> [at : {"new", "end", "mutex"} \cup Waits \cup Guarded,
                       key : Routed \cup Hosts \cup {"none"}, got : SUBSET Asks]]
  /\ DOMAIN routerMap \subseteq Routed /\ DOMAIN lmap \subseteq Hosts
  /\ cached \subseteq Asks

\* Where a request for a gateway is, and where one for a certificate.
Sort ==
  \A a \in Asks :
    /\ ask[a].at \in Waits => ask[a].key \in Routed
    /\ ask[a].at \in {"mutex"} \cup Guarded => ask[a].key \in Hosts
    /\ ask[a].at \in Guarded => lock = {a}
    /\ ask[a].at = "store" => ask[a].key \notin DOMAIN lmap

\* What lies in a map was made for its key by one who is through.
MadeBy(f, k) == \E b \in Asks : f[k] = {b} /\ ask[b].at = "end" /\ ask[b].key = k
Known ==
  /\ \A k \in DOMAIN routerMap : MadeBy(routerMap, k)
  /\ \A h \in DOMAIN lmap : MadeBy(lmap, h)

Sought ==
  /\ \A a \in cached :
       CASE ask[a].at = "new" -> thrown
         [] ask[a].at = "end" -> ask[a].got # {a}
         [] OTHER -> \/ ask[a].at \in {"rlock", "get"} /\ ask[a].key \in DOMAIN routerMap
                     \/ ask[a].at \in {"mutex", "again"} /\ ask[a].key \in DOMAIN lmap
  /\ \A a \in Asks : T!Got(a) =>
       /\ ask[a].key \in Hosts => ask[a].key \in DOMAIN lmap /\ ask[a].got = lmap[ask[a].key]
       /\ ask[a].key \in Routed =>
            ask[a].key \in DOMAIN routerMap /\
            \E b \in Asks : ask[a].got = {b} /\ ask[b].at = "end" /\ ask[b].key = ask[a].key

RoutesInv == RoutesTyped /\ Sort /\ Known /\ Sought

\* The keys of routes are paths, hosts are none.
Apart == Routed \cap Hosts = {} /\ "none" \notin Routed \cup Hosts

LEMMA RoutesInit == ASSUME Apart, T!Init PROVE RoutesInv
<1>1. /\ routerMap = T!Empty /\ lmap = T!Empty /\ DOMAIN T!Empty = {}
      /\ ask = [a \in Asks |-> [at |-> "new", key |-> "none", got |-> {}]] /\ cached = {}
  BY DEF T!Init, T!Empty, T!None
<1>2. \A a \in Asks : ask[a].at = "new"
  BY <1>1
<1>3. RoutesTyped
  BY <1>1 DEF RoutesTyped
<1> QED BY <1>1, <1>2, <1>3 DEF RoutesInv, Sort, Known, Sought, T!Got, Waits, Guarded

\* One request goes from where it was to another place, and has not the end behind it.
Moves(a, new) == a \in Asks /\ ask' = [ask EXCEPT ![a] = new] /\ ask[a].at # "end" /\ ~thrown

\* What the others have of the maps stays true when the maps only grow, and a route
\* that is made again is made by one who is through.
LEMMA OthersKeep ==
  ASSUME RoutesInv, NEW a, NEW new, Moves(a, new),
         new \in [at : {"new", "end", "mutex"} \cup Waits \cup Guarded,
                  key : Routed \cup Hosts \cup {"none"}, got : SUBSET Asks],
         DOMAIN routerMap \subseteq DOMAIN routerMap', DOMAIN lmap \subseteq DOMAIN lmap',
         \A h \in DOMAIN lmap : lmap'[h] = lmap[h],
         \A b \in Asks \ {a} : ask[b].at \in Guarded => lock' = lock /\ lmap' = lmap,
         cached' \subseteq cached \cup {a}
  PROVE  /\ ask'[a] = new /\ \A b \in Asks \ {a} : ask'[b] = ask[b]
         /\ \A b \in Asks \ {a} :
              /\ ask[b].at \in Waits => ask[b].key \in Routed
              /\ ask[b].at \in {"mutex"} \cup Guarded => ask[b].key \in Hosts
              /\ ask[b].at \in Guarded => lock' = {b}
              /\ ask[b].at = "store" => ask[b].key \notin DOMAIN lmap'
         /\ \A k \in DOMAIN routerMap : MadeBy(routerMap, k) /\ \A b \in Asks : routerMap[k] = {b} => b # a
         /\ \A h \in DOMAIN lmap : MadeBy(lmap, h)' /\ lmap[h] # {a}
         /\ \A b \in cached' \ {a} :
              CASE ask'[b].at = "new" -> thrown
                [] ask'[b].at = "end" -> ask'[b].got # {b}
                [] OTHER -> \/ ask'[b].at \in {"rlock", "get"} /\ ask'[b].key \in DOMAIN routerMap'
                            \/ ask'[b].at \in {"mutex", "again"} /\ ask'[b].key \in DOMAIN lmap'
         /\ \A b \in Asks \ {a} : T!Got(b)' =>
              /\ ask'[b].key \in Hosts => ask'[b].key \in DOMAIN lmap' /\ ask'[b].got = lmap'[ask'[b].key]
              /\ ask'[b].key \in Routed =>
                   ask'[b].key \in DOMAIN routerMap' /\
                   \E c \in Asks : ask'[b].got = {c} /\ ask'[c].at = "end" /\ ask'[c].key = ask'[b].key
<1>1. ask'[a] = new /\ \A b \in Asks \ {a} : ask'[b] = ask[b]
  BY DEF Moves, RoutesInv, RoutesTyped
<1>2. \A b \in Asks : ask[b].at = "end" => ask'[b] = ask[b]
  BY <1>1 DEF Moves
<1>3. \A h \in DOMAIN lmap : MadeBy(lmap, h)' /\ lmap[h] # {a}
  <2> SUFFICES ASSUME NEW h \in DOMAIN lmap PROVE MadeBy(lmap, h)' /\ lmap[h] # {a}
    OBVIOUS
  <2>1. PICK b \in Asks : lmap[h] = {b} /\ ask[b].at = "end" /\ ask[b].key = h
    BY DEF RoutesInv, Known, MadeBy
  <2>2. b # a
    BY <2>1 DEF Moves
  <2>3. lmap'[h] = {b} /\ ask'[b].at = "end" /\ ask'[b].key = h
    BY <1>2, <2>1
  <2> QED BY <2>1, <2>2, <2>3 DEF MadeBy
<1>4. \A k \in DOMAIN routerMap : MadeBy(routerMap, k) /\ \A b \in Asks : routerMap[k] = {b} => b # a
  <2> SUFFICES ASSUME NEW k \in DOMAIN routerMap
               PROVE MadeBy(routerMap, k) /\ \A b \in Asks : routerMap[k] = {b} => b # a
    OBVIOUS
  <2>1. PICK b \in Asks : routerMap[k] = {b} /\ ask[b].at = "end" /\ ask[b].key = k
    BY DEF RoutesInv, Known, MadeBy
  <2> QED BY <2>1 DEF MadeBy, Moves
<1>5. ASSUME NEW b \in Asks \ {a}, T!Got(b)'
      PROVE  /\ ask'[b].key \in Hosts => ask'[b].key \in DOMAIN lmap' /\ ask'[b].got = lmap'[ask'[b].key]
             /\ ask'[b].key \in Routed =>
                  ask'[b].key \in DOMAIN routerMap' /\
                  \E c \in Asks : ask'[b].got = {c} /\ ask'[c].at = "end" /\ ask'[c].key = ask'[b].key
  <2>1. T!Got(b) /\ ask'[b] = ask[b]
    BY <1>1, <1>5 DEF T!Got, T!None
  <2>2. /\ ask[b].key \in Hosts => ask[b].key \in DOMAIN lmap /\ ask[b].got = lmap[ask[b].key]
        /\ ask[b].key \in Routed =>
             ask[b].key \in DOMAIN routerMap /\
             \E c \in Asks : ask[b].got = {c} /\ ask[c].at = "end" /\ ask[c].key = ask[b].key
    BY <2>1 DEF RoutesInv, Sought
  <2> QED BY <1>2, <2>1, <2>2
<1>6. \A b \in cached' \ {a} :
        CASE ask'[b].at = "new" -> thrown
          [] ask'[b].at = "end" -> ask'[b].got # {b}
          [] OTHER -> \/ ask'[b].at \in {"rlock", "get"} /\ ask'[b].key \in DOMAIN routerMap'
                      \/ ask'[b].at \in {"mutex", "again"} /\ ask'[b].key \in DOMAIN lmap'
  BY <1>1 DEF RoutesInv, RoutesTyped, Sought
<1>7. \A b \in Asks \ {a} :
        /\ ask[b].at \in Waits => ask[b].key \in Routed
        /\ ask[b].at \in {"mutex"} \cup Guarded => ask[b].key \in Hosts
        /\ ask[b].at \in Guarded => lock' = {b}
        /\ ask[b].at = "store" => ask[b].key \notin DOMAIN lmap'
  BY DEF RoutesInv, Sort, Guarded
<1> QED BY <1>1, <1>3, <1>4, <1>5, <1>6, <1>7

\* A step of a keeps the invariant if a is where it may be, and what it adds to a map is its own.
LEMMA StepKeeps ==
  ASSUME RoutesInv, NEW a, NEW new, Moves(a, new),
         new \in [at : {"end", "mutex"} \cup Waits \cup Guarded,
                  key : Routed \cup Hosts, got : SUBSET Asks],
         \/ routerMap' = routerMap
         \/ /\ new.at = "end" /\ new.got = {a} /\ new.key \in Routed
            /\ routerMap' = T!Store(routerMap, new.key, {a}),
         \/ lmap' = lmap
         \/ /\ new.at = "end" /\ new.got = {a} /\ new.key \in Hosts \ DOMAIN lmap
            /\ lmap' = T!Store(lmap, new.key, {a}) /\ lock = {a},
         \A b \in Asks \ {a} : ask[b].at \in Guarded => lock' = lock,
         cached' \subseteq cached \cup {a},
         new.at \in Waits => new.key \in Routed,
         new.at \in {"mutex"} \cup Guarded => new.key \in Hosts,
         new.at \in Guarded => lock' = {a},
         new.at = "store" => new.key \notin DOMAIN lmap',
         a \in cached' =>
           \/ new.at = "end" /\ new.got # {a}
           \/ new.at \in {"rlock", "get"} /\ new.key \in DOMAIN routerMap
           \/ new.at \in {"mutex", "again"} /\ new.key \in DOMAIN lmap,
         new.at = "end" /\ new.got # {} /\ new.key \in Hosts => new.key \in DOMAIN lmap' /\ new.got = lmap'[new.key],
         new.at = "end" /\ new.got # {} /\ new.key \in Routed =>
           \/ new.key \in DOMAIN routerMap /\ new.got = routerMap[new.key]
           \/ new.key \in DOMAIN routerMap' /\ new.got = {a}
  PROVE  RoutesInv'
<1> DEFINE k == new.key
<1>a. \/ routerMap' = routerMap
      \/ /\ new.at = "end" /\ k \in Routed /\ DOMAIN routerMap' = DOMAIN routerMap \cup {k}
         /\ routerMap'[k] = {a} /\ \A j \in DOMAIN routerMap \ {k} : routerMap'[j] = routerMap[j]
  <2>1. CASE routerMap' = T!Store(routerMap, k, {a})
    <3>1. /\ DOMAIN T!Store(routerMap, k, {a}) = DOMAIN routerMap \cup {k} /\ T!Store(routerMap, k, {a})[k] = {a}
          /\ \A j \in DOMAIN routerMap \ {k} : T!Store(routerMap, k, {a})[j] = routerMap[j]
      BY DEF T!Store
    <3> QED BY <2>1, <3>1
  <2> QED BY <2>1
<1>b. \/ lmap' = lmap
      \/ /\ new.at = "end" /\ k \in Hosts /\ k \notin DOMAIN lmap /\ DOMAIN lmap' = DOMAIN lmap \cup {k}
         /\ lmap'[k] = {a} /\ \A j \in DOMAIN lmap \ {k} : lmap'[j] = lmap[j]
  <2>1. CASE lmap' = T!Store(lmap, k, {a})
    <3>1. /\ DOMAIN T!Store(lmap, k, {a}) = DOMAIN lmap \cup {k} /\ T!Store(lmap, k, {a})[k] = {a}
          /\ \A j \in DOMAIN lmap \ {k} : T!Store(lmap, k, {a})[j] = lmap[j]
      BY DEF T!Store
    <3> QED BY <2>1, <3>1
  <2> QED BY <2>1
<1>1. /\ DOMAIN routerMap \subseteq DOMAIN routerMap' /\ DOMAIN routerMap' \subseteq Routed
      /\ DOMAIN lmap \subseteq DOMAIN lmap' /\ DOMAIN lmap' \subseteq Hosts
      /\ \A h \in DOMAIN lmap : lmap'[h] = lmap[h]
  BY <1>a, <1>b DEF RoutesInv, RoutesTyped
<1>2. \A b \in Asks \ {a} : ask[b].at \in Guarded => lock' = lock /\ lmap' = lmap
  BY DEF RoutesInv, Sort, Guarded, Moves
<1>3. /\ ask'[a] = new /\ \A b \in Asks \ {a} : ask'[b] = ask[b]
      /\ \A b \in Asks \ {a} :
           /\ ask[b].at \in Waits => ask[b].key \in Routed
           /\ ask[b].at \in {"mutex"} \cup Guarded => ask[b].key \in Hosts
           /\ ask[b].at \in Guarded => lock' = {b}
           /\ ask[b].at = "store" => ask[b].key \notin DOMAIN lmap'
      /\ \A j \in DOMAIN routerMap : MadeBy(routerMap, j) /\ \A b \in Asks : routerMap[j] = {b} => b # a
      /\ \A h \in DOMAIN lmap : MadeBy(lmap, h)' /\ lmap[h] # {a}
      /\ \A b \in cached' \ {a} :
           CASE ask'[b].at = "new" -> thrown
             [] ask'[b].at = "end" -> ask'[b].got # {b}
             [] OTHER -> \/ ask'[b].at \in {"rlock", "get"} /\ ask'[b].key \in DOMAIN routerMap'
                         \/ ask'[b].at \in {"mutex", "again"} /\ ask'[b].key \in DOMAIN lmap'
      /\ \A b \in Asks \ {a} : T!Got(b)' =>
           /\ ask'[b].key \in Hosts => ask'[b].key \in DOMAIN lmap' /\ ask'[b].got = lmap'[ask'[b].key]
           /\ ask'[b].key \in Routed =>
                ask'[b].key \in DOMAIN routerMap' /\
                \E c \in Asks : ask'[b].got = {c} /\ ask'[c].at = "end" /\ ask'[c].key = ask'[b].key
  BY <1>1, <1>2, OthersKeep
<1>4. a \in Asks /\ ~thrown
  BY DEF Moves
<1>5. RoutesTyped'
  <2>1. ask' \in [Asks -> [at : {"new", "end", "mutex"} \cup Waits \cup Guarded,
                           key : Routed \cup Hosts \cup {"none"}, got : SUBSET Asks]]
    BY DEF Moves, RoutesInv, RoutesTyped
  <2> QED BY <1>1, <1>4, <2>1 DEF RoutesInv, RoutesTyped
<1>6. Sort'
  BY <1>3 DEF Sort
<1>7. \A j \in DOMAIN routerMap' : MadeBy(routerMap, j)'
  <2> SUFFICES ASSUME NEW j \in DOMAIN routerMap' PROVE MadeBy(routerMap, j)'
    OBVIOUS
  <2>1. CASE j \in DOMAIN routerMap /\ routerMap'[j] = routerMap[j]
    <3>1. PICK b \in Asks : routerMap[j] = {b} /\ ask[b].at = "end" /\ ask[b].key = j
      BY <1>3, <2>1 DEF MadeBy
    <3>2. b # a
      BY <1>3, <2>1, <3>1
    <3> QED BY <1>3, <2>1, <3>1, <3>2 DEF MadeBy
  <2>2. CASE j = k /\ new.at = "end" /\ routerMap'[j] = {a}
    BY <1>3, <1>4, <2>2 DEF MadeBy
  <2> QED BY <1>a, <2>1, <2>2
<1>8. \A h \in DOMAIN lmap' : MadeBy(lmap, h)'
  <2> SUFFICES ASSUME NEW h \in DOMAIN lmap', h \notin DOMAIN lmap PROVE MadeBy(lmap, h)'
    BY <1>3
  <2>1. h = k /\ new.at = "end" /\ lmap'[h] = {a}
    BY <1>b
  <2> QED BY <1>3, <1>4, <2>1 DEF MadeBy
<1>9. a \in cached' =>
        CASE ask'[a].at = "new" -> thrown'
          [] ask'[a].at = "end" -> ask'[a].got # {a}
          [] OTHER -> \/ ask'[a].at \in {"rlock", "get"} /\ ask'[a].key \in DOMAIN routerMap'
                      \/ ask'[a].at \in {"mutex", "again"} /\ ask'[a].key \in DOMAIN lmap'
  BY <1>1, <1>3
<1>10. \A b \in cached' \ {a} :
         CASE ask'[b].at = "new" -> thrown'
           [] ask'[b].at = "end" -> ask'[b].got # {b}
           [] OTHER -> \/ ask'[b].at \in {"rlock", "get"} /\ ask'[b].key \in DOMAIN routerMap'
                       \/ ask'[b].at \in {"mutex", "again"} /\ ask'[b].key \in DOMAIN lmap'
  BY <1>3, <1>4
<1>11. T!Got(a)' =>
         /\ ask'[a].key \in Hosts => ask'[a].key \in DOMAIN lmap' /\ ask'[a].got = lmap'[ask'[a].key]
         /\ ask'[a].key \in Routed =>
              ask'[a].key \in DOMAIN routerMap' /\
              \E c \in Asks : ask'[a].got = {c} /\ ask'[c].at = "end" /\ ask'[c].key = ask'[a].key
  <2> SUFFICES ASSUME new.at = "end", new.got # {}
               PROVE /\ k \in Hosts => k \in DOMAIN lmap' /\ new.got = lmap'[k]
                     /\ k \in Routed =>
                          k \in DOMAIN routerMap' /\
                          \E c \in Asks : new.got = {c} /\ ask'[c].at = "end" /\ ask'[c].key = k
    BY <1>3 DEF T!Got, T!None
  <2>1. CASE k \in DOMAIN routerMap /\ new.got = routerMap[k]
    <3>1. PICK b \in Asks : routerMap[k] = {b} /\ ask[b].at = "end" /\ ask[b].key = k
      BY <1>3, <2>1 DEF MadeBy
    <3>2. b # a
      BY <1>3, <2>1, <3>1
    <3> QED BY <1>1, <1>3, <2>1, <3>1, <3>2
  <2>2. CASE k \in DOMAIN routerMap' /\ new.got = {a}
    BY <1>3, <1>4, <2>2
  <2> QED BY <2>1, <2>2
<1>12. Sought'
  BY <1>3, <1>9, <1>10, <1>11 DEF Sought
<1> QED BY <1>5, <1>6, <1>7, <1>8, <1>12 DEF RoutesInv, Known

\* A request that is through.
LEMMA Through ==
  ASSUME RoutesInv, NEW a \in Asks, NEW v
  PROVE  [ask[a] EXCEPT !.at = "end", !.got = v] = [at |-> "end", key |-> ask[a].key, got |-> v]
<1>1. PICK at, key, got : ask[a] = [at |-> at, key |-> key, got |-> got]
  BY DEF RoutesInv, RoutesTyped
<1>2. [ask[a] EXCEPT !.at = "end"] = [at |-> "end", key |-> key, got |-> got]
  BY <1>1
<1>3. [[at |-> "end", key |-> key, got |-> got] EXCEPT !.got = v] = [at |-> "end", key |-> key, got |-> v]
  OBVIOUS
<1> QED BY <1>1, <1>2, <1>3

\* Each step of a request or greeting is one of these.
LEMMA AskSteps ==
  ASSUME Apart, RoutesInv, NEW a \in Asks,
         (\E k \in Routed : T!AskGateway(a, k)) \/ T!RLock(a) \/ T!Lookup(a) \/ T!Lock(a) \/ T!NewProxy(a)
  PROVE  RoutesInv'
<1> USE DEF T!None, T!At
<1>1. ASSUME NEW k \in Routed, T!AskGateway(a, k) PROVE RoutesInv'
  <2>1. PICK new : new = [at |-> IF routerMap = T!Empty THEN "lock" ELSE "rlock", key |-> k, got |-> {}]
    OBVIOUS
  <2>2. new.at \in {"lock", "rlock"} /\ new.key = k /\ new.got = {}
    BY <2>1
  <2>3. k \in DOMAIN routerMap => new.at = "rlock"
    BY <2>1 DEF T!Empty
  <2>4. Moves(a, new) /\ UNCHANGED <<routerMap, lmap, lock>> /\ cached' = IF k \in DOMAIN routerMap THEN cached \cup {a} ELSE cached
    BY <1>1, <2>1 DEF T!AskGateway, Moves
  <2>5. a \notin cached
    BY <1>1 DEF T!AskGateway, RoutesInv, Sought
  <2>6. new \in [at : {"end", "mutex"} \cup Waits \cup Guarded, key : Routed \cup Hosts, got : SUBSET Asks]
    BY <2>1, <2>2 DEF Waits
  <2>7. new.at \notin {"mutex"} \cup Guarded /\ new.at # "end"
    BY <2>2 DEF Guarded
  <2> QED BY <2>2, <2>3, <2>4, <2>5, <2>6, <2>7, StepKeeps DEF Waits, Guarded
<1>2. ASSUME T!RLock(a) \/ T!Lock(a) PROVE RoutesInv'
  <2>1. PICK new : new = [ask[a] EXCEPT !.at = IF ask[a].at = "rlock" THEN "get" ELSE "make"]
    OBVIOUS
  <2>2. /\ ask[a].at \in {"rlock", "lock"} /\ ask[a].key \in Routed /\ ask[a].got \in SUBSET Asks
        /\ new.at = (IF ask[a].at = "rlock" THEN "get" ELSE "make") /\ new.key = ask[a].key /\ new.got = ask[a].got
    BY <1>2, <2>1 DEF T!RLock, T!Lock, RoutesInv, RoutesTyped, Sort, Waits
  <2>3. Moves(a, new) /\ UNCHANGED <<routerMap, lmap, lock, cached>>
    BY <1>2, <2>1, <2>2 DEF T!RLock, T!Lock, T!Goes, Moves
  <2>4. a \in cached => ask[a].at = "rlock" /\ ask[a].key \in DOMAIN routerMap
    BY <2>2 DEF RoutesInv, Sought
  <2>5. new \in [at : {"end", "mutex"} \cup Waits \cup Guarded, key : Routed \cup Hosts, got : SUBSET Asks]
    BY <2>1, <2>2 DEF Waits, RoutesInv, RoutesTyped
  <2> QED BY <2>2, <2>3, <2>4, <2>5, StepKeeps DEF Waits, Guarded
<1>3. ASSUME T!Lookup(a) PROVE RoutesInv'
  <2> DEFINE found == T!Get(routerMap, ask[a].key)
  <2>1. PICK new : new = IF found = {} THEN [ask[a] EXCEPT !.at = "lock"] ELSE [ask[a] EXCEPT !.at = "end", !.got = found]
    OBVIOUS
  <2>2. ask[a].at = "get" /\ ask[a].key \in Routed /\ ask[a].got \in SUBSET Asks
    BY <1>3 DEF T!Lookup, RoutesInv, RoutesTyped, Sort, Waits
  <2>3. Moves(a, new) /\ UNCHANGED <<routerMap, lmap, lock, cached>>
    BY <1>3, <2>1, <2>2 DEF T!Lookup, T!Goes, T!Ends, Moves
  <2>4. a \in cached => ask[a].key \in DOMAIN routerMap
    BY <2>2 DEF RoutesInv, Sought
  <2>5. CASE ask[a].key \in DOMAIN routerMap
    <3>1. PICK b \in Asks : routerMap[ask[a].key] = {b} /\ ask[b].at = "end" /\ ask[b].key = ask[a].key
      BY <2>5 DEF RoutesInv, Known, MadeBy
    <3>2. found = {b} /\ b # a
      BY <2>2, <2>5, <3>1 DEF T!Get
    <3>3. new = [ask[a] EXCEPT !.at = "end", !.got = {b}]
      BY <2>1, <3>2
    <3>4. new.at = "end" /\ new.key = ask[a].key /\ new.got = {b}
      BY <2>2, <3>3 DEF RoutesInv, RoutesTyped
    <3>5. new \in [at : {"end", "mutex"} \cup Waits \cup Guarded, key : Routed \cup Hosts, got : SUBSET Asks]
      <4>1. new = [at |-> "end", key |-> ask[a].key, got |-> {b}]
        BY <3>3, Through
      <4>2. {b} \in SUBSET Asks
        OBVIOUS
      <4> QED BY <2>2, <4>1, <4>2
    <3> QED BY <2>2, <2>3, <2>5, <3>1, <3>2, <3>4, <3>5, StepKeeps DEF Waits, Guarded, Apart
  <2>6. CASE ask[a].key \notin DOMAIN routerMap
    <3>1. new = [ask[a] EXCEPT !.at = "lock"]
      BY <2>1, <2>6 DEF T!Get
    <3>2. new.at = "lock" /\ new.key = ask[a].key
      BY <2>2, <3>1 DEF RoutesInv, RoutesTyped
    <3>3. new \in [at : {"end", "mutex"} \cup Waits \cup Guarded, key : Routed \cup Hosts, got : SUBSET Asks]
      BY <2>2, <3>1 DEF Waits, RoutesInv, RoutesTyped
    <3> QED BY <2>2, <2>3, <2>4, <2>6, <3>2, <3>3, StepKeeps DEF Waits, Guarded
  <2> QED BY <2>5, <2>6
<1>4. ASSUME T!NewProxy(a) PROVE RoutesInv'
  <2> DEFINE k == ask[a].key
  <2>1. PICK new : new = [ask[a] EXCEPT !.at = "end", !.got = IF k \in Bad THEN {} ELSE {a}]
    OBVIOUS
  <2>2. ask[a].at = "make" /\ k \in Routed
    BY <1>4 DEF T!NewProxy, RoutesInv, RoutesTyped, Sort, Waits
  <2>3. new.at = "end" /\ new.key = k /\ new.got = IF k \in Bad THEN {} ELSE {a}
    BY <2>1, <2>2 DEF RoutesInv, RoutesTyped
  <2>4. Moves(a, new) /\ UNCHANGED <<lmap, lock, cached>>
    BY <1>4, <2>1, <2>2 DEF T!NewProxy, T!Ends, Moves
  <2>5. routerMap' = IF k \in Bad THEN routerMap ELSE T!Store(routerMap, k, {a})
    BY <1>4 DEF T!NewProxy, T!MapWith
  <2>6. a \notin cached
    BY <2>2 DEF RoutesInv, Sought
  <2>7. new \in [at : {"end", "mutex"} \cup Waits \cup Guarded, key : Routed \cup Hosts, got : SUBSET Asks]
    <3>1. new = [at |-> "end", key |-> k, got |-> IF k \in Bad THEN {} ELSE {a}]
      BY <2>1, Through
    <3>2. (IF k \in Bad THEN {} ELSE {a}) \in SUBSET Asks
      OBVIOUS
    <3> QED BY <2>2, <3>1, <3>2
  <2>8. k \notin Hosts /\ (new.got # {} => k \in DOMAIN routerMap')
    BY <2>2, <2>3, <2>5 DEF Apart, T!Store
  <2> QED BY <2>2, <2>3, <2>4, <2>5, <2>6, <2>7, <2>8, StepKeeps DEF Waits, Guarded
<1> QED BY <1>1, <1>2, <1>3, <1>4

LEMMA CertSteps ==
  ASSUME Apart, RoutesInv, NEW a \in Asks,
         (\E h \in Hosts : T!AskCert(a, h)) \/ T!Mutex(a) \/ T!CreateCE(a) \/ T!StoreCert(a)
  PROVE  RoutesInv'
<1> USE DEF T!None, T!At
<1>1. ASSUME NEW h \in Hosts, T!AskCert(a, h) PROVE RoutesInv'
  <2>1. /\ ask[a].at = "new" /\ ~thrown /\ UNCHANGED <<routerMap, lmap, lock>>
        /\ cached' = IF h \in DOMAIN lmap THEN cached \cup {a} ELSE cached
    BY <1>1 DEF T!AskCert
  <2>2. a \notin cached
    BY <2>1 DEF RoutesInv, Sought
  <2>3. CASE thrown' = TRUE /\ UNCHANGED ask
    <3>1. \A b \in cached' \ {a} : b \in cached
      BY <2>1
    <3>2. RoutesTyped' /\ Sort' /\ Known'
      BY <2>1, <2>3 DEF RoutesInv, RoutesTyped, Sort, Known, MadeBy
    <3>3. Sought'
      BY <2>1, <2>3, <3>1 DEF RoutesInv, Sought, T!Got
    <3> QED BY <3>2, <3>3 DEF RoutesInv
  <2>4. CASE /\ h \in DOMAIN lmap /\ lmap[h] # {}
             /\ ask' = [ask EXCEPT ![a] = [at |-> "end", key |-> h, got |-> lmap[h]]]
    <3>1. PICK b \in Asks : lmap[h] = {b} /\ ask[b].at = "end"
      BY <2>4 DEF RoutesInv, Known, MadeBy
    <3>2. PICK new : new = [at |-> "end", key |-> h, got |-> {b}]
      OBVIOUS
    <3>3. b # a /\ Moves(a, new)
      BY <2>1, <2>4, <3>1, <3>2 DEF Moves
    <3>4. {b} \in SUBSET Asks
      OBVIOUS
    <3>5. new \in [at : {"end", "mutex"} \cup Waits \cup Guarded, key : Routed \cup Hosts, got : SUBSET Asks]
      BY <3>2, <3>4
    <3>6. new.at = "end" /\ new.key = h /\ new.got = {b} /\ h \notin Routed
      BY <3>2 DEF Apart
    <3> QED BY <2>1, <2>4, <3>1, <3>3, <3>5, <3>6, StepKeeps DEF Waits, Guarded
  <2>5. CASE ask' = [ask EXCEPT ![a] = [at |-> "mutex", key |-> h, got |-> {}]]
    <3>1. PICK new : new = [at |-> "mutex", key |-> h, got |-> {}]
      OBVIOUS
    <3>2. Moves(a, new)
      BY <2>1, <2>5, <3>1 DEF Moves
    <3>3. new \in [at : {"end", "mutex"} \cup Waits \cup Guarded, key : Routed \cup Hosts, got : SUBSET Asks]
      BY <3>1
    <3>4. new.at = "mutex" /\ new.key = h /\ new.got = {}
      BY <3>1
    <3> QED BY <2>1, <2>2, <3>2, <3>3, <3>4, StepKeeps DEF Waits, Guarded
  <2>6. CASE ask' = [ask EXCEPT ![a] = [at |-> "end", key |-> h, got |-> {}]]
    <3>1. PICK new : new = [at |-> "end", key |-> h, got |-> {}]
      OBVIOUS
    <3>2. Moves(a, new)
      BY <2>1, <2>6, <3>1 DEF Moves
    <3>3. new \in [at : {"end", "mutex"} \cup Waits \cup Guarded, key : Routed \cup Hosts, got : SUBSET Asks]
      BY <3>1
    <3>4. new.at = "end" /\ new.key = h /\ new.got = {}
      BY <3>1
    <3> QED BY <2>1, <3>2, <3>3, <3>4, StepKeeps DEF Waits, Guarded
  <2> QED BY <1>1, <2>3, <2>4, <2>5, <2>6 DEF T!AskCert, T!Get
<1>2. ASSUME T!Mutex(a) PROVE RoutesInv'
  <2>1. PICK new : new = [ask[a] EXCEPT !.at = "again"]
    OBVIOUS
  <2>2. ask[a].at = "mutex" /\ ask[a].key \in Hosts /\ ask[a].got \in SUBSET Asks
    BY <1>2 DEF T!Mutex, RoutesInv, RoutesTyped, Sort
  <2>3. new = [at |-> "again", key |-> ask[a].key, got |-> ask[a].got]
    BY <2>1 DEF RoutesInv, RoutesTyped
  <2>4. Moves(a, new) /\ UNCHANGED <<routerMap, lmap, cached>> /\ lock = {} /\ lock' = {a}
    BY <1>2, <2>1, <2>2 DEF T!Mutex, T!Goes, Moves
  <2>5. a \in cached => ask[a].key \in DOMAIN lmap
    BY <2>2 DEF RoutesInv, Sought
  <2>6. new \in [at : {"end", "mutex"} \cup Waits \cup Guarded, key : Routed \cup Hosts, got : SUBSET Asks]
    BY <2>2, <2>3 DEF Guarded
  <2>7. new.at = "again" /\ new.key = ask[a].key
    BY <2>3
  <2>8. \A b \in Asks \ {a} : ask[b].at \notin Guarded
    BY <2>4 DEF RoutesInv, Sort
  <2> QED BY <2>2, <2>4, <2>5, <2>6, <2>7, <2>8, StepKeeps DEF Waits, Guarded
\* Who holds the lock is alone with the map.
<1>3. ASSUME ask[a].at \in Guarded
      PROVE  lock = {a} /\ ask[a].key \in Hosts /\ \A b \in Asks \ {a} : ask[b].at \notin Guarded
  BY <1>3 DEF RoutesInv, Sort
<1>4. ASSUME T!CreateCE(a) PROVE RoutesInv'
  <2> DEFINE h == ask[a].key
  <2>1. ask[a].at = "again" /\ h \in Hosts /\ ask[a].got \in SUBSET Asks /\ lock = {a}
        /\ UNCHANGED <<routerMap, lmap, cached>> /\ ~thrown
    BY <1>3, <1>4 DEF T!CreateCE, Guarded, RoutesInv, RoutesTyped
  <2>2. a \in cached => h \in DOMAIN lmap
    BY <2>1 DEF RoutesInv, Sought
  <2>3. CASE h \in DOMAIN lmap
    <3>1. PICK b \in Asks : lmap[h] = {b} /\ ask[b].at = "end"
      BY <2>3 DEF RoutesInv, Known, MadeBy
    <3>2. PICK new : new = [ask[a] EXCEPT !.at = "end", !.got = {b}]
      OBVIOUS
    <3>3. T!Again(a) = {b}
      BY <2>3, <3>1 DEF T!Again, T!Get
    <3>4. b # a /\ Moves(a, new)
      BY <1>4, <2>1, <3>1, <3>2, <3>3 DEF T!CreateCE, T!Ends, Moves
    <3>5. new = [at |-> "end", key |-> h, got |-> {b}] /\ {b} \in SUBSET Asks
      BY <3>2, Through
    <3>6. new \in [at : {"end", "mutex"} \cup Waits \cup Guarded, key : Routed \cup Hosts, got : SUBSET Asks]
      BY <2>1, <3>5
    <3>7. new.at = "end" /\ new.key = h /\ new.got = {b} /\ h \notin Routed
      BY <2>1, <3>5 DEF Apart
    <3> QED BY <1>3, <2>1, <2>3, <3>1, <3>4, <3>6, <3>7, StepKeeps DEF Waits, Guarded
  <2>4. CASE h \notin DOMAIN lmap
    <3>1. T!Again(a) = {} /\ a \notin cached
      BY <2>2, <2>4 DEF T!Again, T!Get
    <3>2. PICK new : new = IF h \in Bad THEN [ask[a] EXCEPT !.at = "end", !.got = {}] ELSE [ask[a] EXCEPT !.at = "store"]
      OBVIOUS
    <3>3. Moves(a, new) /\ (h \notin Bad => lock' = lock)
      BY <1>4, <2>1, <3>1, <3>2 DEF T!CreateCE, T!Ends, T!Goes, Moves
    <3>4. new = IF h \in Bad THEN [at |-> "end", key |-> h, got |-> {}]
                ELSE [at |-> "store", key |-> h, got |-> ask[a].got]
      <4>1. CASE h \in Bad
        BY <3>2, <4>1, Through
      <4>2. CASE h \notin Bad
        BY <3>2, <4>2 DEF RoutesInv, RoutesTyped
      <4> QED BY <4>1, <4>2
    <3>5. new \in [at : {"end", "mutex"} \cup Waits \cup Guarded, key : Routed \cup Hosts, got : SUBSET Asks]
      BY <2>1, <3>4 DEF Guarded
    <3>6. new.at = (IF h \in Bad THEN "end" ELSE "store") /\ new.key = h /\ (h \in Bad => new.got = {})
      BY <3>4
    <3> QED BY <1>3, <2>1, <2>4, <3>1, <3>3, <3>5, <3>6, StepKeeps DEF Waits, Guarded
  <2> QED BY <2>3, <2>4
<1>5. ASSUME T!StoreCert(a) PROVE RoutesInv'
  <2> DEFINE h == ask[a].key
  <2>1. /\ ask[a].at = "store" /\ h \in Hosts /\ h \notin DOMAIN lmap /\ lock = {a}
        /\ UNCHANGED <<routerMap, cached>> /\ lmap' = T!Store(lmap, h, {a}) /\ ~thrown
    BY <1>3, <1>5 DEF T!StoreCert, Guarded, RoutesInv, Sort
  <2>2. a \notin cached
    BY <2>1 DEF RoutesInv, Sought
  <2>3. PICK new : new = [ask[a] EXCEPT !.at = "end", !.got = {a}]
    OBVIOUS
  <2>4. Moves(a, new)
    BY <1>5, <2>1, <2>3 DEF T!StoreCert, T!Ends, Moves
  <2>5. new = [at |-> "end", key |-> h, got |-> {a}] /\ {a} \in SUBSET Asks
    BY <2>3, Through
  <2>6. new \in [at : {"end", "mutex"} \cup Waits \cup Guarded, key : Routed \cup Hosts, got : SUBSET Asks]
    BY <2>1, <2>5
  <2>7. new.at = "end" /\ new.key = h /\ new.got = {a} /\ h \notin Routed
    BY <2>1, <2>5 DEF Apart
  <2>8. h \in DOMAIN lmap' /\ lmap'[h] = {a}
    BY <2>1 DEF T!Store
  <2> QED BY <1>3, <2>1, <2>2, <2>4, <2>6, <2>7, <2>8, StepKeeps DEF Waits, Guarded
<1> QED BY <1>1, <1>2, <1>4, <1>5

LEMMA RoutesNext == ASSUME Apart, RoutesInv, [T!Next]_tVars PROVE RoutesInv'
<1>1. ASSUME UNCHANGED tVars PROVE RoutesInv'
  BY <1>1 DEF tVars, RoutesInv, RoutesTyped, Sort, Known, MadeBy, Sought, T!Got
<1> QED BY <1>1, AskSteps, CertSteps DEF T!Next

LEMMA RoutesHold == ASSUME Apart, RoutesInv PROVE T!GatewayKept /\ T!OneCertificate
<1>1. T!OneCertificate
  BY DEF RoutesInv, Sought, T!OneCertificate
<1>2. \A a \in cached : T!Got(a) => ask[a].got # {a}
  BY DEF RoutesInv, Sought, T!Got
<1>3. \A k \in DOMAIN routerMap : \A b \in routerMap[k] : ask[b].key = k
  BY DEF RoutesInv, Known, MadeBy
<1>4. \A a \in {c \in Asks : T!Got(c) /\ ask[c].key \in Routed} :
        ask[a].key \in DOMAIN routerMap /\ \A b \in ask[a].got : ask[b].key = ask[a].key
  BY DEF RoutesInv, Sought
<1> QED BY <1>1, <1>2, <1>3, <1>4 DEF T!GatewayKept

-----------------------------------------------------------------------------
(* What the handler writes.  Nobody uses the ResponseWriter late because a   *)
(* 1xx answer that is not too late finds the handler in its round trip, and  *)
(* a flush that is pending finds it copying (Early).  The body is closed     *)
(* because whoever leaves it open has a goroutine that closes it (Closes).   *)
(* What stands on the wire follows from where the handler is (OnWire).       *)

Kinds == {"1xx", "header", "data", "502", "101", "trailers", "prefixed trailers"}
Names == {"cookie", "hint", "backend", "Trailer"}
Items == [kind : Kinds, header : SUBSET Names, n : Int]

Before == {"begin", "trip"}
Unanswered == Before \cup {"answered", "failed", "switching", "hijackFails"}
Copying == {"copy", "copied", "broken"}
Places == Unanswered \cup Copying \cup {"trailers", "panics", "tunnel", "over", "aborted"}

ReverseTyped ==
  /\ answer \in R!Answers /\ handler \in Places
  /\ tripDone \in BOOLEAN /\ hints \in [n : Int, waits : BOOLEAN]
  /\ header \in SUBSET (Names \ {"hint"}) /\ wire \in Seq(Items)
  /\ left \in 0 .. answer.units
  /\ body \in {"none", "open", "closed"} /\ closer \in {"off", "waits", "over"}
  /\ pending \in BOOLEAN

Early ==
  /\ ~late
  /\ tripDone <=> handler \notin Before
  /\ hints.waits => handler # "begin"
  /\ pending => handler \in Copying

Closes ==
  /\ handler \in Before => body = "none" /\ closer = "off"
  /\ closer = "over" => body = "closed"
  /\ answer.kind = "switch" /\ handler \in {"switching", "hijackFails", "tunnel"} => closer # "off"
  /\ handler \in {"failed", "over"} /\ body = "open" =>
       closer = "waits" \/ (closer = "off" /\ answer.kind \in {"switch", "other switch"})
  /\ conn = "open" => handler \in {"switching", "tunnel"}
  /\ handler = "aborted" => body = "closed"
  /\ handler \in Copying \cup {"trailers", "panics"} => answer.kind = "body"
  /\ handler \in {"switching", "hijackFails", "tunnel"} => answer.kind = "switch"

HeaderIn == \E i \in R!Finals : wire[i].kind = "header"

Written ==
  /\ \A i, j \in R!Finals : i = j
  /\ \A i \in R!Finals : "hint" \notin wire[i].header
  /\ \A i, j \in DOMAIN wire : wire[i].kind = "1xx" /\ wire[j].kind # "1xx" => i < j
  /\ \A i \in R!Datas : \E j \in R!Finals : j < i /\ wire[j].kind = "header"
  /\ R!Pieces = 1 .. (answer.units - left)
  /\ \A i, j \in R!Datas : i < j => wire[i].n < wire[j].n

OnWire ==
  /\ handler \in Unanswered => (\A i \in DOMAIN wire : wire[i].kind = "1xx") /\ left = answer.units
  /\ handler \in Copying => HeaderIn
  /\ HeaderIn => handler \in Copying \cup {"trailers", "panics", "over", "aborted"}
  /\ handler \in {"copied", "trailers"} => left = 0 /\ ~answer.cut
  /\ handler = "over" /\ HeaderIn => left = 0 /\ ~answer.cut /\ shown = Len(wire)

ReverseInv == ReverseTyped /\ Early /\ Closes /\ Written /\ OnWire

LEMMA AnswersTyped ==
  ASSUME MaxUnits \in Nat, answer \in R!Answers
  PROVE  answer.units \in Nat
<1>1. CASE answer \in R!Bodies
  <2>1. answer.units \in 0 .. MaxUnits
    BY <1>1 DEF R!Bodies
  <2> QED BY <2>1
<1>2. CASE answer \notin R!Bodies
  <2>1. answer.units \in {0}
    BY <1>2 DEF R!Answers
  <2> QED BY <2>1
<1> QED BY <1>1, <1>2

LEMMA ReverseInit == ASSUME MaxUnits \in Nat, R!Init PROVE ReverseInv
<1>1. answer.units \in Nat
  BY AnswersTyped DEF R!Init
<1>2. wire = <<>> /\ DOMAIN wire = {} /\ wire \in Seq(Items)
  BY DEF R!Init
<1>3. ReverseTyped
  <2>1. answer \in R!Answers /\ handler = "begin" /\ tripDone = FALSE /\ header = {} /\ left = answer.units
        /\ body = "none" /\ closer = "off" /\ pending = FALSE
    BY DEF R!Init
  <2>2. hints \in [n : Int, waits : BOOLEAN]
    BY DEF R!Init
  <2>3. left \in 0 .. answer.units
    BY <1>1, <2>1
  <2>4. handler \in Places
    BY <2>1 DEF Places, Unanswered, Before
  <2>5. header \in SUBSET (Names \ {"hint"})
    BY <2>1
  <2> QED BY <1>2, <2>1, <2>2, <2>3, <2>4, <2>5 DEF ReverseTyped
<1>4. R!Finals = {} /\ R!Datas = {}
  BY <1>2 DEF R!Finals, R!Datas
<1>5. R!Pieces = 1 .. (answer.units - left)
  BY <1>1, <1>4 DEF R!Init, R!Pieces
<1>6. Written
  BY <1>2, <1>4, <1>5 DEF Written
<1>7. Early /\ Closes
  BY DEF R!Init, Early, Closes, Before, Copying
<1>8. OnWire
  BY <1>2, <1>4 DEF OnWire, HeaderIn, R!Init, Copying
<1> QED BY <1>3, <1>6, <1>7, <1>8 DEF ReverseInv

\* What Append makes of the wire.
LEMMA Appended ==
  ASSUME wire \in Seq(Items), NEW item \in Items, wire' = Append(wire, item)
  PROVE  /\ wire' \in Seq(Items) /\ Len(wire) \in Nat /\ Len(wire') = Len(wire) + 1
         /\ DOMAIN wire = 1 .. Len(wire) /\ DOMAIN wire' = 1 .. (Len(wire) + 1)
         /\ \A i \in DOMAIN wire : wire'[i] = wire[i] /\ i < Len(wire) + 1
         /\ wire'[Len(wire) + 1] = item
OBVIOUS

\* An item that is neither data nor final leaves what is said of these as it is.
LEMMA AppendedOther ==
  ASSUME wire \in Seq(Items), NEW item \in Items, wire' = Append(wire, item)
  PROVE  /\ R!Datas' = R!Datas \cup (IF item.kind = "data" THEN {Len(wire) + 1} ELSE {})
         /\ R!Finals' = R!Finals \cup (IF item.kind \in {"header", "502", "101"} THEN {Len(wire) + 1} ELSE {})
         /\ R!Pieces' = R!Pieces \cup (IF item.kind = "data" THEN {item.n} ELSE {})
         /\ R!Datas \subseteq DOMAIN wire /\ R!Finals \subseteq DOMAIN wire
<1>1. /\ wire' \in Seq(Items) /\ Len(wire) \in Nat
      /\ DOMAIN wire = 1 .. Len(wire) /\ DOMAIN wire' = 1 .. (Len(wire) + 1)
      /\ \A i \in DOMAIN wire : wire'[i] = wire[i] /\ i < Len(wire) + 1
      /\ wire'[Len(wire) + 1] = item
  BY Appended
<1>2. DOMAIN wire' = DOMAIN wire \cup {Len(wire) + 1} /\ Len(wire) + 1 \notin DOMAIN wire
  BY <1>1
<1>3. R!Datas' = R!Datas \cup (IF item.kind = "data" THEN {Len(wire) + 1} ELSE {})
  BY <1>1, <1>2 DEF R!Datas
<1>4. R!Finals' = R!Finals \cup (IF item.kind \in {"header", "502", "101"} THEN {Len(wire) + 1} ELSE {})
  BY <1>1, <1>2 DEF R!Finals
<1>5. R!Datas \subseteq DOMAIN wire /\ R!Finals \subseteq DOMAIN wire
  BY DEF R!Datas, R!Finals
<1>6. R!Pieces' = R!Pieces \cup (IF item.kind = "data" THEN {item.n} ELSE {})
  <2>1. R!Pieces' = {wire'[i].n : i \in R!Datas'}
    BY DEF R!Pieces
  <2>2. \A i \in R!Datas : wire'[i].n = wire[i].n
    BY <1>1, <1>5
  <2>3. {wire'[i].n : i \in R!Datas} = R!Pieces
    BY <2>2 DEF R!Pieces
  <2>4. CASE item.kind = "data"
    BY <1>1, <1>3, <2>1, <2>3, <2>4
  <2>5. CASE item.kind # "data"
    BY <1>3, <2>1, <2>3, <2>5
  <2> QED BY <2>4, <2>5
<1> QED BY <1>3, <1>4, <1>5, <1>6

\* An item that is not data, in its place, keeps what is written in order.
LEMMA WrittenPut ==
  ASSUME ReverseTyped, Written, NEW item \in Items, wire' = Append(wire, item),
         UNCHANGED <<answer, left>>, item.kind # "data",
         item.kind = "1xx" => \A i \in DOMAIN wire : wire[i].kind = "1xx",
         item.kind \in {"header", "502", "101"} => R!Finals = {} /\ "hint" \notin item.header
  PROVE  /\ Written' /\ wire' \in Seq(Items)
         /\ HeaderIn' <=> HeaderIn \/ item.kind = "header"
<1>0. wire \in Seq(Items)
  BY DEF ReverseTyped
<1>1. /\ wire' \in Seq(Items) /\ Len(wire) \in Nat
      /\ DOMAIN wire = 1 .. Len(wire) /\ DOMAIN wire' = 1 .. (Len(wire) + 1)
      /\ \A i \in DOMAIN wire : wire'[i] = wire[i] /\ i < Len(wire) + 1
      /\ wire'[Len(wire) + 1] = item
  BY <1>0, Appended
<1>2. /\ R!Datas' = R!Datas /\ R!Pieces' = R!Pieces
      /\ R!Finals' = R!Finals \cup (IF item.kind \in {"header", "502", "101"} THEN {Len(wire) + 1} ELSE {})
      /\ R!Datas \subseteq DOMAIN wire /\ R!Finals \subseteq DOMAIN wire
  BY <1>0, AppendedOther
<1>3. \A i, j \in R!Finals' : i = j
  BY <1>2 DEF Written
<1>4. \A i \in R!Finals' : "hint" \notin wire'[i].header
  BY <1>1, <1>2 DEF Written
<1>5. \A i, j \in DOMAIN wire' : wire'[i].kind = "1xx" /\ wire'[j].kind # "1xx" => i < j
  <2> SUFFICES ASSUME NEW i \in DOMAIN wire', NEW j \in DOMAIN wire', wire'[i].kind = "1xx", wire'[j].kind # "1xx"
               PROVE i < j
    OBVIOUS
  <2>1. CASE i \in DOMAIN wire /\ j \in DOMAIN wire
    BY <1>1, <2>1 DEF Written
  <2>2. CASE i \in DOMAIN wire /\ j = Len(wire) + 1
    BY <1>1, <2>2
  <2>3. CASE i = Len(wire) + 1
    BY <1>1, <2>3
  <2> QED BY <1>1, <2>1, <2>2, <2>3
<1>6. \A i \in R!Datas' : \E j \in R!Finals' : j < i /\ wire'[j].kind = "header"
  BY <1>1, <1>2 DEF Written
<1>7. \A i, j \in R!Datas' : i < j => wire'[i].n < wire'[j].n
  BY <1>1, <1>2 DEF Written
<1>8. Written'
  BY <1>2, <1>3, <1>4, <1>5, <1>6, <1>7 DEF Written
<1>9. HeaderIn' <=> HeaderIn \/ item.kind = "header"
  BY <1>1, <1>2 DEF HeaderIn
<1> QED BY <1>1, <1>8, <1>9

\* The next piece of the body.
LEMMA WrittenData ==
  ASSUME MaxUnits \in Nat, ReverseTyped, Written, HeaderIn, left > 0, left' = left - 1, answer' = answer,
         NEW item \in Items, wire' = Append(wire, item),
         item.kind = "data", item.n = answer.units - left'
  PROVE  Written' /\ wire' \in Seq(Items) /\ HeaderIn'
<1>0. wire \in Seq(Items) /\ left \in Nat /\ answer.units \in Nat /\ left <= answer.units
  BY AnswersTyped DEF ReverseTyped
<1>1. /\ wire' \in Seq(Items) /\ Len(wire) \in Nat
      /\ DOMAIN wire = 1 .. Len(wire) /\ DOMAIN wire' = 1 .. (Len(wire) + 1)
      /\ \A i \in DOMAIN wire : wire'[i] = wire[i] /\ i < Len(wire) + 1
      /\ wire'[Len(wire) + 1] = item
  BY <1>0, Appended
<1>2. /\ R!Datas' = R!Datas \cup {Len(wire) + 1} /\ R!Pieces' = R!Pieces \cup {item.n}
      /\ R!Finals' = R!Finals
      /\ R!Datas \subseteq DOMAIN wire /\ R!Finals \subseteq DOMAIN wire
  BY <1>0, AppendedOther
<1>3. \A i, j \in R!Finals' : i = j
  BY <1>2 DEF Written
<1>4. \A i \in R!Finals' : "hint" \notin wire'[i].header
  BY <1>1, <1>2 DEF Written
<1>5. \A i, j \in DOMAIN wire' : wire'[i].kind = "1xx" /\ wire'[j].kind # "1xx" => i < j
  <2> SUFFICES ASSUME NEW i \in DOMAIN wire', NEW j \in DOMAIN wire', wire'[i].kind = "1xx", wire'[j].kind # "1xx"
               PROVE i < j
    OBVIOUS
  <2>1. CASE i \in DOMAIN wire /\ j \in DOMAIN wire
    BY <1>1, <2>1 DEF Written
  <2>2. CASE i \in DOMAIN wire /\ j = Len(wire) + 1
    BY <1>1, <2>2
  <2> QED BY <1>1, <2>1, <2>2
<1>6. HeaderIn'
  BY <1>1, <1>2 DEF HeaderIn
<1>7. \A i \in R!Datas' : \E j \in R!Finals' : j < i /\ wire'[j].kind = "header"
  <2>1. PICK j \in R!Finals : wire[j].kind = "header"
    BY DEF HeaderIn
  <2>2. j < Len(wire) + 1 /\ wire'[j].kind = "header" /\ j \in R!Finals'
    BY <1>1, <1>2, <2>1
  <2>3. \A i \in R!Datas : \E l \in R!Finals : l < i /\ wire[l].kind = "header"
    BY DEF Written
  <2> QED BY <1>1, <1>2, <2>2, <2>3
<1>8. \A i \in R!Datas : wire[i].n \in 1 .. (answer.units - left)
  BY DEF Written, R!Pieces
<1>9. \A i, j \in R!Datas' : i < j => wire'[i].n < wire'[j].n
  <2> SUFFICES ASSUME NEW i \in R!Datas', NEW j \in R!Datas', i < j PROVE wire'[i].n < wire'[j].n
    OBVIOUS
  <2>1. CASE i \in R!Datas /\ j \in R!Datas
    BY <1>1, <1>2, <2>1 DEF Written
  <2>2. CASE i \in R!Datas /\ j = Len(wire) + 1
    <3>1. wire'[i].n = wire[i].n /\ wire'[j].n = answer.units - left + 1
      BY <1>0, <1>1, <1>2, <2>2
    <3> QED BY <1>0, <1>8, <2>2, <3>1
  <2>3. CASE i = Len(wire) + 1
    BY <1>1, <1>2, <2>3
  <2> QED BY <1>2, <2>1, <2>2, <2>3
<1>10. R!Pieces' = 1 .. (answer'.units - left')
  <2>1. R!Pieces = 1 .. (answer.units - left) /\ item.n = answer.units - left + 1 /\ answer'.units - left' = answer.units - left + 1
    BY <1>0 DEF Written
  <2> QED BY <1>0, <1>2, <2>1
<1> QED BY <1>1, <1>2, <1>3, <1>4, <1>5, <1>6, <1>7, <1>9, <1>10 DEF Written

\* A step that writes nothing.
LEMMA WrittenStays ==
  ASSUME ReverseTyped, Written, UNCHANGED <<answer, left, wire>>
  PROVE  Written' /\ (HeaderIn' <=> HeaderIn) /\ R!Finals' = R!Finals
BY DEF Written, HeaderIn, R!Datas, R!Finals, R!Pieces

\* Until something is put, only 1xx answers are there.
LEMMA NothingFinal ==
  ASSUME \A i \in DOMAIN wire : wire[i].kind = "1xx"
  PROVE  R!Finals = {} /\ ~HeaderIn
BY DEF R!Finals, HeaderIn

\* The steps of the handler that write nothing.
LEMMA SilentSteps ==
  ASSUME MaxUnits \in Nat, ReverseInv,
         \/ R!Begin \/ R!Hint \/ R!RoundTrip \/ R!Refused \/ R!CopyEnds \/ R!TimerFires \/ R!Stop \/ R!Panics
         \/ R!OtherSwitch \/ R!Unswitched \/ R!Hijack \/ R!HijackFails \/ R!TunnelEnds \/ R!Closer
         \/ (\E c \in R!Copiers : R!CopierEnds(c) \/ R!CopierSends(c)) \/ (\E who \in {"client", "backend"} : R!Leave(who))
         \/ UNCHANGED rVars
  PROVE  ReverseInv'
<1> USE DEF R!Goto, R!planVars, R!respVars, R!flushVars, R!tunnelVars, R!CloseBoth
<1>1. UNCHANGED <<answer, left, wire>>
  BY DEF R!Begin, R!Hint, R!RoundTrip, R!Refused, R!CopyEnds, R!TimerFires, R!Stop, R!Panics, R!OtherSwitch, R!Unswitched,
         R!Hijack, R!HijackFails, R!TunnelEnds, R!Closer, R!CopierEnds, R!CopierSends, R!Leave, rVars
<1>2. Written' /\ (HeaderIn' <=> HeaderIn)
  BY <1>1, WrittenStays DEF ReverseInv
<1>3. ReverseTyped /\ Early /\ Closes /\ OnWire
  BY DEF ReverseInv
<1>4. ReverseTyped'
  <2>1. handler' \in Places
    BY <1>3 DEF R!Begin, R!Hint, R!RoundTrip, R!Refused, R!CopyEnds, R!TimerFires, R!Stop, R!Panics, R!OtherSwitch, R!Unswitched,
         R!Hijack, R!HijackFails, R!TunnelEnds, R!Closer, R!CopierEnds, R!CopierSends, R!Leave, rVars,
         ReverseTyped, Places, Unanswered, Before, Copying
  <2>2. tripDone' \in BOOLEAN /\ pending' \in BOOLEAN
    BY <1>3 DEF R!Begin, R!Hint, R!RoundTrip, R!Refused, R!CopyEnds, R!TimerFires, R!Stop, R!Panics, R!OtherSwitch, R!Unswitched,
         R!Hijack, R!HijackFails, R!TunnelEnds, R!Closer, R!CopierEnds, R!CopierSends, R!Leave, rVars, ReverseTyped
  <2>3. body' \in {"none", "open", "closed"} /\ closer' \in {"off", "waits", "over"}
    BY <1>3 DEF R!Begin, R!Hint, R!RoundTrip, R!Refused, R!AfterRefusal, R!CopyEnds, R!TimerFires, R!Stop, R!Panics, R!OtherSwitch, R!Unswitched,
         R!Hijack, R!HijackFails, R!TunnelEnds, R!Closer, R!CopierEnds, R!CopierSends, R!Leave, rVars, ReverseTyped
  <2>4. header' \in SUBSET (Names \ {"hint"})
    BY <1>3 DEF R!Begin, R!Hint, R!RoundTrip, R!Refused, R!CopyEnds, R!TimerFires, R!Stop, R!Panics, R!OtherSwitch, R!Unswitched,
         R!Hijack, R!HijackFails, R!TunnelEnds, R!Closer, R!CopierEnds, R!CopierSends, R!Leave, rVars, ReverseTyped, Names
  <2>5. hints' \in [n : Int, waits : BOOLEAN]
    <3>1. CASE R!Hint
      <4>1. hints' = [n |-> hints.n + 1, waits |-> TRUE] /\ hints.n \in Int
        BY <1>3, <3>1 DEF R!Hint, ReverseTyped
      <4> QED BY <4>1
    <3>2. CASE ~R!Hint
      BY <1>3, <3>2 DEF R!Begin, R!RoundTrip, R!Refused, R!CopyEnds, R!TimerFires, R!Stop, R!Panics, R!OtherSwitch, R!Unswitched,
         R!Hijack, R!HijackFails, R!TunnelEnds, R!Closer, R!CopierEnds, R!CopierSends, R!Leave, rVars, ReverseTyped
    <3> QED BY <3>1, <3>2
  <2> QED BY <1>1, <1>3, <2>1, <2>2, <2>3, <2>4, <2>5 DEF ReverseTyped
<1>5. Early'
  <2>1. ~late'
    BY <1>3 DEF R!Begin, R!Hint, R!RoundTrip, R!Refused, R!CopyEnds, R!TimerFires, R!Stop, R!Panics, R!OtherSwitch, R!Unswitched,
         R!Hijack, R!HijackFails, R!TunnelEnds, R!Closer, R!CopierEnds, R!CopierSends, R!Leave, rVars, Early
  <2>2. (tripDone <=> handler \notin Before)'
    <3>1. CASE R!RoundTrip
      BY <3>1 DEF R!RoundTrip, Before
    <3>2. CASE ~R!RoundTrip
      <4>1. tripDone' = tripDone /\ (handler' \in Before <=> handler \in Before)
        BY <3>2 DEF R!Begin, R!Hint, R!Refused, R!CopyEnds, R!TimerFires, R!Stop, R!Panics, R!OtherSwitch, R!Unswitched,
           R!Hijack, R!HijackFails, R!TunnelEnds, R!Closer, R!CopierEnds, R!CopierSends, R!Leave, rVars, Before
      <4> QED BY <1>3, <4>1 DEF Early
    <3> QED BY <3>1, <3>2
  <2>3. (hints.waits => handler # "begin")'
    <3>1. CASE R!Hint
      BY <3>1 DEF R!Hint
    <3>2. CASE ~R!Hint
      <4>1. hints' = hints /\ (handler' = "begin" => handler = "begin")
        BY <3>2 DEF R!Begin, R!Hint, R!RoundTrip, R!Refused, R!CopyEnds, R!TimerFires, R!Stop, R!Panics, R!OtherSwitch, R!Unswitched,
         R!Hijack, R!HijackFails, R!TunnelEnds, R!Closer, R!CopierEnds, R!CopierSends, R!Leave, rVars, Early
      <4> QED BY <1>3, <4>1 DEF Early
    <3> QED BY <3>1, <3>2
  <2>4. (pending => handler \in Copying)'
    BY <1>3 DEF R!Begin, R!Hint, R!RoundTrip, R!Refused, R!CopyEnds, R!TimerFires, R!Stop, R!Panics, R!OtherSwitch, R!Unswitched,
         R!Hijack, R!HijackFails, R!TunnelEnds, R!Closer, R!CopierEnds, R!CopierSends, R!Leave, rVars, Early, Copying
  <2> QED BY <2>1, <2>2, <2>3, <2>4 DEF Early
<1>6. Closes'
  <2>1. CASE R!RoundTrip
    <3>1. /\ handler = "trip" /\ handler' \in {"answered", "failed"} /\ UNCHANGED <<closer, conn, answer>>
          /\ handler' = "failed" => body' = body
      BY <2>1 DEF R!RoundTrip
    <3>2. body = "none" /\ closer = "off" /\ conn # "open"
      BY <1>3, <3>1 DEF Closes, Before
    <3> QED BY <3>1, <3>2 DEF Closes, Before, Copying
  <2>2. CASE R!Hijack
    <3>1. /\ handler' \in {"switching", "hijackFails"} /\ closer' = "waits" /\ answer' = answer /\ answer.kind = "switch"
          /\ handler = "answered" /\ (handler' = "hijackFails" => conn' = conn)
      BY <2>2 DEF R!Hijack
    <3>2. conn # "open"
      BY <1>3, <3>1 DEF Closes
    <3> QED BY <3>1, <3>2 DEF Closes, Before, Copying
  <2>3. CASE R!Begin \/ R!Hint \/ R!Refused \/ R!CopyEnds \/ R!TimerFires \/ R!Stop \/ R!Panics
    BY <1>3, <2>3 DEF R!Begin, R!Hint, R!Refused, R!AfterRefusal, R!CopyEnds, R!TimerFires, R!Stop, R!Panics,
       ReverseTyped, Closes, Before, Copying
  <2>4. CASE ~(R!RoundTrip \/ R!Hijack \/ R!Begin \/ R!Hint \/ R!Refused \/ R!CopyEnds \/ R!TimerFires \/ R!Stop \/ R!Panics)
    BY <1>3, <2>4 DEF R!OtherSwitch, R!Unswitched, R!HijackFails, R!TunnelEnds, R!Closer, R!CopierEnds, R!CopierSends, R!Leave,
       rVars, ReverseTyped, Closes, Before, Copying
  <2> QED BY <2>1, <2>2, <2>3, <2>4
<1>7. OnWire'
  BY <1>1, <1>2, <1>3 DEF R!Begin, R!Hint, R!RoundTrip, R!Refused, R!CopyEnds, R!TimerFires, R!Stop, R!Panics, R!OtherSwitch, R!Unswitched,
         R!Hijack, R!HijackFails, R!TunnelEnds, R!Closer, R!CopierEnds, R!CopierSends, R!Leave, rVars,
         ReverseTyped, OnWire, Unanswered, Before, Copying
<1> QED BY <1>2, <1>4, <1>5, <1>6, <1>7 DEF ReverseInv

LEMMA ItemTyped ==
  ASSUME ReverseTyped, NEW k \in Kinds
  PROVE  /\ [kind |-> k, header |-> header, n |-> 0] \in Items /\ "hint" \notin header
         /\ k = "1xx" => [kind |-> k, header |-> header \cup {"hint"}, n |-> 0] \in Items
<1>1. header \in SUBSET Names /\ "hint" \notin header /\ header \cup {"hint"} \in SUBSET Names
  BY DEF ReverseTyped, Names
<1> QED BY <1>1 DEF Items

\* The steps that put something on the wire, and the flush that is late.
LEMMA WritingSteps ==
  ASSUME MaxUnits \in Nat, ReverseInv,
         R!Got1xxResponse \/ R!Fail \/ R!WriteHeader \/ R!Copy \/ R!delayedFlush \/ R!Trailers \/ R!Switch
  PROVE  ReverseInv'
<1> USE DEF R!Goto, R!planVars, R!respVars, R!flushVars, R!tunnelVars, R!CloseBoth
<1>0. ReverseTyped /\ Early /\ Closes /\ Written /\ OnWire
  BY DEF ReverseInv
<1>1. ASSUME R!Got1xxResponse, R!MayHint PROVE ReverseInv'
  <2>1. PICK item : item = [kind |-> "1xx", header |-> header \cup {"hint"}, n |-> 0]
    OBVIOUS
  <2>2. item \in Items /\ item.kind = "1xx"
    BY <1>0, <2>1, ItemTyped DEF Kinds
  <2>3. /\ wire' = Append(wire, item) /\ header' = {} /\ hints' = [hints EXCEPT !.waits = FALSE]
        /\ late' = (late \/ handler # "trip") /\ hints.waits
        /\ UNCHANGED <<answer, handler, tripDone, left, body, closer, conn, pending, shown>>
    BY <1>1, <2>1 DEF R!Got1xxResponse, R!Hinted
  <2>4. handler = "trip"
    BY <1>0, <1>1, <2>3 DEF Early, Before, R!MayHint
  <2>5. \A i \in DOMAIN wire : wire[i].kind = "1xx"
    BY <1>0, <2>4 DEF OnWire, Unanswered, Before
  <2>6. Written' /\ wire' \in Seq(Items) /\ (HeaderIn' <=> HeaderIn)
    BY <1>0, <2>2, <2>3, <2>5, WrittenPut
  <2>7. ReverseTyped'
    BY <1>0, <2>3, <2>6 DEF ReverseTyped
  <2>8. \A i \in DOMAIN wire' : wire'[i].kind = "1xx"
    BY <1>0, <2>2, <2>3, <2>5, Appended DEF ReverseTyped
  <2>9. ~HeaderIn
    BY <2>5, NothingFinal
  <2>10. OnWire'
    BY <1>0, <2>3, <2>4, <2>6, <2>8, <2>9 DEF OnWire, Copying
  <2>11. Early' /\ Closes'
    BY <1>0, <2>3, <2>4 DEF Early, Closes, ReverseTyped
  <2> QED BY <2>6, <2>7, <2>10, <2>11 DEF ReverseInv
<1>2. ASSUME \/ R!Got1xxResponse /\ ~R!MayHint
             \/ R!delayedFlush
      PROVE  ReverseInv'
  <2>1. /\ UNCHANGED <<answer, handler, tripDone, left, body, closer, conn, header, wire>>
        /\ hints' = hints \/ hints' = [hints EXCEPT !.waits = FALSE]
        /\ pending' = pending \/ pending' = FALSE
        /\ late' = late \/ (pending /\ late' = (late \/ R!Over))
        /\ shown' = shown \/ shown' = Len(wire)
    BY <1>2 DEF R!Got1xxResponse, R!delayedFlush, R!MayFlush
  <2>2. ~late'
    BY <1>0, <2>1 DEF Early, Copying, R!Over
  <2>3. hints' \in [n : Int, waits : BOOLEAN] /\ (hints'.waits => hints.waits)
    BY <1>0, <2>1 DEF ReverseTyped
  <2>4. ReverseTyped'
    BY <1>0, <2>1, <2>3 DEF ReverseTyped
  <2>5. Early' /\ Closes'
    <3>1. UNCHANGED <<answer, handler, body, closer, conn, tripDone>> /\ (pending' => pending)
      BY <2>1
    <3>2. Early'
      BY <1>0, <2>2, <2>3, <3>1 DEF Early
    <3>3. Closes'
      BY <1>0, <3>1 DEF Closes
    <3> QED BY <3>2, <3>3
  <2>6. Written' /\ (HeaderIn' <=> HeaderIn)
    BY <1>0, <2>1, WrittenStays
  <2>7. OnWire'
    BY <1>0, <2>1, <2>6 DEF OnWire
  <2> QED BY <2>4, <2>5, <2>6, <2>7 DEF ReverseInv
<1>3. ASSUME R!Fail PROVE ReverseInv'
  <2>1. PICK item : item = [kind |-> "502", header |-> header, n |-> 0]
    OBVIOUS
  <2>2. item \in Items /\ item.kind = "502" /\ "hint" \notin item.header
    BY <1>0, <2>1, ItemTyped DEF Kinds
  <2>3. /\ wire' = Append(wire, item) /\ handler = "failed" /\ handler' = "over"
        /\ UNCHANGED <<answer, tripDone, hints, header, left, body, closer, conn, pending, late>>
    BY <1>3, <2>1 DEF R!Fail, R!Put, R!Item
  <2>4. \A i \in DOMAIN wire : wire[i].kind = "1xx"
    BY <1>0, <2>3 DEF OnWire, Unanswered
  <2>5. R!Finals = {} /\ ~HeaderIn
    BY <2>4, NothingFinal
  <2>6. Written' /\ wire' \in Seq(Items) /\ ~HeaderIn'
    BY <1>0, <2>2, <2>3, <2>5, WrittenPut
  <2>7. ReverseTyped'
    BY <1>0, <2>3, <2>6 DEF ReverseTyped, Places
  <2>8. Early' /\ Closes'
    BY <1>0, <2>3 DEF Early, Closes, Before, Copying
  <2>9. OnWire'
    BY <2>3, <2>6 DEF OnWire, Unanswered, Before, Copying
  <2> QED BY <2>6, <2>7, <2>8, <2>9 DEF ReverseInv
<1>4. ASSUME R!WriteHeader PROVE ReverseInv'
  <2>1. PICK item : item = [kind |-> "header", header |-> header', n |-> 0]
    OBVIOUS
  <2>2. header' \in SUBSET (Names \ {"hint"})
    BY <1>0, <1>4 DEF R!WriteHeader, ReverseTyped, Names
  <2>3. item \in Items /\ item.kind = "header" /\ "hint" \notin item.header
    BY <2>1, <2>2 DEF Items, Kinds
  <2>4. /\ wire' = Append(wire, item) /\ handler = "answered" /\ handler' = "copy" /\ answer.kind = "body"
        /\ pending' \in BOOLEAN
        /\ UNCHANGED <<answer, tripDone, hints, left, body, closer, conn, late>>
    BY <1>4, <2>1 DEF R!WriteHeader, R!Put
  <2>5. \A i \in DOMAIN wire : wire[i].kind = "1xx"
    BY <1>0, <2>4 DEF OnWire, Unanswered
  <2>6. R!Finals = {} /\ ~HeaderIn
    BY <2>5, NothingFinal
  <2>7. Written' /\ wire' \in Seq(Items) /\ HeaderIn'
    BY <1>0, <2>3, <2>4, <2>6, WrittenPut
  <2>8. ReverseTyped'
    BY <1>0, <2>2, <2>4, <2>7 DEF ReverseTyped, Places, Copying
  <2>9. Early' /\ Closes'
    BY <1>0, <2>4 DEF Early, Closes, Before, Copying
  <2>10. OnWire'
    BY <2>4, <2>7 DEF OnWire, Unanswered, Before, Copying
  <2> QED BY <2>7, <2>8, <2>9, <2>10 DEF ReverseInv
<1>5. ASSUME R!Copy PROVE ReverseInv'
  <2>1. PICK item : item = [kind |-> "data", header |-> {}, n |-> answer.units - left']
    OBVIOUS
  <2>2. /\ left > 0 /\ left' = left - 1 /\ wire' = Append(wire, item) /\ handler = "copy" /\ handler' = "copy"
        /\ UNCHANGED <<answer, tripDone, hints, header, body, closer, conn, late>>
        /\ pending' \in BOOLEAN
    BY <1>5, <2>1 DEF R!Copy, R!Put
  <2>3. left' \in 0 .. answer.units /\ answer.units - left' \in Int
    BY <1>0, <2>2, AnswersTyped DEF ReverseTyped
  <2>4. item \in Items /\ item.kind = "data" /\ item.n = answer.units - left'
    BY <2>1, <2>3 DEF Items, Kinds
  <2>5. HeaderIn
    BY <1>0, <2>2 DEF OnWire, Copying
  <2>6. Written' /\ wire' \in Seq(Items) /\ HeaderIn'
    BY <1>0, <2>2, <2>4, <2>5, WrittenData
  <2>7. ReverseTyped'
    BY <1>0, <2>2, <2>3, <2>6 DEF ReverseTyped
  <2>8. Early' /\ Closes'
    BY <1>0, <2>2 DEF Early, Closes, Before, Copying
  <2>9. OnWire'
    BY <2>2, <2>6 DEF OnWire, Unanswered, Before, Copying
  <2> QED BY <2>6, <2>7, <2>8, <2>9 DEF ReverseInv
<1>6. ASSUME R!Trailers PROVE ReverseInv'
  <2>1. /\ handler = "trailers" /\ handler' = "over" /\ body' = "closed" /\ shown' = Len(wire')
        /\ UNCHANGED <<answer, tripDone, hints, header, left, closer, conn, pending, late>>
    BY <1>6 DEF R!Trailers
  <2>2. answer.kind = "body" /\ left = 0 /\ ~answer.cut
    BY <1>0, <2>1 DEF Closes, OnWire
  <2>3. Written' /\ wire' \in Seq(Items) /\ (HeaderIn' <=> HeaderIn)
    <3>1. ASSUME NEW k \in {"trailers", "prefixed trailers"}, wire' = Append(wire, R!Item(k))
          PROVE  Written' /\ wire' \in Seq(Items) /\ (HeaderIn' <=> HeaderIn)
      <4>1. PICK item : item = [kind |-> k, header |-> header, n |-> 0]
        OBVIOUS
      <4>2. item \in Items /\ item.kind = k
        BY <1>0, <4>1, ItemTyped DEF Kinds
      <4>3. wire' = Append(wire, item)
        BY <3>1, <4>1 DEF R!Item
      <4> QED BY <1>0, <2>1, <4>2, <4>3, WrittenPut
    <3>2. CASE wire' = wire
      BY <1>0, <2>1, <3>2, WrittenStays DEF ReverseTyped
    <3>3. answer.trailers \in {"none", "announced", "more"}
      BY <1>0 DEF ReverseTyped, R!Answers, R!Bodies
    <3> QED BY <1>6, <3>1, <3>2, <3>3 DEF R!Trailers
  <2>4. ReverseTyped'
    BY <1>0, <2>1, <2>3 DEF ReverseTyped, Places
  <2>5. Early' /\ Closes'
    BY <1>0, <2>1 DEF Early, Closes, Before, Copying
  <2>6. OnWire'
    BY <2>1, <2>2 DEF OnWire, Unanswered, Before, Copying
  <2> QED BY <2>3, <2>4, <2>5, <2>6 DEF ReverseInv
<1>7. ASSUME R!Switch PROVE ReverseInv'
  <2>1. /\ handler = "switching" /\ handler' \in {"tunnel", "over"} /\ body' = body
        /\ UNCHANGED <<answer, tripDone, hints, header, left, closer, pending, late>>
        /\ handler' = "over" => conn' # "open"
    BY <1>7 DEF R!Switch
  <2>2. \A i \in DOMAIN wire : wire[i].kind = "1xx"
    BY <1>0, <2>1 DEF OnWire, Unanswered
  <2>3. R!Finals = {} /\ ~HeaderIn
    BY <2>2, NothingFinal
  <2>4. Written' /\ wire' \in Seq(Items) /\ ~HeaderIn'
    <3>1. PICK item : item = [kind |-> "101", header |-> header, n |-> 0]
      OBVIOUS
    <3>2. item \in Items /\ item.kind = "101" /\ "hint" \notin item.header
      BY <1>0, <3>1, ItemTyped DEF Kinds
    <3>3. wire' = Append(wire, item) \/ wire' = wire
      BY <1>7, <3>1 DEF R!Switch, R!Put, R!Item
    <3>4. CASE wire' = wire
      BY <1>0, <2>1, <2>3, <3>4, WrittenStays DEF ReverseTyped
    <3>5. CASE wire' = Append(wire, item)
      BY <1>0, <2>1, <2>3, <3>2, <3>5, WrittenPut
    <3> QED BY <3>3, <3>4, <3>5
  <2>5. ReverseTyped'
    BY <1>0, <2>1, <2>4 DEF ReverseTyped, Places
  <2>6. Early' /\ Closes'
    BY <1>0, <2>1 DEF Early, Closes, Before, Copying, ReverseTyped
  <2>7. OnWire'
    BY <2>1, <2>4 DEF OnWire, Unanswered, Before, Copying
  <2> QED BY <2>4, <2>5, <2>6, <2>7 DEF ReverseInv
<1> QED BY <1>1, <1>2, <1>3, <1>4, <1>5, <1>6, <1>7

LEMMA ReverseNext == ASSUME MaxUnits \in Nat, ReverseInv, [R!Next]_rVars PROVE ReverseInv'
BY SilentSteps, WritingSteps DEF R!Next, R!HandlerStep, R!Others

LEMMA ReverseHolds == ASSUME MaxUnits \in Nat, ReverseInv PROVE R!NotLate /\ R!AnswerFaithful /\ R!Released
<1>1. R!NotLate
  BY DEF ReverseInv, Early, R!NotLate
<1>2. answer.units \in Nat /\ left \in 0 .. answer.units
  BY AnswersTyped DEF ReverseInv, ReverseTyped
<1>3. R!Pieces = 1 .. (answer.units - left) /\ answer.units - left \in 0 .. answer.units
  BY <1>2 DEF ReverseInv, Written
<1>4. handler = "over" /\ HeaderIn => ~answer.cut /\ R!Pieces = 1 .. answer.units /\ shown = Len(wire)
  BY <1>2, <1>3 DEF ReverseInv, OnWire
<1>5. R!AnswerFaithful
  BY <1>3, <1>4 DEF ReverseInv, Written, R!AnswerFaithful, HeaderIn
<1>6. R!Released
  BY DEF ReverseInv, ReverseTyped, Closes, R!Released, R!Over
<1> QED BY <1>1, <1>5, <1>6

-----------------------------------------------------------------------------
(* The registry and the templates.  Wired rests on the two maps being one   *)
(* (Named): both have a service under its type.  What was injected is       *)
(* judged by the names of that moment, so it stays (Injected).              *)

\* A service, under the name of its type in both maps.
Named ==
  /\ DOMAIN typmap = DOMAIN svcmap
  /\ \A k \in DOMAIN svcmap : typmap[k] = svcmap[k] /\ svcmap[k].type = k

Injected ==
  \A v \in {fields.type, fields.face} \ {N!None} : v \in {fields.names[k] : k \in DOMAIN fields.names}

OneText == given # {} => given = {tpl} /\ tpl # "none"

RegistryInv == Named /\ Injected /\ OneText

LEMMA RegistryInit == ASSUME N!Init PROVE RegistryInv
<1>1. Named
  BY DEF N!Init, N!Zgg, Named
<1>2. Injected
  BY DEF N!Init, N!NoFields, N!None, Injected
<1>3. OneText
  BY DEF N!Init, OneText
<1> QED BY <1>1, <1>2, <1>3 DEF RegistryInv

\* The maps of a program and of one service less.
LEMMA Untypes ==
  ASSUME Named, NEW name \in DOMAIN svcmap
  PROVE  N!Untyped(svcmap[name]) = N!Without(typmap, name)
<1> DEFINE U == {u \in DOMAIN typmap : typmap[u] = svcmap[name]}
<1>1. U = {name}
  BY DEF Named
<1>2. (CHOOSE u \in U : TRUE) = name
  BY <1>1
<1> QED BY <1>1, <1>2 DEF N!Untyped

LEMMA RegistryNext == ASSUME RegistryInv, [N!Next]_nVars PROVE RegistryInv'
<1>0. Named /\ Injected /\ OneText
  BY DEF RegistryInv
<1>1. ASSUME UNCHANGED <<svcmap, typmap>> PROVE Named'
  BY <1>0, <1>1 DEF Named
<1>2. ASSUME UNCHANGED fields PROVE Injected'
  BY <1>0, <1>2 DEF Injected, N!None
<1>3. ASSUME UNCHANGED <<tpl, given>> PROVE OneText'
  BY <1>0, <1>3 DEF OneText
<1>4. ASSUME UNCHANGED nVars PROVE RegistryInv'
  BY <1>1, <1>2, <1>3, <1>4 DEF nVars, RegistryInv
<1>5. ASSUME NEW t \in Threads, NEW v \in N!Services, N!Set(t, v) PROVE RegistryInv'
  <2>1. v.type \in N!Types /\ svcmap' = N!With(svcmap, v.type, v) /\ typmap' = N!With(typmap, v.type, v)
    BY <1>5 DEF N!Set, N!NameOf, N!Services
  <2>2. Named'
    BY <1>0, <2>1 DEF Named, N!With
  <2> QED BY <1>2, <1>3, <1>5, <2>2 DEF N!Set, RegistryInv
<1>6. ASSUME NEW t \in Threads, NEW name \in N!Types, N!Unset(t, name) PROVE RegistryInv'
  <2>1. Named'
    <3>1. CASE name \in DOMAIN svcmap
      <4>1. svcmap' = N!Without(svcmap, name) /\ typmap' = N!Without(typmap, name)
        BY <1>0, <1>6, <3>1, Untypes DEF N!Unset
      <4> QED BY <1>0, <4>1 DEF Named, N!Without
    <3>2. CASE name \notin DOMAIN svcmap
      BY <1>1, <1>6, <3>2 DEF N!Unset
    <3> QED BY <3>1, <3>2
  <2> QED BY <1>2, <1>3, <1>6, <2>1 DEF N!Unset, RegistryInv
<1>7. ASSUME NEW t \in Threads, N!Inj(t) PROVE RegistryInv'
  <2>1. PICK face \in IF DOMAIN typmap \cap N!Faces = {} THEN {N!None}
                     ELSE {typmap[u] : u \in DOMAIN typmap \cap N!Faces} :
          fields' = [name |-> N!At(svcmap, "Repo"), type |-> N!At(typmap, "Zgg"), face |-> face, names |-> svcmap]
    BY <1>7 DEF N!Inj
  <2>2. fields'.type = N!At(typmap, "Zgg") /\ fields'.face = face /\ fields'.names = svcmap
    BY <2>1
  <2>3. \A v \in {N!At(typmap, "Zgg"), face} \ {N!None} : v \in {svcmap[k] : k \in DOMAIN svcmap}
    BY <1>0 DEF Named, N!At
  <2>4. Injected'
    BY <2>2, <2>3 DEF Injected, N!None
  <2> QED BY <1>1, <1>3, <1>7, <2>4 DEF N!Inj, RegistryInv
<1>8. ASSUME NEW text \in N!Texts, N!Load(text) PROVE RegistryInv'
  <2>1. N!Loaded(text) # "none" /\ (given # {} => given = {N!Loaded(text)})
    BY <1>0 DEF OneText, N!Loaded, N!Texts
  <2>2. OneText'
    BY <1>8, <2>1 DEF OneText, N!Load
  <2> QED BY <1>1, <1>2, <1>8, <2>2 DEF N!Load, N!kitVars, RegistryInv
<1>9. ASSUME NEW text \in N!Texts, N!Preload(text) PROVE RegistryInv'
  <2>1. OneText'
    BY <1>9 DEF OneText, N!Preload
  <2> QED BY <1>1, <1>2, <1>9, <2>1 DEF N!Preload, N!kitVars, RegistryInv
<1> QED BY <1>4, <1>5, <1>6, <1>7, <1>8, <1>9 DEF N!Next

LEMMA RegistryHolds == ASSUME RegistryInv PROVE N!Wired /\ N!OneTemplate
<1>0. Named /\ Injected /\ OneText
  BY DEF RegistryInv
<1>1. N!Wired
  BY <1>0 DEF Named, Injected, N!Wired, N!At
<1>2. N!OneTemplate
  BY <1>0 DEF OneText, N!OneTemplate, N!Render, N!Parses
<1> QED BY <1>1, <1>2

-----------------------------------------------------------------------------
(* Transactions.  What is returned fits the transaction because the one     *)
(* that began it ends it, once, when no function runs any more (Running); a *)
(* statement that failed is not forgotten as long as every error is passed  *)
(* on (Remembered).                                                         *)

Sent == {"none", "exec", "insert", "select"}

TxTyped ==
  /\ via \in {"WithTx", "DscWithTx"} /\ depth \in Nat /\ tx \in {"none", "open", "committed", "undone"}
  /\ stmts \in Seq([kind : Sent \cup {"ksql"}, failed : BOOLEAN, effect : BOOLEAN])
  /\ error \in BOOLEAN /\ passed \in BOOLEAN /\ rows = 0

\* The transaction is open exactly while a function runs.
RunsInside ==
  /\ ret = "none" => ends = 0 /\ tx = IF depth > 0 THEN "open" ELSE "none"
  /\ ret # "none" => depth = 0 /\ tx # "open" /\ ends = IF tx = "none" THEN 0 ELSE 1
  /\ Q!AsReturned

Remembered ==
  /\ passed /\ Q!Failed(Sent) => error
  /\ tx = "committed" => ~error

TxInv == TxTyped /\ RunsInside /\ Remembered

LEMMA TxInit == ASSUME Q!Init PROVE TxInv
<1>1. TxTyped
  <2>1. <<>> \in Seq([kind : Sent \cup {"ksql"}, failed : BOOLEAN, effect : BOOLEAN])
    OBVIOUS
  <2> QED BY <2>1 DEF Q!Init, TxTyped
<1>2. RunsInside
  BY DEF Q!Init, RunsInside, Q!AsReturned
<1>3. Remembered
  BY DEF Q!Init, Remembered, Q!Failed
<1> QED BY <1>1, <1>2, <1>3 DEF TxInv

\* A statement, which was reported if it is one that says so.
LEMMA TxDid ==
  ASSUME TxInv, NEW kind \in Sent \cup {"ksql"}, NEW failed \in BOOLEAN, NEW effect \in BOOLEAN,
         NEW reported \in BOOLEAN, kind \in Sent /\ failed => reported,
         Q!Did(kind, failed, effect, reported)
  PROVE  TxInv'
<1> DEFINE stmt == [kind |-> kind, failed |-> failed, effect |-> effect]
<1>0. TxTyped /\ RunsInside /\ Remembered
  BY DEF TxInv
<1>1. /\ stmts' = Append(stmts, stmt) /\ error' = reported /\ depth > 0 /\ error = FALSE
      /\ UNCHANGED <<via, depth, tx, ends, rows, passed, ret>>
  BY <1>0 DEF Q!Did, Q!Runs, TxTyped
<1>2. TxTyped'
  <2>1. stmts' \in Seq([kind : Sent \cup {"ksql"}, failed : BOOLEAN, effect : BOOLEAN])
    BY <1>0, <1>1 DEF TxTyped
  <2> QED BY <1>0, <1>1, <2>1 DEF TxTyped
<1>3. RunsInside'
  BY <1>0, <1>1 DEF RunsInside, Q!AsReturned
<1>4. passed /\ Q!Failed(Sent)' => reported
  <2>1. SUFFICES ASSUME passed, NEW i \in DOMAIN stmts', stmts'[i].failed, stmts'[i].kind \in Sent PROVE reported
    BY DEF Q!Failed
  <2>2. Len(stmts) \in Nat /\ DOMAIN stmts' = 1 .. Len(stmts) + 1 /\ DOMAIN stmts = 1 .. Len(stmts)
    BY <1>0, <1>1 DEF TxTyped
  <2>3. ~Q!Failed(Sent)
    BY <1>0, <1>1, <2>1 DEF Remembered
  <2>4. CASE i = Len(stmts) + 1
    <3>1. stmts'[i] = stmt
      BY <1>0, <1>1, <2>4 DEF TxTyped
    <3> QED BY <2>1, <3>1
  <2>5. CASE i \in DOMAIN stmts
    <3>1. stmts'[i] = stmts[i]
      BY <1>0, <1>1, <2>2, <2>5 DEF TxTyped
    <3> QED BY <2>1, <2>3, <2>5, <3>1 DEF Q!Failed
  <2> QED BY <2>2, <2>4, <2>5
<1>5. tx # "committed"
  BY <1>0, <1>1 DEF TxTyped, RunsInside
<1>6. Remembered'
  BY <1>1, <1>4, <1>5 DEF Remembered
<1> QED BY <1>2, <1>3, <1>6 DEF TxInv

LEMMA TxNext == ASSUME TxInv, [Q!Next]_qVars PROVE TxInv'
<1>0. TxTyped /\ RunsInside /\ Remembered
  BY DEF TxInv
<1>1. ASSUME UNCHANGED <<stmts, passed, error>>, tx' = "committed" => ~error PROVE Remembered'
  BY <1>0, <1>1 DEF Remembered, Q!Failed
<1>2. ASSUME UNCHANGED qVars PROVE TxInv'
  <2>1. TxTyped' /\ RunsInside'
    BY <1>0, <1>2 DEF qVars, TxTyped, RunsInside, Q!AsReturned
  <2>2. Remembered'
    BY <1>0, <1>1, <1>2 DEF qVars, Remembered
  <2> QED BY <2>1, <2>2 DEF TxInv
<1>3. ASSUME Q!BeginFails PROVE TxInv'
  <2>1. TxTyped' /\ RunsInside'
    BY <1>0, <1>3 DEF Q!BeginFails, TxTyped, RunsInside, Q!AsReturned
  <2> QED BY <1>1, <1>3, <2>1 DEF Q!BeginFails, TxInv
<1>4. ASSUME Q!Begin PROVE TxInv'
  <2>1. TxTyped' /\ RunsInside'
    BY <1>0, <1>4 DEF Q!Begin, TxTyped, RunsInside, Q!AsReturned
  <2> QED BY <1>1, <1>4, <2>1 DEF Q!Begin, TxInv
<1>5. ASSUME Q!Nested PROVE TxInv'
  <2>1. depth > 0 /\ depth' = depth + 1 /\ UNCHANGED <<via, tx, ends, stmts, rows, error, passed, ret>>
    BY <1>0, <1>5 DEF Q!Nested, TxTyped
  <2>2. TxTyped' /\ RunsInside'
    BY <1>0, <2>1 DEF TxTyped, RunsInside, Q!AsReturned
  <2> QED BY <1>0, <1>1, <2>1, <2>2 DEF Remembered, TxInv
<1>6. ASSUME Q!NestedReturns PROVE TxInv'
  <2>1. depth > 1 /\ depth' = depth - 1 /\ UNCHANGED <<via, tx, ends, stmts, rows, error, passed, ret>>
    BY <1>6 DEF Q!NestedReturns
  <2>2. TxTyped' /\ RunsInside'
    BY <1>0, <2>1 DEF TxTyped, RunsInside, Q!AsReturned
  <2> QED BY <1>0, <1>1, <2>1, <2>2 DEF Remembered, TxInv
<1>7. ASSUME Q!Ignore PROVE TxInv'
  <2>1. TxTyped' /\ RunsInside'
    BY <1>0, <1>7 DEF Q!Ignore, TxTyped, RunsInside, Q!AsReturned
  <2>2. Remembered'
    BY <1>7 DEF Q!Ignore, Remembered
  <2> QED BY <2>1, <2>2 DEF TxInv
<1>8. ASSUME Q!Finish PROVE TxInv'
  <2>1. ends = 0 /\ ret = "none" /\ tx = "open" /\ depth' = 0 /\ ends' = 1 /\ UNCHANGED <<via, stmts, rows, error, passed>>
    BY <1>0, <1>8 DEF Q!Finish, RunsInside
  <2>2. \/ error /\ tx' = "undone" /\ ret' = "error"
        \/ ~error /\ tx' = "committed" /\ ret' = "nil"
        \/ ~error /\ tx' = "undone" /\ ret' = Q!Returned(FALSE)
    BY <1>8 DEF Q!Finish, Q!Returned
  <2>3. Q!Returned(FALSE) \in {"nil", "error"} /\ (via = "DscWithTx" => Q!Returned(FALSE) = "error")
    BY DEF Q!Returned
  <2>4. TxTyped' /\ RunsInside'
    BY <1>0, <2>1, <2>2, <2>3 DEF TxTyped, RunsInside, Q!AsReturned
  <2> QED BY <1>1, <2>1, <2>2, <2>4 DEF TxInv
<1>9. ASSUME Q!Panics PROVE TxInv'
  <2>1. ends = 0 /\ ret = "none" /\ tx = "open"
    BY <1>0, <1>9 DEF Q!Panics, RunsInside
  <2>2. TxTyped' /\ RunsInside'
    BY <1>0, <1>9, <2>1 DEF Q!Panics, Q!Recovered, TxTyped, RunsInside, Q!AsReturned
  <2> QED BY <1>1, <1>9, <2>2 DEF Q!Panics, Q!Recovered, TxInv
<1>10. ASSUME Q!NotSent PROVE TxInv'
  BY <1>10, TxDid DEF Q!NotSent, Sent
<1>11. ASSUME Q!Exec PROVE TxInv'
  <2>1. ASSUME Q!Did("exec", TRUE, FALSE, TRUE) \/ Q!Did("exec", FALSE, TRUE, FALSE) PROVE TxInv'
    BY <2>1, TxDid DEF Sent
  <2>2. ASSUME Q!Did("insert", TRUE, TRUE, TRUE) PROVE TxInv'
    BY <2>2, TxDid DEF Sent
  <2>3. Q!Did("exec", TRUE, FALSE, TRUE) \/ Q!Did("exec", FALSE, TRUE, FALSE) \/ Q!Did("insert", TRUE, TRUE, TRUE)
    BY <1>11 DEF Q!Exec, Q!ExecError, Q!Did
  <2> QED BY <2>1, <2>2, <2>3
<1>12. ASSUME Q!KsqlExec PROVE TxInv'
  <2>1. Q!Did("ksql", TRUE, FALSE, FALSE) \/ Q!Did("ksql", FALSE, TRUE, FALSE)
    BY <1>12 DEF Q!KsqlExec, Q!Did
  <2> QED BY <2>1, TxDid DEF Sent
<1>13. ASSUME Q!QueryFails PROVE TxInv'
  BY <1>13, TxDid DEF Q!QueryFails, Sent
<1>14. ASSUME Q!Select PROVE TxInv'
  <2>1. Q!Did("select", TRUE, FALSE, TRUE) \/ Q!Did("select", FALSE, FALSE, FALSE)
    BY <1>14 DEF Q!Select, Q!ClosedOn, Q!Did
  <2> QED BY <2>1, TxDid DEF Sent
<1>15. ASSUME Q!KsqlSelect PROVE TxInv'
  <2>1. ASSUME Q!Did("select", FALSE, FALSE, FALSE) PROVE TxInv'
    BY <2>1, TxDid DEF Sent
  <2> QED BY <1>13, <1>14, <1>15, <2>1 DEF Q!KsqlSelect
<1> QED BY <1>2, <1>3, <1>4, <1>5, <1>6, <1>7, <1>8, <1>9, <1>10, <1>11, <1>12, <1>13, <1>14, <1>15 DEF Q!Next

LEMMA TxHolds == ASSUME TxInv PROVE Q!AsReturned /\ Q!FailedUndone /\ Q!EndsOnce
BY DEF TxInv, TxTyped, RunsInside, Remembered, Sent, Q!FailedUndone, Q!EndsOnce, Q!Failed

-----------------------------------------------------------------------------

\* The parts together, in every reachable state: who has which record, who made what the
\* maps keep, what stands on the wire where the handler is, and what the registry and a
\* transaction hold (record.go, kwdog.go, tls.go, reverse.go; zgg.go, kmod.go).
THEOREM GatewayInductive ==
  ASSUME IsFiniteSet(Reqs), Apart, MaxUnits \in Nat
  PROVE  Spec => [](RecordsInv /\ RoutesInv /\ ReverseInv /\ RegistryInv /\ TxInv)
<1> DEFINE Inv == RecordsInv /\ RoutesInv /\ ReverseInv /\ RegistryInv /\ TxInv
<1>1. Init => Inv
  BY RecordsInit, RoutesInit, ReverseInit, RegistryInit, TxInit DEF Init
<1>2. Inv /\ [Next]_gatewayVars => Inv'
  <2> SUFFICES ASSUME RecordsInv, RoutesInv, ReverseInv, RegistryInv, TxInv, [Next]_gatewayVars
               PROVE RecordsInv' /\ RoutesInv' /\ ReverseInv' /\ RegistryInv' /\ TxInv'
    OBVIOUS
  <2>1. [O!Next]_oVars /\ [T!Next]_tVars /\ [R!Next]_rVars /\ [N!Next]_nVars /\ [Q!Next]_qVars
    BY DEF Next, gatewayVars
  <2>2. RecordsInv'
    BY <2>1, TypeNext, PlacedNext, OwnerNext, InStepNext DEF RecordsInv
  <2> QED BY <2>1, <2>2, RoutesNext, ReverseNext, RegistryNext, TxNext
<1> QED BY <1>1, <1>2, PTL DEF Spec

\* A record has one owner, and nobody gets one that still holds something of an
\* earlier request, with and without a goroutine ahead (record.go, Get and Put).
THEOREM RecordOwned ==
  ASSUME IsFiniteSet(Reqs), Apart, MaxUnits \in Nat PROVE Spec => []O!OneOwner
<1>1. RecordsInv => O!OneOwner
  BY DEF RecordsInv
<1> QED BY <1>1, GatewayInductive, PTL

\* As long as no goroutine runs ahead, what is saved of a request is all that was
\* noted of it and nothing else (record_fn.go, _track and _recycle).
THEOREM RecordSaved ==
  ASSUME IsFiniteSet(Reqs), Apart, MaxUnits \in Nat PROVE Spec => []O!SavedWhole
<1>1. RecordsInv => O!SavedWhole
  BY DEF RecordsInv, InStep, NoneAhead, Mine, Noted, O!SavedWhole, O!At
<1> QED BY <1>1, GatewayInductive, PTL

\* Records have owners and are saved whole (record.go, record_fn.go).
THEOREM RecordsAreWhole ==
  ASSUME IsFiniteSet(Reqs), Apart, MaxUnits \in Nat PROVE Spec => []Recorded
<1>1. RecordsInv => O!TypeOK
  BY DEF RecordsInv
<1>2. O!TypeOK /\ O!OneOwner /\ O!SavedWhole => Recorded
  BY DEF Recorded
<1> QED BY <1>1, <1>2, GatewayInductive, RecordOwned, RecordSaved, PTL

\* Whoever asks for a gateway or a certificate when it is there gets that one, all get
\* the same certificate of a host, and a key never loses its gateway or gets that of
\* another (kwdog.go, GetProxy and NewProxy; tls.go, GetCert); a service is under its
\* name and its type or under neither, and a template is read once (zgg.go, Svc and Tvc).
THEOREM MadeOnceAndKept ==
  ASSUME IsFiniteSet(Reqs), Apart, MaxUnits \in Nat PROVE Spec => []Kept
<1>1. ASSUME RoutesInv, RegistryInv PROVE Kept
  BY <1>1, RoutesHold, RegistryHolds DEF Kept
<1> QED BY <1>1, GatewayInductive, PTL

\* Nobody uses the ResponseWriter once the handler is over, whatever timer and transport
\* do; the client gets 1xx answers, one final answer with no field of theirs and the
\* pieces of the body each once and in order, all of them when the handler ends like any
\* other; and no body of the backend is left open but that of a 101 that switched nothing
\* (reverse.go, ServeHTTP, maxLatencyWriter and handleUpgradeResponse).
THEOREM AnswersAreFaithful ==
  ASSUME IsFiniteSet(Reqs), Apart, MaxUnits \in Nat PROVE Spec => []Proxied
<1>1. ASSUME ReverseInv PROVE Proxied
  BY <1>1, ReverseHolds DEF Proxied
<1> QED BY <1>1, GatewayInductive, PTL

\* However functions nest, fail, panic or go on after an error: nil from DscWithTx means
\* committed, an error or a panic that it was not, a transaction in which an error was
\* seen and passed on is undone, and it ends once with no cursor open (kmod.go).
THEOREM EndsAsReturned ==
  ASSUME IsFiniteSet(Reqs), Apart, MaxUnits \in Nat PROVE Spec => []Transacted
<1>1. ASSUME TxInv PROVE Transacted
  BY <1>1, TxHolds DEF Transacted
<1> QED BY <1>1, GatewayInductive, PTL

-----------------------------------------------------------------------------
(* What of a request reaches the other side.  The loops of the code are       *)
(* functions on the naturals; what one has done after i rounds is shown by the *)
(* least round that has not.                                                   *)

\* A set of numbers has a least one.
LEMMA Least ==
  ASSUME NEW numbers, numbers \subseteq Nat, numbers # {}
  PROVE  \E i \in numbers : \A j \in numbers : i <= j
<1>1. PICK i \in numbers : \A j \in numbers : ~ (<<j, i>> \in OpToRel(<, Nat))
  BY WFMin, NatLessThanWellFounded
<1>2. ASSUME NEW j \in numbers PROVE i <= j
  <2>1. <<j, i>> \in Nat \X Nat => ~ (j < i)
    BY <1>1, <1>2 DEF OpToRel
  <2> QED BY <2>1
<1> QED BY <1>2

-----------------------------------------------------------------------------
(* A request and its answer on the way.                                     *)

\* The fields a header may have, and what they hold.
Fields == {"Connection", "Upgrade", "Te", "Keep-Alive", "X-Custom", "X-Forwarded-For"}
Tokens == {"Upgrade", "X-Custom", "X-Forwarded-For"}
Header(h) ==
  /\ h = [n \in DOMAIN h |-> h[n]] /\ DOMAIN h \subseteq Fields
  /\ "Connection" \in DOMAIN h => h["Connection"] \subseteq Tokens
  /\ "Upgrade" \in DOMAIN h => h["Upgrade"] # ""
  /\ "X-Forwarded-For" \in DOMAIN h => h["X-Forwarded-For"] = <<"other">>

LEMMA HeadersAre == ASSUME NEW h \in F!Headers PROVE Header(h)
<1>1. PICK names \in SUBSET {"Upgrade", "Te", "Keep-Alive", "X-Custom", "X-Forwarded-For"},
           tokens \in SUBSET {"Upgrade", "X-Custom", "X-Forwarded-For"},
           upgrade \in {"websocket", "unprintable"}, te \in {"trailers", "gzip"} :
        h = F!Sent(names, tokens, upgrade, te)
  BY DEF F!Headers
<1>2. PICK D : D = names \cup (IF tokens = {} THEN {} ELSE {"Connection"})
  OBVIOUS
<1>3. h = [n \in D |->
             CASE n = "Connection" -> tokens [] n = "Upgrade" -> upgrade [] n = "Te" -> te
               [] n \in {"X-Forwarded-For", "Forwarded"} -> <<"other">> [] OTHER -> "value"]
  BY <1>1, <1>2 DEF F!Sent
<1>4. DOMAIN h = D /\ D \subseteq Fields
  BY <1>2, <1>3 DEF Fields
<1>5. h = [n \in DOMAIN h |-> h[n]]
  BY <1>3, <1>4
<1>6. "Connection" \in DOMAIN h => h["Connection"] \subseteq Tokens
  BY <1>3, <1>4 DEF Tokens
<1>7. "Upgrade" \in DOMAIN h => h["Upgrade"] # ""
  BY <1>1, <1>3, <1>4
<1>8. "X-Forwarded-For" \in DOMAIN h => h["X-Forwarded-For"] = <<"other">>
  BY <1>3, <1>4
<1> QED BY <1>4, <1>5, <1>6, <1>7, <1>8 DEF Header

\* What is left of a header without the fields between two hops.
LEMMA Stripped ==
  ASSUME NEW h, Header(h), NEW s, s = F!removeHopByHopHeaders(h)
  PROVE  /\ DOMAIN s = (DOMAIN h \ F!Named(h)) \ F!hopHeaders
         /\ \A n \in DOMAIN s : s[n] = h[n]
BY DEF F!removeHopByHopHeaders, F!Without

\* What putting a field does.
IsPut(g, h, name, value) ==
  /\ DOMAIN g = DOMAIN h \cup {name} /\ g[name] = value
  /\ \A n \in DOMAIN h : n # name => g[n] = h[n]

LEMMA PutIs ==
  ASSUME NEW h, NEW name, NEW value
  PROVE  IsPut(F!Put(h, name, value), h, name, value)
BY DEF F!Put, IsPut

\* With the fields of a switch of protocols and Te put back.
LEMMA RestoredIs ==
  ASSUME NEW h, Header(h), NEW r, r = F!Restored(h)
  PROVE  /\ \A n \in DOMAIN h \ (F!Named(h) \cup F!hopHeaders) : n \in DOMAIN r /\ r[n] = h[n]
         /\ DOMAIN r \subseteq (DOMAIN h \ (F!Named(h) \cup F!hopHeaders)) \cup {"Te", "Connection", "Upgrade"}
         /\ F!upgradeType(h) = "" => DOMAIN r \cap {"Connection", "Upgrade"} = {}
         /\ F!upgradeType(h) # "" => {"Connection", "Upgrade"} \subseteq DOMAIN r /\ r["Connection"] = {"Upgrade"} /\ r["Upgrade"] = F!upgradeType(h)
<1>1. PICK s : s = F!removeHopByHopHeaders(h)
  OBVIOUS
<1>2. /\ DOMAIN s = (DOMAIN h \ F!Named(h)) \ F!hopHeaders
      /\ \A n \in DOMAIN s : s[n] = h[n]
  BY <1>1, Stripped
<1>3. PICK te : te = IF F!Has(h, "Te") /\ h["Te"] = "trailers" THEN F!Put(s, "Te", "trailers") ELSE s
  OBVIOUS
<1>4. /\ \A n \in DOMAIN s : n \in DOMAIN te /\ te[n] = h[n]
      /\ DOMAIN te \subseteq DOMAIN s \cup {"Te"}
  <2>1. CASE te = F!Put(s, "Te", "trailers")
    <3>1. /\ DOMAIN te = DOMAIN s \cup {"Te"}
          /\ \A n \in DOMAIN s : n # "Te" => te[n] = s[n]
      <4>1. IsPut(F!Put(s, "Te", "trailers"), s, "Te", "trailers")
        BY PutIs
      <4> QED BY <2>1, <4>1 DEF IsPut
    <3>2. "Te" \notin DOMAIN s
      BY <1>2 DEF F!hopHeaders
    <3> QED BY <1>2, <3>1, <3>2
  <2>2. CASE te = s
    BY <1>2, <2>2
  <2> QED BY <1>3, <2>1, <2>2
<1>5. r = IF F!upgradeType(h) = "" THEN te ELSE F!Put(F!Put(te, "Connection", {"Upgrade"}), "Upgrade", F!upgradeType(h))
  BY <1>1, <1>3 DEF F!Restored
<1>6. \A n \in DOMAIN s : n \notin {"Te", "Connection", "Upgrade"}
  BY <1>2 DEF F!hopHeaders
<1>7. CASE F!upgradeType(h) = ""
  BY <1>2, <1>4, <1>5, <1>6, <1>7
<1>8. CASE F!upgradeType(h) # ""
  <2>1. PICK c : c = F!Put(te, "Connection", {"Upgrade"})
    OBVIOUS
  <2>2. /\ DOMAIN c = DOMAIN te \cup {"Connection"} /\ c["Connection"] = {"Upgrade"}
        /\ \A n \in DOMAIN te : n # "Connection" => c[n] = te[n]
    <3>1. IsPut(F!Put(te, "Connection", {"Upgrade"}), te, "Connection", {"Upgrade"})
      BY PutIs
    <3> QED BY <2>1, <3>1 DEF IsPut
  <2>3. /\ DOMAIN r = DOMAIN c \cup {"Upgrade"} /\ r["Upgrade"] = F!upgradeType(h)
        /\ \A n \in DOMAIN c : n # "Upgrade" => r[n] = c[n]
    <3>1. PICK u : u = F!upgradeType(h)
      OBVIOUS
    <3>2. IsPut(F!Put(c, "Upgrade", u), c, "Upgrade", u)
      BY PutIs
    <3>3. r = F!Put(c, "Upgrade", u)
      BY <1>5, <1>8, <2>1, <3>1
    <3> QED BY <3>1, <3>2, <3>3 DEF IsPut
  <2> QED BY <1>2, <1>4, <1>6, <1>8, <2>2, <2>3
<1> QED BY <1>7, <1>8

Proxies == {"X-Forwarded-For", "Forwarded", "X-Forwarded-Host", "X-Forwarded-Proto"}

\* What a proxy says of itself touches its own fields, and its address comes last.
Announced(r, f, mode) ==
  /\ \A n \in DOMAIN r \ Proxies : n \in DOMAIN f /\ f[n] = r[n]
  /\ DOMAIN f \subseteq DOMAIN r \cup Proxies
  /\ "X-Forwarded-For" \in DOMAIN f /\ mode \in {"director", "rewriteSets"} => F!Last(f["X-Forwarded-For"]) = "client"

LEMMA LastOfTwo == F!Last(<<>> \o <<"client">>) = "client" /\ F!Last(<<"other">> \o <<"client">>) = "client"
<1>1. PICK s : s = <<"client">>
  OBVIOUS
<1>2. Len(s) = 1 /\ s[1] = "client" /\ s \in Seq({"client"})
  BY <1>1
<1>3. PICK e : e = <<>> \o s
  OBVIOUS
<1>4. e = s
  BY <1>2, <1>3, ConcatEmptySeq
<1>5. F!Last(e) = "client"
  BY <1>2, <1>4 DEF F!Last
<1>6. PICK o : o = <<"other">>
  OBVIOUS
<1>7. Len(o) = 1 /\ o \in Seq({"other", "client"}) /\ s \in Seq({"other", "client"})
  BY <1>1, <1>6
<1>8. PICK b : b = o \o s
  OBVIOUS
<1>9. Len(b) = 2 /\ b[2] = "client"
  <2>1. Len(b) = Len(o) + Len(s) /\ b[2] = s[2 - Len(o)]
    <3>1. 2 \in 1 .. Len(o) + Len(s)
      BY <1>2, <1>7
    <3> QED BY <1>2, <1>7, <1>8, <3>1, ConcatProperties
  <2>2. 2 - Len(o) = 1 /\ Len(o) + Len(s) = 2
    BY <1>2, <1>7
  <2> QED BY <1>2, <2>1, <2>2
<1>10. F!Last(b) = "client"
  BY <1>9 DEF F!Last
<1> QED BY <1>1, <1>3, <1>5, <1>6, <1>8, <1>10

LEMMA ClientLast ==
  ASSUME NEW r, "X-Forwarded-For" \in DOMAIN r => r["X-Forwarded-For"] = <<"other">>
  PROVE  F!Last((IF F!Has(r, "X-Forwarded-For") THEN r["X-Forwarded-For"] ELSE <<>>) \o <<"client">>) = "client"
<1>1. CASE F!Has(r, "X-Forwarded-For")
  <2>1. (IF F!Has(r, "X-Forwarded-For") THEN r["X-Forwarded-For"] ELSE <<>>) = <<"other">>
    BY <1>1 DEF F!Has
  <2> QED BY <2>1, LastOfTwo
<1>2. CASE ~F!Has(r, "X-Forwarded-For")
  <2>1. (IF F!Has(r, "X-Forwarded-For") THEN r["X-Forwarded-For"] ELSE <<>>) = <<>>
    BY <1>2
  <2> QED BY <2>1, LastOfTwo
<1> QED BY <1>1, <1>2

LEMMA AnnouncedIs ==
  ASSUME NEW r, NEW mode \in F!Modes, "X-Forwarded-For" \in DOMAIN r => r["X-Forwarded-For"] = <<"other">>
  PROVE  Announced(r, F!Forwarding(r, mode), mode)
<1>1. PICK f : f = F!Forwarding(r, mode)
  OBVIOUS
<1>2. PICK w : w = F!Without(r, {"Forwarded", "X-Forwarded-For"})
  OBVIOUS
<1>3. /\ DOMAIN w = DOMAIN r \ {"Forwarded", "X-Forwarded-For"}
      /\ \A n \in DOMAIN w : w[n] = r[n]
  BY <1>2 DEF F!Without
<1>4. CASE mode = "rewrite"
  <2>1. f = w
    BY <1>1, <1>2, <1>4 DEF F!Forwarding
  <2> QED BY <1>1, <1>3, <1>4, <2>1 DEF Announced, Proxies
<1>5. CASE mode = "rewriteSets"
  <2>1. PICK v : v = (IF F!Has(w, "X-Forwarded-For") THEN w["X-Forwarded-For"] ELSE <<>>) \o <<"client">>
    OBVIOUS
  <2>2. F!Last(v) = "client"
    BY <1>3, <2>1, ClientLast
  <2>3. PICK a : a = F!Put(w, "X-Forwarded-For", v)
    OBVIOUS
  <2>4. PICK b : b = F!Put(a, "X-Forwarded-Host", "host")
    OBVIOUS
  <2>5. f = F!Put(b, "X-Forwarded-Proto", "http")
    BY <1>1, <1>2, <1>5, <2>1, <2>3, <2>4 DEF F!Forwarding, F!SetXForwarded
  <2>6. IsPut(a, w, "X-Forwarded-For", v)
    BY <2>3, PutIs
  <2>7. IsPut(F!Put(a, "X-Forwarded-Host", "host"), a, "X-Forwarded-Host", "host")
    BY PutIs
  <2>8. IsPut(F!Put(b, "X-Forwarded-Proto", "http"), b, "X-Forwarded-Proto", "http")
    BY PutIs
  <2>9. IsPut(b, a, "X-Forwarded-Host", "host")
    BY <2>4, <2>7
  <2>10. IsPut(f, b, "X-Forwarded-Proto", "http")
    BY <2>5, <2>8
  <2> QED BY <1>1, <1>3, <2>2, <2>6, <2>9, <2>10 DEF Announced, Proxies, IsPut
<1>6. CASE mode = "director"
  <2>1. PICK v : v = (IF F!Has(r, "X-Forwarded-For") THEN r["X-Forwarded-For"] ELSE <<>>) \o <<"client">>
    OBVIOUS
  <2>2. F!Last(v) = "client"
    BY <2>1, ClientLast
  <2>3. f = F!Put(r, "X-Forwarded-For", v)
    BY <1>1, <1>6, <2>1 DEF F!Forwarding
  <2>4. IsPut(f, r, "X-Forwarded-For", v)
    BY <2>3, PutIs
  <2> QED BY <1>1, <2>2, <2>4 DEF Announced, Proxies, IsPut
<1>7. CASE mode = "directorOmits"
  BY <1>1, <1>7 DEF F!Forwarding, Announced
<1> QED BY <1>4, <1>5, <1>6, <1>7 DEF F!Modes

\* What the request that leaves owes to the one that came.
OnItsWay(h, mode, o) ==
  LET past == F!hopHeaders \cup F!Named(h) \cup {"X-Forwarded-For", "Forwarded"}
  IN /\ \A n \in DOMAIN h \ past : F!Has(o, n) /\ o[n] = h[n]
     /\ DOMAIN o \cap F!hopHeaders \subseteq {"Te"} \cup
          (IF F!upgradeType(h) # "" THEN {"Connection", "Upgrade"} ELSE {})
     /\ F!upgradeType(o) = F!upgradeType(h)
     /\ DOMAIN o \cap F!Named(h) \subseteq F!hopHeaders \cup {"X-Forwarded-For"}
     /\ F!Has(o, "X-Forwarded-For") /\ mode \in {"director", "rewriteSets"} => F!Last(o["X-Forwarded-For"]) = "client"

LEMMA RequestIs ==
  ASSUME NEW h \in F!Headers, NEW mode \in F!Modes
  PROVE  OnItsWay(h, mode, F!Outgoing(h, mode))
<1>1. Header(h)
  BY HeadersAre
<1>2. PICK r : r = F!Restored(h)
  OBVIOUS
<1>3. /\ \A n \in DOMAIN h \ (F!Named(h) \cup F!hopHeaders) : n \in DOMAIN r /\ r[n] = h[n]
      /\ DOMAIN r \subseteq (DOMAIN h \ (F!Named(h) \cup F!hopHeaders)) \cup {"Te", "Connection", "Upgrade"}
      /\ F!upgradeType(h) = "" => DOMAIN r \cap {"Connection", "Upgrade"} = {}
      /\ F!upgradeType(h) # "" => {"Connection", "Upgrade"} \subseteq DOMAIN r /\ r["Connection"] = {"Upgrade"} /\ r["Upgrade"] = F!upgradeType(h)
  BY <1>1, <1>2, RestoredIs
<1>4. "X-Forwarded-For" \in DOMAIN r => r["X-Forwarded-For"] = <<"other">>
  BY <1>1, <1>3 DEF Header
<1>5. PICK f : f = F!Forwarding(r, mode)
  OBVIOUS
<1>6. Announced(r, f, mode)
  BY <1>4, <1>5, AnnouncedIs
<1>7. PICK o : o = F!Agent(f)
  OBVIOUS
<1>8. /\ \A n \in DOMAIN f : n \in DOMAIN o /\ o[n] = f[n]
      /\ DOMAIN o \subseteq DOMAIN f \cup {"User-Agent"}
  BY <1>7 DEF F!Agent, F!Put, F!Has
<1>9. o = F!Outgoing(h, mode)
  BY <1>2, <1>5, <1>7 DEF F!Outgoing
<1>10. F!hopHeaders \cap (Proxies \cup {"User-Agent"}) = {} /\ {"Te", "Connection", "Upgrade"} \subseteq F!hopHeaders
  BY DEF F!hopHeaders, Proxies
<1>11. DOMAIN h \subseteq Fields /\ F!Named(h) \subseteq Tokens
  BY <1>1 DEF Header, F!Named, F!Has
<1>12. \A n \in DOMAIN h \ (F!hopHeaders \cup F!Named(h) \cup {"X-Forwarded-For", "Forwarded"}) : n \in DOMAIN o /\ o[n] = h[n]
  <2>1. \A n \in Fields \ {"X-Forwarded-For", "Forwarded"} : n \notin Proxies
    BY DEF Fields, Proxies
  <2> QED BY <1>3, <1>6, <1>8, <1>11, <2>1 DEF Announced
<1>13. DOMAIN o \subseteq (DOMAIN h \ (F!Named(h) \cup F!hopHeaders)) \cup {"Te", "Connection", "Upgrade"} \cup Proxies \cup {"User-Agent"}
  BY <1>3, <1>6, <1>8 DEF Announced
<1>14. "Te" \notin Proxies /\ "Connection" \notin Proxies /\ "Upgrade" \notin Proxies
  BY DEF Proxies
<1>15. F!upgradeType(h) = "" => DOMAIN o \cap {"Connection", "Upgrade"} = {}
  BY <1>3, <1>6, <1>8, <1>14 DEF Announced
<1>16. F!upgradeType(h) # "" => {"Connection", "Upgrade"} \subseteq DOMAIN o /\ o["Connection"] = {"Upgrade"} /\ o["Upgrade"] = F!upgradeType(h)
  BY <1>3, <1>6, <1>8, <1>14 DEF Announced
<1>17. F!upgradeType(o) = F!upgradeType(h)
  BY <1>15, <1>16 DEF F!upgradeType, F!Has
<1>18. DOMAIN o \cap F!hopHeaders \subseteq {"Te"} \cup (IF F!upgradeType(h) # "" THEN {"Connection", "Upgrade"} ELSE {})
  BY <1>10, <1>13, <1>15
<1>19. DOMAIN o \cap F!Named(h) \subseteq F!hopHeaders \cup {"X-Forwarded-For"}
  BY <1>10, <1>11, <1>13 DEF Tokens, Proxies
<1>20. "X-Forwarded-For" \in DOMAIN o /\ mode \in {"director", "rewriteSets"} => F!Last(o["X-Forwarded-For"]) = "client"
  <2>1. "X-Forwarded-For" \in DOMAIN o => "X-Forwarded-For" \in DOMAIN f
    BY <1>8
  <2> QED BY <1>6, <1>8, <2>1 DEF Announced
<1> QED BY <1>9, <1>12, <1>17, <1>18, <1>19, <1>20 DEF OnItsWay, F!Has

\* An answer that is no switch of protocols has none of the fields between two hops.
LEMMA AnswerIs ==
  ASSUME NEW asked, NEW h \in F!Headers, NEW switches \in BOOLEAN, NEW o, o = F!Answered(asked, switches, h)
  PROVE  IF switches
         THEN o = <<>> \/ (F!upgradeType(o) = F!upgradeType(asked) /\ o = h)
         ELSE DOMAIN o \cap (F!hopHeaders \cup F!Named(h)) = {}
<1>1. Header(h)
  BY HeadersAre
<1>2. CASE switches
  BY <1>2 DEF F!Answered
<1>3. CASE ~switches
  <2>1. o = F!removeHopByHopHeaders(h)
    BY <1>3 DEF F!Answered
  <2>2. DOMAIN o = (DOMAIN h \ F!Named(h)) \ F!hopHeaders
    BY <1>1, <2>1, Stripped
  <2> QED BY <1>3, <2>2
<1> QED BY <1>2, <1>3

-----------------------------------------------------------------------------
(* The ResponseWriter of a tunnel.  After k calls, of which the first m set *)
(* the status, it is as TwAt says.                                          *)

Sayings == {"103", "200", "500", "data"}

\* What was written when j pieces of the body were: the status x before them.
Spoken(x, j) == [i \in 1 .. j + 1 |-> IF i = 1 THEN x ELSE "data"]

TwAt(calls, m, k) ==
  IF k <= m
  THEN [status |-> IF k = 0 THEN "200" ELSE calls[k], wrote |-> FALSE, out |-> <<>>]
  ELSE [status |-> calls[m], wrote |-> TRUE, out |-> Spoken(calls[m], k - m)]

LEMMA CallsAre ==
  ASSUME NEW c \in F!Calls
  PROVE  c \in Seq(Sayings) /\ Len(c) >= 1 /\ \A i \in 1 .. Len(c) : c[i] # "data"
<1>1. PICK h : h = <<"103">>
  OBVIOUS
<1>2. PICK t : t = <<"200">>
  OBVIOUS
<1>3. h \in Seq(Sayings) /\ Len(h) = 1 /\ h[1] = "103" /\ t \in Seq(Sayings) /\ Len(t) = 1 /\ t[1] = "200"
  BY <1>1, <1>2 DEF Sayings
<1>4. h \o <<>> = h
  BY <1>3, ConcatEmptySeq
<1>5. PICK b : b = h \o t
  OBVIOUS
<1>6. b \in Seq(Sayings) /\ Len(b) = 2 /\ b[1] = "103" /\ b[2] = "200"
  <2>1. /\ b \in Seq(Sayings) /\ Len(b) = Len(h) + Len(t)
        /\ \A i \in 1 .. Len(h) + Len(t) : b[i] = IF i <= Len(h) THEN h[i] ELSE t[i - Len(h)]
    BY <1>3, <1>5, ConcatProperties
  <2>2. Len(h) + Len(t) = 2 /\ 1 \in 1 .. 2 /\ 2 \in 1 .. 2 /\ 2 - Len(h) = 1
    BY <1>3
  <2>3. b[1] = h[1]
    BY <1>3, <2>1, <2>2
  <2>4. b[2] = t[1]
    BY <1>3, <2>1, <2>2
  <2> QED BY <1>3, <2>1, <2>2, <2>3, <2>4
<1>7. c \in {h, b, <<"200">>, <<"500">>}
  BY <1>1, <1>2, <1>4, <1>5 DEF F!Calls
<1>8. CASE c = h
  BY <1>3, <1>8
<1>9. CASE c = b
  <2>1. \A i \in 1 .. 2 : i = 1 \/ i = 2
    OBVIOUS
  <2>2. b[1] # "data" /\ b[2] # "data"
    BY <1>6
  <2>3. \A i \in 1 .. 2 : b[i] # "data"
    BY <2>1, <2>2
  <2>4. b \in Seq(Sayings) /\ Len(b) = 2 /\ Len(b) >= 1
    BY <1>6
  <2> QED BY <1>9, <2>3, <2>4
<1>10. CASE c = <<"200">>
  BY <1>10 DEF Sayings
<1>11. CASE c = <<"500">>
  BY <1>11 DEF Sayings
<1> QED BY <1>7, <1>8, <1>9, <1>10, <1>11

LEMMA SpokenMore ==
  ASSUME NEW x \in Sayings, NEW j \in Nat
  PROVE  Spoken(x, j) \o <<"data">> = Spoken(x, j + 1)
<1>1. PICK a : a = Spoken(x, j)
  OBVIOUS
<1>2. PICK d : d = <<"data">>
  OBVIOUS
<1>3. PICK b : b = Spoken(x, j + 1)
  OBVIOUS
<1>4. /\ a \in Seq(Sayings) /\ Len(a) = j + 1
      /\ \A i \in 1 .. j + 1 : a[i] = IF i = 1 THEN x ELSE "data"
  BY <1>1 DEF Spoken, Sayings
<1>5. d \in Seq(Sayings) /\ Len(d) = 1 /\ d[1] = "data"
  BY <1>2 DEF Sayings
<1>6. /\ b \in Seq(Sayings) /\ Len(b) = j + 2
      /\ \A i \in 1 .. j + 2 : b[i] = IF i = 1 THEN x ELSE "data"
  BY <1>3 DEF Spoken, Sayings
<1>7. PICK c : c = a \o d
  OBVIOUS
<1>8. /\ c \in Seq(Sayings) /\ Len(c) = j + 2
      /\ \A i \in 1 .. j + 2 : c[i] = IF i <= j + 1 THEN a[i] ELSE d[i - (j + 1)]
  <2>1. /\ c \in Seq(Sayings) /\ Len(c) = Len(a) + Len(d)
        /\ \A i \in 1 .. Len(a) + Len(d) : c[i] = IF i <= Len(a) THEN a[i] ELSE d[i - Len(a)]
    BY <1>4, <1>5, <1>7, ConcatProperties
  <2>2. Len(a) + Len(d) = j + 2
    BY <1>4, <1>5
  <2> QED BY <1>4, <2>1, <2>2
<1>9. ASSUME NEW i \in 1 .. j + 2 PROVE c[i] = b[i]
  <2>1. CASE i <= j + 1
    BY <1>4, <1>6, <1>8, <2>1
  <2>2. CASE i = j + 2
    BY <1>5, <1>6, <1>8, <2>2
  <2> QED BY <2>1, <2>2
<1>10. c = b
  BY <1>6, <1>8, <1>9, SeqEqual
<1> QED BY <1>1, <1>2, <1>3, <1>7, <1>10

\* A call that sets the status, the first bytes of the body, and more of it.
LEMMA SetsStatus ==
  ASSUME NEW w, NEW s, w = [status |-> s, wrote |-> FALSE, out |-> <<>>], NEW x, x # "data"
  PROVE  F!TwCall(w, x) = [status |-> x, wrote |-> FALSE, out |-> <<>>]
<1>1. F!TwCall(w, x) = [w EXCEPT !.status = x]
  BY DEF F!TwCall, F!StatusAfter
<1> QED BY <1>1

LEMMA FirstBytes ==
  ASSUME NEW w, NEW x \in Sayings, w = [status |-> x, wrote |-> FALSE, out |-> <<>>]
  PROVE  F!TwCall(w, "data") = [status |-> x, wrote |-> TRUE, out |-> Spoken(x, 1)]
<1>1. PICK f : f = <<x>> \o <<"data">>
  OBVIOUS
<1>2. Spoken(x, 0) = <<x>>
  <2>1. 0 + 1 = 1
    OBVIOUS
  <2>2. PICK a : a = Spoken(x, 0)
    OBVIOUS
  <2>3. a \in Seq(Sayings) /\ Len(a) = 1 /\ a[1] = x
    BY <2>1, <2>2 DEF Spoken, Sayings
  <2> QED BY <2>2, <2>3
<1>3. f = Spoken(x, 1)
  <2>1. 0 \in Nat /\ 0 + 1 = 1
    OBVIOUS
  <2>2. Spoken(x, 0) \o <<"data">> = Spoken(x, 0 + 1)
    BY ONLY <2>1, SpokenMore, x \in Sayings
  <2> QED BY <1>1, <1>2, <2>1, <2>2
<1>4. F!TwCall(w, "data") = [w EXCEPT !.wrote = TRUE, !.out = f]
  BY <1>1 DEF F!TwCall
<1> QED BY <1>3, <1>4

LEMMA MoreBytes ==
  ASSUME NEW w, NEW x \in Sayings, NEW j \in Nat, w = [status |-> x, wrote |-> TRUE, out |-> Spoken(x, j)]
  PROVE  F!TwCall(w, "data") = [status |-> x, wrote |-> TRUE, out |-> Spoken(x, j + 1)]
<1>1. PICK f : f = Spoken(x, j) \o <<"data">>
  OBVIOUS
<1>2. f = Spoken(x, j + 1)
  BY <1>1, SpokenMore
<1>3. F!TwCall(w, "data") = [w EXCEPT !.wrote = TRUE, !.out = f]
  BY <1>1 DEF F!TwCall
<1> QED BY <1>2, <1>3

\* One more call.
LEMMA CallMore ==
  ASSUME NEW calls, NEW m \in Nat, m >= 1, \A i \in 1 .. m : calls[i] \in Sayings /\ calls[i] # "data",
         NEW k \in Nat, k >= 1, k > m => calls[k] = "data"
  PROVE  TwAt(calls, m, k) = F!TwCall(TwAt(calls, m, k - 1), calls[k])
<1>0. PICK w : w = TwAt(calls, m, k - 1)
  OBVIOUS
<1>1. CASE k <= m
  <2>1. calls[k] # "data" /\ k - 1 <= m /\ k # 0
    BY <1>1
  <2>2. PICK s : s = IF k - 1 = 0 THEN "200" ELSE calls[k - 1]
    OBVIOUS
  <2>3. w = [status |-> s, wrote |-> FALSE, out |-> <<>>]
    BY <1>0, <2>1, <2>2 DEF TwAt
  <2>4. TwAt(calls, m, k) = [status |-> calls[k], wrote |-> FALSE, out |-> <<>>]
    BY <1>1, <2>1 DEF TwAt
  <2>5. F!TwCall(w, calls[k]) = [status |-> calls[k], wrote |-> FALSE, out |-> <<>>]
    BY <2>1, <2>3, SetsStatus
  <2> QED BY <1>0, <2>4, <2>5
<1>2. CASE k > m
  <2>1. PICK x \in Sayings : x = calls[m]
    <3>1. m \in 1 .. m
      OBVIOUS
    <3> QED BY <3>1
  <2>2. TwAt(calls, m, k) = [status |-> x, wrote |-> TRUE, out |-> Spoken(x, k - m)]
    <3>1. ~(k <= m)
      BY <1>2
    <3> QED BY <2>1, <3>1 DEF TwAt
  <2>3. CASE k = m + 1
    <3>1. k - 1 <= m /\ k - 1 # 0 /\ k - 1 = m /\ k - m = 1
      BY <2>3
    <3>2. w = [status |-> x, wrote |-> FALSE, out |-> <<>>]
      BY <1>0, <2>1, <3>1 DEF TwAt
    <3>3. F!TwCall(w, "data") = [status |-> x, wrote |-> TRUE, out |-> Spoken(x, 1)]
      BY <3>2, FirstBytes
    <3> QED BY <1>0, <1>2, <2>2, <3>1, <3>3
  <2>4. CASE k # m + 1
    <3>1. PICK j \in Nat : j = k - 1 - m /\ j + 1 = k - m
      BY <1>2
    <3>2. w = [status |-> x, wrote |-> TRUE, out |-> Spoken(x, j)]
      <4>1. ~(k - 1 <= m) /\ (k - 1) - m = j
        BY <1>2, <2>4, <3>1
      <4> QED BY <1>0, <2>1, <4>1 DEF TwAt
    <3>3. F!TwCall(w, "data") = [status |-> x, wrote |-> TRUE, out |-> Spoken(x, j + 1)]
      BY <3>2, MoreBytes
    <3> QED BY <1>0, <1>2, <2>2, <3>1, <3>3
  <2> QED BY <2>3, <2>4
<1> QED BY <1>1, <1>2

\* What a tunnel's answer is of its calls, and the data that end them.
Closing(n) == [i \in 1 .. n |-> "data"]
Told(calls, o) ==
  /\ \E i \in DOMAIN calls :
       /\ Head(o) = calls[i] /\ calls[i] # "data"
       /\ \A j \in DOMAIN calls : j > i => calls[j] = "data"
  /\ \A i \in 2 .. Len(o) : o[i] = "data"

\* The status comes first, as it was set last.
LEMMA TunnelIs ==
  ASSUME NEW c \in F!Calls, NEW n \in Nat, NEW calls, calls = c \o Closing(n),
         NEW o, o = F!Tunnelled(calls).out, o # <<>>
  PROVE  Told(calls, o)
<1>1. PICK m \in Nat : m = Len(c) /\ m >= 1
  BY CallsAre, LenProperties
<1>2. c \in Seq(Sayings) /\ \A i \in 1 .. m : c[i] # "data"
  BY <1>1, CallsAre
<1>3. PICK d : d = [i \in 1 .. n |-> "data"]
  OBVIOUS
<1>3a. d = Closing(n)
  BY <1>3 DEF Closing
<1>4. d \in Seq(Sayings) /\ Len(d) = n /\ \A i \in 1 .. n : d[i] = "data"
  BY <1>3 DEF Sayings
<1>5. PICK size \in Nat : size = m + n
  OBVIOUS
<1>6. /\ calls \in Seq(Sayings) /\ Len(calls) = size
      /\ \A i \in 1 .. size : calls[i] = IF i <= m THEN c[i] ELSE d[i - m]
  <2>1. calls = c \o d
    BY <1>3a
  <2>2. calls \in Seq(Sayings) /\ Len(calls) = Len(c) + Len(d)
    BY ONLY <1>2, <1>4, <2>1, ConcatProperties
  <2>3. \A i \in 1 .. Len(c) + Len(d) : calls[i] = IF i <= Len(c) THEN c[i] ELSE d[i - Len(c)]
    BY ONLY <1>2, <1>4, <2>1, ConcatProperties
  <2> QED BY ONLY <1>1, <1>4, <1>5, <2>2, <2>3
<1>7. \A i \in 1 .. m : calls[i] \in Sayings /\ calls[i] # "data"
  <2>1. \A i \in 1 .. m : i \in 1 .. size /\ i <= m
    BY <1>5
  <2>2. \A i \in 1 .. size : calls[i] \in Sayings
    BY <1>6, ElementOfSeq
  <2> QED BY <1>2, <1>6, <2>1, <2>2
<1>8. ASSUME NEW i \in 1 .. size, i > m PROVE calls[i] = "data"
  <2>1. i - m \in 1 .. n
    BY <1>5, <1>8
  <2> QED BY <1>4, <1>6, <1>8, <2>1
<1> DEFINE Makes(w) == w = [k \in 0 .. size |-> IF k = 0 THEN F!NoTw ELSE F!TwCall(w[k - 1], calls[k])]
           g == [k \in 0 .. size |-> TwAt(calls, m, k)]
<1>9. F!Tunnelled(calls) = (CHOOSE w : Makes(w))[size]
  BY <1>6 DEF F!Tunnelled
<1>10. TwAt(calls, m, 0) = F!NoTw
  BY <1>1 DEF TwAt, F!NoTw
<1>11. ASSUME NEW k \in 1 .. size PROVE k \in Nat /\ k - 1 \in 0 .. size /\ k \in 0 .. size /\ TwAt(calls, m, k) = F!TwCall(TwAt(calls, m, k - 1), calls[k])
  <2>1. k \in Nat /\ k >= 1 /\ k - 1 \in 0 .. size /\ k \in 0 .. size
    BY <1>5
  <2>2. k > m => calls[k] = "data"
    BY <1>8
  <2>3. TwAt(calls, m, k) = F!TwCall(TwAt(calls, m, k - 1), calls[k])
    BY <1>1, <1>7, <2>1, <2>2, CallMore
  <2> QED BY <2>1, <2>3
<1>12. Makes(g)
  <2>1. ASSUME NEW k \in 0 .. size PROVE TwAt(calls, m, k) = IF k = 0 THEN F!NoTw ELSE F!TwCall(g[k - 1], calls[k])
    <3>1. CASE k = 0
      BY <1>10, <3>1
    <3>2. CASE k # 0
      <4>1. k \in 1 .. size
        BY <3>2
      <4>2. g[k - 1] = TwAt(calls, m, k - 1)
        BY <1>11, <4>1
      <4> QED BY <1>11, <3>2, <4>1, <4>2
    <3> QED BY <3>1, <3>2
  <2> QED BY <2>1
<1>13. PICK w : w = (CHOOSE v : Makes(v)) /\ Makes(w)
  BY <1>12
<1>14. w[size] = TwAt(calls, m, size)
  <2> DEFINE Off == {k \in 0 .. size : w[k] # TwAt(calls, m, k)}
  <2>1. SUFFICES ASSUME Off # {} PROVE FALSE
    <3>1. size \in 0 .. size
      BY <1>5
    <3> QED BY <3>1
  <2>2. Off \subseteq Nat
    OBVIOUS
  <2>3. PICK k \in Off : \A j \in Off : k <= j
    <3> HIDE DEF Off
    <3> QED BY <2>1, <2>2, Least
  <2>4. w[0] = F!NoTw /\ \A j \in 1 .. size : w[j] = F!TwCall(w[j - 1], calls[j])
    <3>1. w = [l \in 0 .. size |-> IF l = 0 THEN F!NoTw ELSE F!TwCall(w[l - 1], calls[l])]
      BY <1>13
    <3>2. 0 \in 0 .. size /\ \A j \in 1 .. size : j \in 0 .. size /\ j # 0
      BY <1>5
    <3> HIDE DEF Makes, Off
    <3> QED BY ONLY <3>1, <3>2
  <2>5. k \in 1 .. size
    BY <1>10, <2>3, <2>4
  <2>6. k - 1 \in 0 .. size /\ k - 1 \notin Off
    <3>1. k - 1 \in 0 .. size /\ ~(k <= k - 1)
      BY <2>5
    <3> HIDE DEF Off
    <3> QED BY <2>3, <3>1
  <2>7. w[k - 1] = TwAt(calls, m, k - 1)
    BY <2>6
  <2>8. w[k] = TwAt(calls, m, k)
    BY <1>11, <2>4, <2>5, <2>7
  <2> QED BY <2>3, <2>8
<1>15. o = TwAt(calls, m, size).out
  <2> HIDE DEF Makes
  <2> QED BY <1>9, <1>13, <1>14
<1>16. n # 0 /\ size > m
  <2>1. size <= m => TwAt(calls, m, size).out = <<>>
    BY DEF TwAt
  <2> QED BY <1>5, <1>15, <2>1
<1>17. PICK x \in Sayings : x = calls[m]
  BY <1>1, <1>7
<1>18. o = Spoken(x, n)
  <2>1. ~(size <= m) /\ size - m = n
    BY <1>5, <1>16
  <2> QED BY <1>15, <1>17, <2>1 DEF TwAt
<1>19. o \in Seq(Sayings) /\ Len(o) = n + 1 /\ o[1] = x /\ \A i \in 2 .. n + 1 : o[i] = "data"
  <2>1. o = [i \in 1 .. n + 1 |-> IF i = 1 THEN x ELSE "data"]
    BY <1>18 DEF Spoken
  <2>2. \A i \in 1 .. n + 1 : (IF i = 1 THEN x ELSE "data") \in Sayings
    BY DEF Sayings
  <2>3. n + 1 \in Nat /\ 1 \in 1 .. n + 1 /\ \A i \in 2 .. n + 1 : i \in 1 .. n + 1 /\ i # 1
    OBVIOUS
  <2>4. o \in Seq(Sayings) /\ Len(o) = n + 1
    BY <2>1, <2>2, <2>3
  <2> QED BY <2>1, <2>3, <2>4
<1>20. Head(o) = x
  BY <1>19
<1>21. DOMAIN calls = 1 .. size /\ m \in 1 .. size
  BY <1>1, <1>5, <1>6, LenProperties
<1>22. calls[m] # "data"
  BY <1>1, <1>7
<1> QED BY <1>8, <1>17, <1>19, <1>20, <1>21, <1>22 DEF Told

-----------------------------------------------------------------------------
(* Queries. *)

\* A query without a bad escape and without ";" has only parameters that parse: an
\* escape cannot reach over an "&".
LEMMA QueryIs ==
  ASSUME NEW s \in Seq(F!Chars), NEW o, o = F!cleanQueryParams(s)
  PROVE  o = {p \in F!Parameters(s) : F!Parses(p)}
<1>1. CASE F!Unclean(s)
  BY <1>1 DEF F!cleanQueryParams
<1>2. CASE ~F!Unclean(s)
  <2> DEFINE Hit == {i \in DOMAIN s : s[i] = ";" \/ F!BadEscape(s, i)}
             marks == {i \in 1 .. Len(s) : s[i] = "&"} \cup {0, Len(s) + 1}
  <2>1. Len(s) \in Nat /\ DOMAIN s = 1 .. Len(s) /\ \A i \in 1 .. Len(s) : s[i] \in F!Chars
    <3>1. Len(s) \in Nat /\ DOMAIN s = 1 .. Len(s)
      BY LenProperties
    <3> QED BY <3>1, ElementOfSeq
  <2>2. Hit = {}
    <3>1. SUFFICES ASSUME Hit # {} PROVE FALSE
      OBVIOUS
    <3>2. Hit \subseteq Nat /\ 0 \notin Hit
      <4>1. DOMAIN s \subseteq Nat /\ 0 \notin DOMAIN s
        BY <2>1
      <4>2. Hit \subseteq DOMAIN s
        OBVIOUS
      <4> HIDE DEF Hit
      <4> QED BY <4>1, <4>2
    <3>3. \E i \in Hit : \A j \in Hit : i <= j
      <4> HIDE DEF Hit
      <4> QED BY <3>1, <3>2, Least
    <3>4. F!Stops(s) = CHOOSE i \in Hit : \A j \in Hit : i <= j
      BY <3>1 DEF F!Stops
    <3>5. F!Stops(s) \in Hit
      <4> HIDE DEF Hit
      <4> QED BY <3>3, <3>4
    <3> HIDE DEF Hit
    <3> QED BY <1>2, <3>2, <3>5 DEF F!Unclean
  <2>3. ASSUME NEW p \in F!Parameters(s), p # <<>> PROVE F!Parses(p)
    <3>1. PICK v \in marks, w \in marks : v < w /\ p = SubSeq(s, v + 1, w - 1) /\ \A k \in marks : k <= v \/ k >= w
      BY <2>3 DEF F!Parameters
    <3>2. v \in Nat /\ w \in Nat /\ w <= Len(s) + 1 /\ (w <= Len(s) => s[w] = "&")
      BY <2>1, <3>1
    <3>3. \A i \in v + 1 .. w - 1 : i \in 1 .. Len(s)
      BY <2>1, <3>1, <3>2
    <3>4. /\ p \in Seq(F!Chars) /\ Len(p) = w - 1 - v
          /\ \A i \in 1 .. w - 1 - v : p[i] = s[v + i]
      <4>1. v + 1 \in Int /\ w - 1 \in Int /\ \A i \in v + 1 .. w - 1 : s[i] \in F!Chars
        BY <2>1, <3>2, <3>3
      <4>2. PICK f \in Int : f = v + 1
        BY <4>1
      <4>3. PICK t \in Int : t = w - 1
        BY <4>1
      <4>4. p = SubSeq(s, f, t) /\ \A i \in f .. t : s[i] \in F!Chars
        BY <3>1, <4>1, <4>2, <4>3
      <4>5. /\ p \in Seq(F!Chars) /\ Len(p) = IF f <= t THEN t - f + 1 ELSE 0
            /\ \A i \in 1 .. t - f + 1 : p[i] = s[f + i - 1]
        BY ONLY <4>4, f \in Int, t \in Int, SubSeqProperties
      <4>6. t - f + 1 = w - 1 - v /\ (f <= t \/ w - 1 - v = 0)
        BY <3>1, <3>2, <4>2, <4>3
      <4>7. \A i \in 1 .. w - 1 - v : f + i - 1 = v + i
        BY <3>2, <4>2
      <4> QED BY <4>5, <4>6, <4>7
    <3>5. DOMAIN p = 1 .. Len(p) /\ Len(p) \in Nat
      BY <3>4, LenProperties
    <3>6. ASSUME NEW i \in DOMAIN p PROVE p[i] # ";" /\ ~F!BadEscape(p, i)
      <4>1. i \in 1 .. w - 1 - v /\ v + i \in DOMAIN s /\ p[i] = s[v + i]
        BY <2>1, <3>2, <3>3, <3>4, <3>5
      <4>2. s[v + i] # ";" /\ ~F!BadEscape(s, v + i)
        BY <2>2, <4>1
      <4>3. ASSUME p[i] = "%" PROVE i + 2 <= Len(p) /\ p[i + 1] = "a" /\ p[i + 2] = "a"
        <5>1. v + i + 2 <= Len(s) /\ s[v + i + 1] = "a" /\ s[v + i + 2] = "a"
          BY <2>1, <3>2, <4>1, <4>2, <4>3 DEF F!BadEscape
        <5>2. w # v + i + 1 /\ w # v + i + 2
          BY <2>1, <3>2, <4>1, <5>1
        <5>3. i + 2 <= w - 1 - v /\ i + 1 \in 1 .. w - 1 - v /\ i + 2 \in 1 .. w - 1 - v
          <6>1. i \in Nat /\ i >= 1 /\ i <= w - 1 - v /\ v \in Nat /\ w \in Nat
            BY <3>2, <4>1
          <6>2. i + 2 <= w - 1 - v
            <7>1. w >= v + i + 1
              BY <6>1
            <7>2. w >= v + i + 3
              BY ONLY <5>2, <6>1, <7>1
            <7> QED BY ONLY <6>1, <7>2
          <6> QED BY <6>1, <6>2
        <5>4. v + (i + 1) = v + i + 1 /\ v + (i + 2) = v + i + 2
          BY <3>2, <4>1
        <5>5. p[i + 1] = s[v + i + 1] /\ p[i + 2] = s[v + i + 2]
          <6>1. PICK k \in 1 .. w - 1 - v : k = i + 1 /\ v + k = v + i + 1
            BY <5>3, <5>4
          <6>2. PICK l \in 1 .. w - 1 - v : l = i + 2 /\ v + l = v + i + 2
            BY <5>3, <5>4
          <6>3. p[k] = s[v + k] /\ p[l] = s[v + l]
            BY <3>4
          <6> QED BY <6>1, <6>2, <6>3
        <5> QED BY <3>4, <5>1, <5>3, <5>5
      <4>4. Len(p) \in Nat /\ i \in Nat
        BY <3>5
      <4>5. p[i] = "%" => ~(i + 2 > Len(p))
        BY <4>3, <4>4
      <4> QED BY <4>1, <4>2, <4>3, <4>5 DEF F!BadEscape
    <3> QED BY <2>3, <3>6 DEF F!Parses
  <2>4. \A p \in F!Parameters(s) : F!Parses(p) => p # <<>>
    BY DEF F!Parses
  <2> QED BY <1>2, <2>3, <2>4 DEF F!cleanQueryParams
<1> QED BY <1>1, <1>2

-----------------------------------------------------------------------------
(* Paths.  What is joined is an escaped path and what it stands for; the    *)
(* slashes that are joined are those of the escaped one.                    *)

Signs == {"/", "a", "%", "~", "-"}
PathLike(p) == p \in Seq(Signs) /\ Len(p) >= 1 /\ p[1] = "/"

LEMMA PathsAre == ASSUME NEW p \in F!Targets PROVE PathLike(p)
<1>1. ASSUME NEW n, NEW r \in F!SeqOf({"/", "a", "%"}, n) PROVE r \in Seq(Signs)
  BY DEF F!SeqOf, Signs
<1>2. ASSUME NEW h, h \in Seq(Signs), Len(h) >= 1, h[1] = "/", NEW t, t \in Seq(Signs), NEW c, c = h \o t
      PROVE  PathLike(c)
  <2>1. Len(h) \in Nat /\ Len(t) \in Nat
    BY <1>2, LenProperties
  <2>2. /\ c \in Seq(Signs) /\ Len(c) = Len(h) + Len(t)
        /\ \A i \in 1 .. Len(h) + Len(t) : c[i] = IF i <= Len(h) THEN h[i] ELSE t[i - Len(h)]
    BY <1>2, ConcatProperties
  <2>3. 1 \in 1 .. Len(h) + Len(t) /\ 1 <= Len(h) /\ Len(h) + Len(t) >= 1
    BY <1>2, <2>1
  <2>4. c[1] = h[1]
    BY <2>2, <2>3
  <2> QED BY <1>2, <2>2, <2>3, <2>4 DEF PathLike
<1>3. ASSUME NEW q \in F!Paths PROVE PathLike(q)
  <2>1. PICK r \in F!SeqOf({"/", "a", "%"}, MaxPath) : q = <<"/">> \o r
    BY DEF F!Paths
  <2>2. PICK h : h = <<"/">>
    OBVIOUS
  <2>3. h \in Seq(Signs) /\ Len(h) >= 1 /\ h[1] = "/"
    BY <2>2 DEF Signs
  <2>4. r \in Seq(Signs)
    BY <1>1
  <2> QED BY <1>2, <2>1, <2>2, <2>3, <2>4
<1>4. CASE p \in F!Paths
  BY <1>3, <1>4
<1>5. CASE p \notin F!Paths
  <2>1. PICK m \in {"~", "-"}, q \in F!Paths : p = <<"/", m>> \o q
    BY <1>5 DEF F!Targets
  <2>2. PICK h : h = <<"/", m>>
    OBVIOUS
  <2>3. h \in Seq(Signs) /\ Len(h) >= 1 /\ h[1] = "/"
    BY <2>2 DEF Signs
  <2>4. q \in Seq(Signs)
    BY <1>3 DEF PathLike
  <2> QED BY <1>2, <2>1, <2>2, <2>3, <2>4
<1> QED BY <1>4, <1>5

LEMMA DecodedIs ==
  ASSUME NEW p \in Seq(Signs), NEW d, d = F!Decoded(p)
  PROVE  /\ d \in Seq(Signs) /\ Len(d) = Len(p)
         /\ \A i \in 1 .. Len(p) : d[i] = IF p[i] = "%" THEN "/" ELSE p[i]
<1>1. Len(p) \in Nat /\ DOMAIN p = 1 .. Len(p)
  BY LenProperties
<1>2. d = [i \in 1 .. Len(p) |-> IF p[i] = "%" THEN "/" ELSE p[i]]
  BY <1>1 DEF F!Decoded
<1>3. \A i \in 1 .. Len(p) : p[i] \in Signs
  BY ElementOfSeq
<1>4. \A i \in 1 .. Len(p) : (IF p[i] = "%" THEN "/" ELSE p[i]) \in Signs
  BY <1>3 DEF Signs
<1> QED BY <1>1, <1>2, <1>4

\* What has no escapes stands for itself.
LEMMA NoEscape ==
  ASSUME NEW p \in Seq(Signs), \A i \in 1 .. Len(p) : p[i] # "%"
  PROVE  F!Decoded(p) = p
<1>1. PICK d : d = F!Decoded(p)
  OBVIOUS
<1>2. /\ d \in Seq(Signs) /\ Len(d) = Len(p)
      /\ \A i \in 1 .. Len(p) : d[i] = IF p[i] = "%" THEN "/" ELSE p[i]
  BY <1>1, DecodedIs
<1>3. d = p
  BY <1>2, SeqEqual
<1> QED BY <1>1, <1>3

LEMMA DecodedTwice ==
  ASSUME NEW p \in Seq(Signs)
  PROVE  F!Decoded(F!Decoded(p)) = F!Decoded(p)
<1>1. PICK d : d = F!Decoded(p)
  OBVIOUS
<1>2. /\ d \in Seq(Signs) /\ Len(d) = Len(p)
      /\ \A i \in 1 .. Len(p) : d[i] = IF p[i] = "%" THEN "/" ELSE p[i]
  BY <1>1, DecodedIs
<1>3. F!Decoded(d) = d
  BY <1>2, NoEscape
<1> QED BY <1>1, <1>3

LEMMA CutIs ==
  ASSUME NEW p \in Seq(Signs), NEW n \in 0 .. Len(p), NEW c, c = F!Cut(p, n)
  PROVE  /\ c \in Seq(Signs) /\ Len(c) = Len(p) - n
         /\ \A i \in 1 .. Len(p) - n : c[i] = p[n + i]
<1>1. Len(p) \in Nat /\ \A i \in 1 .. Len(p) : p[i] \in Signs
  BY LenProperties, ElementOfSeq
<1>2. PICK f \in Int : f = n + 1
  OBVIOUS
<1>3. PICK t \in Int : t = Len(p)
  BY <1>1
<1>4. c = SubSeq(p, f, t) /\ \A i \in f .. t : p[i] \in Signs
  BY <1>1, <1>2, <1>3 DEF F!Cut
<1>5. /\ c \in Seq(Signs) /\ Len(c) = IF f <= t THEN t - f + 1 ELSE 0
      /\ \A i \in 1 .. t - f + 1 : c[i] = p[f + i - 1]
  BY ONLY <1>4, f \in Int, t \in Int, SubSeqProperties
<1>6. t - f + 1 = Len(p) - n /\ (f <= t \/ Len(p) - n = 0)
  BY <1>1, <1>2, <1>3
<1>7. \A i \in 1 .. Len(p) - n : f + i - 1 = n + i
  BY <1>1, <1>2
<1> QED BY <1>5, <1>6, <1>7

LEMMA DecodedCut ==
  ASSUME NEW p \in Seq(Signs), NEW n \in 0 .. Len(p)
  PROVE  F!Decoded(F!Cut(p, n)) = F!Cut(F!Decoded(p), n)
<1>1. PICK c : c = F!Cut(p, n)
  OBVIOUS
<1>2. PICK d : d = F!Decoded(p)
  OBVIOUS
<1>3. PICK e : e = F!Decoded(c)
  OBVIOUS
<1>4. PICK f : f = F!Cut(d, n)
  OBVIOUS
<1>5. /\ c \in Seq(Signs) /\ Len(c) = Len(p) - n
      /\ \A i \in 1 .. Len(p) - n : c[i] = p[n + i]
  BY <1>1, CutIs
<1>6. /\ d \in Seq(Signs) /\ Len(d) = Len(p)
      /\ \A i \in 1 .. Len(p) : d[i] = IF p[i] = "%" THEN "/" ELSE p[i]
  BY <1>2, DecodedIs
<1>7. /\ e \in Seq(Signs) /\ Len(e) = Len(c)
      /\ \A i \in 1 .. Len(c) : e[i] = IF c[i] = "%" THEN "/" ELSE c[i]
  BY <1>3, <1>5, DecodedIs
<1>8. /\ f \in Seq(Signs) /\ Len(f) = Len(d) - n
      /\ \A i \in 1 .. Len(d) - n : f[i] = d[n + i]
  <2>1. d \in Seq(Signs) /\ n \in 0 .. Len(d) /\ f = F!Cut(d, n)
    BY <1>4, <1>6
  <2> QED BY ONLY <2>1, CutIs
<1>9. Len(p) \in Nat /\ \A i \in 1 .. Len(p) - n : n + i \in 1 .. Len(p)
  BY LenProperties
<1>10. ASSUME NEW i \in 1 .. Len(e) PROVE e[i] = f[i]
  BY <1>5, <1>6, <1>7, <1>8, <1>9, <1>10
<1>11. e = f
  <2>1. e \in Seq(Signs) /\ f \in Seq(Signs) /\ Len(e) = Len(f)
    BY <1>5, <1>6, <1>7, <1>8
  <2> QED BY ONLY <2>1, <1>10, SeqEqual
<1> QED BY <1>1, <1>2, <1>3, <1>4, <1>11

LEMMA DecodedBoth ==
  ASSUME NEW p \in Seq(Signs), NEW q \in Seq(Signs)
  PROVE  F!Decoded(p \o q) = F!Decoded(p) \o F!Decoded(q)
<1>1. PICK c : c = p \o q
  OBVIOUS
<1>2. PICK d : d = F!Decoded(p)
  OBVIOUS
<1>3. PICK e : e = F!Decoded(q)
  OBVIOUS
<1>4. PICK f : f = F!Decoded(c)
  OBVIOUS
<1>5. PICK g : g = d \o e
  OBVIOUS
<1>6. Len(p) \in Nat /\ Len(q) \in Nat
  BY LenProperties
<1>7. /\ c \in Seq(Signs) /\ Len(c) = Len(p) + Len(q)
      /\ \A i \in 1 .. Len(p) + Len(q) : c[i] = IF i <= Len(p) THEN p[i] ELSE q[i - Len(p)]
  BY <1>1, ConcatProperties
<1>8. /\ d \in Seq(Signs) /\ Len(d) = Len(p)
      /\ \A i \in 1 .. Len(p) : d[i] = IF p[i] = "%" THEN "/" ELSE p[i]
  BY <1>2, DecodedIs
<1>9. /\ e \in Seq(Signs) /\ Len(e) = Len(q)
      /\ \A i \in 1 .. Len(q) : e[i] = IF q[i] = "%" THEN "/" ELSE q[i]
  BY <1>3, DecodedIs
<1>10. /\ f \in Seq(Signs) /\ Len(f) = Len(c)
       /\ \A i \in 1 .. Len(c) : f[i] = IF c[i] = "%" THEN "/" ELSE c[i]
  BY <1>4, <1>7, DecodedIs
<1>11. /\ g \in Seq(Signs) /\ Len(g) = Len(d) + Len(e)
       /\ \A i \in 1 .. Len(d) + Len(e) : g[i] = IF i <= Len(d) THEN d[i] ELSE e[i - Len(d)]
  <2>1. d \in Seq(Signs) /\ e \in Seq(Signs) /\ g = d \o e
    BY <1>5, <1>8, <1>9
  <2> QED BY ONLY <2>1, ConcatProperties
<1>12. ASSUME NEW i \in 1 .. Len(f) PROVE f[i] = g[i]
  <2>1. CASE i <= Len(p)
    <3>1. i \in 1 .. Len(p)
      BY <1>6, <2>1
    <3>2. f[i] = IF p[i] = "%" THEN "/" ELSE p[i]
      BY <1>7, <1>10, <2>1
    <3>3. g[i] = d[i]
      BY <1>7, <1>8, <1>9, <1>10, <1>11, <2>1
    <3> QED BY <1>8, <3>1, <3>2, <3>3
  <2>2. CASE ~(i <= Len(p))
    <3>1. PICK k \in 1 .. Len(q) : k = i - Len(p)
      BY <1>6, <1>7, <1>10, <2>2
    <3>2. f[i] = IF q[k] = "%" THEN "/" ELSE q[k]
      BY <1>7, <1>10, <2>2, <3>1
    <3>3. g[i] = e[k]
      BY <1>7, <1>8, <1>9, <1>10, <1>11, <2>2, <3>1
    <3> QED BY <1>9, <3>1, <3>2, <3>3
  <2> QED BY <2>1, <2>2
<1>13. f = g
  BY <1>7, <1>8, <1>9, <1>10, <1>11, <1>12, SeqEqual
<1> QED BY <1>1, <1>2, <1>3, <1>4, <1>5, <1>13

\* EscapedPath gives back what was parsed.
LEMMA EscapedUrl ==
  ASSUME NEW p \in Seq(Signs)
  PROVE  F!Escaped(F!Url(p)) = p
<1>1. PICK u : u = F!Url(p)
  OBVIOUS
<1>2. PICK d : d = F!Decoded(p)
  OBVIOUS
<1>3. u.path = d /\ u.raw = IF \E i \in DOMAIN p : p[i] = "%" THEN p ELSE <<>>
  BY <1>1, <1>2 DEF F!Url
<1>4. CASE \E i \in DOMAIN p : p[i] = "%"
  <2>1. u.raw = p /\ p # <<>>
    BY <1>3, <1>4
  <2> QED BY <1>1, <1>2, <1>3, <2>1 DEF F!Escaped
<1>5. CASE ~ \E i \in DOMAIN p : p[i] = "%"
  <2>1. u.raw = <<>>
    BY <1>3, <1>5
  <2>2. \A i \in 1 .. Len(p) : p[i] # "%"
    BY <1>5, LenProperties
  <2>3. d = p
    BY <1>2, <2>2, NoEscape
  <2> QED BY <1>1, <1>3, <2>1, <2>3 DEF F!Escaped
<1> QED BY <1>4, <1>5

\* A path that is decoded is the one of what EscapedPath gives.
LEMMA EscapedDecodes ==
  ASSUME NEW u, F!Decoded(u.path) = u.path
  PROVE  F!Decoded(F!Escaped(u)) = u.path
BY DEF F!Escaped

\* The front of the joint.
Foremost(a) == IF F!EndsSlash(a) THEN F!Front(a) ELSE a

\* The slash of the front is the one that is left out.
LEMMA OneSlash ==
  ASSUME NEW a, PathLike(a), NEW b, PathLike(b), F!EndsSlash(a)
  PROVE  /\ a \o F!Cut(b, 1) = F!Front(a) \o b
         /\ a \o F!Cut(b, 1) \in Seq(Signs)
<1>1. /\ a \in Seq(Signs) /\ Len(a) \in Nat /\ Len(a) >= 1 /\ \A i \in 1 .. Len(a) : a[i] \in Signs
      /\ b \in Seq(Signs) /\ Len(b) \in Nat /\ Len(b) >= 1 /\ b[1] = "/"
  BY LenProperties, ElementOfSeq DEF PathLike
<1>2. a[Len(a)] = "/"
  BY DEF F!EndsSlash, F!Last
<1>3. PICK f : f = F!Front(a)
  OBVIOUS
<1>4. PICK t \in Int : t = Len(a) - 1
  BY <1>1
<1>5. /\ f \in Seq(Signs) /\ Len(f) = Len(a) - 1 /\ \A i \in 1 .. Len(a) - 1 : f[i] = a[i]
  <2>1. PICK x \in Int : x = 1
    OBVIOUS
  <2>2. f = SubSeq(a, x, t) /\ \A i \in x .. t : a[i] \in Signs
    BY <1>1, <1>3, <1>4, <2>1 DEF F!Front
  <2>3. /\ f \in Seq(Signs) /\ Len(f) = IF x <= t THEN t - x + 1 ELSE 0
        /\ \A i \in 1 .. t - x + 1 : f[i] = a[x + i - 1]
    BY ONLY <2>2, x \in Int, t \in Int, SubSeqProperties
  <2>4. t - x + 1 = Len(a) - 1 /\ (x <= t \/ Len(a) - 1 = 0) /\ \A i \in 1 .. Len(a) - 1 : x + i - 1 = i
    BY <1>1, <1>4, <2>1
  <2> QED BY <2>3, <2>4
<1>6. PICK c : c = F!Cut(b, 1)
  OBVIOUS
<1>7. c \in Seq(Signs) /\ Len(c) = Len(b) - 1 /\ \A i \in 1 .. Len(b) - 1 : c[i] = b[1 + i]
  <2>1. PICK x \in 0 .. Len(b) : x = 1
    BY <1>1
  <2>2. b \in Seq(Signs) /\ c = F!Cut(b, x)
    BY <1>1, <1>6, <2>1
  <2>3. /\ c \in Seq(Signs) /\ Len(c) = Len(b) - x
        /\ \A i \in 1 .. Len(b) - x : c[i] = b[x + i]
    BY ONLY <2>2, x \in 0 .. Len(b), CutIs
  <2> QED BY <2>1, <2>3
<1>8. PICK l : l = a \o c
  OBVIOUS
<1>9. PICK r : r = f \o b
  OBVIOUS
<1>10. /\ l \in Seq(Signs) /\ Len(l) = Len(a) + Len(c)
       /\ \A i \in 1 .. Len(a) + Len(c) : l[i] = IF i <= Len(a) THEN a[i] ELSE c[i - Len(a)]
  <2>1. a \in Seq(Signs) /\ c \in Seq(Signs) /\ l = a \o c
    BY <1>1, <1>7, <1>8
  <2> QED BY ONLY <2>1, ConcatProperties
<1>11. /\ r \in Seq(Signs) /\ Len(r) = Len(f) + Len(b)
       /\ \A i \in 1 .. Len(f) + Len(b) : r[i] = IF i <= Len(f) THEN f[i] ELSE b[i - Len(f)]
  <2>1. f \in Seq(Signs) /\ b \in Seq(Signs) /\ r = f \o b
    BY <1>1, <1>5, <1>9
  <2> QED BY ONLY <2>1, ConcatProperties
<1>12. PICK n \in Nat : n = Len(a) + Len(b) - 1
  BY <1>1
<1>13. Len(l) = n /\ Len(r) = n /\ Len(a) + Len(c) = n /\ Len(f) + Len(b) = n
  BY <1>1, <1>5, <1>7, <1>10, <1>11, <1>12
<1>14. ASSUME NEW i \in 1 .. Len(l) PROVE l[i] = r[i]
  <2>1. i \in 1 .. n
    BY <1>13
  <2>2. CASE i < Len(a)
    <3>1. i \in 1 .. Len(a) - 1 /\ i <= Len(a) /\ i <= Len(f)
      BY <1>1, <1>5, <2>1, <2>2
    <3>2. l[i] = a[i]
      BY <1>10, <1>13, <2>1, <3>1
    <3>3. r[i] = f[i]
      BY <1>11, <1>13, <2>1, <3>1
    <3> QED BY <1>5, <3>1, <3>2, <3>3
  <2>3. CASE i = Len(a)
    <3>1. i <= Len(a) /\ ~(i <= Len(f)) /\ i - Len(f) = 1
      BY <1>1, <1>5, <2>3
    <3>2. l[i] = a[i]
      BY <1>10, <1>13, <2>1, <3>1
    <3>3. r[i] = b[1]
      BY <1>11, <1>13, <2>1, <3>1
    <3> QED BY <1>1, <1>2, <2>3, <3>2, <3>3
  <2>4. CASE i > Len(a)
    <3>1. PICK k \in 1 .. Len(b) - 1 : k = i - Len(a)
      <4>1. i - Len(a) \in 1 .. Len(b) - 1
        <5>1. i \in Nat /\ i <= n /\ i >= Len(a) + 1
          BY <1>1, <2>1, <2>4
        <5>2. Len(a) \in Nat /\ Len(b) \in Nat
          BY <1>1
        <5> QED BY ONLY <1>12, <5>1, <5>2
      <4> QED BY <4>1
    <3>2. ~(i <= Len(a)) /\ ~(i <= Len(f)) /\ i - Len(f) = 1 + k
      BY <1>1, <1>5, <2>1, <2>4, <3>1
    <3>3. l[i] = c[k]
      BY <1>10, <1>13, <2>1, <3>1, <3>2
    <3>4. r[i] = b[1 + k]
      BY <1>11, <1>13, <2>1, <3>2
    <3> QED BY <1>7, <3>1, <3>3, <3>4
  <2> QED BY <1>1, <2>1, <2>2, <2>3, <2>4
<1>15. l = r
  <2>1. l \in Seq(Signs) /\ r \in Seq(Signs) /\ Len(l) = Len(r)
    BY <1>10, <1>11, <1>13
  <2> QED BY ONLY <2>1, <1>14, SeqEqual
<1> QED BY <1>3, <1>6, <1>8, <1>9, <1>10, <1>15

\* Two paths are joined by one slash, and what is escaped stays so.
LEMMA JoinedIs ==
  ASSUME NEW a, PathLike(a), NEW b, PathLike(b), NEW o, o = F!joinURLPath(F!Url(a), F!Url(b))
  PROVE  F!Decoded(F!Escaped(o)) = o.path /\ F!Escaped(o) = Foremost(a) \o b
<1>1. a \in Seq(Signs) /\ b \in Seq(Signs) /\ F!StartsSlash(b) /\ 1 \in 0 .. Len(b)
  <2>1. Len(b) \in Nat /\ Len(b) >= 1 /\ b[1] = "/" /\ b # <<>> /\ a \in Seq(Signs) /\ b \in Seq(Signs)
    BY LenProperties, EmptySeq DEF PathLike
  <2>2. Head(b) = "/"
    BY <2>1
  <2> QED BY <2>1, <2>2 DEF F!StartsSlash
<1>2. PICK c : c = F!Cut(b, 1)
  OBVIOUS
<1>3. PICK u : u = F!Url(a)
  OBVIOUS
<1>4. PICK v : v = F!Url(b)
  OBVIOUS
<1>5. F!Escaped(u) = a /\ F!Escaped(v) = b
  BY <1>1, <1>3, <1>4, EscapedUrl
<1>6. u.path = F!Decoded(a) /\ v.path = F!Decoded(b)
  BY <1>3, <1>4 DEF F!Url
<1>7. PICK z : z = IF F!EndsSlash(a) THEN a \o c ELSE a \o b
  OBVIOUS
<1>8. z = Foremost(a) \o b /\ z \in Seq(Signs)
  <2>1. CASE F!EndsSlash(a)
    BY <1>2, <1>7, <2>1, OneSlash DEF Foremost
  <2>2. CASE ~F!EndsSlash(a)
    <3>1. a \o b \in Seq(Signs)
      BY <1>1, ConcatProperties
    <3> QED BY <1>7, <2>2, <3>1 DEF Foremost
  <2> QED BY <2>1, <2>2
<1>9. c \in Seq(Signs) /\ F!Decoded(c) = F!Cut(F!Decoded(b), 1)
  BY <1>1, <1>2, CutIs, DecodedCut
<1>10. F!Decoded(z) = IF F!EndsSlash(a) THEN F!Decoded(a) \o F!Cut(F!Decoded(b), 1) ELSE F!Decoded(a) \o F!Decoded(b)
  <2>1. F!Decoded(a \o c) = F!Decoded(a) \o F!Decoded(c)
    BY <1>1, <1>9, DecodedBoth
  <2>2. F!Decoded(a \o b) = F!Decoded(a) \o F!Decoded(b)
    BY <1>1, DecodedBoth
  <2> QED BY <1>7, <1>9, <2>1, <2>2
<1>11. CASE u.raw = <<>> /\ v.raw = <<>>
  <2>1. u.path = a /\ v.path = b
    BY <1>5, <1>11 DEF F!Escaped
  <2>2. F!singleJoiningSlash(a, b) = z
    BY <1>1, <1>2, <1>7 DEF F!singleJoiningSlash
  <2>3. o = [path |-> z, raw |-> <<>>]
    BY <1>3, <1>4, <1>11, <2>1, <2>2 DEF F!joinURLPath
  <2>4. F!Decoded(z) = z
    BY <1>2, <1>6, <1>7, <1>10, <2>1
  <2>5. F!Escaped(o) = z /\ o.path = z
    BY <2>3 DEF F!Escaped
  <2> QED BY <1>8, <2>4, <2>5
<1>12. CASE ~(u.raw = <<>> /\ v.raw = <<>>)
  <2>1. o = IF F!EndsSlash(a)
            THEN [path |-> u.path \o F!Cut(v.path, 1), raw |-> a \o c]
            ELSE [path |-> u.path \o v.path, raw |-> a \o b]
    BY <1>1, <1>2, <1>3, <1>4, <1>5, <1>12 DEF F!joinURLPath, F!SlashOf
  <2>2. o.raw = z /\ o.path = F!Decoded(z)
    BY <1>6, <1>7, <1>10, <2>1
  <2>3. z # <<>>
    <3>1. Len(a) \in Nat /\ Len(b) \in Nat /\ Len(c) \in Nat /\ Len(a) >= 1
      BY <1>1, <1>9, LenProperties DEF PathLike
    <3>2. Len(a \o c) = Len(a) + Len(c) /\ Len(a \o b) = Len(a) + Len(b)
      BY <1>1, <1>9, ConcatProperties
    <3>3. Len(z) # 0
      BY <1>7, <3>1, <3>2
    <3> QED BY <3>3
  <2> QED BY <1>8, <2>2, <2>3 DEF F!Escaped
<1> QED BY <1>11, <1>12

LEMMA PrefixIs ==
  ASSUME NEW p \in Seq(Signs), NEW m \in Signs, F!IsPrefix(<<"/", m, "/">>, p)
  PROVE  Len(p) \in Nat /\ Len(p) > 2 /\ p[2] = m /\ p[3] = "/"
<1>1. PICK t : t = <<"/", m, "/">>
  OBVIOUS
<1>2. t \in Seq(Signs) /\ Len(t) = 3 /\ t[2] = m /\ t[3] = "/"
  BY <1>1 DEF Signs
<1>3. Len(p) \in Nat /\ 3 <= Len(p) /\ SubSeq(t, 1, 3) = SubSeq(p, 1, 3)
  BY <1>1, <1>2, LenProperties DEF F!IsPrefix
<1>4. ASSUME NEW q, q \in Seq(Signs), Len(q) \in Nat, 3 <= Len(q)
      PROVE  SubSeq(q, 1, 3)[2] = q[2] /\ SubSeq(q, 1, 3)[3] = q[3]
  <2>1. PICK f \in Int : f = 1
    OBVIOUS
  <2>2. PICK l \in Int : l = 3
    OBVIOUS
  <2>3. \A i \in f .. l : q[i] \in Signs
    <3>1. \A i \in f .. l : i \in 1 .. Len(q)
      BY <1>4, <2>1, <2>2
    <3> QED BY <1>4, <3>1, ElementOfSeq
  <2>4. \A i \in 1 .. l - f + 1 : SubSeq(q, f, l)[i] = q[f + i - 1]
    BY ONLY <2>3, f \in Int, l \in Int, SubSeqProperties
  <2>5. l - f + 1 = 3 /\ f + 2 - 1 = 2 /\ f + 3 - 1 = 3 /\ 2 \in 1 .. 3 /\ 3 \in 1 .. 3
    BY <2>1, <2>2
  <2> QED BY <2>1, <2>2, <2>4, <2>5
<1>5. Len(t) \in Nat /\ 3 <= Len(t)
  BY <1>2
<1>6. SubSeq(t, 1, 3)[2] = t[2] /\ SubSeq(t, 1, 3)[3] = t[3]
  BY <1>2, <1>4, <1>5
<1>7. SubSeq(p, 1, 3)[2] = p[2] /\ SubSeq(p, 1, 3)[3] = p[3]
  BY <1>3, <1>4
<1> QED BY <1>2, <1>3, <1>6, <1>7

\* What is cut off a decoded path leaves a decoded one.
LEMMA StillDecoded ==
  ASSUME NEW p \in Seq(Signs), F!Decoded(p) = p, NEW n \in 0 .. Len(p)
  PROVE  F!Decoded(F!Cut(p, n)) = F!Cut(p, n)
BY DecodedCut

LEMMA TrimmedIs ==
  ASSUME NEW p \in Seq(Signs), F!Decoded(p) = p, NEW q \in Seq(Signs)
  PROVE  F!Decoded(F!TrimPrefix(p, q)) = F!TrimPrefix(p, q)
<1>1. CASE F!IsPrefix(q, p)
  <2>1. Len(q) \in 0 .. Len(p)
    BY <1>1, LenProperties DEF F!IsPrefix
  <2>2. F!Decoded(F!Cut(p, Len(q))) = F!Cut(p, Len(q))
    BY <2>1, StillDecoded
  <2> QED BY <1>1, <2>2 DEF F!TrimPrefix
<1>2. CASE ~F!IsPrefix(q, p)
  BY <1>2 DEF F!TrimPrefix
<1> QED BY <1>1, <1>2

\* What joinURLPath2 does beyond joinURLPath, as PathJoined has it.
Special(a, v) ==
  v = 2 /\ Len(F!Url(a).path) > 2 /\ F!Url(a).path[2] \in {"~", "-"} /\ F!Url(a).path[3] = "/"

LEMMA PathIs ==
  ASSUME NEW a, a \in F!Targets, NEW b, b \in F!Paths, NEW v \in {1, 2},
         NEW o, o = IF v = 1 THEN F!joinURLPath(F!Url(a), F!Url(b)) ELSE F!joinURLPath2(F!Url(a), F!Url(b))
  PROVE  /\ F!Decoded(F!Escaped(o)) = o.path
         /\ ~Special(a, v) => F!Escaped(o) = Foremost(a) \o b
<1>1. PathLike(a) /\ PathLike(b)
  <2>1. b \in F!Targets
    BY DEF F!Targets
  <2> QED BY <2>1, PathsAre
<1>2. CASE o = F!joinURLPath(F!Url(a), F!Url(b))
  BY <1>1, <1>2, JoinedIs
<1>3. CASE v = 2 /\ o # F!joinURLPath(F!Url(a), F!Url(b))
  <2>1. PICK d : d = F!Decoded(a)
    OBVIOUS
  <2>2. PICK e : e = F!Decoded(b)
    OBVIOUS
  <2>3. d \in Seq(Signs) /\ e \in Seq(Signs) /\ F!Decoded(d) = d /\ F!Decoded(e) = e
    BY <1>1, <2>1, <2>2, DecodedIs, DecodedTwice DEF PathLike
  <2>4. F!Url(a).path = d /\ F!Url(b).path = e
    BY <2>1, <2>2 DEF F!Url
  <2>5. o = F!joinURLPath2(F!Url(a), F!Url(b))
    BY <1>3
  <2>6. PICK m \in {"~", "-"} : F!IsPrefix(<<"/", m, "/">>, d)
    BY <1>3, <2>4, <2>5 DEF F!joinURLPath2
  <2>7. Len(d) \in Nat /\ Len(d) > 2 /\ d[2] = m /\ d[3] = "/"
    <3>1. m \in Signs
      BY DEF Signs
    <3> QED BY <2>3, <2>6, <3>1, PrefixIs
  <2>8. Special(a, v)
    BY <1>3, <2>4, <2>7 DEF Special
  <2>9. PICK c : c = F!Cut(d, 2)
    OBVIOUS
  <2>10. c \in Seq(Signs) /\ F!Decoded(c) = c
    <3>1. PICK x \in 0 .. Len(d) : x = 2
      BY <2>7
    <3>2. F!Cut(d, x) \in Seq(Signs)
      BY <2>3, CutIs
    <3>3. F!Decoded(F!Cut(d, x)) = F!Cut(d, x)
      BY <2>3, StillDecoded
    <3> QED BY <2>9, <3>1, <3>2, <3>3
  <2>11. o.path = c \/ o.path = F!TrimPrefix(e, c)
    BY <1>3, <2>4, <2>5, <2>9 DEF F!joinURLPath2
  <2>12. F!Decoded(o.path) = o.path
    BY <2>3, <2>10, <2>11, TrimmedIs
  <2> QED BY <2>8, <2>12, EscapedDecodes
<1> QED BY <1>2, <1>3

-----------------------------------------------------------------------------
(* What is done with a job does not change it, and once it is done its      *)
(* result is what becomes of it.                                            *)

FwdInv ==
  /\ done \in BOOLEAN
  /\ \/ \E h \in F!Headers, mode \in F!Modes :
          /\ job = [kind |-> "request", header |-> h, mode |-> mode]
          /\ done => out = IF F!IsPrint(F!upgradeType(h)) THEN F!Outgoing(h, mode) ELSE <<>>
     \/ \E h \in {F!Sent({"Upgrade"}, t, "websocket", "") : t \in {{}, {"Upgrade"}}}, b \in F!Headers, s \in BOOLEAN :
          /\ job = [kind |-> "answer", asked |-> h, header |-> b, switches |-> s]
          /\ done => out = F!Answered(h, s, b)
     \/ \E a \in F!Targets, b \in F!Paths, v \in {1, 2} :
          /\ job = [kind |-> "path", a |-> a, b |-> b, v |-> v]
          /\ done => out = IF v = 1 THEN F!joinURLPath(F!Url(a), F!Url(b)) ELSE F!joinURLPath2(F!Url(a), F!Url(b))
     \/ \E s \in Seq(F!Chars) :
          /\ job = [kind |-> "query", s |-> s]
          /\ done => out = F!cleanQueryParams(s)
     \/ \E c \in F!Calls, n \in Nat :
          /\ job = [kind |-> "tunnel", calls |-> c \o [i \in 1 .. n |-> "data"]]
          /\ done => out = F!Tunnelled(c \o [i \in 1 .. n |-> "data"]).out

LEMMA FwdInit == ASSUME MaxWrites \in Nat PROVE F!Init => FwdInv
<1>1. SUFFICES ASSUME F!Init PROVE FwdInv
  OBVIOUS
<1>2. done = FALSE
  BY <1>1 DEF F!Init
<1>3. CASE \E h \in F!Headers, mode \in F!Modes : job = [kind |-> "request", header |-> h, mode |-> mode]
  BY <1>2, <1>3, Zenon DEF FwdInv
<1>4. CASE \E h \in {F!Sent({"Upgrade"}, t, "websocket", "") : t \in {{}, {"Upgrade"}}}, b \in F!Headers, s \in BOOLEAN :
             job = [kind |-> "answer", asked |-> h, header |-> b, switches |-> s]
  BY <1>2, <1>4, Zenon DEF FwdInv
<1>5. CASE \E a \in F!Targets, b \in F!Paths, v \in {1, 2} : job = [kind |-> "path", a |-> a, b |-> b, v |-> v]
  BY <1>2, <1>5, Zenon DEF FwdInv
<1>6. CASE \E s \in F!SeqOf(F!Chars, MaxQuery) : job = [kind |-> "query", s |-> s]
  <2>1. F!SeqOf(F!Chars, MaxQuery) \subseteq Seq(F!Chars)
    BY DEF F!SeqOf
  <2> QED BY <1>2, <1>6, <2>1, Zenon DEF FwdInv
<1>7. CASE \E c \in F!Calls, n \in 0 .. MaxWrites : job = [kind |-> "tunnel", calls |-> c \o [i \in 1 .. n |-> "data"]]
  <2>1. 0 .. MaxWrites \subseteq Nat
    OBVIOUS
  <2> QED BY <1>2, <1>7, <2>1, Zenon DEF FwdInv
<1> QED BY <1>1, <1>3, <1>4, <1>5, <1>6, <1>7, Zenon DEF F!Init

\* What is to be said of a step that does a job of one kind: the others do nothing.
LEMMA FwdDoes ==
  ASSUME F!Next
  PROVE  /\ job' = job /\ done' = TRUE
         /\ \/ job.kind = "request" /\ F!Request
            \/ job.kind = "answer" /\ F!Answer
            \/ job.kind = "path" /\ F!Path
            \/ job.kind = "query" /\ F!Query
            \/ job.kind = "tunnel" /\ F!Tunnel
BY Zenon DEF F!Next, F!Request, F!Answer, F!Path, F!Query, F!Tunnel, F!Do

LEMMA FwdNext == FwdInv /\ [F!Next]_fVars => FwdInv'
<1>1. SUFFICES ASSUME FwdInv, [F!Next]_fVars PROVE FwdInv'
  OBVIOUS
<1>2. CASE UNCHANGED fVars
  <2>1. job' = job /\ out' = out /\ done' = done
    BY <1>2 DEF fVars
  <2> QED BY <1>1, <2>1, Zenon DEF FwdInv
<1>3. CASE F!Next
  <2>1. job' = job /\ done' = TRUE
    BY <1>3, FwdDoes
  <2>2. /\ job.kind = "request" => F!Request
        /\ job.kind = "answer" => F!Answer
        /\ job.kind = "path" => F!Path
        /\ job.kind = "query" => F!Query
        /\ job.kind = "tunnel" => F!Tunnel
    BY <1>3, FwdDoes
  <2>3. ASSUME NEW h \in F!Headers, NEW mode \in F!Modes,
               job = [kind |-> "request", header |-> h, mode |-> mode]
        PROVE  FwdInv'
    <3>1. job.kind = "request" /\ job.header = h /\ job.mode = mode
      BY <2>3
    <3>2. out' = IF F!IsPrint(F!upgradeType(h)) THEN F!Outgoing(h, mode) ELSE <<>>
      BY <2>2, <3>1 DEF F!Request
    <3>3. job' = [kind |-> "request", header |-> h, mode |-> mode]
      BY <2>1, <2>3
    <3> QED BY <2>1, <3>2, <3>3, Zenon DEF FwdInv
  <2>4. ASSUME NEW h \in {F!Sent({"Upgrade"}, t, "websocket", "") : t \in {{}, {"Upgrade"}}},
               NEW b \in F!Headers, NEW s \in BOOLEAN,
               job = [kind |-> "answer", asked |-> h, header |-> b, switches |-> s]
        PROVE  FwdInv'
    <3>1. job.kind = "answer" /\ job.asked = h /\ job.header = b /\ job.switches = s
      BY <2>4
    <3>2. out' = F!Answered(h, s, b)
      BY <2>2, <3>1 DEF F!Answer
    <3>3. job' = [kind |-> "answer", asked |-> h, header |-> b, switches |-> s]
      BY <2>1, <2>4
    <3> QED BY <2>1, <3>2, <3>3, Zenon DEF FwdInv
  <2>5. ASSUME NEW a \in F!Targets, NEW b \in F!Paths, NEW v \in {1, 2},
               job = [kind |-> "path", a |-> a, b |-> b, v |-> v]
        PROVE  FwdInv'
    <3>1. job.kind = "path" /\ job.a = a /\ job.b = b /\ job.v = v
      BY <2>5
    <3>2. out' = IF v = 1 THEN F!joinURLPath(F!Url(a), F!Url(b)) ELSE F!joinURLPath2(F!Url(a), F!Url(b))
      BY <2>2, <3>1 DEF F!Path
    <3>3. job' = [kind |-> "path", a |-> a, b |-> b, v |-> v]
      BY <2>1, <2>5
    <3> QED BY <2>1, <3>2, <3>3, Zenon DEF FwdInv
  <2>6. ASSUME NEW s \in Seq(F!Chars), job = [kind |-> "query", s |-> s]
        PROVE  FwdInv'
    <3>1. job.kind = "query" /\ job.s = s
      BY <2>6
    <3>2. out' = F!cleanQueryParams(s)
      BY <2>2, <3>1 DEF F!Query
    <3>3. job' = [kind |-> "query", s |-> s]
      BY <2>1, <2>6
    <3> QED BY <2>1, <3>2, <3>3, Zenon DEF FwdInv
  <2>7. ASSUME NEW c \in F!Calls, NEW n \in Nat,
               job = [kind |-> "tunnel", calls |-> c \o [i \in 1 .. n |-> "data"]]
        PROVE  FwdInv'
    <3>1. job.kind = "tunnel" /\ job.calls = c \o [i \in 1 .. n |-> "data"]
      BY <2>7
    <3>2. out' = F!Tunnelled(c \o [i \in 1 .. n |-> "data"]).out
      BY <2>2, <3>1 DEF F!Tunnel
    <3>3. job' = [kind |-> "tunnel", calls |-> c \o [i \in 1 .. n |-> "data"]]
      BY <2>1, <2>7
    <3> QED BY <2>1, <3>2, <3>3, Zenon DEF FwdInv
  <2> QED BY <1>1, <2>3, <2>4, <2>5, <2>6, <2>7, Zenon DEF FwdInv
<1> QED BY <1>1, <1>2, <1>3

LEMMA FwdHolds == FwdInv => Forwarded
<1>1. SUFFICES ASSUME FwdInv PROVE F!EndToEnd /\ F!PathJoined /\ F!QueryCleaned /\ F!StatusFirst
  BY DEF Forwarded
<1>2. CASE ~done
  BY <1>2 DEF F!EndToEnd, F!PathJoined, F!QueryCleaned, F!StatusFirst, F!Ended
<1>3. ASSUME done, NEW h \in F!Headers, NEW mode \in F!Modes,
             job = [kind |-> "request", header |-> h, mode |-> mode],
             out = IF F!IsPrint(F!upgradeType(h)) THEN F!Outgoing(h, mode) ELSE <<>>
      PROVE  F!EndToEnd /\ F!PathJoined /\ F!QueryCleaned /\ F!StatusFirst
  <2>1. job.kind = "request" /\ job.header = h /\ job.mode = mode
    BY <1>3
  <2>2. out # <<>> => OnItsWay(h, mode, out)
    BY <1>3, RequestIs
  <2>3. F!EndToEnd
    BY <2>1, <2>2 DEF F!EndToEnd, F!Ended, OnItsWay
  <2> QED BY <2>1, <2>3 DEF F!PathJoined, F!QueryCleaned, F!StatusFirst, F!Ended
<1>4. ASSUME done, NEW h, NEW b \in F!Headers, NEW s \in BOOLEAN,
             job = [kind |-> "answer", asked |-> h, header |-> b, switches |-> s],
             out = F!Answered(h, s, b)
      PROVE  F!EndToEnd /\ F!PathJoined /\ F!QueryCleaned /\ F!StatusFirst
  <2>1. job.kind = "answer" /\ job.asked = h /\ job.header = b /\ job.switches = s
    BY <1>4
  <2>2. PICK o : o = out
    OBVIOUS
  <2>3. IF s
        THEN o = <<>> \/ (F!upgradeType(o) = F!upgradeType(h) /\ o = b)
        ELSE DOMAIN o \cap (F!hopHeaders \cup F!Named(b)) = {}
    BY <1>4, <2>2, AnswerIs
  <2>4. F!EndToEnd
    BY <2>1, <2>2, <2>3 DEF F!EndToEnd, F!Ended
  <2> QED BY <2>1, <2>4 DEF F!PathJoined, F!QueryCleaned, F!StatusFirst, F!Ended
<1>5. ASSUME done, NEW a \in F!Targets, NEW b \in F!Paths, NEW v \in {1, 2},
             job = [kind |-> "path", a |-> a, b |-> b, v |-> v],
             out = IF v = 1 THEN F!joinURLPath(F!Url(a), F!Url(b)) ELSE F!joinURLPath2(F!Url(a), F!Url(b))
      PROVE  F!EndToEnd /\ F!PathJoined /\ F!QueryCleaned /\ F!StatusFirst
  <2>1. job.kind = "path" /\ job.a = a /\ job.b = b /\ job.v = v
    BY <1>5
  <2>2. PICK o : o = out
    OBVIOUS
  <2>3. F!Decoded(F!Escaped(o)) = o.path /\ (~Special(a, v) => F!Escaped(o) = Foremost(a) \o b)
    BY <1>5, <2>2, PathIs
  <2>4. F!PathJoined
    BY <2>1, <2>2, <2>3 DEF F!PathJoined, Special, Foremost
  <2> QED BY <2>1, <2>4 DEF F!EndToEnd, F!QueryCleaned, F!StatusFirst, F!Ended
<1>6. ASSUME done, NEW s \in Seq(F!Chars), job = [kind |-> "query", s |-> s], out = F!cleanQueryParams(s)
      PROVE  F!EndToEnd /\ F!PathJoined /\ F!QueryCleaned /\ F!StatusFirst
  <2>1. job.kind = "query" /\ job.s = s
    BY <1>6
  <2>2. out = {p \in F!Parameters(s) : F!Parses(p)}
    BY <1>6, QueryIs
  <2>3. F!QueryCleaned
    BY <2>1, <2>2 DEF F!QueryCleaned
  <2> QED BY <2>1, <2>3 DEF F!EndToEnd, F!PathJoined, F!StatusFirst, F!Ended
<1>7. ASSUME done, NEW c \in F!Calls, NEW n \in Nat,
             job = [kind |-> "tunnel", calls |-> c \o [i \in 1 .. n |-> "data"]],
             out = F!Tunnelled(c \o [i \in 1 .. n |-> "data"]).out
      PROVE  F!EndToEnd /\ F!PathJoined /\ F!QueryCleaned /\ F!StatusFirst
  <2>1. PICK calls : calls = c \o [i \in 1 .. n |-> "data"]
    OBVIOUS
  <2>2. job.kind = "tunnel" /\ job.calls = calls
    BY <1>7, <2>1
  <2>3. PICK o : o = out
    OBVIOUS
  <2>4. o # <<>> => Told(calls, o)
    <3>1. calls = c \o Closing(n)
      BY <2>1 DEF Closing
    <3>2. F!Tunnelled(calls).out = F!Tunnelled(c \o [i \in 1 .. n |-> "data"]).out
      BY <2>1
    <3>3. o = F!Tunnelled(calls).out
      BY <1>7, <2>3, <3>2
    <3>4. c \in F!Calls /\ n \in Nat
      BY <1>7
    <3> QED BY ONLY <3>1, <3>3, <3>4, TunnelIs
  <2>5. F!StatusFirst
    BY <2>2, <2>3, <2>4 DEF F!StatusFirst, Told
  <2> QED BY <2>2, <2>5 DEF F!EndToEnd, F!PathJoined, F!QueryCleaned, F!Ended
<1> QED BY <1>1, <1>2, <1>3, <1>4, <1>5, <1>6, <1>7, Zenon DEF FwdInv

\* Whatever the header fields, and however long the paths, the query and the calls of a
\* tunnel: what reaches the other side is what was meant, hop-by-hop fields aside, paths
\* joined by one slash, parameters those that parse, and the last status before the body
\* (reverse.go and forward.go).
THEOREM SaidAsMeant == ASSUME MaxWrites \in Nat PROVE Spec => []Forwarded
<1>1. Init => FwdInv
  BY FwdInit DEF Init
<1>2. FwdInv /\ [Next]_gatewayVars => FwdInv'
  <2>1. [Next]_gatewayVars => [F!Next]_fVars
    BY DEF Next, gatewayVars
  <2> QED BY <2>1, FwdNext
<1> QED BY <1>1, <1>2, FwdHolds, PTL DEF Spec
===============================================================================
