------------------------------- MODULE GwRecord -------------------------------
(***************************************************************************)
(* The gateway of z/ze/gtw and the records of its requests.  A request     *)
(* takes a Record0 from the pool, ServeHTTP (gateway.go) fills it on its   *)
(* way, and a goroutine of its own saves it, cleans it and puts it back.   *)
(* A 101 response starts another such goroutine early (record_fn.go:80),   *)
(* beside ServeHTTP and beside the first one.                              *)
(*                                                                         *)
(* A field of a record is abstracted to the request that wrote it.  Go     *)
(* promises nothing of two goroutines that use a record at once; here each *)
(* of their steps is atomic, which is kinder than the build.               *)
(***************************************************************************)
EXTENDS Integers, FiniteSets

CONSTANTS
  Reqs,      \* the requests, a finite set
  Nobody     \* the writer of an empty field, not a request

VARIABLES
  pc,        \* where ServeHTTP is
  rec,       \* the record the request holds, 0 before and after
  body,      \* the kind of its body
  pool,      \* the records in the sync.Pool
  made,      \* how many were made
  field,     \* the fields of the records: who wrote them
  aborted,   \* Record0._abort
  job,       \* where the goroutines of the request are
  of,        \* the record they work on
  saved,     \* history: what they saved
  wrote      \* history: the fields ServeHTTP wrote for the request

reqVars  == <<pc, rec, body>>
poolVars == <<pool, made>>
jobVars  == <<job, of, saved>>
vars == <<reqVars, poolVars, field, aborted, jobVars, wrote>>

Recs   == 1 .. Cardinality(Reqs)
Fields == {"request", "reqBody", "outRequest", "response", "respBody"}
Bodies == {"none", "json", "big json", "other"}
Jobs   == {"ahead", "recycle"}
Empty  == [f \in Fields |-> Nobody]

TypeOK ==
  /\ pc \in [Reqs -> {"new", "logRequest", "authz", "direct", "roundTrip",
                      "modify", "upgrade", "copy", "over"}]
  /\ rec \in [Reqs -> Recs \cup {0}]
  /\ body \in [Reqs -> Bodies]
  /\ pool \subseteq 1 .. made /\ made \in 0 .. Cardinality(Reqs)
  /\ field \in [Recs -> [Fields -> Reqs \cup {Nobody}]]
  /\ aborted \in [Recs -> BOOLEAN]
  /\ job \in [Reqs -> [Jobs -> {"none", "check", "set", "save", "clean", "put",
                                "done"}]]
  /\ of \in [Reqs -> Recs \cup {0}]
  /\ saved \in [Reqs -> [Jobs -> [Fields -> Reqs \cup {Nobody}] \cup {<<>>}]]
  /\ wrote \in [Reqs -> SUBSET Fields]

Init ==
  /\ pc = [q \in Reqs |-> "new"]
  /\ rec = [q \in Reqs |-> 0]
  /\ body \in [Reqs -> Bodies]
  /\ pool = {}
  /\ made = 0
  /\ field = [r \in Recs |-> Empty]
  /\ aborted = [r \in Recs |-> FALSE]
  /\ job = [q \in Reqs |-> [j \in Jobs |-> "none"]]
  /\ of = [q \in Reqs |-> 0]
  /\ saved = [q \in Reqs |-> [j \in Jobs |-> <<>>]]
  /\ wrote = [q \in Reqs |-> {}]

Goto(q, label) == pc' = [pc EXCEPT ![q] = label]

\* The request writes some fields of its record.
Log(q, fs) ==
  /\ field' = [field EXCEPT ![rec[q]] = [f \in Fields |-> IF f \in fs THEN q ELSE @[f]]]
  /\ wrote' = [wrote EXCEPT ![q] = @ \cup fs]

\* ServeHTTP returns or panics: the deferred Recycle starts the goroutine that
\* saves the record and puts it back.
Leave(q) ==
  /\ Goto(q, "over")
  /\ rec' = [rec EXCEPT ![q] = 0]
  /\ of' = [of EXCEPT ![q] = rec[q]]
  /\ job' = [job EXCEPT ![q]["recycle"] = "check"]

-----------------------------------------------------------------------------
(* ServeHTTP.                                                               *)

Available == pool

\* NewRecord: any record of the pool, which may also make a new one.
Take(q) ==
  /\ pc[q] = "new"
  /\ Goto(q, "logRequest")
  /\ \/ \E r \in Available :
          /\ rec' = [rec EXCEPT ![q] = r]
          /\ pool' = pool \ {r}
          /\ UNCHANGED made
     \/ /\ made < Cardinality(Reqs)
        /\ rec' = [rec EXCEPT ![q] = made + 1]
        /\ made' = made + 1
        /\ UNCHANGED pool
  /\ UNCHANGED <<body, field, aborted, jobVars, wrote>>

\* LogRequest: a body that is neither JSON nor XML is noted in RespBody, a big
\* one is read like any other.
BodyFields(kind) ==
  IF kind \in {"json", "big json"} THEN {"reqBody"}
  ELSE IF kind = "other" THEN {"respBody"} ELSE {}

LogRequest(q) ==
  /\ pc[q] = "logRequest"
  /\ Log(q, {"request"} \cup BodyFields(body[q]))
  /\ Goto(q, "authz")
  /\ UNCHANGED <<rec, body, poolVars, aborted, jobVars>>

\* The Authorizer answers for itself, or lets the request pass.
Refused(q) ==
  /\ pc[q] = "authz"
  /\ Leave(q)
  /\ UNCHANGED <<body, poolVars, field, aborted, saved, wrote>>

Passed(q) ==
  /\ pc[q] = "authz"
  /\ Goto(q, "direct")
  /\ UNCHANGED <<rec, body, poolVars, field, aborted, jobVars, wrote>>

\* SetRespBody and the ErrorHandler: neither or both of Director and Rewrite,
\* an upgrade to an unprintable protocol, or a round trip that fails.
Fails(q) ==
  /\ pc[q] \in {"direct", "roundTrip"}
  /\ Log(q, {"respBody"})
  /\ Leave(q)
  /\ UNCHANGED <<body, poolVars, aborted, saved>>

\* The outgoing request is complete and noted.
LogOutRequest(q) ==
  /\ pc[q] = "direct"
  /\ Log(q, {"outRequest"})
  /\ Goto(q, "roundTrip")
  /\ UNCHANGED <<rec, body, poolVars, aborted, jobVars>>

\* RoundTrip returned a response.
LogResponse(q) ==
  /\ pc[q] = "roundTrip"
  /\ Log(q, {"response"})
  /\ Goto(q, "modify")
  /\ UNCHANGED <<rec, body, poolVars, aborted, jobVars>>

\* It is a 101: RespBody says so and the goroutine is started.
LogUpgrade(q) ==
  /\ pc[q] = "roundTrip"
  /\ Log(q, {"response", "respBody"})
  /\ Goto(q, "upgrade")
  /\ of' = [of EXCEPT ![q] = rec[q]]
  /\ job' = [job EXCEPT ![q]["ahead"] = "check"]
  /\ UNCHANGED <<rec, body, poolVars, aborted, saved>>

\* ModifyResponse fails, with or without an upgrade; or the upgraded connection
\* is over, or could not be made.
Rejected(q) ==
  /\ pc[q] \in {"modify", "upgrade"}
  /\ Leave(q)
  /\ UNCHANGED <<body, poolVars, field, aborted, saved, wrote>>

WriteHeader(q) ==
  /\ pc[q] = "modify"
  /\ Goto(q, "copy")
  /\ UNCHANGED <<rec, body, poolVars, field, aborted, jobVars, wrote>>

\* CopyResponse2 copied the body, or failed; LogRespBody may have nothing to
\* note (an empty body).  ServeHTTP returns or panics with ErrAbortHandler.
CopyResponse(q) ==
  /\ pc[q] = "copy"
  /\ \/ Log(q, {"respBody"})
     \/ UNCHANGED <<field, wrote>>
  /\ Leave(q)
  /\ UNCHANGED <<body, poolVars, aborted, saved>>

-----------------------------------------------------------------------------
(* _track and _recycle, in a goroutine j of the request q.                  *)

At(q, j, label) == job[q][j] = label
Turn(q, j, label) == job' = [job EXCEPT ![q][j] = label]

\* What follows _track: _recycle goes on to Put.
AfterTrack(j) == IF j = "recycle" THEN "put" ELSE "done"

\* Mutant: a field is not cleaned.
Cleaned_KeepsBody(r) ==
  [field EXCEPT ![r] = [f \in Fields |-> IF f = "respBody" THEN @[f] ELSE Nobody]]

Stops(r) == aborted[r]
Cleaned(r) == [field EXCEPT ![r] = Empty]

Check(q, j) ==
  /\ At(q, j, "check")
  /\ Turn(q, j, IF Stops(of[q]) THEN AfterTrack(j) ELSE "set")
  /\ UNCHANGED <<reqVars, poolVars, field, aborted, of, saved, wrote>>

SetAbort(q, j) ==
  /\ At(q, j, "set")
  /\ aborted' = [aborted EXCEPT ![of[q]] = TRUE]
  /\ Turn(q, j, "save")
  /\ UNCHANGED <<reqVars, poolVars, field, of, saved, wrote>>

Save(q, j) ==
  /\ At(q, j, "save")
  /\ saved' = [saved EXCEPT ![q][j] = field[of[q]]]
  /\ Turn(q, j, "clean")
  /\ UNCHANGED <<reqVars, poolVars, field, aborted, of, wrote>>

\* Cleanup, which resets _abort too.
Clean(q, j) ==
  /\ At(q, j, "clean")
  /\ field' = Cleaned(of[q])
  /\ aborted' = [aborted EXCEPT ![of[q]] = FALSE]
  /\ Turn(q, j, AfterTrack(j))
  /\ UNCHANGED <<reqVars, poolVars, of, saved, wrote>>

\* Put cleans once more.
Put(q) ==
  /\ At(q, "recycle", "put")
  /\ field' = Cleaned(of[q])
  /\ aborted' = [aborted EXCEPT ![of[q]] = FALSE]
  /\ pool' = pool \cup {of[q]}
  /\ Turn(q, "recycle", "done")
  /\ UNCHANGED <<reqVars, made, of, saved, wrote>>

\* Every request is through.
Over ==
  /\ \A q \in Reqs : At(q, "recycle", "done")
  /\ UNCHANGED vars

Serve(q) ==
  \/ Take(q) \/ LogRequest(q) \/ Refused(q) \/ Passed(q) \/ Fails(q)
  \/ LogOutRequest(q) \/ LogResponse(q) \/ LogUpgrade(q) \/ Rejected(q)
  \/ WriteHeader(q) \/ CopyResponse(q)

Work(q, j) == Check(q, j) \/ SetAbort(q, j) \/ Save(q, j) \/ Clean(q, j)

Next ==
  \/ \E q \in Reqs : Serve(q) \/ Put(q) \/ \E j \in Jobs : Work(q, j)
  \/ Over

Spec == Init /\ [][Next]_vars

-----------------------------------------------------------------------------
(* Properties. *)

\* The request still uses its record: ServeHTTP, or the goroutine that recycles.
Uses(q, r) ==
  \/ rec[q] = r
  \/ of[q] = r /\ job[q]["recycle"] \notin {"none", "done"}

\* A record has one owner, a request or the pool, whatever the goroutines do;
\* the pool, and so the next request, never sees a field of an earlier one.
OneOwner ==
  \A r \in Recs :
    /\ \A q, p \in Reqs : Uses(q, r) /\ Uses(p, r) => q = p
    /\ r \in pool => field[r] = Empty /\ \A q \in Reqs : ~Uses(q, r)

\* As long as no backend answers with 101 every request is saved exactly as it
\* went: all ServeHTTP noted of it, nothing of any other request, and none goes
\* unsaved.  (After a 101 the early goroutine may still clean the record when
\* the next request has it.)
SavedWhole ==
  (\A q \in Reqs : job[q]["ahead"] = "none") =>
    \A q \in Reqs :
      At(q, "recycle", "done") =>
        saved[q]["recycle"] = [f \in Fields |-> IF f \in wrote[q] THEN q ELSE Nobody]

===============================================================================
