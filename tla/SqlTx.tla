---------------------------------- MODULE SqlTx ----------------------------------
(***************************************************************************)
(* Transactions and statements of the sql mapping (z/ze/sqlx/kmod.go,       *)
(* krepo.go, ksql.go): a function runs within WithTx or a Dsc's WithTx,     *)
(* calls others that do the same, and every step may fail.                  *)
(***************************************************************************)
EXTENDS Naturals, Sequences

CONSTANTS
  MaxStmts,  \* statements of a run
  MaxDepth   \* functions within each other

VARIABLES
  via,     \* the outermost call: "WithTx" or "DscWithTx"
  depth,   \* functions that run
  tx,      \* the transaction: "none", "open", "committed", "undone"
  ends,    \* how often it was ended
  done,    \* statements: what kind, whether it failed, whether it took effect
  rows,    \* cursors that are open
  error,   \* the error that the innermost function has got, or none
  passed,  \* every error so far was passed on by the function that got it
  ret      \* what the outermost call gave: "none", "nil", "error", "panic"

txVars == <<via, depth, tx, ends, done, rows, error, passed, ret>>

Init ==
  /\ via \in {"WithTx", "DscWithTx"}
  /\ depth = 0 /\ tx = "none" /\ ends = 0 /\ done = <<>> /\ rows = 0
  /\ error = FALSE /\ passed = TRUE /\ ret = "none"

-----------------------------------------------------------------------------
(* A transaction. *)

\* No Beginx, or it fails: the function is not called.
BeginFails ==
  /\ tx = "none" /\ ret = "none" /\ ret' = "error"
  /\ UNCHANGED <<via, depth, tx, ends, done, rows, error, passed>>

Begin ==
  /\ tx = "none" /\ ret = "none"
  /\ tx' = "open" /\ depth' = 1
  /\ UNCHANGED <<via, ends, done, rows, error, passed, ret>>

\* The Dsc a function is given has the transaction itself, and WithTx of it only
\* calls the next function.
Nested ==
  /\ via = "DscWithTx" /\ depth \in 1 .. MaxDepth - 1 /\ ~error
  /\ depth' = depth + 1
  /\ UNCHANGED <<via, tx, ends, done, rows, error, passed, ret>>

\* A function that is not the outermost one returns: its error is that of its caller.
NestedReturns ==
  /\ depth > 1 /\ depth' = depth - 1
  /\ UNCHANGED <<via, tx, ends, done, rows, error, passed, ret>>

\* A function may go on after an error, whoever gave it.
Ignore ==
  /\ depth > 0 /\ error /\ error' = FALSE /\ passed' = FALSE
  /\ UNCHANGED <<via, depth, tx, ends, done, rows, ret>>

\* Mutant: what the deferred function does is not seen by the caller.
Returned_Local(commits) == "nil"

\* DscWithTx names its result, so the error of Commit is returned; WithTx does
\* not, and the error is lost.
Returned(commits) == IF commits \/ via = "WithTx" THEN "nil" ELSE "error"

\* The outermost function returns.
Finish ==
  /\ depth = 1 /\ depth' = 0 /\ ends' = ends + 1
  /\ IF error
     THEN tx' = "undone" /\ ret' = "error"
     ELSE \E commits \in BOOLEAN : tx' = (IF commits THEN "committed" ELSE "undone") /\ ret' = Returned(commits)
  /\ UNCHANGED <<via, done, rows, error, passed>>

\* recover in the deferred function.
Recovered == TRUE

\* Any function panics: the transaction is rolled back and the panic goes on.
Panics ==
  /\ depth > 0 /\ depth' = 0 /\ ret' = "panic"
  /\ tx' = (IF Recovered THEN "undone" ELSE tx) /\ ends' = (IF Recovered THEN ends + 1 ELSE ends)
  /\ UNCHANGED <<via, done, rows, error, passed>>

-----------------------------------------------------------------------------
(* Statements of the function that runs. *)

Runs == depth > 0 /\ ~error /\ Len(done) < MaxStmts
Did(kind, failed, effect, reported) ==
  /\ Runs
  /\ done' = Append(done, [kind |-> kind, failed |-> failed, effect |-> effect])
  /\ error' = reported
  /\ UNCHANGED <<via, depth, tx, ends, rows, passed, ret>>

\* No data, no condition, no id, or the Patch that every statement goes through fails.
NotSent == Did("none", TRUE, FALSE, TRUE)

ExecError(failed) == failed

\* InsertBy, UpdateBy, DeleteBy; an id that cannot be had is an error after the effect.
Exec ==
  \/ \E failed \in BOOLEAN : Did("exec", failed, ~failed, ExecError(failed))
  \/ Did("insert", TRUE, TRUE, TRUE)

\* Ksql_ of anything but a select: the error of Exec is kept in a variable of the
\* branch, and what is returned is nil.
KsqlExec == \E failed \in BOOLEAN : Did("ksql", failed, ~failed, FALSE)

\* GetBy and SelectBy: the statement fails, or no row is there for GetBy.
QueryFails == Did("select", TRUE, FALSE, TRUE)

\* The deferred Close.
ClosedOn(scanned) == TRUE

Select ==
  /\ Runs
  /\ \E scanned \in BOOLEAN :
       /\ error' = ~scanned /\ rows' = (IF ClosedOn(scanned) THEN rows ELSE rows + 1)
       /\ done' = Append(done, [kind |-> "select", failed |-> ~scanned, effect |-> FALSE])
  /\ UNCHANGED <<via, depth, tx, ends, passed, ret>>

\* Ksql_ of a select: what it is built from, the count before it or the statement
\* fails; a page after the last row needs no rows.
KsqlSelect == QueryFails \/ Did("select", FALSE, FALSE, FALSE) \/ Select

Next ==
  \/ BeginFails \/ Begin \/ Nested \/ NestedReturns \/ Ignore \/ Finish \/ Panics
  \/ NotSent \/ Exec \/ KsqlExec \/ QueryFails \/ Select \/ KsqlSelect

Spec == Init /\ [][Next]_txVars

-----------------------------------------------------------------------------
(* Properties. *)

Failed(kinds) == \E i \in DOMAIN done : done[i].failed /\ done[i].kind \in kinds

\* A Dsc's WithTx gives nil exactly when the transaction was committed, also when
\* Commit fails; what was undone is never called done (kmod.go, DscWithTx).
AsReturned ==
  /\ (via = "DscWithTx" /\ ret = "nil") => tx = "committed"
  /\ ret \in {"error", "panic"} => tx # "committed"

\* If the functions pass on every error, a transaction with a statement that failed
\* is not committed; those of Ksql_ are left out, whose errors are never seen.
FailedUndone == (tx = "committed" /\ passed) => ~Failed({"none", "exec", "insert", "select"})

\* However the outermost function ends, the transaction has ended exactly once, and
\* no cursor is left open on its connection.
EndsOnce == ret # "none" => (tx # "open" /\ ends = (IF tx = "none" THEN 0 ELSE 1) /\ rows = 0)
=============================================================================
