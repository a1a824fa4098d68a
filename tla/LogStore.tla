------------------------------ MODULE LogStore ------------------------------
(***************************************************************************)
(* The rolling log files of z/ze/log/file: Writer keeps one RollingFile    *)
(* per file key in a sync.Map; a RollingFile appends under its flock, goes *)
(* on to the next index when the file is full, and is recycled by a timer  *)
(* callback that runs WITHOUT the lock.  The callers are the goroutines    *)
(* AddRecord of app/kwlog2 leaves behind, each writing a batch of records, *)
(* or goroutines logging through one lAppLog.                              *)
(*                                                                         *)
(* A Writer gives Writex a record in two parts (its prefix and the rest),  *)
(* each a call of os.File.Write; a line of an lAppLog is one such call, on *)
(* a file opened to append.  What the flock covers is split into the steps *)
(* the callback can come between.  Seconds are abstracted: idle[o] says    *)
(* that alive <= now, which the clock may make true at any time.           *)
(***************************************************************************)
EXTENDS Integers, Sequences, FiniteSets

CONSTANTS
  Posts,     \* the goroutines that write
  NoPost,    \* nobody: the lock is free
  Batch,     \* bound: how many records each of them writes
  MaxSize,   \* the size limit of a file, in parts
  Kinds,     \* what the posts write through: "writer", a Writer, or "applog",
             \* one lAppLog, whose key is the date
  Days,      \* bound: how many days pass
  Tagged,    \* TRUE: the requests carry a tag (record.go:105)
  Faults,    \* TRUE: stat or open of a log file may fail
  Closes     \* TRUE: Close is called once

ASSUME LogStoreAssumption ==
  /\ IsFiniteSet(Posts) /\ Posts # {}
  /\ NoPost \notin Posts
  /\ Batch \in Nat \ {0}
  /\ MaxSize \in Nat \ {0}
  /\ Days \in Nat \ {0}
  /\ Kinds \subseteq {"writer", "applog"}
  /\ {Tagged, Faults, Closes} \subseteq BOOLEAN

VARIABLES
  disk,      \* the files: what was appended to the file <<prefix, index>>
  entry,     \* Writer.files: the RollingFile of a key, 0 for none
  made,      \* how many RollingFiles exist
  okey,      \* RollingFile.FileKey
  fp,        \* RollingFile.fpkey, 0 for the empty string
  idx,       \* RollingFile.Index
  hdl,       \* RollingFile.FileHdl, 0 for nil
  tmr,       \* RollingFile.timer, 0 for nil
  idle,      \* RollingFile.alive <= now
  lock,      \* RollingFile.flock
  hfile,     \* the file a handle was opened on
  opened,    \* how many handles were opened
  isopen,    \* the handles that are not closed
  towner,    \* the RollingFile whose _close a timer calls, 0: no such timer
  armed,     \* the timers that are running
  cb,        \* where the callback of the timer is
  pc, rec, obj, want, part,   \* the locals of a post
  outcome,   \* what became of each record
  kind,      \* which of Kinds this is
  today,     \* the date
  closer,    \* where the call of Close is
  crashed    \* a nil timer was dereferenced: the program is dead

storeVars == <<entry, made, okey>>
keyVars   == <<fp, idx>>
hdlVars   == <<hfile, opened, isopen>>
tmrVars   == <<towner, armed>>
dayVars   == <<kind, today>>
postVars  == <<pc, rec, obj, want, part, outcome>>
vars == <<disk, storeVars, keyVars, hdl, tmr, idle, lock, hdlVars, tmrVars,
          cb, postVars, dayVars, closer, crashed>>

Dated   == kind = "applog"
Total   == Cardinality(Posts) * Batch
Ids     == 1 .. Total                     \* of RollingFiles, handles, timers
Ref     == 0 .. Total
Files   == (1 .. Days) \X (1 .. Total + 1)
Parts   == 2
LastPart == IF Dated THEN 1 ELSE Parts
Pieces  == Posts \X (1 .. Batch) \X (1 .. Parts)

\* record.go:105-114 rewrites ktag for every record of a batch: the i-th gets
\* i slashes in front.  The keys differ, filepath.Join makes one path of them.
Keys     == 1 .. Batch
KeyOf(i) == IF Tagged THEN i ELSE 1

TypeOK ==
  /\ disk \in [Files -> Seq(Pieces)]
  /\ entry \in [Keys -> Ref] /\ made \in Ref
  /\ okey \in [Ids -> Keys]
  /\ fp \in [Ids -> 0 .. Days] /\ idx \in [Ids -> 0 .. Total + 1]
  /\ hdl \in [Ids -> Ref] /\ tmr \in [Ids -> Ref]
  /\ idle \in [Ids -> BOOLEAN] /\ lock \in [Ids -> Posts \cup {NoPost}]
  /\ hfile \in [Ids -> Files] /\ opened \in Ref /\ isopen \subseteq Ids
  /\ towner \in [Ids -> Ref] /\ armed \subseteq Ids
  /\ cb \in [Ids -> {"off", "alive", "forget", "close", "nil", "drop"}]
  /\ pc \in [Posts -> {"load", "store", "lock", "stat", "scan", "write",
                       "check", "end"}]
  /\ rec \in [Posts -> 1 .. Batch] /\ obj \in [Posts -> Ref]
  /\ want \in [Posts -> 0 .. Days] /\ part \in [Posts -> 1 .. Parts]
  /\ outcome \in [Posts -> [1 .. Batch -> {"pending", "ok", "lost"}]]
  /\ kind \in Kinds /\ today \in 1 .. Days
  /\ closer \in {"none", "closing", "closed"}
  /\ crashed \in BOOLEAN

Init ==
  /\ kind \in Kinds
  /\ disk = [f \in Files |-> <<>>]
  /\ entry = [k \in Keys |-> 0]
  /\ made = IF Dated THEN 1 ELSE 0
  /\ okey = [o \in Ids |-> 1]
  /\ fp = [o \in Ids |-> 0]
  /\ idx = [o \in Ids |-> 0]
  /\ hdl = [o \in Ids |-> 0]
  /\ tmr = [o \in Ids |-> 0]
  /\ idle = [o \in Ids |-> TRUE]
  /\ lock = [o \in Ids |-> NoPost]
  /\ hfile = [h \in Ids |-> <<1, 1>>]
  /\ opened = 0
  /\ isopen = {}
  /\ towner = [t \in Ids |-> 0]
  /\ armed = {}
  /\ cb = [t \in Ids |-> "off"]
  /\ pc = [p \in Posts |-> "load"]
  /\ rec = [p \in Posts |-> 1]
  /\ obj = [p \in Posts |-> 0]
  /\ want = [p \in Posts |-> 0]
  /\ part = [p \in Posts |-> 1]
  /\ outcome = [p \in Posts |-> [i \in 1 .. Batch |-> "pending"]]
  /\ today = 1
  /\ closer = IF Closes THEN "none" ELSE "closed"
  /\ crashed = FALSE

-----------------------------------------------------------------------------
(* Operations on the shared parts. *)

At(p, label) == ~crashed /\ pc[p] = label
Goto(p, label) == pc' = [pc EXCEPT ![p] = label]

Locals == <<rec, obj, want, part, outcome>>

\* CloseFunc = delfile: the key is deleted, whoever it belongs to by now.
\* lAppLog sets no CloseFunc.
Recycle(o) ==
  IF Dated THEN UNCHANGED entry
  ELSE entry' = [entry EXCEPT ![okey[o]] = 0]

SizeOf(f) == Len(disk[f])
FileOf(o) == <<fp[o], idx[o]>>

\* Mutant: the size limit is not looked at.
Full_Never(f) == FALSE

Full(f) == SizeOf(f) > MaxSize

\* Mutants: an existing file is not looked at before it is opened; a write error
\* is dropped.
Writable_Any(f) == TRUE
Failure_Dropped == "ok"

Free(o) == lock[o] = NoPost
Writable(f) == ~Full(f)
HasTimer(o) == tmr[o] # 0
Failure == "lost"

-----------------------------------------------------------------------------
(* record: one call of Writer.Write, or of lAppLog.Write, per record.       *)

\* Writer.Write, Load: the key's RollingFile, or none yet.  Writex computes
\* the prefix, by today's date or from the fixed key, before it locks.
Load(p) ==
  LET o == IF Dated THEN 1 ELSE entry[KeyOf(rec[p])] IN
  /\ At(p, "load")
  /\ IF o = 0 THEN Goto(p, "store") ELSE Goto(p, "lock")
  /\ obj' = [obj EXCEPT ![p] = o]
  /\ want' = [want EXCEPT ![p] = IF Dated THEN today ELSE 1]
  /\ UNCHANGED <<disk, storeVars, keyVars, hdl, tmr, idle, lock, hdlVars,
                 tmrVars, cb, rec, part, outcome, dayVars, closer, crashed>>

Create(p, k) ==
  /\ made' = made + 1
  /\ okey' = [okey EXCEPT ![made + 1] = k]
  /\ entry' = [entry EXCEPT ![k] = made + 1]
  /\ obj' = [obj EXCEPT ![p] = made + 1]

Bind(p, k) ==
  IF entry[k] = 0
  THEN Create(p, k)
  ELSE /\ obj' = [obj EXCEPT ![p] = entry[k]]
       /\ UNCHANGED <<made, okey, entry>>

LoadOrStore(p) ==
  /\ At(p, "store")
  /\ Bind(p, KeyOf(rec[p]))
  /\ Goto(p, "lock")
  /\ UNCHANGED <<disk, keyVars, hdl, tmr, idle, lock, hdlVars, tmrVars,
                 cb, rec, want, part, outcome, dayVars, closer, crashed>>

\* Writex, up to line 129: the lock, and a changed key resets the RollingFile.
Lock(p) ==
  LET o == obj[p] IN
  /\ At(p, "lock")
  /\ Free(o)
  /\ lock' = [lock EXCEPT ![o] = p]
  /\ Goto(p, "stat")
  /\ IF fp[o] = want[p]
     THEN UNCHANGED <<entry, keyVars, hdl, tmr, isopen, armed>>
     ELSE /\ fp' = [fp EXCEPT ![o] = want[p]]
          /\ idx' = [idx EXCEPT ![o] = 1]
          /\ IF hdl[o] = 0
             THEN UNCHANGED <<entry, hdl, tmr, isopen, armed>>
             ELSE /\ Recycle(o)
                  /\ armed' = armed \ {tmr[o]}
                  /\ tmr' = [tmr EXCEPT ![o] = 0]
                  /\ isopen' = isopen \ {hdl[o]}
                  /\ hdl' = [hdl EXCEPT ![o] = 0]
  /\ UNCHANGED <<disk, made, okey, idle, hfile, opened, towner, cb, Locals,
                 dayVars, closer, crashed>>

\* The open handle is kept unless its file is full; the Stat of a closed one
\* fails, which keeps it too.
Stat(p) ==
  LET o == obj[p]
      h == hdl[o]
      full == h \in isopen /\ Full(hfile[h]) IN
  /\ At(p, "stat")
  /\ Goto(p, IF h # 0 /\ ~full THEN "write" ELSE "scan")
  /\ IF h # 0 /\ full
     THEN /\ isopen' = isopen \ {h}
          /\ hdl' = [hdl EXCEPT ![o] = 0]
          /\ idx' = [idx EXCEPT ![o] = @ + 1]
     ELSE UNCHANGED <<isopen, hdl, idx>>
  /\ UNCHANGED <<disk, storeVars, fp, tmr, idle, lock, hfile, opened, tmrVars,
                 cb, Locals, dayVars, closer, crashed>>

\* Mutant: a full file is looked at again.
Advance_Stays(o) == UNCHANGED idx

Advance(o) == idx' = [idx EXCEPT ![o] = @ + 1]

\* The loop of lines 152-183 passes the full files ...
Scan(p) ==
  /\ At(p, "scan")
  /\ Full(FileOf(obj[p]))
  /\ Advance(obj[p])
  /\ UNCHANGED <<disk, storeVars, fp, hdl, tmr, idle, lock, hdlVars, tmrVars,
                 cb, postVars, dayVars, closer, crashed>>

\* ... and the first that is not is opened for appending.
Open(p) ==
  LET o == obj[p] IN
  /\ At(p, "scan")
  /\ Writable(FileOf(o))
  /\ opened' = opened + 1
  /\ hfile' = [hfile EXCEPT ![opened + 1] = FileOf(o)]
  /\ isopen' = isopen \cup {opened + 1}
  /\ hdl' = [hdl EXCEPT ![o] = opened + 1]
  /\ Goto(p, "write")
  /\ UNCHANGED <<disk, storeVars, keyVars, tmr, idle, lock, tmrVars, cb,
                 Locals, dayVars, closer, crashed>>

\* One os.File.Write; FileHdl is read anew for each.
Write(p) ==
  LET h == hdl[obj[p]] IN
  /\ At(p, "write")
  /\ h \in isopen
  /\ disk' = [disk EXCEPT ![hfile[h]] = Append(@, <<p, rec[p], part[p]>>)]
  /\ IF part[p] = LastPart
     THEN /\ Goto(p, "check")
          /\ outcome' = [outcome EXCEPT ![p][rec[p]] = "ok"]
          /\ UNCHANGED part
     ELSE /\ part' = [part EXCEPT ![p] = @ + 1]
          /\ UNCHANGED <<pc, outcome>>
  /\ UNCHANGED <<storeVars, keyVars, hdl, tmr, idle, lock, hdlVars, tmrVars,
                 cb, rec, obj, want, dayVars, closer, crashed>>

\* The handle was closed or set to nil under the writer's feet.
WriteFails(p) ==
  /\ At(p, "write")
  /\ hdl[obj[p]] \notin isopen
  /\ Goto(p, "check")
  /\ outcome' = [outcome EXCEPT ![p][rec[p]] = Failure]
  /\ UNCHANGED <<disk, storeVars, keyVars, hdl, tmr, idle, lock, hdlVars,
                 tmrVars, cb, rec, obj, want, part, dayVars, closer, crashed>>

IsLast(p) == rec[p] = Batch

\* Writex is over: its caller ignores the error and takes the next record.
Finish(p) ==
  /\ lock' = [lock EXCEPT ![obj[p]] = NoPost]
  /\ obj' = [obj EXCEPT ![p] = 0]
  /\ want' = [want EXCEPT ![p] = 0]
  /\ part' = [part EXCEPT ![p] = 1]
  /\ IF IsLast(p)
     THEN Goto(p, "end") /\ UNCHANGED rec
     ELSE Goto(p, "load") /\ rec' = [rec EXCEPT ![p] = @ + 1]

NewTimer == CHOOSE t \in Ids : towner[t] = 0 /\ \A u \in 1 .. t - 1 : towner[u] # 0

\* A directory of that name, a failing stat, a failing open; no _check.
OpenFails(p) ==
  /\ Faults
  /\ At(p, "scan")
  /\ Recycle(obj[p])
  /\ outcome' = [outcome EXCEPT ![p][rec[p]] = Failure]
  /\ Finish(p)
  /\ UNCHANGED <<disk, made, okey, keyVars, hdl, tmr, idle, hdlVars, tmrVars,
                 cb, dayVars, closer, crashed>>

\* The deferred calls: _check pushes alive on and creates a missing timer, then
\* the lock is released.
Check(p) ==
  LET o == obj[p] IN
  /\ At(p, "check")
  /\ idle' = [idle EXCEPT ![o] = FALSE]
  /\ IF HasTimer(o)
     THEN UNCHANGED <<tmr, tmrVars>>
     ELSE /\ tmr' = [tmr EXCEPT ![o] = NewTimer]
          /\ towner' = [towner EXCEPT ![NewTimer] = o]
          /\ armed' = armed \cup {NewTimer}
  /\ Finish(p)
  /\ UNCHANGED <<disk, storeVars, keyVars, hdl, hdlVars, cb, outcome, dayVars,
                 closer, crashed>>

-----------------------------------------------------------------------------
(* _close, run by the timer in a goroutine of its own, without the lock.    *)

CbAt(t, label) == ~crashed /\ cb[t] = label
CbGoto(t, label) == cb' = [cb EXCEPT ![t] = label]

Fire(t) ==
  /\ CbAt(t, "off")
  /\ t \in armed
  /\ armed' = armed \ {t}
  /\ CbGoto(t, "alive")
  /\ UNCHANGED <<disk, storeVars, keyVars, hdl, tmr, idle, lock, hdlVars,
                 towner, postVars, dayVars, closer, crashed>>

\* Still alive: aa.timer.Reset, which panics when aa.timer is nil by now.
Again(t) ==
  LET o == towner[t] IN
  /\ CbAt(t, "alive")
  /\ ~idle[o]
  /\ crashed' = (tmr[o] = 0)
  /\ armed' = armed \cup ({tmr[o]} \ {0})
  /\ CbGoto(t, "off")
  /\ UNCHANGED <<disk, storeVars, keyVars, hdl, tmr, idle, lock, hdlVars,
                 towner, postVars, dayVars, closer>>

GivesUp(t) ==
  /\ CbAt(t, "alive")
  /\ idle[towner[t]]
  /\ CbGoto(t, "forget")
  /\ UNCHANGED <<disk, storeVars, keyVars, hdl, tmr, idle, lock, hdlVars,
                 tmrVars, postVars, dayVars, closer, crashed>>

CallsBack(t) ==
  /\ CbAt(t, "forget")
  /\ Recycle(towner[t])
  /\ CbGoto(t, "close")
  /\ UNCHANGED <<disk, made, okey, keyVars, hdl, tmr, idle, lock, hdlVars,
                 tmrVars, postVars, dayVars, closer, crashed>>

ClosesHandle(t) ==
  /\ CbAt(t, "close")
  /\ isopen' = isopen \ {hdl[towner[t]]}
  /\ CbGoto(t, "nil")
  /\ UNCHANGED <<disk, storeVars, keyVars, hdl, tmr, idle, lock, hfile, opened,
                 tmrVars, postVars, dayVars, closer, crashed>>

DropsHandle(t) ==
  /\ CbAt(t, "nil")
  /\ hdl' = [hdl EXCEPT ![towner[t]] = 0]
  /\ CbGoto(t, "drop")
  /\ UNCHANGED <<disk, storeVars, keyVars, tmr, idle, lock, hdlVars, tmrVars,
                 postVars, dayVars, closer, crashed>>

DropsTimer(t) ==
  /\ CbAt(t, "drop")
  /\ tmr' = [tmr EXCEPT ![towner[t]] = 0]
  /\ CbGoto(t, "off")
  /\ UNCHANGED <<disk, storeVars, keyVars, hdl, idle, lock, hdlVars, tmrVars,
                 postVars, dayVars, closer, crashed>>

-----------------------------------------------------------------------------
(* Close, and the clock.                                                    *)

CloseBegins ==
  /\ ~crashed
  /\ closer = "none"
  /\ closer' = "closing"
  /\ UNCHANGED <<disk, storeVars, keyVars, hdl, tmr, idle, lock, hdlVars,
                 tmrVars, cb, postVars, dayVars, crashed>>

\* RollingFile.Close, which waits for the lock; Range calls it for what it
\* finds in Writer.files.
CloseFile(o) ==
  /\ ~crashed
  /\ closer = "closing"
  /\ Free(o)
  /\ IF Dated THEN o = 1 ELSE o # 0 /\ entry[okey[o]] = o
  /\ Recycle(o)
  /\ armed' = armed \ {tmr[o]}
  /\ tmr' = [tmr EXCEPT ![o] = 0]
  /\ isopen' = isopen \ {hdl[o]}
  /\ hdl' = [hdl EXCEPT ![o] = 0]
  /\ closer' = IF Dated THEN "closed" ELSE closer
  /\ UNCHANGED <<disk, made, okey, keyVars, idle, lock, hfile, opened, towner,
                 cb, postVars, dayVars, crashed>>

\* Range found nothing more; Clear drops what was stored since.
CloseEnds ==
  /\ ~crashed
  /\ ~Dated /\ closer = "closing"
  /\ entry' = [k \in Keys |-> 0]
  /\ closer' = "closed"
  /\ UNCHANGED <<disk, made, okey, keyVars, hdl, tmr, idle, lock, hdlVars,
                 tmrVars, cb, postVars, dayVars, crashed>>

\* Ten seconds without a record.
Expire(o) ==
  /\ ~crashed
  /\ ~idle[o]
  /\ idle' = [idle EXCEPT ![o] = TRUE]
  /\ UNCHANGED <<disk, storeVars, keyVars, hdl, tmr, lock, hdlVars, tmrVars,
                 cb, postVars, dayVars, closer, crashed>>

Midnight ==
  /\ ~crashed
  /\ Dated /\ today < Days
  /\ today' = today + 1
  /\ UNCHANGED <<disk, storeVars, keyVars, hdl, tmr, idle, lock, hdlVars,
                 tmrVars, cb, postVars, kind, closer, crashed>>

\* Nothing is left to do, or the program is dead.
Over ==
  /\ crashed \/ \A p \in Posts : pc[p] = "end"
  /\ UNCHANGED vars

PostStep(p) ==
  \/ Load(p) \/ LoadOrStore(p) \/ Lock(p) \/ Stat(p) \/ Scan(p) \/ Open(p)
  \/ Write(p) \/ WriteFails(p) \/ Check(p)

CbStep(t) ==
  \/ Fire(t) \/ Again(t) \/ GivesUp(t) \/ CallsBack(t) \/ ClosesHandle(t)
  \/ DropsHandle(t) \/ DropsTimer(t)

Next ==
  \/ \E p \in Posts : PostStep(p) \/ OpenFails(p)
  \/ \E t \in Ids : CbStep(t)
  \/ CloseBegins \/ CloseEnds \/ Midnight
  \/ \E o \in Ids : CloseFile(o) \/ Expire(o)
  \/ Over

Spec == Init /\ [][Next]_vars

\* Goroutines and timers run, and time passes; nobody has to call Close, and
\* the date need not change.  Go's mutex starves nobody: a waiter of 1 ms gets
\* the lock from Unlock directly, hence the strong fairness of Lock.
Fairness ==
  /\ \A p \in Posts : WF_vars(PostStep(p)) /\ SF_vars(Lock(p))
  /\ \A t \in Ids : WF_vars(CbStep(t))
  /\ \A o \in Ids : WF_vars(Expire(o))

FairSpec == Spec /\ Fairness

-----------------------------------------------------------------------------
(* Properties. *)

\* record's error is dropped, so nothing else tells an accepted record from a
\* lost one: when Writex returns no error the whole record is in one file, its
\* parts in order, whatever the recycler did to the handles meanwhile.  (The one
\* part of a line is its first and its last.)
AcceptedStored ==
  \A p \in Posts, r \in 1 .. Batch :
    outcome[p][r] = "ok" =>
      \E f \in Files : \E i, j \in DOMAIN disk[f] :
        i <= j /\ disk[f][i] = <<p, r, 1>> /\ disk[f][j] = <<p, r, LastPart>>

\* Later in the log: in a later file, or behind it in the same one.
Precedes(f, i, g, j) ==
  f[1] < g[1] \/ (f[1] = g[1] /\ (f[2] < g[2] \/ (f[2] = g[2] /\ i < j)))

\* A post's records are in the log in the order it wrote them and none is there
\* twice, though every record of a batch may go through a RollingFile, an index
\* and a handle of its own.
PostOrder ==
  \A f, g \in Files : \A i \in DOMAIN disk[f], j \in DOMAIN disk[g] :
    LET x == disk[f][i]
        y == disk[g][j] IN
    x[1] = y[1] /\ (f # g \/ i # j) =>
      /\ x # y
      /\ (x[2] < y[2] \/ (x[2] = y[2] /\ x[3] < y[3])) => Precedes(f, i, g, j)

\* A file outgrows its limit by what the posts at work write, one record each,
\* however many RollingFiles append to it.
SizeBound ==
  \A f \in Files : SizeOf(f) <= MaxSize + Parts * Cardinality(Posts)

\* A file holds at most its limit and one record for each writer that was within it
\* (logger.go, Writex), in every state of the types the code can be in.
Bounded == TypeOK /\ SizeBound

\* Every batch ends: nobody waits for a lock or scans the indices for ever.
BatchesEnd == <>(crashed \/ \A p \in Posts : pc[p] = "end")

-----------------------------------------------------------------------------
(* What the comments say of the program and the code does not do.          *)

\* logger.go:217 says that a recycler that finds the file alive goes on
\* checking it.
RecyclerGoesOn ==
  [][\A t \in Ids : CbAt(t, "alive") /\ ~idle[towner[t]] /\ cb'[t] = "off"
       => ~crashed']_vars
=============================================================================
