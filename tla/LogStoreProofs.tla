---------------------------- MODULE LogStoreProofs ----------------------------
(***************************************************************************)
(* Proofs about the rolling log files, for any number of writers, records, *)
(* RollingFiles, timers and days.                                          *)
(*                                                                         *)
(* One fact carries most of it: whatever the RollingFiles do, a file that  *)
(* has something in it has only full files before it on its day (Chain),   *)
(* and a writer opens a file that is not full.  So a record never goes to  *)
(* a file before one that has an earlier record of its writer (Placed).    *)
(* The recycler can only take a handle away, never give another (Handles). *)
(***************************************************************************)
EXTENDS LogStore, FiniteSetTheorems, SequenceTheorems, TLAPS

\* A post that has the lock of its RollingFile.
Inside(p) == pc[p] \in {"stat", "scan", "write", "check"}

\* A post whose next write goes to an open handle, and the file of that.
Writing(p) == pc[p] = "write" /\ hdl[obj[p]] \in isopen
Target(p) == hfile[hdl[obj[p]]]

\* The date as far as the file keys go.
Day == IF Dated THEN today ELSE 1

Locked ==
  \A p \in Posts :
    /\ Inside(p) => /\ lock[obj[p]] = p /\ fp[obj[p]] = want[p]
                    /\ pc[p] = "scan" => hdl[obj[p]] = 0
    /\ pc[p] \notin {"load", "store", "end"} => obj[p] # 0
    /\ pc[p] \notin {"load", "end"} => want[p] \in 1 .. Day
    /\ pc[p] \notin {"write", "check"} => part[p] = 1
    /\ Dated => pc[p] # "store" /\ obj[p] \in {0, 1}

Handles ==
  /\ \A o \in Ids : hdl[o] # 0 => hdl[o] <= opened /\ hfile[hdl[o]] = FileOf(o)
  /\ isopen \subseteq 1 .. opened
  /\ \A o \in Ids : fp[o] # 0 => idx[o] # 0

Chain ==
  /\ \A o \in Ids : fp[o] # 0 => \A j \in 1 .. idx[o] - 1 : Full(<<fp[o], j>>)
  /\ \A f \in Files : disk[f] # <<>> =>
       f[1] <= Day /\ \A j \in 1 .. f[2] - 1 : Full(<<f[1], j>>)

Timers ==
  /\ \A t \in armed : towner[t] # 0
  /\ \A o \in Ids : tmr[o] # 0 => towner[tmr[o]] # 0
  /\ \A t \in Ids : cb[t] # "off" => towner[t] # 0

\* The records whose call of Writex has come to one of these labels.
Records == Posts \X (1 .. Batch)
Reached(labels) ==
  {x \in Records : x[2] < rec[x[1]] \/ (x[2] = rec[x[1]] /\ pc[x[1]] \in labels)}

Stored == {"lock", "stat", "scan", "write", "check", "end"}
Chosen == {"write", "check", "end"}
Done == {"end"}

\* Each record makes one RollingFile, one handle and one timer at most.
Counted ==
  /\ IF Dated THEN made = 1 ELSE made <= Cardinality(Reached(Stored))
  /\ opened <= Cardinality(Reached(Chosen))
  /\ \E n \in Ref : n <= Cardinality(Reached(Done)) /\ \A t \in Ids : towner[t] # 0 <=> t <= n

\* What a post has written by now.
Behind(p, x) ==
  \/ x[2] < rec[p]
  \/ /\ x[2] = rec[p]
     /\ \/ pc[p] = "write" /\ x[3] < part[p]
        \/ pc[p] \in {"check", "end"}

\* In a file of an earlier day, or of the same with no greater index.
NotAfter(f, g) == f[1] < g[1] \/ (f[1] = g[1] /\ f[2] <= g[2])

Placed ==
  \A f \in Files : \A i \in DOMAIN disk[f] :
    LET x == disk[f][i]
        p == x[1] IN
    /\ Behind(p, x)
    /\ pc[p] \notin {"load", "end"} => f[1] <= want[p]
    /\ Writing(p) => NotAfter(f, Target(p))

\* What may still be written to a file.
Pending(f) ==
  {x \in Posts \X (1 .. Parts) : Writing(x[1]) /\ Target(x[1]) = f /\ x[2] >= part[x[1]]}

Room ==
  \A f \in Files : SizeOf(f) + Cardinality(Pending(f)) <= MaxSize + Parts * Cardinality(Posts)

\* The first part of a record is where the second will be; a line has no second.
Begun ==
  \A p \in Posts : Writing(p) /\ part[p] = 2 =>
    /\ ~Dated
    /\ \E i \in DOMAIN disk[Target(p)] : disk[Target(p)][i] = <<p, rec[p], 1>>

\* Only what was written is accepted.
Accepted ==
  \A p \in Posts : \A r \in 1 .. Batch :
    outcome[p][r] = "ok" => r < rec[p] \/ (r = rec[p] /\ pc[p] \in {"check", "end"})

IInv ==
  /\ TypeOK /\ Locked /\ Handles /\ Chain /\ Timers /\ Counted
  /\ PostOrder /\ Placed /\ Room /\ Begun /\ Accepted
  /\ AcceptedStored

-----------------------------------------------------------------------------
(* Counting.                                                               *)

\* There are as many records as RollingFiles, handles and timers to name.
LEMMA Sizes ==
  /\ Batch \in Nat \ {0} /\ MaxSize \in Nat \ {0} /\ Days \in Nat \ {0}
  /\ Cardinality(Posts) \in Nat \ {0} /\ Total \in Nat \ {0}
  /\ IsFiniteSet(Records) /\ Cardinality(Records) = Total
  <1>1. /\ Batch \in Nat \ {0} /\ MaxSize \in Nat \ {0} /\ Days \in Nat \ {0}
        /\ IsFiniteSet(Posts) /\ Posts # {}
    BY LogStoreAssumption
  <1>2. Cardinality(Posts) \in Nat \ {0}
    BY <1>1, FS_CardinalityType, FS_EmptySet
  <1>3. IsFiniteSet(1 .. Batch) /\ Cardinality(1 .. Batch) = Batch
    BY <1>1, FS_Interval
  <1>4. IsFiniteSet(Records) /\ Cardinality(Records) = Cardinality(Posts) * Cardinality(1 .. Batch)
    BY <1>1, <1>3, FS_Product DEF Records
  <1>5. Cardinality(Records) = Total
    BY <1>3, <1>4 DEF Total
  <1>6. Cardinality(Records) \in Nat
    BY <1>4, FS_CardinalityType
  <1>7. Records # {}
    <2>1. PICK p \in Posts : TRUE
      BY <1>1
    <2>2. 1 \in 1 .. Batch
      BY <1>1
    <2>3. <<p, 1>> \in Records
      BY <2>1, <2>2 DEF Records
    <2> QED
      BY <2>3
  <1>8. Cardinality(Records) # 0
    BY <1>4, <1>7, FS_EmptySet
  <1> QED
    BY <1>1, <1>2, <1>4, <1>5, <1>6, <1>8

LEMMA Fewer ==
  ASSUME NEW S, NEW T, S \subseteq T, T \subseteq Records
  PROVE  /\ Cardinality(S) \in Nat /\ Cardinality(T) \in Nat
         /\ Cardinality(S) <= Cardinality(T) /\ Cardinality(T) <= Total
  <1>1. IsFiniteSet(T) /\ Cardinality(T) <= Total
    BY Sizes, FS_Subset
  <1>2. IsFiniteSet(S) /\ Cardinality(S) <= Cardinality(T)
    BY <1>1, FS_Subset
  <1> QED
    BY <1>1, <1>2, FS_CardinalityType

LEMMA OneMore ==
  ASSUME NEW S, NEW T, NEW x \in T, x \notin S, S \subseteq T, T \subseteq Records
  PROVE  Cardinality(S) + 1 <= Cardinality(T)
  <1>1. IsFiniteSet(T)
    BY Sizes, FS_Subset
  <1>2. IsFiniteSet(S) /\ Cardinality(S \cup {x}) = Cardinality(S) + 1
    BY <1>1, FS_Subset, FS_AddElement
  <1>3. S \cup {x} \subseteq T
    OBVIOUS
  <1>4. Cardinality(S \cup {x}) <= Cardinality(T)
    BY <1>3, Fewer
  <1> QED
    BY <1>2, <1>4

\* A record that has come to a label has come to it for good.
LEMMA ReachedKept ==
  ASSUME NEW labels, rec \in [Posts -> 1 .. Batch], rec' \in [Posts -> 1 .. Batch],
         \A p \in Posts : rec[p] < rec'[p] \/ (rec'[p] = rec[p] /\ (pc[p] \in labels => pc'[p] \in labels))
  PROVE  /\ Reached(labels) \subseteq Reached(labels)'
         /\ Cardinality(Reached(labels)) <= Cardinality(Reached(labels))'
         /\ Cardinality(Reached(labels)) \in Nat /\ Cardinality(Reached(labels))' \in Nat
         /\ Cardinality(Reached(labels))' <= Total
  <1>0. Batch \in Nat /\ \A p \in Posts : rec[p] \in Nat /\ rec'[p] \in Nat
    BY Sizes
  <1>1. ASSUME NEW x \in Records, x[2] < rec[x[1]] \/ (x[2] = rec[x[1]] /\ pc[x[1]] \in labels)
        PROVE  x[2] < rec'[x[1]] \/ (x[2] = rec'[x[1]] /\ pc'[x[1]] \in labels)
    <2>1. x[1] \in Posts /\ x[2] \in Nat
      BY <1>0 DEF Records
    <2> QED
      BY <1>0, <1>1, <2>1
  <1>2. Reached(labels) \subseteq Reached(labels)'
    BY <1>1 DEF Reached
  <1>3. Reached(labels)' \subseteq Records
    BY DEF Reached
  <1> QED
    BY <1>2, <1>3, Fewer

\* A record that comes to a label is one more.
LEMMA ReachedMore ==
  ASSUME NEW labels, rec \in [Posts -> 1 .. Batch], rec' \in [Posts -> 1 .. Batch],
         \A p \in Posts : rec[p] < rec'[p] \/ (rec'[p] = rec[p] /\ (pc[p] \in labels => pc'[p] \in labels)),
         NEW p \in Posts, pc[p] \notin labels, rec[p] < rec'[p] \/ pc'[p] \in labels
  PROVE  /\ Cardinality(Reached(labels)) + 1 <= Cardinality(Reached(labels))'
         /\ Cardinality(Reached(labels)) \in Nat /\ Cardinality(Reached(labels))' \in Nat
         /\ Cardinality(Reached(labels))' <= Total
  <1> DEFINE x == <<p, rec[p]>>
  <1>0. Batch \in Nat /\ rec[p] \in Nat /\ rec'[p] \in Nat
    BY Sizes
  <1>1. x \in Records /\ x \notin Reached(labels)
    BY <1>0 DEF Records, Reached
  <1>2. x[1] = p /\ x[2] = rec[p]
    OBVIOUS
  <1>3. PICK S, T : S = Reached(labels) /\ T = Reached(labels)'
    OBVIOUS
  <1>4. PICK y : y = x
    OBVIOUS
  <1> HIDE DEF x
  <1>5. y \in T
    BY <1>0, <1>1, <1>2, <1>3, <1>4 DEF Reached
  <1>6. S \subseteq T /\ T \subseteq Records
    BY <1>3, ReachedKept DEF Reached
  <1>7. Cardinality(S) + 1 <= Cardinality(T)
    BY <1>1, <1>3, <1>4, <1>5, <1>6, OneMore
  <1> QED
    BY <1>3, <1>6, <1>7, Fewer

\* If the counters stay, they stay bounded.
LEMMA CountedKept ==
  ASSUME IInv, TypeOK', UNCHANGED <<made, opened, towner, kind>>,
         \A p \in Posts : \/ rec[p] < rec'[p]
                          \/ /\ rec'[p] = rec[p]
                             /\ pc[p] \in Stored => pc'[p] \in Stored
                             /\ pc[p] \in Chosen => pc'[p] \in Chosen
                             /\ pc[p] \in Done => pc'[p] \in Done
  PROVE  Counted'
  <1>0. TypeOK /\ Counted
    BY DEF IInv
  <1>1. /\ Cardinality(Reached(Stored)) <= Cardinality(Reached(Stored))'
        /\ Cardinality(Reached(Stored)) \in Nat /\ Cardinality(Reached(Stored))' \in Nat
    BY <1>0, ReachedKept DEF TypeOK
  <1>2. /\ Cardinality(Reached(Chosen)) <= Cardinality(Reached(Chosen))'
        /\ Cardinality(Reached(Chosen)) \in Nat /\ Cardinality(Reached(Chosen))' \in Nat
    BY <1>0, ReachedKept DEF TypeOK
  <1>3. /\ Cardinality(Reached(Done)) <= Cardinality(Reached(Done))'
        /\ Cardinality(Reached(Done)) \in Nat /\ Cardinality(Reached(Done))' \in Nat
    BY <1>0, ReachedKept DEF TypeOK
  <1>4. made \in Nat /\ opened \in Nat /\ Ref \subseteq Nat
    BY <1>0, Sizes DEF TypeOK, Ref
  <1>5. IF Dated' THEN made' = 1 ELSE made' <= Cardinality(Reached(Stored))'
    BY <1>0, <1>1, <1>4 DEF Counted, Dated
  <1>6. opened' <= Cardinality(Reached(Chosen))'
    BY <1>0, <1>2, <1>4 DEF Counted
  <1>7. \E n \in Ref : n <= Cardinality(Reached(Done))' /\ \A t \in Ids : towner'[t] # 0 <=> t <= n
    BY <1>0, <1>3, <1>4 DEF Counted
  <1> QED
    BY <1>5, <1>6, <1>7 DEF Counted

-----------------------------------------------------------------------------
(* Steps that write nothing.                                               *)

\* A post goes on, or what it has written is not looked at differently.
Onward(p) ==
  \/ rec[p] < rec'[p]
  \/ /\ rec'[p] = rec[p]
     /\ \/ pc'[p] \in {"check", "end"}
        \/ /\ pc[p] \notin {"check", "end"}
           /\ pc[p] = "write" => pc'[p] = "write" /\ part'[p] = part[p]

\* Its prefix stays, or is that of the day.
Prefixed(p) ==
  pc'[p] \notin {"load", "end"} =>
    (pc[p] \notin {"load", "end"} /\ want'[p] = want[p]) \/ want'[p] = Day

\* It goes on writing where it did, or starts with a file that is not full.
Directed(p) ==
  Writing(p)' =>
    \/ /\ Writing(p) /\ Target(p)' = Target(p)
       /\ part'[p] = part[p] /\ rec'[p] = rec[p] /\ want'[p] = want[p]
    \/ /\ part'[p] = 1 /\ Target(p)' \in Files
       /\ ~Full(Target(p)') /\ Target(p)'[1] = want'[p]

\* What is in the files.
LEMMA Piece ==
  ASSUME TypeOK, NEW f \in Files, NEW i \in DOMAIN disk[f]
  PROVE  /\ disk[f][i] \in Pieces /\ disk[f][i][1] \in Posts
         /\ disk[f][i][2] \in 1 .. Batch /\ disk[f][i][3] \in 1 .. Parts
         /\ disk[f][i][2] \in Nat /\ disk[f][i][3] \in Nat
         /\ disk[f][i] = <<disk[f][i][1], disk[f][i][2], disk[f][i][3]>>
         /\ disk[f] # <<>> /\ i \in 1 .. SizeOf(f) /\ SizeOf(f) \in Nat
  <1>1. disk[f] \in Seq(Pieces)
    BY DEF TypeOK
  <1>2. i \in 1 .. SizeOf(f) /\ SizeOf(f) \in Nat /\ disk[f] # <<>>
    BY <1>1, LenProperties, EmptySeq DEF SizeOf
  <1>3. disk[f][i] \in Pieces
    BY <1>1, <1>2, ElementOfSeq DEF SizeOf
  <1>4. /\ disk[f][i][1] \in Posts
        /\ disk[f][i][2] \in 1 .. Batch /\ disk[f][i][3] \in 1 .. Parts
        /\ disk[f][i] = <<disk[f][i][1], disk[f][i][2], disk[f][i][3]>>
    BY <1>3 DEF Pieces
  <1> QED
    BY <1>2, <1>3, <1>4, Sizes DEF Parts

LEMMA BehindStays ==
  ASSUME TypeOK, TypeOK', NEW p \in Posts, Onward(p), NEW x, x[2] \in Nat, Behind(p, x)
  PROVE  Behind(p, x)'
  <1>1. rec[p] \in Nat /\ rec'[p] \in Nat
    BY Sizes DEF TypeOK
  <1> QED
    BY <1>1 DEF Onward, Behind

LEMMA PlacedStays ==
  ASSUME IInv, TypeOK', UNCHANGED disk,
         \A p \in Posts : Onward(p) /\ Prefixed(p) /\ Directed(p)
  PROVE  Placed'
  <1> SUFFICES ASSUME NEW f \in Files, NEW i \in DOMAIN disk[f], NEW x, x = disk[f][i],
                      NEW p, p = x[1]
               PROVE  /\ Behind(p, x)'
                      /\ pc'[p] \notin {"load", "end"} => f[1] <= want'[p]
                      /\ Writing(p)' => NotAfter(f, Target(p)')
    BY DEF Placed, NotAfter, Behind, Writing, Target
  <1>0. TypeOK /\ Placed /\ Chain
    BY DEF IInv
  <1>1. p \in Posts /\ x[2] \in Nat /\ disk[f] # <<>>
    BY <1>0, Piece
  <1>2. /\ Behind(p, x)
        /\ pc[p] \notin {"load", "end"} => f[1] <= want[p]
        /\ Writing(p) => NotAfter(f, Target(p))
    BY <1>0 DEF Placed
  <1>3. Behind(p, x)'
    BY <1>0, <1>1, <1>2, BehindStays
  <1>4. f[1] <= Day /\ \A j \in 1 .. f[2] - 1 : Full(<<f[1], j>>)
    BY <1>0, <1>1 DEF Chain
  <1>5. pc'[p] \notin {"load", "end"} => f[1] <= want'[p]
    BY <1>1, <1>2, <1>4 DEF Prefixed
  <1>6. ASSUME Writing(p)'
        PROVE  NotAfter(f, Target(p)')
    <2>1. CASE Writing(p) /\ Target(p)' = Target(p)
      BY <1>2, <2>1
    <2>2. CASE Target(p)' \in Files /\ ~Full(Target(p)') /\ Target(p)'[1] = want'[p]
      <3>1. PICK g : g = Target(p)'
        OBVIOUS
      <3>2. /\ g \in Files /\ ~Full(g) /\ g[1] = want'[p]
            /\ f[1] \in Nat /\ g[1] \in Nat /\ f[2] \in Nat /\ g[2] \in Nat \ {0}
            /\ g = <<g[1], g[2]>>
        BY <2>2, <3>1, Sizes DEF Files
      <3>3. f[1] <= g[1]
        BY <1>5, <1>6, <3>2 DEF Writing
      <3>4. ASSUME f[1] = g[1]
            PROVE  f[2] <= g[2]
        <4>1. g[2] \notin 1 .. f[2] - 1
          BY <1>4, <3>2, <3>4
        <4> QED
          BY <3>2, <4>1
      <3>5. NotAfter(f, g)
        BY <3>2, <3>3, <3>4 DEF NotAfter
      <3> QED
        BY <3>1, <3>5
    <2> QED
      BY <1>1, <1>6, <2>1, <2>2 DEF Directed
  <1> QED
    BY <1>3, <1>5, <1>6

LEMMA TwoParts == Parts = 2 /\ IsFiniteSet(1 .. Parts) /\ Cardinality(1 .. Parts) = 2
  <1>1. Parts \in Int /\ 1 \in Int /\ Parts = 2
    BY DEF Parts
  <1>2. IsFiniteSet(1 .. Parts) /\ Cardinality(1 .. Parts) = IF 1 > Parts THEN 0 ELSE Parts - 1 + 1
    BY <1>1, FS_Interval
  <1> QED
    BY <1>1, <1>2

\* All that the posts can have pending are two parts each.
LEMMA AtMost ==
  ASSUME NEW S, S \subseteq Posts \X (1 .. Parts)
  PROVE  /\ IsFiniteSet(S) /\ Cardinality(S) \in Nat
         /\ Cardinality(S) <= Parts * Cardinality(Posts)
         /\ \A T : T \subseteq S => Cardinality(T) <= Cardinality(S) /\ Cardinality(T) \in Nat
  <1>1. IsFiniteSet(1 .. Parts) /\ Cardinality(1 .. Parts) = 2
    BY TwoParts
  <1>2. /\ IsFiniteSet(Posts \X (1 .. Parts))
        /\ Cardinality(Posts \X (1 .. Parts)) = Cardinality(Posts) * Cardinality(1 .. Parts)
    BY <1>1, LogStoreAssumption, FS_Product
  <1>3. Cardinality(Posts \X (1 .. Parts)) = Parts * Cardinality(Posts)
    BY <1>1, <1>2, Sizes DEF Parts
  <1>4. IsFiniteSet(S) /\ Cardinality(S) <= Cardinality(Posts \X (1 .. Parts))
    BY <1>2, FS_Subset
  <1>5. ASSUME NEW T, T \subseteq S
        PROVE  Cardinality(T) <= Cardinality(S) /\ Cardinality(T) \in Nat
    BY <1>4, <1>5, FS_Subset, FS_CardinalityType
  <1> QED
    BY <1>3, <1>4, <1>5, FS_CardinalityType

LEMMA RoomStays ==
  ASSUME IInv, TypeOK', UNCHANGED disk, \A p \in Posts : Directed(p)
  PROVE  Room'
  <1> SUFFICES ASSUME NEW f \in Files
               PROVE  SizeOf(f) + Cardinality(Pending(f)') <= MaxSize + Parts * Cardinality(Posts)
    BY DEF Room, SizeOf
  <1>1. SizeOf(f) \in Nat
    BY LenProperties DEF IInv, TypeOK, SizeOf
  <1>2. PICK now : now = Pending(f)'
    OBVIOUS
  <1>3. /\ now \subseteq Posts \X (1 .. Parts)
        /\ \A x \in now : x[1] \in Posts /\ Writing(x[1])' /\ Target(x[1])' = f /\ x[2] >= part'[x[1]]
    BY <1>2 DEF Pending, Writing, Target
  <1>4. Cardinality(now) <= Parts * Cardinality(Posts) /\ Cardinality(now) \in Nat
    BY <1>3, AtMost
  <1>5. Parts * Cardinality(Posts) \in Nat /\ MaxSize \in Nat
    BY Sizes DEF Parts
  <1>6. CASE ~Full(f)
    BY <1>1, <1>2, <1>4, <1>5, <1>6 DEF Full
  <1>7. CASE Full(f)
    <2>1. ASSUME NEW x \in now
          PROVE  x \in Pending(f)
      <3>1. /\ x \in Posts \X (1 .. Parts) /\ x[1] \in Posts
            /\ Writing(x[1])' /\ Target(x[1])' = f /\ x[2] >= part'[x[1]]
        BY <1>3
      <3>2. Writing(x[1]) /\ Target(x[1]) = f /\ part'[x[1]] = part[x[1]]
        BY <1>7, <3>1 DEF Directed
      <3> QED
        BY <3>1, <3>2 DEF Pending
    <2>2. now \subseteq Pending(f) /\ Pending(f) \subseteq Posts \X (1 .. Parts)
      BY <2>1 DEF Pending
    <2>3. Cardinality(now) <= Cardinality(Pending(f)) /\ Cardinality(Pending(f)) \in Nat
      BY <2>2, AtMost
    <2>4. SizeOf(f) + Cardinality(Pending(f)) <= MaxSize + Parts * Cardinality(Posts)
      BY DEF IInv, Room
    <2> QED
      BY <1>1, <1>2, <1>4, <1>5, <2>3, <2>4
  <1> QED
    BY <1>6, <1>7

LEMMA BegunStays ==
  ASSUME IInv, UNCHANGED <<disk, kind>>, \A p \in Posts : Directed(p)
  PROVE  Begun'
  <1> SUFFICES ASSUME NEW p \in Posts, Writing(p)', part'[p] = 2
               PROVE  ~Dated /\ \E i \in DOMAIN disk[Target(p)'] : disk[Target(p)'][i] = <<p, rec'[p], 1>>
    BY DEF Begun, Dated, Target, Writing
  <1>1. Writing(p) /\ Target(p)' = Target(p) /\ part[p] = 2 /\ rec'[p] = rec[p]
    BY DEF Directed
  <1> QED
    BY <1>1 DEF IInv, Begun

LEMMA AcceptedStays ==
  ASSUME IInv, TypeOK', \A p \in Posts : Onward(p),
         \A p \in Posts : \A r \in 1 .. Batch : outcome'[p][r] = "ok" => outcome[p][r] = "ok"
  PROVE  Accepted'
  <1> SUFFICES ASSUME NEW p \in Posts, NEW r \in 1 .. Batch, outcome'[p][r] = "ok"
               PROVE  r < rec'[p] \/ (r = rec'[p] /\ pc'[p] \in {"check", "end"})
    BY DEF Accepted
  <1>1. r < rec[p] \/ (r = rec[p] /\ pc[p] \in {"check", "end"})
    BY DEF IInv, Accepted
  <1>2. rec[p] \in Nat /\ rec'[p] \in Nat /\ r \in Nat
    BY Sizes DEF IInv, TypeOK
  <1> QED
    BY <1>1, <1>2 DEF Onward

\* Such a step preserves all that is said of what is written.
LEMMA Unwritten ==
  ASSUME IInv, TypeOK', UNCHANGED <<disk, kind>>,
         \A p \in Posts : Onward(p) /\ Prefixed(p) /\ Directed(p),
         \A p \in Posts : \A r \in 1 .. Batch : outcome'[p][r] = "ok" => outcome[p][r] = "ok"
  PROVE  /\ PostOrder' /\ Placed' /\ Room' /\ Begun' /\ Accepted'
         /\ AcceptedStored'
  <1>1. Placed' /\ Room' /\ Begun' /\ Accepted'
    BY PlacedStays, RoomStays, BegunStays, AcceptedStays
  <1>2. PostOrder'
    BY DEF IInv, PostOrder, Precedes
  <1>3. AcceptedStored'
    BY DEF IInv, AcceptedStored, LastPart, Dated
  <1> QED
    BY <1>1, <1>2, <1>3

-----------------------------------------------------------------------------
(* The recycler, Close and the clock.                                      *)

\* They take handles away, and leave to the posts what is theirs.
Quiet ==
  /\ UNCHANGED <<disk, postVars, fp, idx, lock, hfile, opened, made, towner, kind>>
  /\ isopen' \subseteq isopen
  /\ \A o \in Ids : hdl'[o] = hdl[o] \/ hdl'[o] = 0
  /\ today <= today'

\* A post that works has a RollingFile.
LEMMA Having ==
  ASSUME TypeOK, Locked, NEW p \in Posts
  PROVE  /\ pc[p] \notin {"load", "store", "end"} => obj[p] \in Ids
         /\ obj[p] \in Ref /\ Ids \subseteq Nat /\ Ids = Ref \ {0}
  <1>1. Total \in Nat
    BY Sizes
  <1>2. Ids \subseteq Nat /\ Ids = Ref \ {0} /\ Ref \subseteq Nat
    BY <1>1 DEF Ids, Ref
  <1>3. obj[p] \in Ref
    BY DEF TypeOK
  <1> QED
    BY <1>2, <1>3 DEF Locked

\* Handle 0 is none.
LEMMA HandleOpen ==
  ASSUME TypeOK, Locked, Handles, NEW p \in Posts, Writing(p)
  PROVE  /\ obj[p] \in Ids /\ hdl[obj[p]] \in Ids /\ hdl[obj[p]] <= opened
         /\ Target(p) = FileOf(obj[p]) /\ fp[obj[p]] = want[p] /\ lock[obj[p]] = p
         /\ Target(p) \in Files
  <1>1. obj[p] \in Ids /\ Inside(p)
    BY Having DEF Writing, Inside
  <1>2. hdl[obj[p]] # 0 /\ hdl[obj[p]] \in Ids
    <2>1. hdl[obj[p]] \in 1 .. opened /\ hdl[obj[p]] \in Ref
      BY <1>1 DEF Writing, Handles, TypeOK
    <2>2. hdl[obj[p]] # 0
      BY <2>1
    <2> QED
      BY <2>1, <2>2, Having
  <1>3. hfile[hdl[obj[p]]] \in Files
    BY <1>2 DEF TypeOK
  <1> QED
    BY <1>1, <1>2, <1>3 DEF Locked, Handles, Target

LEMMA AsideStep ==
  ASSUME IInv, TypeOK', Timers', Quiet
  PROVE  IInv'
  <1>0. /\ TypeOK /\ Locked /\ Handles /\ Chain
        /\ UNCHANGED <<disk, pc, rec, obj, want, part, outcome, fp, idx, lock, hfile, opened,
                       made, towner, kind>>
    BY DEF IInv, Quiet, postVars
  <1>1. Day \in Nat /\ Day' \in Nat /\ Day <= Day'
    BY <1>0, Sizes DEF Day, Dated, TypeOK, Quiet
  <1>2. Locked'
    <2> SUFFICES ASSUME NEW p \in Posts
                 PROVE  /\ Inside(p) => /\ lock[obj[p]] = p /\ fp[obj[p]] = want[p]
                                        /\ pc[p] = "scan" => hdl'[obj[p]] = 0
                        /\ pc[p] \notin {"load", "store", "end"} => obj[p] # 0
                        /\ pc[p] \notin {"load", "end"} => want[p] \in 1 .. Day'
                        /\ pc[p] \notin {"write", "check"} => part[p] = 1
                        /\ Dated => pc[p] # "store" /\ obj[p] \in {0, 1}
      BY <1>0 DEF Locked, Inside, Dated
    <2>1. pc[p] = "scan" => hdl'[obj[p]] = 0
      <3>1. pc[p] = "scan" => obj[p] \in Ids /\ hdl[obj[p]] = 0
        BY <1>0, Having DEF Locked, Inside
      <3> QED
        BY <3>1 DEF Quiet
    <2>2. want[p] \in 1 .. Day => want[p] \in 1 .. Day'
      BY <1>1
    <2> QED
      BY <1>0, <2>1, <2>2 DEF Locked
  <1>3. Handles'
    <2>1. isopen' \subseteq 1 .. opened'
      BY <1>0 DEF Quiet, Handles
    <2>2. ASSUME NEW o \in Ids, hdl'[o] # 0
          PROVE  hdl'[o] <= opened /\ hfile[hdl'[o]] = FileOf(o)
      BY <1>0, <2>2 DEF Quiet, Handles
    <2> QED
      BY <1>0, <2>1, <2>2 DEF Handles, FileOf
  <1>4. Chain'
    <2>1. ASSUME NEW f \in Files, disk[f] # <<>>
          PROVE  f[1] <= Day'
      <3>1. f[1] <= Day /\ f[1] \in Nat
        BY <1>0, <2>1, Sizes DEF Chain, Files
      <3> QED
        BY <1>1, <3>1
    <2> QED
      BY <1>0, <2>1 DEF Chain, Full, SizeOf
  <1>5. Counted'
    BY <1>0, CountedKept
  <1>6. \A p \in Posts : \A r \in 1 .. Batch : outcome'[p][r] = "ok" => outcome[p][r] = "ok"
    BY <1>0
  <1>7. ASSUME NEW p \in Posts
        PROVE  Onward(p) /\ Prefixed(p) /\ Directed(p)
    <2>1. Onward(p) /\ Prefixed(p)
      BY <1>0 DEF Onward, Prefixed
    <2>2. ASSUME Writing(p)'
          PROVE  Writing(p) /\ Target(p)' = Target(p)
      <3>1. pc[p] = "write" /\ hdl'[obj[p]] \in isopen /\ obj[p] \in Ids
        BY <1>0, <2>2, Having DEF Writing, Quiet
      <3>2. hdl'[obj[p]] # 0
        BY <1>0, <3>1 DEF Handles, TypeOK
      <3>3. hdl'[obj[p]] = hdl[obj[p]]
        BY <3>1, <3>2 DEF Quiet
      <3> QED
        BY <1>0, <3>1, <3>3 DEF Writing, Target
    <2> QED
      BY <1>0, <2>1, <2>2 DEF Directed
  <1>8. /\ PostOrder' /\ Placed' /\ Room' /\ Begun' /\ Accepted'
        /\ AcceptedStored'
    BY <1>0, <1>6, <1>7, Unwritten
  <1> QED
    BY <1>2, <1>3, <1>4, <1>5, <1>8 DEF IInv

LEMMA Recycled ==
  ASSUME TypeOK, NEW o, Recycle(o)
  PROVE  entry' \in [Keys -> Ref]
  <1>1. 0 \in Ref
    BY Sizes DEF Ref
  <1> QED
    BY <1>1 DEF TypeOK, Recycle

\* _close, run by the timer.
LEMMA TimerStep ==
  ASSUME IInv, NEW t \in Ids, CbStep(t)
  PROVE  IInv'
  <1>0. TypeOK /\ Timers /\ 0 \in Ref /\ today \in Nat
    <2>1. TypeOK /\ Timers
      BY DEF IInv
    <2>2. 0 \in Ref
      BY Sizes DEF Ref
    <2>3. today \in 1 .. Days
      BY <2>1 DEF TypeOK
    <2> QED
      BY <2>1, <2>2, <2>3, Sizes
  <1> USE DEF storeVars, keyVars, hdlVars, tmrVars, dayVars, CbAt, CbGoto
  <1>1. CASE Fire(t)
    <2>1. TypeOK'
      BY <1>0, <1>1 DEF Fire, TypeOK, postVars
    <2>2. Timers'
      BY <1>0, <1>1 DEF Fire, TypeOK, Timers
    <2>3. Quiet
      BY <1>0, <1>1 DEF Fire, Quiet
    <2> QED
      BY <2>1, <2>2, <2>3, AsideStep
  <1>2. CASE Again(t)
    <2>1. towner[t] \in Ids /\ tmr[towner[t]] \in Ref
      <3>1. towner[t] # 0 /\ towner[t] \in Ref
        BY <1>0, <1>2 DEF Again, Timers, TypeOK
      <3>2. towner[t] \in Ids
        BY <3>1, Sizes DEF Ids, Ref
      <3> QED
        BY <1>0, <3>2 DEF TypeOK
    <2>2. armed' \subseteq Ids /\ \A u \in armed' : towner[u] # 0
      <3>1. tmr[towner[t]] # 0 => tmr[towner[t]] \in Ids
        BY <2>1, Sizes DEF Ids, Ref
      <3> QED
        BY <1>0, <1>2, <2>1, <3>1 DEF Again, Timers, TypeOK
    <2>3. TypeOK'
      BY <1>0, <1>2, <2>2 DEF Again, TypeOK, postVars
    <2>4. Timers'
      BY <1>0, <1>2, <2>2 DEF Again, TypeOK, Timers
    <2>5. Quiet
      BY <1>0, <1>2 DEF Again, Quiet
    <2> QED
      BY <2>3, <2>4, <2>5, AsideStep
  <1>3. CASE GivesUp(t)
    <2>1. TypeOK'
      BY <1>0, <1>3 DEF GivesUp, TypeOK, postVars
    <2>2. Timers'
      BY <1>0, <1>3 DEF GivesUp, TypeOK, Timers
    <2>3. Quiet
      BY <1>0, <1>3 DEF GivesUp, Quiet
    <2> QED
      BY <2>1, <2>2, <2>3, AsideStep
  <1>4. CASE CallsBack(t)
    <2>1. entry' \in [Keys -> Ref]
      BY <1>0, <1>4, Recycled DEF CallsBack
    <2>2. TypeOK'
      BY <1>0, <1>4, <2>1 DEF CallsBack, TypeOK, postVars
    <2>3. Timers'
      BY <1>0, <1>4 DEF CallsBack, TypeOK, Timers
    <2>4. Quiet
      BY <1>0, <1>4 DEF CallsBack, Quiet
    <2> QED
      BY <2>2, <2>3, <2>4, AsideStep
  <1>5. CASE ClosesHandle(t)
    <2>1. TypeOK'
      BY <1>0, <1>5 DEF ClosesHandle, TypeOK, postVars
    <2>2. Timers'
      BY <1>0, <1>5 DEF ClosesHandle, TypeOK, Timers
    <2>3. Quiet
      BY <1>0, <1>5 DEF ClosesHandle, Quiet
    <2> QED
      BY <2>1, <2>2, <2>3, AsideStep
  <1>6. CASE DropsHandle(t)
    <2>1. TypeOK'
      BY <1>0, <1>6 DEF DropsHandle, TypeOK, postVars
    <2>2. Timers'
      BY <1>0, <1>6 DEF DropsHandle, TypeOK, Timers
    <2>3. Quiet
      BY <1>0, <1>6 DEF DropsHandle, Quiet, TypeOK
    <2> QED
      BY <2>1, <2>2, <2>3, AsideStep
  <1>7. CASE DropsTimer(t)
    <2>1. TypeOK'
      BY <1>0, <1>7 DEF DropsTimer, TypeOK, postVars
    <2>2. Timers'
      BY <1>0, <1>7 DEF DropsTimer, TypeOK, Timers
    <2>3. Quiet
      BY <1>0, <1>7 DEF DropsTimer, Quiet
    <2> QED
      BY <2>1, <2>2, <2>3, AsideStep
  <1> QED
    BY <1>1, <1>2, <1>3, <1>4, <1>5, <1>6, <1>7 DEF CbStep

\* Close and the clock.
LEMMA OutsideStep ==
  ASSUME IInv,
         CloseBegins \/ CloseEnds \/ Midnight \/ (\E o \in Ids : CloseFile(o) \/ Expire(o))
  PROVE  IInv'
  <1>0. TypeOK /\ Timers /\ 0 \in Ref /\ today \in Nat
    <2>1. TypeOK /\ Timers
      BY DEF IInv
    <2>2. 0 \in Ref
      BY Sizes DEF Ref
    <2>3. today \in 1 .. Days
      BY <2>1 DEF TypeOK
    <2> QED
      BY <2>1, <2>2, <2>3, Sizes
  <1> USE DEF storeVars, keyVars, hdlVars, tmrVars, dayVars
  <1>1. CASE CloseBegins
    <2>1. TypeOK' /\ Timers' /\ Quiet
      BY <1>0, <1>1 DEF CloseBegins, TypeOK, Timers, Quiet, postVars
    <2> QED
      BY <2>1, AsideStep
  <1>2. CASE CloseEnds
    <2>1. TypeOK' /\ Timers' /\ Quiet
      BY <1>0, <1>2 DEF CloseEnds, TypeOK, Timers, Quiet, postVars
    <2> QED
      BY <2>1, AsideStep
  <1>3. CASE Midnight
    <2>1. today' \in 1 .. Days
      BY <1>0, <1>3, Sizes DEF Midnight, TypeOK
    <2>2. TypeOK' /\ Timers'
      BY <1>0, <1>3, <2>1 DEF Midnight, TypeOK, Timers, postVars
    <2>3. Quiet
      BY <1>0, <1>3 DEF Midnight, Quiet
    <2> QED
      BY <2>2, <2>3, AsideStep
  <1>4. ASSUME NEW o \in Ids, CloseFile(o)
        PROVE  IInv'
    <2>1. entry' \in [Keys -> Ref]
      BY <1>0, <1>4, Recycled DEF CloseFile
    <2>2. closer' \in {"none", "closing", "closed"}
      BY <1>4 DEF CloseFile
    <2>3. TypeOK'
      BY <1>0, <1>4, <2>1, <2>2 DEF CloseFile, TypeOK, postVars
    <2>4. Timers'
      BY <1>0, <1>4 DEF CloseFile, TypeOK, Timers
    <2>5. Quiet
      BY <1>0, <1>4 DEF CloseFile, Quiet, TypeOK
    <2> QED
      BY <2>3, <2>4, <2>5, AsideStep
  <1>5. ASSUME NEW o \in Ids, Expire(o)
        PROVE  IInv'
    <2>1. TypeOK' /\ Timers' /\ Quiet
      BY <1>0, <1>5 DEF Expire, TypeOK, Timers, Quiet, postVars
    <2> QED
      BY <2>1, AsideStep
  <1> QED
    BY <1>1, <1>2, <1>3, <1>4, <1>5

-----------------------------------------------------------------------------
(* The posts.                                                              *)

\* What the invariant says of one post.
LockedOf(p) ==
  /\ Inside(p) => /\ lock[obj[p]] = p /\ fp[obj[p]] = want[p]
                  /\ pc[p] = "scan" => hdl[obj[p]] = 0
  /\ pc[p] \notin {"load", "store", "end"} => obj[p] # 0
  /\ pc[p] \notin {"load", "end"} => want[p] \in 1 .. Day
  /\ pc[p] \notin {"write", "check"} => part[p] = 1
  /\ Dated => pc[p] # "store" /\ obj[p] \in {0, 1}

LEMMA Keying ==
  ASSUME TypeOK, NEW p \in Posts
  PROVE  KeyOf(rec[p]) \in Keys /\ rec[p] \in 1 .. Batch /\ rec[p] \in Nat
  BY Sizes DEF TypeOK, KeyOf, Keys

\* Load looks the RollingFile up.
LEMMA LoadStep ==
  ASSUME IInv, NEW p \in Posts, Load(p)
  PROVE  IInv'
  <1> USE DEF storeVars, keyVars, hdlVars, tmrVars, dayVars, At, Goto
  <1>0. /\ TypeOK /\ Locked /\ Handles /\ Chain /\ Timers /\ pc[p] = "load"
        /\ UNCHANGED <<disk, entry, made, okey, fp, idx, hdl, tmr, idle, lock, hfile, opened, isopen,
                       towner, armed, cb, rec, part, outcome, kind, today, closer, crashed>>
    BY DEF IInv, Load
  <1>1. PICK o : o = IF Dated THEN 1 ELSE entry[KeyOf(rec[p])]
    OBVIOUS
  <1>2. /\ pc' = [pc EXCEPT ![p] = IF o = 0 THEN "store" ELSE "lock"]
        /\ obj' = [obj EXCEPT ![p] = o]
        /\ want' = [want EXCEPT ![p] = IF Dated THEN today ELSE 1]
    BY <1>1 DEF Load
  <1>3. o \in Ref /\ (Dated => o = 1)
    <2>1. 1 \in Ref
      BY Sizes DEF Ref
    <2> QED
      BY <1>0, <1>1, <2>1, Keying DEF TypeOK
  <1>4. /\ Day \in 1 .. Day /\ Day \in 0 .. Days /\ Day = IF Dated THEN today ELSE 1
        /\ Day' = Day
    BY <1>0, Sizes DEF Day, Dated, TypeOK
  <1>5. /\ pc'[p] \in {"store", "lock"} /\ (pc'[p] = "lock" => o # 0) /\ (Dated => pc'[p] # "store")
        /\ obj'[p] = o /\ want'[p] = Day
        /\ \A q \in Posts : q # p => pc'[q] = pc[q] /\ obj'[q] = obj[q] /\ want'[q] = want[q]
    BY <1>0, <1>2, <1>3, <1>4 DEF TypeOK
  <1>6. TypeOK'
    <2>1. pc' \in [Posts -> {"load", "store", "lock", "stat", "scan", "write", "check", "end"}]
      BY <1>0, <1>2 DEF TypeOK
    <2>2. obj' \in [Posts -> Ref] /\ want' \in [Posts -> 0 .. Days]
      BY <1>0, <1>2, <1>3, <1>4 DEF TypeOK
    <2> QED
      BY <1>0, <2>1, <2>2 DEF TypeOK
  <1>7. Locked'
    <2>1. ASSUME NEW q \in Posts
          PROVE  LockedOf(q)'
      <3>1. CASE q = p
        BY <1>0, <1>3, <1>4, <1>5, <3>1 DEF LockedOf, Inside, Locked, Dated
      <3>2. CASE q # p
        BY <1>0, <1>4, <1>5, <3>2 DEF LockedOf, Inside, Locked, Dated
      <3> QED
        BY <3>1, <3>2
    <2> QED
      BY <2>1 DEF Locked, LockedOf
  <1>8. Handles' /\ Chain' /\ Timers'
    BY <1>0, <1>4 DEF Handles, FileOf, Chain, Full, SizeOf, Timers
  <1>9. Counted'
    <2>1. \A q \in Posts : /\ rec'[q] = rec[q]
                           /\ pc[q] \in Stored => pc'[q] \in Stored
                           /\ pc[q] \in Chosen => pc'[q] \in Chosen
                           /\ pc[q] \in Done => pc'[q] \in Done
      BY <1>0, <1>5 DEF Stored, Chosen, Done
    <2> QED
      BY <1>0, <1>6, <2>1, CountedKept
  <1>10. ASSUME NEW q \in Posts
         PROVE  Onward(q) /\ Prefixed(q) /\ Directed(q)
    <2>1. CASE q = p
      BY <1>0, <1>5, <2>1 DEF Onward, Prefixed, Directed, Writing
    <2>2. CASE q # p
      BY <1>0, <1>5, <2>2 DEF Onward, Prefixed, Directed, Writing, Target
    <2> QED
      BY <2>1, <2>2
  <1>11. /\ PostOrder' /\ Placed' /\ Room' /\ Begun' /\ Accepted'
         /\ AcceptedStored'
    BY <1>0, <1>6, <1>10, Unwritten
  <1> QED
    BY <1>6, <1>7, <1>8, <1>9, <1>11 DEF IInv

\* LoadOrStore makes one if there is none by now.
LEMMA StoreStep ==
  ASSUME IInv, NEW p \in Posts, LoadOrStore(p)
  PROVE  IInv'
  <1> USE DEF storeVars, keyVars, hdlVars, tmrVars, dayVars, At, Goto
  <1>0. /\ TypeOK /\ Locked /\ Handles /\ Chain /\ Timers /\ Counted /\ pc[p] = "store" /\ ~Dated
        /\ pc' = [pc EXCEPT ![p] = "lock"]
        /\ UNCHANGED <<disk, fp, idx, hdl, tmr, idle, lock, hfile, opened, isopen,
                       towner, armed, cb, rec, want, part, outcome, kind, today, closer, crashed>>
    BY DEF IInv, LoadOrStore, Locked
  <1>1. PICK k \in Keys : k = KeyOf(rec[p])
    BY <1>0, Keying
  <1>2. /\ pc'[p] = "lock" /\ \A q \in Posts : q # p => pc'[q] = pc[q]
        /\ pc' \in [Posts -> {"load", "store", "lock", "stat", "scan", "write", "check", "end"}]
    BY <1>0 DEF TypeOK
  <1>3. /\ Cardinality(Reached(Stored)) + 1 <= Cardinality(Reached(Stored))'
        /\ Cardinality(Reached(Stored)) \in Nat /\ Cardinality(Reached(Stored))' \in Nat
        /\ Cardinality(Reached(Stored))' <= Total
    <2>1. rec \in [Posts -> 1 .. Batch] /\ rec' \in [Posts -> 1 .. Batch] /\ rec' = rec
      BY <1>0 DEF TypeOK
    <2>2. pc[p] \notin Stored /\ pc'[p] \in Stored
      BY <1>0, <1>2 DEF Stored
    <2>3. \A q \in Posts : rec'[q] = rec[q] /\ (pc[q] \in Stored => pc'[q] \in Stored)
      BY <1>2, <2>1, <2>2
    <2> QED
      BY <2>1, <2>2, <2>3, ReachedMore
  <1>4. made <= Cardinality(Reached(Stored)) /\ made \in Nat
    BY <1>0, Sizes DEF Counted, TypeOK, Ref
  <1>5. /\ \A q \in Posts : q # p => obj'[q] = obj[q]
        /\ obj'[p] # 0 /\ obj' \in [Posts -> Ref] /\ entry' \in [Keys -> Ref]
        /\ okey' \in [Ids -> Keys] /\ made' \in Ref /\ made' <= Cardinality(Reached(Stored))'
    <2>1. CASE entry[k] = 0
      <3>1. /\ made' = made + 1 /\ okey' = [okey EXCEPT ![made + 1] = k]
            /\ entry' = [entry EXCEPT ![k] = made + 1] /\ obj' = [obj EXCEPT ![p] = made + 1]
        BY <1>1, <2>1 DEF LoadOrStore, Bind, Create
      <3>2. made + 1 \in Ref /\ made + 1 # 0 /\ made + 1 <= Cardinality(Reached(Stored))'
        BY <1>3, <1>4, Sizes DEF Ref
      <3> QED
        BY <1>0, <3>1, <3>2 DEF TypeOK
    <2>2. CASE entry[k] # 0
      <3>1. obj' = [obj EXCEPT ![p] = entry[k]] /\ UNCHANGED <<made, okey, entry>>
        BY <1>1, <2>2 DEF LoadOrStore, Bind
      <3>2. made' <= Cardinality(Reached(Stored))'
        BY <1>3, <1>4, <3>1
      <3> QED
        BY <1>0, <2>2, <3>1, <3>2 DEF TypeOK
    <2> QED
      BY <2>1, <2>2
  <1>6. TypeOK'
    BY <1>0, <1>2, <1>5 DEF TypeOK
  <1>7. Locked'
    <2>1. Day' = Day /\ Dated' = Dated
      BY <1>0 DEF Day, Dated
    <2>2. ASSUME NEW q \in Posts
          PROVE  LockedOf(q)'
      <3>1. CASE q = p
        BY <1>0, <1>2, <1>5, <2>1, <3>1 DEF LockedOf, Inside, Locked, Dated
      <3>2. CASE q # p
        BY <1>0, <1>2, <1>5, <2>1, <3>2 DEF LockedOf, Inside, Locked, Dated
      <3> QED
        BY <3>1, <3>2
    <2> QED
      BY <2>2 DEF Locked, LockedOf
  <1>8. Handles' /\ Chain' /\ Timers'
    BY <1>0 DEF Handles, FileOf, Chain, Full, SizeOf, Timers, Day, Dated
  <1>9. Counted'
    <2>1. rec \in [Posts -> 1 .. Batch] /\ rec' \in [Posts -> 1 .. Batch] /\ rec' = rec
      BY <1>0 DEF TypeOK
    <2>2. \A q \in Posts : (pc[q] \in Chosen => pc'[q] \in Chosen) /\ (pc[q] \in Done => pc'[q] \in Done)
      BY <1>0, <1>2 DEF Chosen, Done
    <2>3. /\ Cardinality(Reached(Chosen)) <= Cardinality(Reached(Chosen))'
          /\ Cardinality(Reached(Chosen)) \in Nat /\ Cardinality(Reached(Chosen))' \in Nat
      BY <2>1, <2>2, ReachedKept
    <2>4. /\ Cardinality(Reached(Done)) <= Cardinality(Reached(Done))'
          /\ Cardinality(Reached(Done)) \in Nat /\ Cardinality(Reached(Done))' \in Nat
      BY <2>1, <2>2, ReachedKept
    <2>5. opened \in Nat /\ Ref \subseteq Nat
      BY <1>0, Sizes DEF TypeOK, Ref
    <2>6. opened' <= Cardinality(Reached(Chosen))'
      BY <1>0, <2>3, <2>5 DEF Counted
    <2>7. \E n \in Ref : n <= Cardinality(Reached(Done))' /\ \A t \in Ids : towner'[t] # 0 <=> t <= n
      BY <1>0, <2>4, <2>5 DEF Counted
    <2> QED
      BY <1>0, <1>5, <2>6, <2>7 DEF Counted, Dated
  <1>10. ASSUME NEW q \in Posts
         PROVE  Onward(q) /\ Prefixed(q) /\ Directed(q)
    <2>1. CASE q = p
      BY <1>0, <1>2, <2>1 DEF Onward, Prefixed, Directed, Writing
    <2>2. CASE q # p
      BY <1>0, <1>2, <1>5, <2>2 DEF Onward, Prefixed, Directed, Writing, Target
    <2> QED
      BY <2>1, <2>2
  <1>11. /\ PostOrder' /\ Placed' /\ Room' /\ Begun' /\ Accepted'
         /\ AcceptedStored'
    BY <1>0, <1>6, <1>10, Unwritten
  <1> QED
    BY <1>6, <1>7, <1>8, <1>9, <1>11 DEF IInv

\* Full files hold two parts at least, and no part is in two places: so the indices
\* that are used end before those there are.
LEMMA IndexBound ==
  ASSUME IInv, NEW o \in Ids, fp[o] # 0, Full(FileOf(o))
  PROVE  idx[o] <= Total /\ idx[o] + 1 \in 0 .. Total + 1 /\ idx[o] \in Nat \ {0}
  <1> DEFINE k == idx[o]
             d == fp[o]
             cells == (1 .. k) \X (1 .. Parts)
             slots == Records \X (1 .. Parts)
             At2(c) == disk[<<d, c[1]>>][c[2]]
             g == [c \in cells |-> <<<<At2(c)[1], At2(c)[2]>>, At2(c)[3]>>]
  <1>0. /\ TypeOK /\ Handles /\ Chain /\ PostOrder
        /\ Total \in Nat \ {0} /\ MaxSize \in Nat \ {0} /\ Parts \in Nat /\ Parts = 2
    BY Sizes DEF IInv, Parts
  <1>1. k \in 1 .. Total + 1 /\ k \in Nat /\ d \in 1 .. Days
    BY <1>0 DEF TypeOK, Handles
  <1>2. ASSUME NEW j \in 1 .. k
        PROVE  <<d, j>> \in Files /\ Full(<<d, j>>)
    <2>1. j \in 1 .. Total + 1
      BY <1>0, <1>1
    <2>2. CASE j = k
      BY <1>1, <2>1, <2>2 DEF Files, FileOf
    <2>3. CASE j # k
      <3>1. j \in 1 .. k - 1
        BY <1>1, <2>3
      <3> QED
        BY <1>0, <1>1, <2>1, <3>1 DEF Files, Chain
    <2> QED
      BY <2>2, <2>3
  <1>3. ASSUME NEW c \in cells
        PROVE  /\ <<d, c[1]>> \in Files /\ c[2] \in DOMAIN disk[<<d, c[1]>>]
               /\ c[1] \in 1 .. k /\ c[2] \in 1 .. Parts /\ c = <<c[1], c[2]>>
    <2>1. c[1] \in 1 .. k /\ c[2] \in 1 .. Parts /\ c = <<c[1], c[2]>>
      OBVIOUS
    <2>2. PICK f \in Files : f = <<d, c[1]>> /\ Full(f)
      BY <1>2, <2>1
    <2>3. disk[f] \in Seq(Pieces)
      BY <1>0 DEF TypeOK
    <2>4. DOMAIN disk[f] = 1 .. SizeOf(f) /\ SizeOf(f) \in Nat /\ SizeOf(f) > MaxSize
      BY <2>2, <2>3, LenProperties DEF SizeOf, Full
    <2>5. c[2] \in 1 .. SizeOf(f)
      BY <1>0, <2>1, <2>4
    <2> QED
      BY <2>1, <2>2, <2>4, <2>5
  <1>4. g \in [cells -> slots]
    <2>1. ASSUME NEW c \in cells
          PROVE  <<<<At2(c)[1], At2(c)[2]>>, At2(c)[3]>> \in slots
      <3>1. At2(c)[1] \in Posts /\ At2(c)[2] \in 1 .. Batch /\ At2(c)[3] \in 1 .. Parts
        BY <1>0, <1>3, Piece
      <3> QED
        BY <3>1 DEF Records
    <2> QED
      BY <2>1
  <1>5. ASSUME NEW c \in cells, NEW e \in cells, g[c] = g[e]
        PROVE  c = e
    <2>1. /\ At2(c) = <<At2(c)[1], At2(c)[2], At2(c)[3]>>
          /\ At2(e) = <<At2(e)[1], At2(e)[2], At2(e)[3]>>
      BY <1>0, <1>3, Piece
    <2>2. At2(c)[1] = At2(e)[1] /\ At2(c)[2] = At2(e)[2] /\ At2(c)[3] = At2(e)[3]
      BY <1>5
    <2>3. At2(c) = At2(e)
      BY <2>1, <2>2
    <2>4. ~(<<d, c[1]>> # <<d, e[1]>> \/ c[2] # e[2])
      BY <1>0, <1>3, <2>2, <2>3 DEF PostOrder
    <2> QED
      BY <1>3, <2>4
  <1>6. /\ IsFiniteSet(1 .. Parts) /\ Cardinality(1 .. Parts) = Parts
        /\ IsFiniteSet(1 .. k) /\ Cardinality(1 .. k) = k
    <2>1. IsFiniteSet(1 .. Parts) /\ Cardinality(1 .. Parts) = 2
      BY TwoParts
    <2>2. IsFiniteSet(1 .. k) /\ Cardinality(1 .. k) = IF 1 > k THEN 0 ELSE k - 1 + 1
      BY <1>1, FS_Interval
    <2>3. (IF 1 > k THEN 0 ELSE k - 1 + 1) = k
      BY <1>1
    <2> QED
      BY <1>0, <2>1, <2>2, <2>3
  <1>7. IsFiniteSet(slots) /\ Cardinality(slots) = Total * Parts
    BY <1>6, Sizes, FS_Product
  <1>8. Cardinality(cells) = k * Parts
    BY <1>6, FS_Product
  <1>9. Cardinality(cells) <= Cardinality(slots)
    <2>1. g \in Injection(cells, slots)
      BY <1>4, <1>5 DEF Injection, IsInjective
    <2> HIDE DEF g, cells, slots
    <2> QED
      BY <1>7, <2>1, FS_Injection
  <1>10. k <= Total
    BY <1>0, <1>1, <1>7, <1>8, <1>9
  <1> QED
    BY <1>0, <1>1, <1>10

\* Nobody else is inside with the same RollingFile.
LEMMA Alone ==
  ASSUME TypeOK, Locked, NEW p \in Posts, NEW q \in Posts, Inside(q), obj[p] = obj[q],
         Inside(p) \/ lock[obj[p]] = NoPost
  PROVE  p = q
  BY LogStoreAssumption DEF Locked

\* Lock takes the lock and looks at the date.
LEMMA LockStep ==
  ASSUME IInv, NEW p \in Posts, Lock(p)
  PROVE  IInv'
  <1> USE DEF storeVars, keyVars, hdlVars, tmrVars, dayVars, At, Goto, Locals
  <1>0. /\ TypeOK /\ Locked /\ Handles /\ Chain /\ Timers /\ pc[p] = "lock" /\ lock[obj[p]] = NoPost
        /\ pc' = [pc EXCEPT ![p] = "stat"] /\ lock' = [lock EXCEPT ![obj[p]] = p]
        /\ UNCHANGED <<disk, made, okey, idle, hfile, opened, towner, cb, rec, obj, want, part,
                       outcome, kind, today, closer, crashed>>
    BY DEF IInv, Lock, Free
  <1>1. PICK o \in Ids : o = obj[p]
    BY <1>0, Having
  <1>2. want[p] \in 1 .. Day /\ want[p] # 0 /\ want[p] \in 0 .. Days
    <2>1. want[p] \in 1 .. Day /\ want[p] \in 0 .. Days
      BY <1>0 DEF Locked, TypeOK
    <2> QED
      BY <2>1
  <1>3. /\ 0 \in Ref /\ 1 \in 0 .. Total + 1
    BY Sizes DEF Ref
  <1>4. /\ entry' \in [Keys -> Ref] /\ tmr' \in [Ids -> Ref] /\ hdl' \in [Ids -> Ref]
        /\ fp' \in [Ids -> 0 .. Days] /\ idx' \in [Ids -> 0 .. Total + 1]
        /\ isopen' \subseteq isopen /\ armed' \subseteq armed
        /\ \A u \in Ids : tmr'[u] = tmr[u] \/ tmr'[u] = 0
        /\ \A u \in Ids : u # o => hdl'[u] = hdl[u] /\ fp'[u] = fp[u] /\ idx'[u] = idx[u]
        /\ fp'[o] = want[p]
        /\ \/ hdl'[o] = hdl[o] /\ fp'[o] = fp[o] /\ idx'[o] = idx[o]
           \/ hdl'[o] = 0 /\ idx'[o] = 1
    <2>1. CASE fp[o] = want[p]
      BY <1>0, <1>1, <2>1 DEF Lock, TypeOK
    <2>2. CASE fp[o] # want[p] /\ hdl[o] = 0
      <3>1. /\ fp' = [fp EXCEPT ![o] = want[p]] /\ idx' = [idx EXCEPT ![o] = 1]
            /\ UNCHANGED <<entry, hdl, tmr, isopen, armed>>
        BY <1>1, <2>2 DEF Lock
      <3> QED
        BY <1>0, <1>2, <1>3, <2>2, <3>1 DEF TypeOK
    <2>3. CASE fp[o] # want[p] /\ hdl[o] # 0
      <3>1. entry' \in [Keys -> Ref]
        BY <1>0, <1>1, <2>3, Recycled DEF Lock
      <3> QED
        <4>1. /\ fp' = [fp EXCEPT ![o] = want[p]] /\ idx' = [idx EXCEPT ![o] = 1]
              /\ armed' = armed \ {tmr[o]} /\ tmr' = [tmr EXCEPT ![o] = 0]
              /\ isopen' = isopen \ {hdl[o]} /\ hdl' = [hdl EXCEPT ![o] = 0]
          BY <1>1, <2>3 DEF Lock
        <4> QED
          BY <1>0, <1>2, <1>3, <3>1, <4>1 DEF TypeOK
    <2> QED
      BY <2>1, <2>2, <2>3
  <1>5. /\ pc' \in [Posts -> {"load", "store", "lock", "stat", "scan", "write", "check", "end"}]
        /\ lock' \in [Ids -> Posts \cup {NoPost}]
        /\ pc'[p] = "stat" /\ lock'[o] = p
        /\ \A q \in Posts : q # p => pc'[q] = pc[q]
        /\ \A u \in Ids : u # o => lock'[u] = lock[u]
    BY <1>0, <1>1 DEF TypeOK
  <1>6. TypeOK'
    BY <1>0, <1>4, <1>5 DEF TypeOK
  <1>7. \A q \in Posts : q # p /\ Inside(q) => obj[q] \in Ids \ {o}
    BY <1>0, <1>1, Alone, Having DEF Inside
  <1>8. Day' = Day /\ Dated' = Dated
    BY <1>0 DEF Day, Dated
  <1>9. Locked'
    <2>1. ASSUME NEW q \in Posts
          PROVE  LockedOf(q)'
      <3>1. CASE q = p
        BY <1>0, <1>1, <1>2, <1>4, <1>5, <1>8, <3>1 DEF LockedOf, Inside, Locked
      <3>2. CASE q # p
        BY <1>0, <1>4, <1>5, <1>7, <1>8, <3>2 DEF LockedOf, Inside, Locked
      <3> QED
        BY <3>1, <3>2
    <2> QED
      BY <2>1 DEF Locked, LockedOf
  <1>10. Handles'
    <2>1. \A u \in Ids : hdl'[u] # 0 => hdl'[u] <= opened /\ hfile[hdl'[u]] = <<fp'[u], idx'[u]>>
      BY <1>0, <1>4 DEF Handles, FileOf
    <2>2. \A u \in Ids : fp'[u] # 0 => idx'[u] # 0
      BY <1>0, <1>4 DEF Handles
    <2>3. isopen' \subseteq 1 .. opened
      BY <1>0, <1>4 DEF Handles
    <2> QED
      BY <1>0, <2>1, <2>2, <2>3 DEF Handles, FileOf
  <1>11. Chain'
    <2>1. ASSUME NEW u \in Ids, fp'[u] # 0, NEW j \in 1 .. idx'[u] - 1
          PROVE  Full(<<fp'[u], j>>)
      <3>1. ~(u = o /\ idx'[u] = 1)
        BY <2>1
      <3>2. fp'[u] = fp[u] /\ idx'[u] = idx[u]
        BY <1>4, <3>1
      <3> QED
        BY <1>0, <2>1, <3>2 DEF Chain
    <2> QED
      BY <1>0, <1>8, <2>1 DEF Chain, Full, SizeOf
  <1>12. Timers'
    BY <1>0, <1>4 DEF Timers
  <1>13. Counted'
    <2>1. \A q \in Posts : /\ rec'[q] = rec[q]
                           /\ pc[q] \in Stored => pc'[q] \in Stored
                           /\ pc[q] \in Chosen => pc'[q] \in Chosen
                           /\ pc[q] \in Done => pc'[q] \in Done
      BY <1>0, <1>5 DEF Stored, Chosen, Done
    <2> QED
      BY <1>0, <1>6, <2>1, CountedKept
  <1>14. ASSUME NEW q \in Posts
         PROVE  Onward(q) /\ Prefixed(q) /\ Directed(q)
    <2>1. CASE q = p
      BY <1>0, <1>5, <2>1 DEF Onward, Prefixed, Directed, Writing
    <2>2. CASE q # p
      BY <1>0, <1>4, <1>5, <1>7, <2>2 DEF Onward, Prefixed, Directed, Writing, Target, Inside
    <2> QED
      BY <2>1, <2>2
  <1>15. /\ PostOrder' /\ Placed' /\ Room' /\ Begun' /\ Accepted'
         /\ AcceptedStored'
    BY <1>0, <1>6, <1>14, Unwritten
  <1> QED
    BY <1>6, <1>9, <1>10, <1>11, <1>12, <1>13, <1>15 DEF IInv

\* Stat keeps a handle whose file has room.
LEMMA StatStep ==
  ASSUME IInv, NEW p \in Posts, Stat(p)
  PROVE  IInv'
  <1> USE DEF storeVars, keyVars, hdlVars, tmrVars, dayVars, At, Goto, Locals
  <1>0. /\ TypeOK /\ Locked /\ Handles /\ Chain /\ Timers /\ pc[p] = "stat" /\ Inside(p)
        /\ UNCHANGED <<disk, entry, made, okey, fp, tmr, idle, lock, hfile, opened, towner, armed,
                       cb, rec, obj, want, part, outcome, kind, today, closer, crashed>>
    BY DEF IInv, Stat, Inside
  <1>1. PICK o \in Ids : o = obj[p]
    BY <1>0, Having
  <1>2. PICK h : h = hdl[o]
    OBVIOUS
  <1>3. /\ fp[o] = want[p] /\ want[p] \in 1 .. Day /\ fp[o] # 0 /\ lock[o] = p
        /\ h \in Ref /\ (h # 0 => hfile[h] = FileOf(o)) /\ (h \in isopen => h # 0)
    <2>1. fp[o] = want[p] /\ want[p] \in 1 .. Day /\ lock[o] = p
      BY <1>0, <1>1 DEF Locked
    <2>2. h \in Ref /\ (h # 0 => hfile[h] = FileOf(o)) /\ (h \in isopen => h # 0)
      BY <1>0, <1>1, <1>2 DEF Handles, TypeOK
    <2> QED
      BY <2>1, <2>2
  <1>4. \/ /\ pc' = [pc EXCEPT ![p] = "write"] /\ UNCHANGED <<isopen, hdl, idx>>
           /\ h # 0 /\ ~(h \in isopen /\ Full(hfile[h]))
        \/ /\ pc' = [pc EXCEPT ![p] = "scan"] /\ UNCHANGED <<isopen, hdl, idx>> /\ h = 0
        \/ /\ pc' = [pc EXCEPT ![p] = "scan"] /\ h # 0 /\ Full(hfile[h])
           /\ isopen' = isopen \ {h} /\ hdl' = [hdl EXCEPT ![o] = 0]
           /\ idx' = [idx EXCEPT ![o] = @ + 1]
    BY <1>1, <1>2, <1>3 DEF Stat
  <1>5. /\ pc' \in [Posts -> {"load", "store", "lock", "stat", "scan", "write", "check", "end"}]
        /\ pc'[p] \in {"write", "scan"} /\ \A q \in Posts : q # p => pc'[q] = pc[q]
    BY <1>0, <1>4 DEF TypeOK
  <1>6. /\ isopen' \subseteq isopen /\ hdl' \in [Ids -> Ref] /\ idx' \in [Ids -> 0 .. Total + 1]
        /\ \A u \in Ids : u # o => hdl'[u] = hdl[u] /\ idx'[u] = idx[u]
        /\ pc'[p] = "scan" => hdl'[o] = 0
        /\ \/ /\ hdl'[o] = h /\ idx'[o] = idx[o]
              /\ pc'[p] = "write" => h # 0 /\ ~(h \in isopen /\ Full(hfile[h]))
           \/ hdl'[o] = 0 /\ idx'[o] = idx[o] + 1 /\ Full(FileOf(o)) /\ pc'[p] = "scan"
    <2>1. CASE /\ pc' = [pc EXCEPT ![p] = "write"] /\ UNCHANGED <<isopen, hdl, idx>>
               /\ h # 0 /\ ~(h \in isopen /\ Full(hfile[h]))
      BY <1>0, <1>2, <2>1 DEF TypeOK
    <2>2. CASE pc' = [pc EXCEPT ![p] = "scan"] /\ UNCHANGED <<isopen, hdl, idx>> /\ h = 0
      BY <1>0, <1>2, <2>2 DEF TypeOK
    <2>3. CASE /\ pc' = [pc EXCEPT ![p] = "scan"] /\ h # 0 /\ Full(hfile[h])
               /\ isopen' = isopen \ {h} /\ hdl' = [hdl EXCEPT ![o] = 0]
               /\ idx' = [idx EXCEPT ![o] = @ + 1]
      <3>1. Full(FileOf(o))
        BY <1>3, <2>3
      <3>2. idx[o] + 1 \in 0 .. Total + 1
        BY <1>3, <3>1, IndexBound
      <3>3. 0 \in Ref
        BY Sizes DEF Ref
      <3> QED
        BY <1>0, <1>5, <2>3, <3>1, <3>2, <3>3 DEF TypeOK
    <2> QED
      BY <1>4, <2>1, <2>2, <2>3
  <1>7. TypeOK'
    BY <1>0, <1>5, <1>6 DEF TypeOK
  <1>8. \A q \in Posts : q # p /\ Inside(q) => obj[q] \in Ids \ {o}
    BY <1>0, <1>1, Alone, Having DEF Inside
  <1>9. Day' = Day /\ Dated' = Dated
    BY <1>0 DEF Day, Dated
  <1>10. Locked'
    <2>1. ASSUME NEW q \in Posts
          PROVE  LockedOf(q)'
      <3>1. CASE q = p
        BY <1>0, <1>1, <1>3, <1>5, <1>6, <1>9, <3>1 DEF LockedOf, Inside, Locked
      <3>2. CASE q # p
        BY <1>0, <1>5, <1>6, <1>8, <1>9, <3>2 DEF LockedOf, Inside, Locked
      <3> QED
        BY <3>1, <3>2
    <2> QED
      BY <2>1 DEF Locked, LockedOf
  <1>11. Handles'
    <2>1. \A u \in Ids : hdl'[u] # 0 => hdl'[u] <= opened /\ hfile[hdl'[u]] = <<fp[u], idx'[u]>>
      BY <1>0, <1>2, <1>6 DEF Handles, FileOf
    <2>2. \A u \in Ids : fp[u] # 0 => idx'[u] # 0
      BY <1>0, <1>6 DEF Handles, TypeOK
    <2>3. isopen' \subseteq 1 .. opened
      BY <1>0, <1>6 DEF Handles
    <2> QED
      BY <1>0, <2>1, <2>2, <2>3 DEF Handles, FileOf
  <1>12. Chain'
    <2>1. ASSUME NEW u \in Ids, fp[u] # 0, NEW j \in 1 .. idx'[u] - 1
          PROVE  Full(<<fp[u], j>>)
      <3>1. CASE idx'[u] = idx[u]
        BY <1>0, <2>1, <3>1 DEF Chain
      <3>2. CASE u = o /\ idx'[o] = idx[o] + 1 /\ Full(FileOf(o))
        <4>1. idx[o] \in Nat
          BY <1>0 DEF TypeOK
        <4>2. j = idx[o] \/ j \in 1 .. idx[o] - 1
          BY <2>1, <3>2, <4>1
        <4> QED
          BY <1>0, <2>1, <3>2, <4>2 DEF Chain, FileOf
      <3> QED
        BY <1>6, <3>1, <3>2
    <2> QED
      BY <1>0, <1>9, <2>1 DEF Chain, Full, SizeOf
  <1>13. Timers'
    BY <1>0 DEF Timers
  <1>14. Counted'
    <2>1. \A q \in Posts : /\ rec'[q] = rec[q]
                           /\ pc[q] \in Stored => pc'[q] \in Stored
                           /\ pc[q] \in Chosen => pc'[q] \in Chosen
                           /\ pc[q] \in Done => pc'[q] \in Done
      BY <1>0, <1>5 DEF Stored, Chosen, Done
    <2> QED
      BY <1>0, <1>7, <2>1, CountedKept
  <1>15. ASSUME NEW q \in Posts
         PROVE  Onward(q) /\ Prefixed(q) /\ Directed(q)
    <2>1. CASE q = p
      <3>1. Onward(q) /\ Prefixed(q)
        BY <1>0, <1>5, <2>1 DEF Onward, Prefixed
      <3>2. ASSUME Writing(p)'
            PROVE  /\ part'[p] = 1 /\ Target(p)' \in Files
                   /\ ~Full(Target(p)') /\ Target(p)'[1] = want'[p]
        <4>1. /\ pc'[p] = "write" /\ hdl'[o] \in isopen /\ hdl'[o] = h /\ ~Full(hfile[h])
              /\ Target(p)' = hfile[h]
          BY <1>0, <1>1, <1>6, <3>2 DEF Writing, Target
        <4>2. hfile[h] = FileOf(o) /\ hfile[h] \in Files
          BY <1>0, <1>3, <4>1 DEF TypeOK
        <4>3. part[p] = 1
          BY <1>0 DEF Locked
        <4> QED
          BY <1>0, <1>3, <4>1, <4>2, <4>3 DEF FileOf
      <3> QED
        BY <2>1, <3>1, <3>2 DEF Directed
    <2>2. CASE q # p
      BY <1>0, <1>5, <1>6, <1>8, <2>2 DEF Onward, Prefixed, Directed, Writing, Target, Inside
    <2> QED
      BY <2>1, <2>2
  <1>16. /\ PostOrder' /\ Placed' /\ Room' /\ Begun' /\ Accepted'
         /\ AcceptedStored'
    BY <1>0, <1>7, <1>15, Unwritten
  <1> QED
    BY <1>7, <1>10, <1>11, <1>12, <1>13, <1>14, <1>16 DEF IInv

\* The loop passes a full file.
LEMMA ScanStep ==
  ASSUME IInv, NEW p \in Posts, Scan(p)
  PROVE  IInv'
  <1> USE DEF storeVars, keyVars, hdlVars, tmrVars, dayVars, At, Goto, postVars
  <1>0. /\ TypeOK /\ Locked /\ Handles /\ Chain /\ Timers /\ pc[p] = "scan" /\ Inside(p)
        /\ Full(FileOf(obj[p])) /\ idx' = [idx EXCEPT ![obj[p]] = @ + 1]
        /\ UNCHANGED <<disk, entry, made, okey, fp, hdl, tmr, idle, lock, hfile, opened, isopen,
                       towner, armed, cb, pc, rec, obj, want, part, outcome, kind, today, closer,
                       crashed>>
    BY DEF IInv, Scan, Inside, Advance
  <1>1. PICK o \in Ids : o = obj[p]
    BY <1>0, Having
  <1>2. fp[o] = want[p] /\ fp[o] # 0 /\ hdl[o] = 0
    <2>1. fp[o] = want[p] /\ want[p] \in 1 .. Day /\ hdl[o] = 0
      BY <1>0, <1>1 DEF Locked
    <2> QED
      BY <2>1
  <1>3. idx[o] + 1 \in 0 .. Total + 1 /\ idx[o] \in Nat
    BY <1>0, <1>1, <1>2, IndexBound
  <1>4. /\ idx' \in [Ids -> 0 .. Total + 1] /\ idx'[o] = idx[o] + 1
        /\ \A u \in Ids : u # o => idx'[u] = idx[u]
    BY <1>0, <1>1, <1>3 DEF TypeOK
  <1>5. TypeOK'
    BY <1>0, <1>4 DEF TypeOK
  <1>6. Locked'
    BY <1>0 DEF Locked, Inside, Day, Dated
  <1>7. Handles'
    <2>1. \A u \in Ids : hdl[u] # 0 => hfile[hdl[u]] = <<fp[u], idx'[u]>>
      BY <1>0, <1>2, <1>4 DEF Handles, FileOf
    <2>2. \A u \in Ids : fp[u] # 0 => idx'[u] # 0
      BY <1>0, <1>3, <1>4 DEF Handles
    <2> QED
      BY <1>0, <2>1, <2>2 DEF Handles, FileOf
  <1>8. Chain'
    <2>1. ASSUME NEW u \in Ids, fp[u] # 0, NEW j \in 1 .. idx'[u] - 1
          PROVE  Full(<<fp[u], j>>)
      <3>1. CASE u # o
        BY <1>0, <1>4, <2>1, <3>1 DEF Chain
      <3>2. CASE u = o
        <4>1. j = idx[o] \/ j \in 1 .. idx[o] - 1
          BY <1>3, <1>4, <2>1, <3>2
        <4> QED
          BY <1>0, <1>1, <2>1, <3>2, <4>1 DEF Chain, FileOf
      <3> QED
        BY <3>1, <3>2
    <2> QED
      BY <1>0, <2>1 DEF Chain, Full, SizeOf, Day, Dated
  <1>9. Timers' /\ Counted'
    BY <1>0, <1>5, CountedKept DEF Timers
  <1>10. ASSUME NEW q \in Posts
         PROVE  Onward(q) /\ Prefixed(q) /\ Directed(q)
    BY <1>0 DEF Onward, Prefixed, Directed, Writing, Target
  <1>11. /\ PostOrder' /\ Placed' /\ Room' /\ Begun' /\ Accepted'
         /\ AcceptedStored'
    BY <1>0, <1>5, <1>10, Unwritten
  <1> QED
    BY <1>5, <1>6, <1>7, <1>8, <1>9, <1>11 DEF IInv

\* The first file that is not full is opened.
LEMMA OpenStep ==
  ASSUME IInv, NEW p \in Posts, Open(p)
  PROVE  IInv'
  <1> USE DEF storeVars, keyVars, hdlVars, tmrVars, dayVars, At, Goto, Locals
  <1>0. /\ TypeOK /\ Locked /\ Handles /\ Chain /\ Timers /\ Counted /\ pc[p] = "scan" /\ Inside(p)
        /\ ~Full(FileOf(obj[p])) /\ pc' = [pc EXCEPT ![p] = "write"]
        /\ opened' = opened + 1 /\ hfile' = [hfile EXCEPT ![opened + 1] = FileOf(obj[p])]
        /\ isopen' = isopen \cup {opened + 1} /\ hdl' = [hdl EXCEPT ![obj[p]] = opened + 1]
        /\ UNCHANGED <<disk, entry, made, okey, fp, idx, tmr, idle, lock,
                       towner, armed, cb, rec, obj, want, part, outcome, kind, today, closer,
                       crashed>>
    BY DEF IInv, Open, Inside, Writable
  <1>1. PICK o \in Ids : o = obj[p]
    BY <1>0, Having
  <1>2. /\ fp[o] = want[p] /\ want[p] \in 1 .. Day /\ fp[o] # 0 /\ lock[o] = p /\ part[p] = 1
        /\ FileOf(o) \in Files
    <2>1. fp[o] = want[p] /\ want[p] \in 1 .. Day /\ lock[o] = p /\ part[p] = 1
      BY <1>0, <1>1 DEF Locked
    <2>2. fp[o] # 0
      BY <2>1
    <2>3. fp[o] \in 1 .. Days /\ idx[o] \in 1 .. Total + 1
      BY <1>0, <2>2, Sizes DEF TypeOK, Handles
    <2> QED
      BY <2>1, <2>2, <2>3 DEF FileOf, Files
  <1>3. /\ pc' \in [Posts -> {"load", "store", "lock", "stat", "scan", "write", "check", "end"}]
        /\ pc'[p] = "write" /\ \A q \in Posts : q # p => pc'[q] = pc[q]
    BY <1>0 DEF TypeOK
  <1>4. rec \in [Posts -> 1 .. Batch] /\ rec' \in [Posts -> 1 .. Batch] /\ rec' = rec
    BY <1>0 DEF TypeOK
  <1>5. /\ Cardinality(Reached(Chosen)) + 1 <= Cardinality(Reached(Chosen))'
        /\ Cardinality(Reached(Chosen)) \in Nat /\ Cardinality(Reached(Chosen))' \in Nat
        /\ Cardinality(Reached(Chosen))' <= Total
    <2>1. pc[p] \notin Chosen /\ pc'[p] \in Chosen
      BY <1>0, <1>3 DEF Chosen
    <2>2. \A q \in Posts : rec'[q] = rec[q] /\ (pc[q] \in Chosen => pc'[q] \in Chosen)
      BY <1>3, <1>4, <2>1
    <2> QED
      BY <1>4, <2>1, <2>2, ReachedMore
  <1>6. /\ opened \in Nat /\ opened + 1 \in Ids /\ opened + 1 \in Ref
        /\ opened + 1 <= Cardinality(Reached(Chosen))'
    <2>1. opened \in Nat /\ opened <= Cardinality(Reached(Chosen))
      BY <1>0, Sizes DEF TypeOK, Ref, Counted
    <2> QED
      BY <1>5, <2>1, Sizes DEF Ids, Ref
  <1>7. /\ hfile' \in [Ids -> Files] /\ hdl' \in [Ids -> Ref] /\ isopen' \subseteq Ids
        /\ hfile'[opened + 1] = FileOf(o) /\ hdl'[o] = opened + 1
        /\ \A u \in Ids : u # o => hdl'[u] = hdl[u]
        /\ \A u \in Ids : hdl[u] # 0 => hfile'[hdl[u]] = hfile[hdl[u]] /\ hdl[u] # opened + 1
    <2>1. \A u \in Ids : hdl[u] # 0 => hdl[u] # opened + 1 /\ hdl[u] \in Ids
      <3>1. \A u \in Ids : hdl[u] # 0 => hdl[u] <= opened /\ hdl[u] \in Ref
        BY <1>0 DEF Handles, TypeOK
      <3> QED
        BY <1>6, <3>1, Sizes DEF Ids, Ref
    <2> QED
      BY <1>0, <1>1, <1>2, <1>6, <2>1 DEF TypeOK
  <1>8. TypeOK'
    BY <1>0, <1>3, <1>6, <1>7 DEF TypeOK
  <1>9. \A q \in Posts : q # p /\ Inside(q) => obj[q] \in Ids \ {o}
    BY <1>0, <1>1, Alone, Having DEF Inside
  <1>10. Day' = Day /\ Dated' = Dated
    BY <1>0 DEF Day, Dated
  <1>11. Locked'
    <2>1. ASSUME NEW q \in Posts
          PROVE  LockedOf(q)'
      <3>1. CASE q = p
        BY <1>0, <1>1, <1>2, <1>3, <1>10, <3>1 DEF LockedOf, Inside, Locked
      <3>2. CASE q # p
        BY <1>0, <1>3, <1>7, <1>9, <1>10, <3>2 DEF LockedOf, Inside, Locked
      <3> QED
        BY <3>1, <3>2
    <2> QED
      BY <2>1 DEF Locked, LockedOf
  <1>12. Handles'
    <2>1. ASSUME NEW u \in Ids, hdl'[u] # 0
          PROVE  hdl'[u] <= opened + 1 /\ hfile'[hdl'[u]] = FileOf(u)
      <3>1. CASE u = o
        BY <1>6, <1>7, <3>1
      <3>2. CASE u # o
        <4>1. hdl[u] # 0 /\ hdl[u] \in Nat
          <5>1. hdl[u] # 0 /\ hdl[u] \in Ref
            BY <1>0, <1>7, <2>1, <3>2 DEF TypeOK
          <5> QED
            BY <5>1, Sizes DEF Ref
        <4>2. hdl[u] <= opened /\ hfile[hdl[u]] = FileOf(u)
          BY <1>0, <4>1 DEF Handles
        <4> QED
          BY <1>6, <1>7, <2>1, <3>2, <4>1, <4>2
      <3> QED
        BY <3>1, <3>2
    <2>2. isopen' \subseteq 1 .. opened + 1
      BY <1>0, <1>6 DEF Handles
    <2> QED
      BY <1>0, <2>1, <2>2 DEF Handles, FileOf
  <1>13. Chain' /\ Timers'
    BY <1>0, <1>10 DEF Chain, Full, SizeOf, Timers
  <1>14. Counted'
    <2>1. \A q \in Posts : (pc[q] \in Stored => pc'[q] \in Stored) /\ (pc[q] \in Done => pc'[q] \in Done)
      BY <1>0, <1>3 DEF Stored, Done
    <2>2. /\ Cardinality(Reached(Stored)) <= Cardinality(Reached(Stored))'
          /\ Cardinality(Reached(Stored)) \in Nat /\ Cardinality(Reached(Stored))' \in Nat
      BY <1>4, <2>1, ReachedKept
    <2>3. /\ Cardinality(Reached(Done)) <= Cardinality(Reached(Done))'
          /\ Cardinality(Reached(Done)) \in Nat /\ Cardinality(Reached(Done))' \in Nat
      BY <1>4, <2>1, ReachedKept
    <2>4. made \in Nat /\ Ref \subseteq Nat
      BY <1>0, Sizes DEF TypeOK, Ref
    <2>5. IF Dated THEN made' = 1 ELSE made' <= Cardinality(Reached(Stored))'
      BY <1>0, <2>2, <2>4 DEF Counted
    <2>6. \E n \in Ref : n <= Cardinality(Reached(Done))' /\ \A t \in Ids : towner'[t] # 0 <=> t <= n
      BY <1>0, <2>3, <2>4 DEF Counted
    <2> QED
      BY <1>0, <1>6, <1>10, <2>5, <2>6 DEF Counted
  <1>15. ASSUME NEW q \in Posts
         PROVE  Onward(q) /\ Prefixed(q) /\ Directed(q)
    <2>1. CASE q = p
      <3>1. Onward(q) /\ Prefixed(q)
        BY <1>0, <1>3, <2>1 DEF Onward, Prefixed
      <3>2. Target(p)' = FileOf(o)
        BY <1>0, <1>1, <1>7 DEF Target
      <3>3. FileOf(o)[1] = want'[p] /\ part'[p] = 1 /\ ~Full(FileOf(o))
        BY <1>0, <1>1, <1>2 DEF FileOf
      <3> QED
        BY <1>2, <2>1, <3>1, <3>2, <3>3 DEF Directed
    <2>2. CASE q # p
      <3>1. Onward(q) /\ Prefixed(q)
        BY <1>0, <1>3, <2>2 DEF Onward, Prefixed
      <3>2. ASSUME Writing(q)'
            PROVE  Writing(q) /\ Target(q)' = Target(q)
        <4>1. /\ pc[q] = "write" /\ obj[q] \in Ids \ {o} /\ obj'[q] = obj[q]
              /\ hdl'[obj[q]] = hdl[obj[q]] /\ hdl[obj[q]] \in isopen \cup {opened + 1}
          BY <1>0, <1>3, <1>7, <1>9, <2>2, <3>2 DEF Writing, Inside
        <4>2. hdl[obj[q]] # 0
          BY <1>0, <1>6, <4>1 DEF Handles
        <4> QED
          BY <1>0, <1>7, <4>1, <4>2 DEF Writing, Target
      <3> QED
        BY <1>0, <3>1, <3>2 DEF Directed
    <2> QED
      BY <2>1, <2>2
  <1>16. /\ PostOrder' /\ Placed' /\ Room' /\ Begun' /\ Accepted'
         /\ AcceptedStored'
    BY <1>0, <1>8, <1>15, Unwritten
  <1> QED
    BY <1>8, <1>11, <1>12, <1>13, <1>14, <1>16 DEF IInv

\* A write to a handle that the recycler took away.
LEMMA WriteFailsStep ==
  ASSUME IInv, NEW p \in Posts, WriteFails(p)
  PROVE  IInv'
  <1> USE DEF storeVars, keyVars, hdlVars, tmrVars, dayVars, At, Goto
  <1>0. /\ TypeOK /\ Locked /\ Handles /\ Chain /\ Timers /\ pc[p] = "write" /\ Inside(p)
        /\ pc' = [pc EXCEPT ![p] = "check"]
        /\ outcome' = [outcome EXCEPT ![p][rec[p]] = "lost"]
        /\ UNCHANGED <<disk, entry, made, okey, fp, idx, hdl, tmr, idle, lock, hfile, opened, isopen,
                       towner, armed, cb, rec, obj, want, part, kind, today, closer, crashed>>
    BY DEF IInv, WriteFails, Inside, Failure
  <1>1. /\ pc' \in [Posts -> {"load", "store", "lock", "stat", "scan", "write", "check", "end"}]
        /\ pc'[p] = "check" /\ \A q \in Posts : q # p => pc'[q] = pc[q]
    BY <1>0 DEF TypeOK
  <1>2. /\ outcome' \in [Posts -> [1 .. Batch -> {"pending", "ok", "lost"}]]
        /\ \A q \in Posts : \A r \in 1 .. Batch : outcome'[q][r] = "ok" => outcome[q][r] = "ok"
    BY <1>0 DEF TypeOK
  <1>3. TypeOK'
    BY <1>0, <1>1, <1>2 DEF TypeOK
  <1>4. Locked'
    <2>1. Day' = Day /\ Dated' = Dated
      BY <1>0 DEF Day, Dated
    <2>2. ASSUME NEW q \in Posts
          PROVE  LockedOf(q)'
      <3>1. CASE q = p
        BY <1>0, <1>1, <2>1, <3>1 DEF LockedOf, Inside, Locked
      <3>2. CASE q # p
        BY <1>0, <1>1, <2>1, <3>2 DEF LockedOf, Inside, Locked
      <3> QED
        BY <3>1, <3>2
    <2> QED
      BY <2>2 DEF Locked, LockedOf
  <1>5. Handles' /\ Chain' /\ Timers'
    BY <1>0 DEF Handles, FileOf, Chain, Full, SizeOf, Timers, Day, Dated
  <1>6. Counted'
    <2>1. \A q \in Posts : /\ rec'[q] = rec[q]
                           /\ pc[q] \in Stored => pc'[q] \in Stored
                           /\ pc[q] \in Chosen => pc'[q] \in Chosen
                           /\ pc[q] \in Done => pc'[q] \in Done
      BY <1>0, <1>1 DEF Stored, Chosen, Done
    <2> QED
      BY <1>0, <1>3, <2>1, CountedKept
  <1>7. ASSUME NEW q \in Posts
        PROVE  Onward(q) /\ Prefixed(q) /\ Directed(q)
    <2>1. CASE q = p
      BY <1>0, <1>1, <2>1 DEF Onward, Prefixed, Directed, Writing
    <2>2. CASE q # p
      BY <1>0, <1>1, <2>2 DEF Onward, Prefixed, Directed, Writing, Target
    <2> QED
      BY <2>1, <2>2
  <1>8. /\ PostOrder' /\ Placed' /\ Room' /\ Begun' /\ Accepted'
        /\ AcceptedStored'
    BY <1>0, <1>2, <1>3, <1>7, Unwritten
  <1> QED
    BY <1>3, <1>4, <1>5, <1>6, <1>8 DEF IInv

\* Writex is over and gives the lock back.
LEMMA Leaving ==
  ASSUME IInv, NEW p \in Posts, Inside(p), Finish(p),
         UNCHANGED <<disk, fp, idx, hdl, hfile, opened, isopen, kind, today>>
  PROVE  /\ pc' \in [Posts -> {"load", "store", "lock", "stat", "scan", "write", "check", "end"}]
         /\ rec' \in [Posts -> 1 .. Batch] /\ obj' \in [Posts -> Ref]
         /\ want' \in [Posts -> 0 .. Days] /\ part' \in [Posts -> 1 .. Parts]
         /\ lock' \in [Ids -> Posts \cup {NoPost}]
         /\ Locked' /\ Handles' /\ Chain'
         /\ \A q \in Posts : Onward(q) /\ Prefixed(q) /\ Directed(q)
         /\ \A q \in Posts : \/ rec[q] < rec'[q]
                             \/ /\ rec'[q] = rec[q]
                                /\ pc[q] \in Stored => pc'[q] \in Stored
                                /\ pc[q] \in Chosen => pc'[q] \in Chosen
                                /\ pc[q] \in Done => pc'[q] \in Done
         /\ rec[p] < rec'[p] \/ pc'[p] \in Done
  <1> USE DEF Goto
  <1>0. /\ TypeOK /\ Locked /\ Handles /\ Chain
        /\ lock' = [lock EXCEPT ![obj[p]] = NoPost] /\ obj' = [obj EXCEPT ![p] = 0]
        /\ want' = [want EXCEPT ![p] = 0] /\ part' = [part EXCEPT ![p] = 1]
    BY DEF IInv, Finish
  <1>1. PICK o \in Ids : o = obj[p]
    BY <1>0, Having DEF Inside
  <1>2. /\ lock' \in [Ids -> Posts \cup {NoPost}] /\ obj' \in [Posts -> Ref]
        /\ want' \in [Posts -> 0 .. Days] /\ part' \in [Posts -> 1 .. Parts]
        /\ obj'[p] = 0 /\ want'[p] = 0 /\ part'[p] = 1
        /\ \A q \in Posts : q # p => obj'[q] = obj[q] /\ want'[q] = want[q] /\ part'[q] = part[q]
        /\ \A u \in Ids : u # o => lock'[u] = lock[u]
    <2>1. 0 \in Ref /\ 0 \in 0 .. Days /\ 1 \in 1 .. Parts
      BY Sizes DEF Ref, Parts
    <2> QED
      BY <1>0, <1>1, <2>1 DEF TypeOK
  <1>3. /\ pc' \in [Posts -> {"load", "store", "lock", "stat", "scan", "write", "check", "end"}]
        /\ rec' \in [Posts -> 1 .. Batch]
        /\ \/ pc'[p] = "end" /\ rec'[p] = rec[p]
           \/ pc'[p] = "load" /\ rec[p] < rec'[p]
        /\ \A q \in Posts : q # p => pc'[q] = pc[q] /\ rec'[q] = rec[q]
    <2>1. rec[p] \in 1 .. Batch /\ Batch \in Nat
      BY <1>0, Sizes DEF TypeOK
    <2>2. CASE IsLast(p)
      <3>1. pc' = [pc EXCEPT ![p] = "end"] /\ rec' = rec
        BY <2>2 DEF Finish
      <3> QED
        BY <1>0, <3>1 DEF TypeOK
    <2>3. CASE ~IsLast(p)
      <3>1. pc' = [pc EXCEPT ![p] = "load"] /\ rec' = [rec EXCEPT ![p] = @ + 1]
        BY <2>3 DEF Finish
      <3>2. rec[p] + 1 \in 1 .. Batch /\ rec[p] < rec[p] + 1
        BY <2>1, <2>3 DEF IsLast
      <3> QED
        BY <1>0, <3>1, <3>2 DEF TypeOK
    <2> QED
      BY <2>2, <2>3
  <1>4. \A q \in Posts : q # p /\ Inside(q) => obj[q] \in Ids \ {o}
    BY <1>0, <1>1, Alone, Having DEF Inside
  <1>5. Day' = Day /\ Dated' = Dated
    BY DEF Day, Dated
  <1>6. Locked'
    <2>1. ASSUME NEW q \in Posts
          PROVE  LockedOf(q)'
      <3>1. CASE q = p
        BY <1>2, <1>3, <3>1 DEF LockedOf, Inside
      <3>2. CASE q # p
        BY <1>0, <1>2, <1>3, <1>4, <1>5, <3>2 DEF LockedOf, Inside, Locked
      <3> QED
        BY <3>1, <3>2
    <2> QED
      BY <2>1 DEF Locked, LockedOf
  <1>7. Handles' /\ Chain'
    BY <1>0, <1>5 DEF Handles, FileOf, Chain, Full, SizeOf
  <1>8. ASSUME NEW q \in Posts
        PROVE  Onward(q) /\ Prefixed(q) /\ Directed(q)
    <2>1. CASE q = p
      BY <1>3, <2>1 DEF Onward, Prefixed, Directed, Writing
    <2>2. CASE q # p
      BY <1>2, <1>3, <2>2 DEF Onward, Prefixed, Directed, Writing, Target
    <2> QED
      BY <2>1, <2>2
  <1>9. \A q \in Posts : \/ rec[q] < rec'[q]
                         \/ /\ rec'[q] = rec[q]
                            /\ pc[q] \in Stored => pc'[q] \in Stored
                            /\ pc[q] \in Chosen => pc'[q] \in Chosen
                            /\ pc[q] \in Done => pc'[q] \in Done
    BY <1>3 DEF Stored, Chosen, Done
  <1>10. rec[p] < rec'[p] \/ pc'[p] \in Done
    BY <1>3 DEF Done
  <1> QED
    BY <1>2, <1>3, <1>6, <1>7, <1>8, <1>9, <1>10

\* A log file that cannot be opened.
LEMMA OpenFailsStep ==
  ASSUME IInv, NEW p \in Posts, OpenFails(p)
  PROVE  IInv'
  <1> USE DEF storeVars, keyVars, hdlVars, tmrVars, dayVars, At
  <1>0. /\ TypeOK /\ Timers /\ Inside(p) /\ Finish(p) /\ Recycle(obj[p])
        /\ outcome' = [outcome EXCEPT ![p][rec[p]] = "lost"]
        /\ UNCHANGED <<disk, made, okey, fp, idx, hdl, tmr, idle, hfile, opened, isopen,
                       towner, armed, cb, kind, today, closer, crashed>>
    BY DEF IInv, OpenFails, Inside, Failure
  <1>1. /\ pc' \in [Posts -> {"load", "store", "lock", "stat", "scan", "write", "check", "end"}]
        /\ rec' \in [Posts -> 1 .. Batch] /\ obj' \in [Posts -> Ref]
        /\ want' \in [Posts -> 0 .. Days] /\ part' \in [Posts -> 1 .. Parts]
        /\ lock' \in [Ids -> Posts \cup {NoPost}]
        /\ Locked' /\ Handles' /\ Chain'
        /\ \A q \in Posts : Onward(q) /\ Prefixed(q) /\ Directed(q)
        /\ \A q \in Posts : \/ rec[q] < rec'[q]
                            \/ /\ rec'[q] = rec[q]
                               /\ pc[q] \in Stored => pc'[q] \in Stored
                               /\ pc[q] \in Chosen => pc'[q] \in Chosen
                               /\ pc[q] \in Done => pc'[q] \in Done
    BY <1>0, Leaving
  <1>2. /\ outcome' \in [Posts -> [1 .. Batch -> {"pending", "ok", "lost"}]]
        /\ \A q \in Posts : \A r \in 1 .. Batch : outcome'[q][r] = "ok" => outcome[q][r] = "ok"
    BY <1>0 DEF TypeOK
  <1>3. entry' \in [Keys -> Ref]
    BY <1>0, Recycled
  <1>4. TypeOK'
    BY <1>0, <1>1, <1>2, <1>3 DEF TypeOK
  <1>5. Timers'
    BY <1>0 DEF Timers
  <1>6. Counted'
    BY <1>0, <1>1, <1>4, CountedKept
  <1>7. /\ PostOrder' /\ Placed' /\ Room' /\ Begun' /\ Accepted'
        /\ AcceptedStored'
    BY <1>0, <1>1, <1>2, <1>4, Unwritten
  <1> QED
    BY <1>1, <1>4, <1>5, <1>6, <1>7 DEF IInv

\* _check, which may make a timer, and the end of Writex.
LEMMA CheckStep ==
  ASSUME IInv, NEW p \in Posts, Check(p)
  PROVE  IInv'
  <1> USE DEF storeVars, keyVars, hdlVars, tmrVars, dayVars, At
  <1>0. /\ TypeOK /\ Locked /\ Timers /\ Counted /\ pc[p] = "check" /\ Inside(p) /\ Finish(p)
        /\ idle' = [idle EXCEPT ![obj[p]] = FALSE]
        /\ UNCHANGED <<disk, entry, made, okey, fp, idx, hdl, hfile, opened, isopen,
                       cb, outcome, kind, today, closer, crashed>>
    BY DEF IInv, Check, Inside
  <1>1. /\ pc' \in [Posts -> {"load", "store", "lock", "stat", "scan", "write", "check", "end"}]
        /\ rec' \in [Posts -> 1 .. Batch] /\ obj' \in [Posts -> Ref]
        /\ want' \in [Posts -> 0 .. Days] /\ part' \in [Posts -> 1 .. Parts]
        /\ lock' \in [Ids -> Posts \cup {NoPost}]
        /\ Locked' /\ Handles' /\ Chain'
        /\ \A q \in Posts : Onward(q) /\ Prefixed(q) /\ Directed(q)
        /\ \A q \in Posts : \/ rec[q] < rec'[q]
                            \/ /\ rec'[q] = rec[q]
                               /\ pc[q] \in Stored => pc'[q] \in Stored
                               /\ pc[q] \in Chosen => pc'[q] \in Chosen
                               /\ pc[q] \in Done => pc'[q] \in Done
        /\ rec[p] < rec'[p] \/ pc'[p] \in Done
    BY <1>0, Leaving
  <1>2. PICK o \in Ids : o = obj[p]
    BY <1>0, Having
  <1>3. PICK n \in Ref : n <= Cardinality(Reached(Done)) /\ \A t \in Ids : towner[t] # 0 <=> t <= n
    BY <1>0 DEF Counted
  <1>4. /\ Cardinality(Reached(Done)) + 1 <= Cardinality(Reached(Done))'
        /\ Cardinality(Reached(Done)) \in Nat /\ Cardinality(Reached(Done))' \in Nat
        /\ Cardinality(Reached(Done))' <= Total
    <2>1. rec \in [Posts -> 1 .. Batch] /\ pc[p] \notin Done
      BY <1>0 DEF TypeOK, Done
    <2>2. \A q \in Posts : rec[q] < rec'[q] \/ (rec'[q] = rec[q] /\ (pc[q] \in Done => pc'[q] \in Done))
      BY <1>1
    <2> QED
      BY <1>1, <2>1, <2>2, ReachedMore
  <1>5. n \in Nat /\ Total \in Nat /\ n + 1 \in Ids /\ n + 1 \in Ref /\ Ids \subseteq Nat
    <2>1. n \in Nat /\ Total \in Nat
      BY Sizes DEF Ref
    <2> QED
      BY <1>3, <1>4, <2>1 DEF Ids, Ref
  <1>6. NewTimer = n + 1
    <2>1. towner[n + 1] = 0 /\ \A u \in 1 .. n : towner[u] # 0
      <3>1. ~(n + 1 <= n) /\ \A u \in 1 .. n : u \in Ids /\ u <= n
        BY <1>5 DEF Ids
      <3> QED
        BY <1>3, <1>5, <3>1
    <2>2. ASSUME NEW t \in Ids, towner[t] = 0, \A u \in 1 .. t - 1 : towner[u] # 0
          PROVE  t = n + 1
      <3>1. t \in Nat /\ ~(t <= n)
        BY <1>3, <1>5, <2>2
      <3>2. n + 1 \notin 1 .. t - 1
        BY <2>1, <2>2
      <3> QED
        BY <1>5, <3>1, <3>2
    <2>3. n + 1 - 1 = n
      BY <1>5
    <2> QED
      BY <1>5, <2>1, <2>2, <2>3 DEF NewTimer
  <1>7. /\ idle' \in [Ids -> BOOLEAN]
        /\ tmr' \in [Ids -> Ref] /\ towner' \in [Ids -> Ref] /\ armed' \subseteq Ids
        /\ Timers'
        /\ \E m \in Ref : m <= Cardinality(Reached(Done))' /\ \A t \in Ids : towner'[t] # 0 <=> t <= m
    <2>0. idle' \in [Ids -> BOOLEAN]
      BY <1>0, <1>2 DEF TypeOK
    <2>1. CASE HasTimer(o)
      <3>1. UNCHANGED <<tmr, towner, armed>>
        BY <1>2, <2>1 DEF Check
      <3>2. n <= Cardinality(Reached(Done))'
        BY <1>3, <1>4, <1>5
      <3>3. \A t \in Ids : towner'[t] # 0 <=> t <= n
        BY <1>3, <3>1
      <3>4. Timers'
        BY <1>0, <3>1 DEF Timers
      <3> QED
        BY <1>0, <2>0, <3>1, <3>2, <3>3, <3>4 DEF TypeOK
    <2>2. CASE ~HasTimer(o)
      <3>1. /\ tmr' = [tmr EXCEPT ![o] = n + 1] /\ towner' = [towner EXCEPT ![n + 1] = o]
            /\ armed' = armed \cup {n + 1}
        BY <1>2, <1>6, <2>2 DEF Check
      <3>2. o # 0 /\ o \in Ref
        BY <1>0, <1>2, Having
      <3>3. tmr' \in [Ids -> Ref] /\ towner' \in [Ids -> Ref] /\ armed' \subseteq Ids
        BY <1>0, <1>5, <3>1, <3>2 DEF TypeOK
      <3>4. /\ towner'[n + 1] = o /\ \A t \in Ids : t # n + 1 => towner'[t] = towner[t]
            /\ tmr'[o] = n + 1 /\ \A u \in Ids : u # o => tmr'[u] = tmr[u]
        BY <1>0, <1>2, <1>5, <3>1 DEF TypeOK
      <3>5. \A t \in Ids : towner[t] # 0 => towner'[t] # 0
        BY <3>2, <3>4
      <3>6. Timers'
        <4>1. \A t \in armed' : towner'[t] # 0
          BY <1>0, <3>1, <3>2, <3>4, <3>5 DEF Timers, TypeOK
        <4>2. ASSUME NEW u \in Ids, tmr'[u] # 0
              PROVE  towner'[tmr'[u]] # 0
          <5>1. CASE u = o
            BY <3>2, <3>4, <5>1
          <5>2. CASE u # o
            <6>1. tmr[u] # 0 /\ tmr[u] \in Ref /\ tmr'[u] = tmr[u]
              BY <1>0, <3>4, <4>2, <5>2 DEF TypeOK
            <6>2. tmr[u] \in Ids
              BY <1>0, <6>1, Having
            <6> QED
              BY <1>0, <3>5, <6>1, <6>2 DEF Timers
          <5> QED
            BY <5>1, <5>2
        <4>3. \A t \in Ids : cb'[t] # "off" => towner'[t] # 0
          BY <1>0, <3>5 DEF Timers
        <4> QED
          BY <4>1, <4>2, <4>3 DEF Timers
      <3>7. n + 1 <= Cardinality(Reached(Done))'
        BY <1>3, <1>4, <1>5
      <3>8. ASSUME NEW t \in Ids
            PROVE  towner'[t] # 0 <=> t <= n + 1
        <4>1. t \in Nat /\ (t <= n + 1 <=> t = n + 1 \/ t <= n)
          BY <1>5
        <4> QED
          BY <1>3, <3>2, <3>4, <4>1
      <3> QED
        BY <1>5, <2>0, <3>3, <3>6, <3>7, <3>8
    <2> QED
      BY <2>1, <2>2
  <1>8. TypeOK'
    BY <1>0, <1>1, <1>7 DEF TypeOK
  <1>9. Counted'
    <2>1. /\ rec \in [Posts -> 1 .. Batch]
          /\ \A q \in Posts : rec[q] < rec'[q] \/ (rec'[q] = rec[q] /\ (pc[q] \in Stored => pc'[q] \in Stored))
          /\ \A q \in Posts : rec[q] < rec'[q] \/ (rec'[q] = rec[q] /\ (pc[q] \in Chosen => pc'[q] \in Chosen))
      BY <1>0, <1>1 DEF TypeOK
    <2>2. /\ Cardinality(Reached(Stored)) <= Cardinality(Reached(Stored))'
          /\ Cardinality(Reached(Stored)) \in Nat /\ Cardinality(Reached(Stored))' \in Nat
      BY <1>1, <2>1, ReachedKept
    <2>3. /\ Cardinality(Reached(Chosen)) <= Cardinality(Reached(Chosen))'
          /\ Cardinality(Reached(Chosen)) \in Nat /\ Cardinality(Reached(Chosen))' \in Nat
      BY <1>1, <2>1, ReachedKept
    <2>4. made \in Nat /\ opened \in Nat
      BY <1>0, Sizes DEF TypeOK, Ref
    <2>5. IF Dated' THEN made' = 1 ELSE made' <= Cardinality(Reached(Stored))'
      BY <1>0, <2>2, <2>4 DEF Counted, Dated
    <2>6. opened' <= Cardinality(Reached(Chosen))'
      BY <1>0, <2>3, <2>4 DEF Counted
    <2> QED
      BY <1>7, <2>5, <2>6 DEF Counted
  <1>10. \A q \in Posts : \A r \in 1 .. Batch : outcome'[q][r] = "ok" => outcome[q][r] = "ok"
    BY <1>0
  <1>11. /\ PostOrder' /\ Placed' /\ Room' /\ Begun' /\ Accepted'
         /\ AcceptedStored'
    BY <1>0, <1>1, <1>8, <1>10, Unwritten
  <1> QED
    BY <1>1, <1>7, <1>8, <1>9, <1>11 DEF IInv

-----------------------------------------------------------------------------
(* The write.                                                              *)

\* A post writes piece x to file f.
Wrote(p, f, x) ==
  /\ p \in Posts /\ f \in Files /\ x \in Pieces
  /\ x = <<p, rec[p], part[p]>>
  /\ Writing(p) /\ Target(p) = f /\ FileOf(obj[p]) = f /\ obj[p] \in Ids
  /\ fp[obj[p]] = want[p] /\ want[p] \in 1 .. Day
  /\ SizeOf(f) \in Nat /\ disk' \in [Files -> Seq(Pieces)]
  /\ \A g \in Files : g # f => disk'[g] = disk[g]
  /\ \A g \in Files : \A i \in DOMAIN disk[g] :
       i \in DOMAIN disk'[g] /\ disk'[g][i] = disk[g][i]
  /\ \A g \in Files : \A i \in DOMAIN disk'[g] :
       i \in DOMAIN disk[g] \/ (g = f /\ i = SizeOf(f) + 1)
  /\ SizeOf(f) + 1 \in DOMAIN disk'[f] /\ disk'[f][SizeOf(f) + 1] = x
  /\ \A g \in Files : SizeOf(g)' = IF g = f THEN SizeOf(f) + 1 ELSE SizeOf(g)
  /\ UNCHANGED <<entry, made, okey, fp, idx, hdl, tmr, idle, lock, hfile, opened, isopen,
                 towner, armed, cb, rec, obj, want, kind, today, closer, crashed>>
  /\ \A q \in Posts : q # p => pc'[q] = pc[q] /\ part'[q] = part[q] /\ outcome'[q] = outcome[q]
  /\ \/ part[p] = 1 /\ part'[p] = 2 /\ pc'[p] = "write" /\ outcome'[p] = outcome[p] /\ ~Dated
     \/ /\ part[p] = LastPart /\ part'[p] = part[p] /\ pc'[p] = "check" /\ outcome'[p][rec[p]] = "ok"
        /\ \A r \in 1 .. Batch : r # rec[p] => outcome'[p][r] = outcome[p][r]

LEMMA Appended ==
  ASSUME TypeOK, NEW f \in Files, NEW x \in Pieces, disk' = [disk EXCEPT ![f] = Append(@, x)]
  PROVE  /\ SizeOf(f) \in Nat /\ disk' \in [Files -> Seq(Pieces)]
         /\ \A g \in Files : g # f => disk'[g] = disk[g]
         /\ \A g \in Files : \A i \in DOMAIN disk[g] :
              i \in DOMAIN disk'[g] /\ disk'[g][i] = disk[g][i]
         /\ \A g \in Files : \A i \in DOMAIN disk'[g] :
              i \in DOMAIN disk[g] \/ (g = f /\ i = SizeOf(f) + 1)
         /\ SizeOf(f) + 1 \in DOMAIN disk'[f] /\ disk'[f][SizeOf(f) + 1] = x
         /\ \A g \in Files : SizeOf(g)' = IF g = f THEN SizeOf(f) + 1 ELSE SizeOf(g)
  <1>1. PICK s : s = disk[f]
    OBVIOUS
  <1>2. s \in Seq(Pieces) /\ disk \in [Files -> Seq(Pieces)]
    BY <1>1 DEF TypeOK
  <1>3. /\ Append(s, x) \in Seq(Pieces) /\ Len(Append(s, x)) = Len(s) + 1
        /\ \A i \in 1 .. Len(s) : Append(s, x)[i] = s[i]
        /\ Append(s, x)[Len(s) + 1] = x
    BY <1>2, AppendProperties
  <1>4. /\ DOMAIN s = 1 .. Len(s) /\ DOMAIN Append(s, x) = 1 .. Len(s) + 1 /\ Len(s) \in Nat
    BY <1>2, <1>3, LenProperties
  <1>5. disk'[f] = Append(s, x) /\ \A g \in Files : g # f => disk'[g] = disk[g]
    BY <1>1, <1>2
  <1>6. disk' \in [Files -> Seq(Pieces)]
    BY <1>1, <1>2, <1>3
  <1>7. SizeOf(f) = Len(s) /\ \A g \in Files : SizeOf(g)' = IF g = f THEN Len(s) + 1 ELSE SizeOf(g)
    BY <1>1, <1>3, <1>5 DEF SizeOf
  <1>8. ASSUME NEW g \in Files, NEW i \in DOMAIN disk[g]
        PROVE  i \in DOMAIN disk'[g] /\ disk'[g][i] = disk[g][i]
    <2>1. CASE g = f
      BY <1>1, <1>3, <1>4, <1>5, <1>8, <2>1
    <2>2. CASE g # f
      BY <1>5, <1>8, <2>2
    <2> QED
      BY <2>1, <2>2
  <1>9. ASSUME NEW g \in Files, NEW i \in DOMAIN disk'[g]
        PROVE  i \in DOMAIN disk[g] \/ (g = f /\ i = Len(s) + 1)
    <2>1. CASE g = f
      BY <1>1, <1>4, <1>5, <1>9, <2>1
    <2>2. CASE g # f
      BY <1>5, <1>9, <2>2
    <2> QED
      BY <2>1, <2>2
  <1>10. Len(s) + 1 \in DOMAIN disk'[f] /\ disk'[f][Len(s) + 1] = x
    BY <1>3, <1>4, <1>5
  <1> QED
    BY <1>4, <1>5, <1>6, <1>7, <1>8, <1>9, <1>10

LEMMA Writes ==
  ASSUME IInv, NEW p \in Posts, Write(p)
  PROVE  TypeOK' /\ \E f, x : Wrote(p, f, x)
  <1> USE DEF storeVars, keyVars, hdlVars, tmrVars, dayVars, At, Goto
  <1>0. /\ TypeOK /\ Locked /\ Handles /\ Writing(p)
        /\ disk' = [disk EXCEPT ![Target(p)] = Append(@, <<p, rec[p], part[p]>>)]
        /\ UNCHANGED <<entry, made, okey, fp, idx, hdl, tmr, idle, lock, hfile, opened, isopen,
                       towner, armed, cb, rec, obj, want, kind, today, closer, crashed>>
    BY DEF IInv, Write, Writing, Target
  <1>1. /\ obj[p] \in Ids /\ Target(p) = FileOf(obj[p]) /\ fp[obj[p]] = want[p]
        /\ Target(p) \in Files /\ want[p] \in 1 .. Day
    BY <1>0, HandleOpen DEF Locked, Writing
  <1>2. PICK f \in Files : f = Target(p)
    BY <1>1
  <1>3. <<p, rec[p], part[p]>> \in Pieces
    BY <1>0 DEF TypeOK, Pieces
  <1>4. PICK x \in Pieces : x = <<p, rec[p], part[p]>>
    BY <1>3
  <1>5. disk' = [disk EXCEPT ![f] = Append(@, x)]
    BY <1>0, <1>2, <1>4
  <1>6. /\ SizeOf(f) \in Nat /\ disk' \in [Files -> Seq(Pieces)]
        /\ \A g \in Files : g # f => disk'[g] = disk[g]
        /\ \A g \in Files : \A i \in DOMAIN disk[g] :
             i \in DOMAIN disk'[g] /\ disk'[g][i] = disk[g][i]
        /\ \A g \in Files : \A i \in DOMAIN disk'[g] :
             i \in DOMAIN disk[g] \/ (g = f /\ i = SizeOf(f) + 1)
        /\ SizeOf(f) + 1 \in DOMAIN disk'[f] /\ disk'[f][SizeOf(f) + 1] = x
        /\ \A g \in Files : SizeOf(g)' = IF g = f THEN SizeOf(f) + 1 ELSE SizeOf(g)
    BY <1>0, <1>5, Appended
  <1>7. /\ pc' \in [Posts -> {"load", "store", "lock", "stat", "scan", "write", "check", "end"}]
        /\ part' \in [Posts -> 1 .. Parts]
        /\ outcome' \in [Posts -> [1 .. Batch -> {"pending", "ok", "lost"}]]
        /\ \A q \in Posts : q # p => pc'[q] = pc[q] /\ part'[q] = part[q] /\ outcome'[q] = outcome[q]
        /\ \/ part[p] = 1 /\ part'[p] = 2 /\ pc'[p] = "write" /\ outcome'[p] = outcome[p] /\ ~Dated
           \/ /\ part[p] = LastPart /\ part'[p] = part[p] /\ pc'[p] = "check" /\ outcome'[p][rec[p]] = "ok"
              /\ \A r \in 1 .. Batch : r # rec[p] => outcome'[p][r] = outcome[p][r]
    <2>1. part[p] \in {1, 2} /\ rec[p] \in 1 .. Batch /\ pc[p] = "write"
      <3>1. part[p] \in 1 .. 2 /\ rec[p] \in 1 .. Batch /\ pc[p] = "write"
        BY <1>0 DEF TypeOK, Parts, Writing
      <3> QED
        BY <3>1
    <2>2. CASE part[p] = LastPart
      <3>1. /\ pc' = [pc EXCEPT ![p] = "check"] /\ part' = part
            /\ outcome' = [outcome EXCEPT ![p][rec[p]] = "ok"]
        BY <2>2 DEF Write
      <3> QED
        BY <1>0, <2>1, <2>2, <3>1 DEF TypeOK
    <2>3. CASE part[p] # LastPart
      <3>0. part[p] = 1 /\ ~Dated
        <4>1. ~Dated
          BY <1>0, <2>1, <2>3 DEF LastPart, IInv, Begun
        <4> QED
          BY <2>1, <2>3, <4>1 DEF LastPart, Parts
      <3>1. pc' = pc /\ part' = [part EXCEPT ![p] = 2] /\ outcome' = outcome
        BY <2>3, <3>0 DEF Write
      <3>2. 2 \in 1 .. Parts
        BY DEF Parts
      <3> QED
        BY <1>0, <2>1, <3>0, <3>1, <3>2 DEF TypeOK
    <2> QED
      BY <2>1, <2>2, <2>3
  <1>8. TypeOK'
    BY <1>0, <1>6, <1>7 DEF TypeOK
  <1>9. Wrote(p, f, x)
    BY <1>0, <1>1, <1>2, <1>4, <1>6, <1>7 DEF Wrote
  <1> QED
    BY <1>8, <1>9

\* What is written comes behind all that its post wrote, in the log as in its own order.
LEMMA WrittenOrder ==
  ASSUME IInv, NEW p, NEW f, NEW x, Wrote(p, f, x)
  PROVE  PostOrder'
  <1> DEFINE n == SizeOf(f) + 1
  <1>0. /\ TypeOK /\ Placed /\ PostOrder
        /\ p \in Posts /\ f \in Files /\ rec[p] \in Nat /\ part[p] \in Nat
        /\ x[1] = p /\ x[2] = rec[p] /\ x[3] = part[p]
        /\ pc[p] = "write" /\ Writing(p) /\ Target(p) = f /\ n \in Nat
    <2>1. rec[p] \in 1 .. Batch /\ part[p] \in 1 .. Parts
      BY DEF IInv, TypeOK, Wrote
    <2> QED
      BY <2>1, Sizes DEF IInv, Wrote, Writing, Parts
  <1>1. ASSUME NEW g \in Files, NEW i \in DOMAIN disk[g], disk[g][i][1] = p
        PROVE  /\ disk[g][i][2] < x[2] \/ (disk[g][i][2] = x[2] /\ disk[g][i][3] < x[3])
               /\ Precedes(g, i, f, n)
               /\ disk[g][i][2] \in Nat /\ disk[g][i][3] \in Nat
    <2>1. Behind(p, disk[g][i]) /\ NotAfter(g, f)
      BY <1>0, <1>1 DEF Placed
    <2>2. i \in 1 .. SizeOf(g) /\ disk[g][i][2] \in Nat /\ disk[g][i][3] \in Nat /\ SizeOf(g) \in Nat
      BY <1>0, Piece
    <2>3. /\ g = <<g[1], g[2]>> /\ f = <<f[1], f[2]>>
          /\ g[1] \in Nat /\ g[2] \in Nat /\ f[1] \in Nat /\ f[2] \in Nat
      BY <1>0, Sizes DEF Files
    <2>4. g = f => i < n
      BY <1>0, <2>2
    <2>5. g[1] = f[1] /\ g[2] = f[2] => g = f
      BY <2>3
    <2>6. Precedes(g, i, f, n)
      <3> HIDE DEF n
      <3> QED
        BY <2>1, <2>3, <2>4, <2>5 DEF NotAfter, Precedes
    <2>7. disk[g][i][2] < x[2] \/ (disk[g][i][2] = x[2] /\ disk[g][i][3] < x[3])
      BY <1>0, <2>1 DEF Behind
    <2> QED
      BY <2>2, <2>6, <2>7
  <1>2. \A g \in Files : \A i \in DOMAIN disk'[g] :
          \/ i \in DOMAIN disk[g] /\ disk'[g][i] = disk[g][i]
          \/ g = f /\ i = n /\ disk'[g][i] = x
    BY DEF Wrote
  <1> HIDE DEF n
  <1>3. ASSUME NEW g \in Files, NEW h \in Files, NEW i \in DOMAIN disk'[g], NEW j \in DOMAIN disk'[h],
               disk'[g][i][1] = disk'[h][j][1], g # h \/ i # j
        PROVE  /\ disk'[g][i] # disk'[h][j]
               /\ (\/ disk'[g][i][2] < disk'[h][j][2]
                   \/ disk'[g][i][2] = disk'[h][j][2] /\ disk'[g][i][3] < disk'[h][j][3])
                  => Precedes(g, i, h, j)
    <2>1. CASE /\ i \in DOMAIN disk[g] /\ disk'[g][i] = disk[g][i]
               /\ j \in DOMAIN disk[h] /\ disk'[h][j] = disk[h][j]
      BY <1>0, <1>3, <2>1 DEF PostOrder
    <2>2. CASE /\ i \in DOMAIN disk[g] /\ disk'[g][i] = disk[g][i]
               /\ h = f /\ j = n /\ disk'[h][j] = x
      <3>1. PICK y : y = disk[g][i]
        OBVIOUS
      <3>2. /\ y[2] < x[2] \/ (y[2] = x[2] /\ y[3] < x[3])
            /\ Precedes(g, i, f, n) /\ y[2] \in Nat /\ y[3] \in Nat
        BY <1>0, <1>1, <1>3, <2>2, <3>1
      <3> QED
        BY <1>0, <2>2, <3>1, <3>2
    <2>3. CASE /\ g = f /\ i = n /\ disk'[g][i] = x
               /\ j \in DOMAIN disk[h] /\ disk'[h][j] = disk[h][j]
      <3>1. PICK y : y = disk[h][j]
        OBVIOUS
      <3>2. /\ y[2] < x[2] \/ (y[2] = x[2] /\ y[3] < x[3])
            /\ y[2] \in Nat /\ y[3] \in Nat
        BY <1>0, <1>1, <1>3, <2>3, <3>1
      <3> QED
        BY <1>0, <2>3, <3>1, <3>2
    <2> QED
      BY <1>2, <1>3, <2>1, <2>2, <2>3
  <1> QED
    BY <1>3 DEF PostOrder, Precedes

LEMMA WrittenPlaced ==
  ASSUME IInv, NEW p, NEW f, NEW x, Wrote(p, f, x)
  PROVE  Placed'
  <1>0. /\ TypeOK /\ Placed /\ p \in Posts /\ f \in Files
        /\ x[1] = p /\ x[2] = rec[p] /\ x[3] = part[p] /\ part[p] \in Nat
        /\ f[1] = want[p] /\ f[1] \in Nat /\ f[2] \in Nat
    <2>1. part[p] \in 1 .. Parts
      BY DEF IInv, TypeOK, Wrote
    <2> QED
      BY <2>1, Sizes DEF IInv, Wrote, Parts, FileOf, Files
  <1>1. ASSUME NEW q \in Posts, Writing(q)'
        PROVE  Writing(q) /\ Target(q)' = Target(q)
    BY <1>1 DEF Wrote, Writing, Target
  <1>2. ASSUME NEW g \in Files, NEW i \in DOMAIN disk'[g], NEW y, y = disk'[g][i],
               NEW q, q = y[1]
        PROVE  /\ Behind(q, y)'
               /\ pc'[q] \notin {"load", "end"} => g[1] <= want'[q]
               /\ Writing(q)' => NotAfter(g, Target(q)')
    <2>1. CASE i \in DOMAIN disk[g] /\ y = disk[g][i]
      <3>1. /\ Behind(q, y)
            /\ pc[q] \notin {"load", "end"} => g[1] <= want[q]
            /\ Writing(q) => NotAfter(g, Target(q))
        BY <1>0, <1>2, <2>1 DEF Placed
      <3>2. q \in Posts /\ y[2] \in Nat /\ y[3] \in Nat
        BY <1>0, <1>2, <2>1, Piece
      <3>3. Behind(q, y)'
        <4>1. CASE q = p
          BY <1>0, <3>1, <3>2, <4>1 DEF Wrote, Behind, Writing
        <4>2. CASE q # p
          BY <3>1, <3>2, <4>2 DEF Wrote, Behind
        <4> QED
          BY <4>1, <4>2
      <3>4. pc'[q] \notin {"load", "end"} => pc[q] \notin {"load", "end"} /\ want'[q] = want[q]
        BY <3>2 DEF Wrote, Writing
      <3> QED
        BY <1>1, <3>1, <3>2, <3>3, <3>4
    <2>2. CASE g = f /\ y = x
      <3>1. Behind(q, y)'
        BY <1>0, <1>2, <2>2 DEF Wrote, Behind
      <3>2. q = p /\ want'[p] = want[p] /\ Target(p) = f
        BY <1>0, <1>2, <2>2 DEF Wrote
      <3>3. Writing(q)' => Target(q)' = f
        BY <1>0, <1>1, <3>2
      <3>4. NotAfter(f, f)
        BY <1>0 DEF NotAfter
      <3>5. g[1] <= want'[q]
        BY <1>0, <2>2, <3>2
      <3> QED
        BY <2>2, <3>1, <3>3, <3>4, <3>5
    <2> QED
      BY <1>2, <2>1, <2>2 DEF Wrote
  <1> QED
    BY <1>2 DEF Placed, NotAfter, Behind, Writing, Target

\* What is written is not pending any more.
LEMMA WrittenRoom ==
  ASSUME IInv, TypeOK', NEW p, NEW f, NEW x, Wrote(p, f, x)
  PROVE  Room'
  <1> SUFFICES ASSUME NEW g \in Files
               PROVE  SizeOf(g)' + Cardinality(Pending(g)') <= MaxSize + Parts * Cardinality(Posts)
    BY DEF Room
  <1>0. /\ TypeOK /\ p \in Posts /\ f \in Files /\ part[p] \in 1 .. Parts /\ part[p] \in Nat
        /\ SizeOf(g) \in Nat /\ Parts * Cardinality(Posts) \in Nat /\ MaxSize \in Nat
    <2>1. part[p] \in 1 .. Parts
      BY DEF IInv, TypeOK, Wrote
    <2>2. SizeOf(g) \in Nat
      BY LenProperties DEF IInv, TypeOK, SizeOf
    <2> QED
      BY <2>1, <2>2, Sizes DEF IInv, Wrote, Parts
  <1>1. PICK now, was : now = Pending(g)' /\ was = Pending(g)
    OBVIOUS
  <1>2. was \subseteq Posts \X (1 .. Parts)
    BY <1>1 DEF Pending
  <1>3. SizeOf(g) + Cardinality(was) <= MaxSize + Parts * Cardinality(Posts)
    BY <1>1 DEF IInv, Room
  <1>4. ASSUME NEW z \in now
        PROVE  z \in was /\ ~(g = f /\ z[1] = p /\ z[2] <= part[p])
    <2>1. /\ z \in Posts \X (1 .. Parts) /\ z[1] \in Posts /\ z[2] \in Nat
          /\ Writing(z[1])' /\ Target(z[1])' = g /\ z[2] >= part'[z[1]]
      BY <1>1, <1>4 DEF Pending, Parts
    <2>2. Writing(z[1]) /\ Target(z[1]) = g
      BY <2>1 DEF Wrote, Writing, Target
    <2>3. CASE z[1] = p
      <3>1. part[p] = 1 /\ part'[p] = 2
        BY <2>1, <2>3 DEF Wrote, Writing
      <3> QED
        BY <1>1, <2>1, <2>2, <2>3, <3>1 DEF Pending
    <2>4. CASE z[1] # p
      <3>1. part'[z[1]] = part[z[1]]
        BY <2>1, <2>4 DEF Wrote
      <3> QED
        BY <1>1, <2>1, <2>2, <2>4, <3>1 DEF Pending
    <2> QED
      BY <2>3, <2>4
  <1>5. CASE g # f
    <2>1. SizeOf(g)' = SizeOf(g)
      BY <1>5 DEF Wrote
    <2>2. now \subseteq was
      BY <1>4
    <2>3. Cardinality(now) <= Cardinality(was) /\ Cardinality(now) \in Nat /\ Cardinality(was) \in Nat
      BY <1>2, <2>2, AtMost
    <2> QED
      BY <1>0, <1>1, <1>3, <2>1, <2>3
  <1>6. CASE g = f
    <2>1. SizeOf(g)' = SizeOf(g) + 1
      BY <1>6 DEF Wrote
    <2>2. PICK z : z = <<p, part[p]>>
      OBVIOUS
    <2>3. z \in was
      <3>1. Writing(p) /\ Target(p) = g
        BY <1>6 DEF Wrote
      <3> QED
        BY <1>0, <1>1, <2>2, <3>1 DEF Pending
    <2>4. now \subseteq was \ {z}
      BY <1>0, <1>4, <1>6, <2>2
    <2>5. IsFiniteSet(was) /\ Cardinality(was) \in Nat
      BY <1>2, AtMost
    <2>6. Cardinality(was \ {z}) = Cardinality(was) - 1
      BY <2>3, <2>5, FS_RemoveElement
    <2>7. was \ {z} \subseteq Posts \X (1 .. Parts)
      BY <1>2
    <2>8. Cardinality(now) <= Cardinality(was \ {z}) /\ Cardinality(now) \in Nat
      BY <2>4, <2>7, AtMost
    <2> QED
      BY <1>0, <1>1, <1>3, <2>1, <2>5, <2>6, <2>8
  <1> QED
    BY <1>5, <1>6

LEMMA WrittenBegun ==
  ASSUME IInv, NEW p, NEW f, NEW x, Wrote(p, f, x)
  PROVE  Begun'
  <1>0. TypeOK /\ Locked /\ Begun /\ p \in Posts /\ f \in Files /\ Dated' = Dated
    BY DEF IInv, Wrote, Dated
  <1>1. ASSUME NEW q \in Posts, Writing(q)', part'[q] = 2, NEW g, g = Target(q)'
        PROVE  ~Dated /\ \E i \in DOMAIN disk'[g] : disk'[g][i] = <<q, rec'[q], 1>>
    <2>1. Writing(q) /\ Target(q) = g /\ rec'[q] = rec[q]
      BY <1>1 DEF Wrote, Writing, Target
    <2>2. CASE q = p
      <3>1. g = f /\ x = <<p, rec[p], 1>> /\ ~Dated
        BY <1>1, <2>1, <2>2 DEF Wrote, Writing
      <3> QED
        BY <2>1, <2>2, <3>1 DEF Wrote
    <2>3. CASE q # p
      <3>1. part[q] = 2
        BY <1>1, <2>3 DEF Wrote
      <3>2. ~Dated /\ \E i \in DOMAIN disk[g] : disk[g][i] = <<q, rec[q], 1>>
        BY <1>0, <2>1, <3>1 DEF Begun
      <3>3. g \in Files
        BY <2>1, HandleOpen DEF IInv
      <3> QED
        BY <2>1, <3>2, <3>3 DEF Wrote
    <2> QED
      BY <2>2, <2>3
  <1>2. ASSUME NEW q \in Posts, Writing(q)', part'[q] = 2
        PROVE  ~Dated' /\ \E i \in DOMAIN disk'[Target(q)'] : disk'[Target(q)'][i] = <<q, rec'[q], 1>>
    BY <1>0, <1>1, <1>2
  <1> QED
    BY <1>2 DEF Begun, Writing, Target

\* A record is accepted when its last part is written, where the first is.
LEMMA WrittenAccepted ==
  ASSUME IInv, NEW p, NEW f, NEW x, Wrote(p, f, x)
  PROVE  Accepted' /\ AcceptedStored'
  <1>0. TypeOK /\ p \in Posts /\ f \in Files /\ rec[p] \in 1 .. Batch /\ rec' = rec
    BY DEF IInv, Wrote, TypeOK
  <1>1. ASSUME NEW q \in Posts, NEW r \in 1 .. Batch, outcome'[q][r] = "ok"
        PROVE  \/ outcome[q][r] = "ok" /\ (pc[q] \in {"check", "end"} => pc'[q] = pc[q])
               \/ q = p /\ r = rec[p] /\ part[p] = LastPart /\ pc'[p] = "check"
    BY <1>0, <1>1 DEF Wrote, Writing
  <1>2. Accepted'
    <2> SUFFICES ASSUME NEW q \in Posts, NEW r \in 1 .. Batch, outcome'[q][r] = "ok"
                 PROVE  r < rec'[q] \/ (r = rec'[q] /\ pc'[q] \in {"check", "end"})
      BY DEF Accepted
    <2>1. CASE outcome[q][r] = "ok" /\ (pc[q] \in {"check", "end"} => pc'[q] = pc[q])
      BY <1>0, <2>1 DEF IInv, Accepted
    <2>2. CASE q = p /\ r = rec[p] /\ pc'[p] = "check"
      BY <1>0, <2>2
    <2> QED
      BY <1>1, <2>1, <2>2
  <1>3. AcceptedStored'
    <2> SUFFICES ASSUME NEW q \in Posts, NEW r \in 1 .. Batch, outcome'[q][r] = "ok"
                 PROVE  \E g \in Files : \E i, j \in DOMAIN disk'[g] :
                          i <= j /\ disk'[g][i] = <<q, r, 1>> /\ disk'[g][j] = <<q, r, LastPart>>
      <3>1. LastPart' = LastPart
        BY DEF LastPart, Dated, Wrote
      <3> QED
        BY <3>1 DEF AcceptedStored
    <2>1. CASE outcome[q][r] = "ok"
      <3>1. PICK g \in Files : \E i, j \in DOMAIN disk[g] :
              i <= j /\ disk[g][i] = <<q, r, 1>> /\ disk[g][j] = <<q, r, LastPart>>
        BY <2>1 DEF IInv, AcceptedStored
      <3>2. \A i \in DOMAIN disk[g] : i \in DOMAIN disk'[g] /\ disk'[g][i] = disk[g][i]
        BY DEF Wrote
      <3> QED
        BY <3>1, <3>2
    <2>2. CASE q = p /\ r = rec[p] /\ part[p] = LastPart
      <3>1. Writing(p) /\ Target(p) = f /\ SizeOf(f) \in Nat
        BY DEF Wrote
      <3>2. SizeOf(f) + 1 \in DOMAIN disk'[f] /\ disk'[f][SizeOf(f) + 1] = <<p, r, LastPart>>
        BY <1>0, <2>2 DEF Wrote
      <3>3. CASE Dated
        BY <1>0, <2>2, <3>1, <3>2, <3>3 DEF LastPart
      <3>4. CASE ~Dated
        <4>1. part[p] = 2
          BY <2>2, <3>4 DEF LastPart, Parts
        <4>2. PICK i \in DOMAIN disk[f] : disk[f][i] = <<p, r, 1>>
          BY <1>0, <2>2, <3>1, <4>1 DEF IInv, Begun
        <4>3. i \in 1 .. SizeOf(f)
          BY <1>0, <4>2, Piece
        <4>4. i <= SizeOf(f) + 1
          BY <3>1, <4>3
        <4>5. i \in DOMAIN disk'[f] /\ disk'[f][i] = <<p, r, 1>>
          BY <1>0, <4>2 DEF Wrote
        <4> QED
          BY <1>0, <2>2, <3>2, <4>4, <4>5
      <3> QED
        BY <3>3, <3>4
    <2> QED
      BY <1>1, <2>1, <2>2
  <1> QED
    BY <1>2, <1>3

\* A part is written.
LEMMA WriteStep ==
  ASSUME IInv, NEW p \in Posts, Write(p)
  PROVE  IInv'
  <1>0. TypeOK /\ TypeOK' /\ Locked /\ Handles /\ Chain /\ Timers
    BY Writes DEF IInv
  <1>1. PICK f, x : Wrote(p, f, x)
    BY Writes
  <1>2. Day' = Day /\ Dated' = Dated
    BY <1>1 DEF Day, Dated, Wrote
  <1>3. Locked'
    <2>1. ASSUME NEW q \in Posts
          PROVE  LockedOf(q)'
      <3>1. CASE q = p
        BY <1>0, <1>1, <1>2, <3>1 DEF LockedOf, Inside, Locked, Wrote, Writing
      <3>2. CASE q # p
        BY <1>0, <1>1, <1>2, <3>2 DEF LockedOf, Inside, Locked, Wrote
      <3> QED
        BY <3>1, <3>2
    <2> QED
      BY <2>1 DEF Locked, LockedOf
  <1>4. Handles' /\ Timers'
    BY <1>0, <1>1 DEF Handles, FileOf, Timers, Wrote
  <1>5. ASSUME NEW d, NEW j, <<d, j>> \in Files, Full(<<d, j>>)
        PROVE  Full(<<d, j>>)'
    <2>1. PICK g \in Files : g = <<d, j>>
      BY <1>5
    <2>2. SizeOf(g)' = SizeOf(g) + 1 \/ SizeOf(g)' = SizeOf(g)
      BY <1>1, <2>1 DEF Wrote
    <2>3. SizeOf(g) \in Nat /\ MaxSize \in Nat
      BY <1>0, LenProperties, Sizes DEF TypeOK, SizeOf
    <2> QED
      BY <1>5, <2>1, <2>2, <2>3 DEF Full
  <1>6. Chain'
    <2>1. ASSUME NEW u \in Ids, fp[u] # 0, NEW j \in 1 .. idx[u] - 1, NEW d, d = fp[u]
          PROVE  Full(<<d, j>>)'
      <3>1. Full(<<d, j>>)
        BY <1>0, <2>1 DEF Chain
      <3>2. d \in 0 .. Days /\ d # 0 /\ idx[u] \in 0 .. Total + 1
        BY <1>0, <2>1 DEF TypeOK
      <3>3. Total \in Nat /\ Days \in Nat
        BY Sizes
      <3>4. d \in 1 .. Days /\ j \in 1 .. Total + 1
        BY <2>1, <3>2, <3>3
      <3>5. <<d, j>> \in Files
        BY <3>4 DEF Files
      <3> QED
        BY <1>5, <3>1, <3>5
    <2>2. ASSUME NEW g \in Files, disk'[g] # <<>>
          PROVE  g[1] <= Day /\ \A j \in 1 .. g[2] - 1 : Full(<<g[1], j>>)'
      <3>1. g[1] <= Day /\ \A j \in 1 .. g[2] - 1 : Full(<<g[1], j>>)
        <4>1. CASE g # f
          BY <1>0, <1>1, <2>2, <4>1 DEF Chain, Wrote
        <4>2. CASE g = f
          <5>1. /\ g = <<fp[obj[p]], idx[obj[p]]>> /\ obj[p] \in Ids /\ fp[obj[p]] = want[p]
                /\ want[p] \in 1 .. Day
            BY <1>1, <4>2 DEF Wrote, FileOf
          <5>2. g[1] = fp[obj[p]] /\ g[2] = idx[obj[p]] /\ g[1] \in 1 .. Day
            BY <5>1
          <5>3. fp[obj[p]] # 0
            BY <5>2
          <5> QED
            BY <1>0, <5>1, <5>2, <5>3 DEF Chain
        <4> QED
          BY <4>1, <4>2
      <3>2. ASSUME NEW j \in 1 .. g[2] - 1
            PROVE  <<g[1], j>> \in Files
        <4>1. g[1] \in 1 .. Days /\ g[2] \in 1 .. Total + 1 /\ Total \in Nat
          BY Sizes DEF Files
        <4> QED
          BY <4>1 DEF Files
      <3> QED
        BY <1>5, <3>1, <3>2
    <2>3. UNCHANGED <<fp, idx>>
      BY <1>1 DEF Wrote
    <2> QED
      BY <1>2, <2>1, <2>2, <2>3 DEF Chain
  <1>7. Counted'
    <2>1. \A q \in Posts : /\ rec'[q] = rec[q]
                           /\ pc[q] \in Stored => pc'[q] \in Stored
                           /\ pc[q] \in Chosen => pc'[q] \in Chosen
                           /\ pc[q] \in Done => pc'[q] \in Done
      BY <1>1 DEF Stored, Chosen, Done, Wrote, Writing
    <2>2. UNCHANGED <<made, opened, towner, kind>>
      BY <1>1 DEF Wrote
    <2> QED
      BY <1>0, <2>1, <2>2, CountedKept
  <1>8. PostOrder' /\ Placed' /\ Room' /\ Begun'
    BY <1>0, <1>1, WrittenOrder, WrittenPlaced, WrittenRoom, WrittenBegun
  <1>9. Accepted' /\ AcceptedStored'
    BY <1>1, WrittenAccepted
  <1> QED
    BY <1>0, <1>3, <1>4, <1>6, <1>7, <1>8, <1>9 DEF IInv

-----------------------------------------------------------------------------
(* The theorems.                                                           *)

\* Nothing is written yet, and nobody is at work.
LEMMA Begins == Init => IInv
  <1> SUFFICES ASSUME Init
               PROVE  IInv
    OBVIOUS
  <1>1. /\ disk = [f \in Files |-> <<>>] /\ hdl = [o \in Ids |-> 0] /\ fp = [o \in Ids |-> 0]
        /\ tmr = [o \in Ids |-> 0] /\ towner = [t \in Ids |-> 0] /\ cb = [t \in Ids |-> "off"]
        /\ armed = {} /\ isopen = {} /\ opened = 0 /\ made = IF Dated THEN 1 ELSE 0
        /\ pc = [p \in Posts |-> "load"] /\ rec = [p \in Posts |-> 1]
        /\ obj = [p \in Posts |-> 0] /\ part = [p \in Posts |-> 1]
        /\ outcome = [p \in Posts |-> [r \in 1 .. Batch |-> "pending"]]
    BY DEF Init
  <1>2. /\ 0 \in Ref /\ 1 \in Ref /\ 1 \in Keys /\ 0 \in 0 .. Days /\ 1 \in 1 .. Days
        /\ 0 \in 0 .. Total + 1 /\ 1 \in 1 .. Batch /\ 1 \in 1 .. Parts /\ <<1, 1>> \in Files
        /\ Total \in Nat /\ MaxSize \in Nat /\ Parts * Cardinality(Posts) \in Nat
    BY Sizes DEF Ref, Keys, Parts, Files
  <1>3. TypeOK
    <2>1. <<>> \in Seq(Pieces)
      BY EmptySeq
    <2> QED
      BY <1>2, <2>1 DEF Init, TypeOK
  <1>4. Locked /\ Handles /\ Timers
    BY <1>1 DEF Locked, Handles, Timers, Inside
  <1>5. \A f \in Files : disk[f] = <<>> /\ SizeOf(f) = 0 /\ DOMAIN disk[f] = {}
    <2>1. Len(<<>>) = 0 /\ DOMAIN <<>> = {}
      OBVIOUS
    <2> QED
      BY <1>1, <2>1 DEF SizeOf
  <1>6. Chain
    BY <1>1, <1>5 DEF Chain
  <1>7. Counted
    <2>1. \A labels : Cardinality(Reached(labels)) \in Nat
      BY Fewer DEF Reached
    <2>2. made = IF Dated THEN 1 ELSE 0
      BY <1>1
    <2>3. 0 <= Cardinality(Reached(Stored)) /\ 0 <= Cardinality(Reached(Chosen)) /\ 0 <= Cardinality(Reached(Done))
      BY <2>1
    <2>4. \A t \in Ids : ~(t <= 0)
      BY <1>2 DEF Ids
    <2>5. \A t \in Ids : towner[t] # 0 <=> t <= 0
      BY <1>1, <2>4
    <2> QED
      BY <1>1, <1>2, <2>2, <2>3, <2>5 DEF Counted
  <1>8. PostOrder /\ Placed
    BY <1>5 DEF PostOrder, Placed
  <1>9. Room
    <2> SUFFICES ASSUME NEW f \in Files
                 PROVE  SizeOf(f) + Cardinality(Pending(f)) <= MaxSize + Parts * Cardinality(Posts)
      BY DEF Room
    <2>1. Pending(f) \subseteq Posts \X (1 .. Parts)
      BY DEF Pending
    <2>2. Cardinality(Pending(f)) \in Nat /\ Cardinality(Pending(f)) <= Parts * Cardinality(Posts)
      BY <2>1, AtMost
    <2> QED
      BY <1>2, <1>5, <2>2
  <1>10. Begun /\ Accepted /\ AcceptedStored
    BY <1>1 DEF Begun, Writing, Accepted, AcceptedStored
  <1> QED
    BY <1>3, <1>4, <1>6, <1>7, <1>8, <1>9, <1>10 DEF IInv

\* Every step of Next preserves the invariant.
LEMMA Steps == IInv /\ [Next]_vars => IInv'
  <1> SUFFICES ASSUME IInv, [Next]_vars
               PROVE  IInv'
    OBVIOUS
  <1>1. ASSUME NEW p \in Posts, PostStep(p)
        PROVE  IInv'
    BY <1>1, LoadStep, StoreStep, LockStep, StatStep, ScanStep, OpenStep, WriteStep,
       WriteFailsStep, CheckStep DEF PostStep
  <1>2. ASSUME NEW p \in Posts, OpenFails(p)
        PROVE  IInv'
    BY <1>2, OpenFailsStep
  <1>3. ASSUME NEW t \in Ids, CbStep(t)
        PROVE  IInv'
    BY <1>3, TimerStep
  <1>4. CASE CloseBegins \/ CloseEnds \/ Midnight \/ \E o \in Ids : CloseFile(o) \/ Expire(o)
    BY <1>4, OutsideStep
  <1>5. CASE UNCHANGED vars
    <2>1. TypeOK' /\ Timers' /\ Quiet
      <3>1. TypeOK /\ Timers
        BY DEF IInv
      <3>2. today \in 1 .. Days
        BY <3>1 DEF TypeOK
      <3>3. today <= today'
        BY <1>5, <3>2, Sizes DEF vars, dayVars
      <3>4. TypeOK' /\ Timers'
        BY <1>5, <3>1 DEF vars, storeVars, keyVars, hdlVars, tmrVars, dayVars, postVars, TypeOK, Timers
      <3> QED
        BY <1>5, <3>3, <3>4 DEF vars, storeVars, keyVars, hdlVars, tmrVars, dayVars, Quiet
    <2> QED
      BY <2>1, AsideStep
  <1> QED
    BY <1>1, <1>2, <1>3, <1>4, <1>5 DEF Next, Over

\* What is still pending only adds to the size.
LEMMA Tells == IInv => PostOrder /\ Bounded /\ AcceptedStored
  <1> SUFFICES ASSUME IInv
               PROVE  Bounded
    BY DEF IInv
  <1>1. ASSUME NEW f \in Files
        PROVE  SizeOf(f) <= MaxSize + Parts * Cardinality(Posts)
    <2>1. Pending(f) \subseteq Posts \X (1 .. Parts)
      BY DEF Pending
    <2>2. Cardinality(Pending(f)) \in Nat
      BY <2>1, AtMost
    <2>3. SizeOf(f) \in Nat
      BY LenProperties DEF IInv, TypeOK, SizeOf
    <2>4. SizeOf(f) + Cardinality(Pending(f)) <= MaxSize + Parts * Cardinality(Posts)
      BY DEF IInv, Room
    <2>5. MaxSize \in Nat /\ Parts * Cardinality(Posts) \in Nat
      BY Sizes DEF Parts
    <2> QED
      BY <2>2, <2>3, <2>4, <2>5
  <1> QED
    BY <1>1 DEF Bounded, SizeBound, IInv

\* The invariant holds in every state of every behaviour.
LEMMA Always == Spec => []IInv
  <1> QED
    BY Begins, Steps, PTL DEF Spec

\* A writer's records are in the log in the order it wrote them, and none twice, through
\* whatever RollingFiles, indices and handles they went.
THEOREM RecordsInOrder == Spec => []PostOrder
  <1> QED
    BY Always, Tells, PTL

\* No file grows beyond its limit and one record for each writer, and the state has its
\* types: so the indices, handles and timers there are suffice.
THEOREM FilesAreBounded == Spec => []Bounded
  <1> QED
    BY Always, Tells, PTL

\* When Writex returns no error the whole record is in one file, whatever the recycler
\* did to the handle meanwhile.
THEOREM AcceptedIsStored == Spec => []AcceptedStored
  <1> QED
    BY Always, Tells, PTL

===============================================================================
