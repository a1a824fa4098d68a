---------------------------- MODULE MonitorProofs ----------------------------
(***************************************************************************)
(* Proofs about who is named with a packet, for any processes, ports,      *)
(* bounds of the tables and times.                                         *)
(*                                                                         *)
(* Whatever table a name comes from, the process had a socket with that    *)
(* port (Rooted, and the last lines of Watching); sockets are never        *)
(* forgotten.  That the name is not that of an earlier user rests on an    *)
(* open socket being the last with its ends (Latest), and on the map of    *)
(* owners keeping up with the packets that wait as long as it drops        *)
(* nothing (Waiting).                                                      *)
(*                                                                         *)
(* And what the monitor reads of a connection, for any number of messages  *)
(* of any length, packets that end anywhere, and a buffer and a search of  *)
(* any size.                                                               *)
(***************************************************************************)
EXTENDS Monitor, FlowPart, FiniteSetTheorems, SequenceTheorems, WellFoundedInduction, NaturalsInduction, TLAPS

Ports == {pair[1] : pair \in Pairs} \cup {pair[2] : pair \in Pairs}
Sockets == [proc : Procs, pair : Pairs]
Packets == [src : Ports, dst : Ports, dir : {Incoming, Outgoing}, sock : Nat]

\* The table f is finite and of at most cap entries.
Holds(f, cap) == IsFiniteSet(DOMAIN f) /\ Cardinality(DOMAIN f) <= cap

\* The process once had a socket with these ends, or with this port here.
Had(p, pair) == \E i \in DOMAIN sockets : sockets[i].proc = p /\ sockets[i].pair = pair
HadPort(p, port) == \E i \in DOMAIN sockets : sockets[i].proc = p /\ sockets[i].pair[1] = port

\* It had one that is not older than the packet's.
HadSince(p, e) ==
  \E i \in e.sock .. Len(sockets) : sockets[i].proc = p /\ sockets[i].pair = Key(e)

\* The port on this machine of a key of the flows.
LocalPort(k) == IF k[3] = Outgoing THEN k[1] ELSE k[2]

\* A packet that went out of a known socket, and the last one known to own its ends.
Sent(e) == e.sock # 0 /\ e.dir = Outgoing
Owned(e) ==
  /\ e.sock \in DOMAIN sockets /\ sockets[e.sock].pair = Key(e)
  /\ roomy => Key(e) \in DOMAIN owners /\ HadSince(owners[Key(e)], e)

KernelTyped ==
  /\ sockets \in Seq(Sockets) /\ open \subseteq DOMAIN sockets
  /\ DOMAIN owners \subseteq Pairs /\ Holds(owners, OwnerCap)
  /\ queue \in Seq(Packets) /\ Len(queue) <= QueueCap
  /\ roomy \in BOOLEAN

Rooted == \A k \in DOMAIN owners : Had(owners[k], k)

Latest == \A i \in open : \A j \in DOMAIN sockets : j > i => sockets[j].pair # sockets[i].pair

Waiting == \A j \in DOMAIN queue : Sent(queue[j]) => Owned(queue[j])

Kernel == KernelTyped /\ Rooted /\ Latest /\ Waiting

\* The tables read from /proc.
Reading ==
  /\ inodes \subseteq DOMAIN sockets /\ refreshed \in 0 .. now
  /\ DOMAIN cache \subseteq Pairs /\ Holds(cache, CacheCap)
  /\ \A k \in DOMAIN cache : cache[k] \in Anyone /\ (cache[k] # Nobody => Had(cache[k], k))
  /\ \A k \in DOMAIN listeners :
       listeners[k] \in Anyone /\ (listeners[k] # Nobody => Had(listeners[k], k))

\* The packet at hand.  If it waits for /proc, its ends were not in the map.
Handling ==
  /\ now \in Nat /\ filter \in Filters /\ state \in {"poll", "scan", "tables"}
  /\ state # "poll" => /\ pkt.dir \in {Incoming, Outgoing} /\ pkt.sock \in Nat
                       /\ pkt.at \in 0 .. now
                       /\ Sent(pkt) => ~roomy

Watching ==
  /\ Holds(flows, FlowCap) /\ lastGc \in 0 .. now
  /\ shown.pid \in Anyone /\ shown.pkt.sock \in Nat
  /\ \A k \in DOMAIN flows :
       /\ flows[k].pid \in Anyone /\ flows[k].seen \in 0 .. now
       /\ flows[k].pid # Nobody =>
            HadPort(flows[k].pid, LocalPort(k)) /\ filter \in {Nobody, flows[k].pid}
  /\ Blamed /\ NotEarlier

IInv == Kernel /\ Reading /\ Handling /\ Watching

-----------------------------------------------------------------------------
(* Tables.                                                                 *)

\* What an entry put into a table changes.
LEMMA Entered ==
  ASSUME NEW f, NEW k, NEW v
  PROVE  /\ DOMAIN With(f, k, v) = DOMAIN f \cup {k}
         /\ With(f, k, v)[k] = v
         /\ \A j \in DOMAIN f : j # k => With(f, k, v)[j] = f[j]
  BY DEF With

\* An entry that was there, or for which there is room, fits.
LEMMA Fits ==
  ASSUME NEW f, NEW cap \in Nat, NEW k, NEW v, Holds(f, cap),
         k \in DOMAIN f \/ Cardinality(DOMAIN f) < cap
  PROVE  Holds(With(f, k, v), cap)
  <1>1. Cardinality(DOMAIN f) \in Nat
    BY FS_CardinalityType DEF Holds
  <1>2. /\ IsFiniteSet(DOMAIN f \cup {k})
        /\ Cardinality(DOMAIN f \cup {k}) = IF k \in DOMAIN f THEN Cardinality(DOMAIN f)
                                                          ELSE Cardinality(DOMAIN f) + 1
    BY FS_AddElement DEF Holds
  <1>3. Cardinality(DOMAIN f \cup {k}) <= cap
    BY <1>1, <1>2 DEF Holds
  <1> QED
    BY <1>2, <1>3, Entered DEF Holds

\* So does one that takes the place of another.
LEMMA FitsInstead ==
  ASSUME NEW f, NEW cap \in Nat, NEW k, NEW v, NEW old \in DOMAIN f, Holds(f, cap)
  PROVE  Holds(With(Without(f, {old}), k, v), cap)
  <1> DEFINE g == Without(f, {old})
  <1>1. DOMAIN g = DOMAIN f \ {old}
    BY DEF Without
  <1>2. Cardinality(DOMAIN f) \in Nat
    BY FS_CardinalityType DEF Holds
  <1>3. /\ IsFiniteSet(DOMAIN f \ {old})
        /\ Cardinality(DOMAIN f \ {old}) = Cardinality(DOMAIN f) - 1
    BY FS_RemoveElement DEF Holds
  <1>4. IsFiniteSet(DOMAIN g) /\ Cardinality(DOMAIN g) < cap
    BY <1>1, <1>2, <1>3 DEF Holds
  <1>5. Holds(g, cap)
    BY <1>3, <1>4, <1>2, <1>1 DEF Holds
  <1> HIDE DEF g
  <1>6. Holds(With(g, k, v), cap)
    BY <1>4, <1>5, Fits
  <1> QED
    BY <1>6 DEF g

\* And what is left of a table.
LEMMA FitsLess ==
  ASSUME NEW f, NEW cap \in Nat, NEW ks, Holds(f, cap)
  PROVE  Holds(Without(f, ks), cap)
  <1>1. DOMAIN Without(f, ks) = DOMAIN f \ ks
    BY DEF Without
  <1>2. /\ IsFiniteSet(DOMAIN f \ ks) /\ Cardinality(DOMAIN f \ ks) <= Cardinality(DOMAIN f)
        /\ Cardinality(DOMAIN f \ ks) \in Nat /\ Cardinality(DOMAIN f) \in Nat
    BY FS_Subset, FS_CardinalityType DEF Holds
  <1> QED
    BY <1>1, <1>2 DEF Holds

-----------------------------------------------------------------------------
(* The kernel.                                                             *)

\* Sockets are only added.
Grown ==
  /\ Len(sockets) <= Len(sockets')
  /\ \A i \in DOMAIN sockets : i \in DOMAIN sockets' /\ sockets'[i] = sockets[i]

\* record_socket_owner puts the owner in; what it drops, it drops for good.
LEMMA Recorded ==
  ASSUME KernelTyped, NEW pair \in Pairs, NEW p, Record(pair, p)
  PROVE  /\ DOMAIN owners' \subseteq Pairs /\ Holds(owners', OwnerCap)
         /\ pair \in DOMAIN owners' /\ owners'[pair] = p
         /\ \A k \in DOMAIN owners' : k # pair => k \in DOMAIN owners /\ owners'[k] = owners[k]
         /\ roomy' \in BOOLEAN
         /\ roomy' => roomy /\ DOMAIN owners \subseteq DOMAIN owners'
  <1>0. OwnerCap \in Nat
    BY MonitorAssumption
  <1>1. CASE /\ pair \in DOMAIN owners \/ Cardinality(DOMAIN owners) < OwnerCap
             /\ owners' = Noted(owners, pair, p) /\ UNCHANGED roomy
    <2>1. Holds(With(owners, pair, p), OwnerCap)
      BY <1>0, <1>1, Fits DEF KernelTyped
    <2> QED
      BY <1>1, <2>1 DEF KernelTyped, Noted, With
  <1>2. CASE /\ \E victim \in DOMAIN owners : owners' = Noted(Without(owners, {victim}), pair, p)
             /\ roomy' = FALSE
    <2>1. PICK victim \in DOMAIN owners : owners' = With(Without(owners, {victim}), pair, p)
      BY <1>2 DEF Noted
    <2> DEFINE left == Without(owners, {victim})
    <2>2. Holds(owners', OwnerCap)
      BY <1>0, <2>1, FitsInstead DEF KernelTyped
    <2>3. /\ DOMAIN left \subseteq DOMAIN owners
          /\ \A k \in DOMAIN left : left[k] = owners[k]
      BY DEF Without
    <2>4. owners' = With(left, pair, p)
      BY <2>1
    <2> HIDE DEF left
    <2>5. /\ DOMAIN owners' = DOMAIN left \cup {pair}
          /\ owners'[pair] = p
          /\ \A k \in DOMAIN left : k # pair => owners'[k] = left[k]
      BY <2>4 DEF With
    <2> QED
      BY <1>2, <2>2, <2>3, <2>5 DEF KernelTyped
  <1>3. \/ /\ pair \in DOMAIN owners \/ Cardinality(DOMAIN owners) < OwnerCap
           /\ owners' = Noted(owners, pair, p) /\ UNCHANGED roomy
        \/ /\ \E victim \in DOMAIN owners : owners' = Noted(Without(owners, {victim}), pair, p)
           /\ roomy' = FALSE
    BY DEF Record
  <1> QED
    BY <1>1, <1>2, <1>3

\* The packet socket keeps its packets in order, and takes some of the new ones.
LEMMA Captured ==
  ASSUME KernelTyped, NEW packets \in Seq(Packets), Capture(packets)
  PROVE  /\ queue' \in Seq(Packets) /\ Len(queue') <= QueueCap
         /\ \A j \in DOMAIN queue' :
              \/ j \in DOMAIN queue /\ queue'[j] = queue[j]
              \/ \E n \in DOMAIN packets : queue'[j] = packets[n]
  <1>1. PICK kept \in {<<>>, packets} \cup {<<packets[j]>> : j \in DOMAIN packets} :
          Len(queue) + Len(kept) <= QueueCap /\ queue' = queue \o kept
    BY DEF Capture
  <1>2. /\ kept \in Seq(Packets)
        /\ \A j \in DOMAIN kept : \E n \in DOMAIN packets : kept[j] = packets[n]
    <2>1. CASE kept = <<>>
      <3>1. kept \in Seq(Packets) /\ Len(kept) = 0
        BY <2>1, EmptySeq
      <3>2. DOMAIN kept = {}
        BY <3>1, LenProperties
      <3> QED
        BY <3>1, <3>2
    <2>2. CASE kept = packets
      BY <2>2
    <2>3. ASSUME NEW n \in DOMAIN packets, kept = <<packets[n]>>
          PROVE  /\ kept \in Seq(Packets)
                 /\ \A j \in DOMAIN kept : \E m \in DOMAIN packets : kept[j] = packets[m]
      <3>1. packets[n] \in Packets
        BY LenProperties
      <3>2. DOMAIN kept = {1} /\ kept[1] = packets[n]
        BY <2>3
      <3> QED
        BY <2>3, <3>1, <3>2
    <2> QED
      BY <2>1, <2>2, <2>3
  <1>3. queue \in Seq(Packets)
    BY DEF KernelTyped
  <1>4. /\ queue' \in Seq(Packets) /\ Len(queue') = Len(queue) + Len(kept)
        /\ \A j \in 1 .. Len(queue) + Len(kept) :
             queue'[j] = IF j <= Len(queue) THEN queue[j] ELSE kept[j - Len(queue)]
    <2>1. /\ queue \o kept \in Seq(Packets) /\ Len(queue \o kept) = Len(queue) + Len(kept)
          /\ \A j \in 1 .. Len(queue) + Len(kept) :
               (queue \o kept)[j] = IF j <= Len(queue) THEN queue[j] ELSE kept[j - Len(queue)]
      BY <1>2, <1>3, ConcatProperties
    <2> QED
      BY <1>1, <2>1
  <1>5. ASSUME NEW j \in DOMAIN queue'
        PROVE  \/ j \in DOMAIN queue /\ queue'[j] = queue[j]
               \/ \E n \in DOMAIN packets : queue'[j] = packets[n]
    <2>1. j \in 1 .. Len(queue) + Len(kept) /\ Len(queue) \in Nat /\ Len(kept) \in Nat
      BY <1>2, <1>3, <1>4, LenProperties
    <2>2. CASE j <= Len(queue)
      BY <1>3, <1>4, <2>1, <2>2, LenProperties
    <2>3. CASE ~(j <= Len(queue))
      <3>1. j - Len(queue) \in 1 .. Len(kept)
        BY <2>1, <2>3
      <3>2. j - Len(queue) \in DOMAIN kept /\ queue'[j] = kept[j - Len(queue)]
        BY <1>2, <1>4, <2>1, <2>3, <3>1, LenProperties
      <3> QED
        BY <1>2, <3>2
    <2> QED
      BY <2>2, <2>3
  <1> QED
    BY <1>1, <1>4, <1>5

\* A socket is opened if no other has its ends; it is the last with them.
LEMMA Opened ==
  ASSUME KernelTyped, Latest, NEW pair \in Pairs, NEW p \in Procs, New(pair, p)
  PROVE  /\ sockets' \in Seq(Sockets) /\ Len(sockets') = Len(sockets) + 1
         /\ Grown /\ open' \subseteq DOMAIN sockets'
         /\ Len(sockets') \in DOMAIN sockets'
         /\ sockets'[Len(sockets')] = [proc |-> p, pair |-> pair]
         /\ Latest'
  <1> DEFINE new == [proc |-> p, pair |-> pair]
  <1>0. new \in Sockets /\ sockets \in Seq(Sockets)
    BY DEF Sockets, KernelTyped
  <1>1. sockets' = Append(sockets, new) /\ open' = open \cup {Len(sockets) + 1}
    BY DEF New
  <1>2. /\ sockets' \in Seq(Sockets) /\ Len(sockets') = Len(sockets) + 1
        /\ \A i \in 1 .. Len(sockets) : sockets'[i] = sockets[i]
        /\ sockets'[Len(sockets) + 1] = new
    BY <1>0, <1>1, AppendProperties
  <1>3. /\ DOMAIN sockets = 1 .. Len(sockets) /\ DOMAIN sockets' = 1 .. Len(sockets')
        /\ Len(sockets) \in Nat
    BY <1>0, <1>2, LenProperties
  <1>4. Grown
    BY <1>2, <1>3 DEF Grown
  <1>5. open' \subseteq DOMAIN sockets'
    BY <1>1, <1>2, <1>3 DEF KernelTyped
  <1>6. \A i \in open : sockets[i].pair # pair
    BY DEF New, At
  <1>7. ASSUME NEW i \in open', NEW j \in DOMAIN sockets', j > i
        PROVE  sockets'[j].pair # sockets'[i].pair
    <2>1. i \in open /\ i \in 1 .. Len(sockets)
      BY <1>1, <1>2, <1>3, <1>5, <1>7
    <2>2. CASE j = Len(sockets) + 1
      BY <1>2, <1>6, <2>1, <2>2
    <2>3. CASE j # Len(sockets) + 1
      <3>1. j \in 1 .. Len(sockets)
        BY <1>2, <1>3, <2>3
      <3> QED
        BY <1>2, <1>3, <1>7, <2>1, <3>1 DEF Latest
    <2> QED
      BY <2>2, <2>3
  <1>8. Latest'
    BY <1>7 DEF Latest
  <1> QED
    BY <1>2, <1>3, <1>4, <1>5, <1>8

\* The ends of an open socket are recorded for its process: the map still names one
\* that had them, and for a packet that waits one that had them since.
LEMMA RecordKeeps ==
  ASSUME Kernel, Grown, sockets' \in Seq(Sockets), NEW n \in DOMAIN sockets',
         Record(sockets'[n].pair, sockets'[n].proc),
         \A j \in DOMAIN sockets : j > n => sockets[j].pair # sockets'[n].pair
  PROVE  /\ DOMAIN owners' \subseteq Pairs /\ Holds(owners', OwnerCap) /\ roomy' \in BOOLEAN
         /\ roomy' => roomy
         /\ sockets'[n].pair \in DOMAIN owners' /\ owners'[sockets'[n].pair] = sockets'[n].proc
         /\ Rooted'
         /\ \A e : e.sock \in Nat /\ Owned(e) => Owned(e)'
  <1> DEFINE pair == sockets'[n].pair
             p == sockets'[n].proc
  <1>1. /\ KernelTyped /\ pair \in Pairs /\ n \in 1 .. Len(sockets') /\ Len(sockets') \in Nat
        /\ DOMAIN sockets = 1 .. Len(sockets) /\ Len(sockets) \in Nat
        /\ DOMAIN sockets' = 1 .. Len(sockets')
    <2>1. KernelTyped /\ n \in 1 .. Len(sockets') /\ Len(sockets') \in Nat
      BY LenProperties DEF Kernel
    <2>2. sockets'[n] \in Sockets
      BY <2>1, LenProperties
    <2> QED
      BY <2>1, <2>2, LenProperties DEF Sockets, KernelTyped
  <1>2. /\ DOMAIN owners' \subseteq Pairs /\ Holds(owners', OwnerCap) /\ roomy' \in BOOLEAN
        /\ pair \in DOMAIN owners' /\ owners'[pair] = p
        /\ \A k \in DOMAIN owners' : k # pair => k \in DOMAIN owners /\ owners'[k] = owners[k]
        /\ roomy' => roomy /\ DOMAIN owners \subseteq DOMAIN owners'
    BY <1>1, Recorded
  <1>3. ASSUME NEW k \in DOMAIN owners'
        PROVE  Had(owners[k], k)'
    <2>1. CASE k = pair
      BY <1>2, <2>1 DEF Had
    <2>2. CASE k # pair
      <3>1. k \in DOMAIN owners /\ owners'[k] = owners[k]
        BY <1>2, <2>2
      <3>2. PICK i \in DOMAIN sockets : sockets[i].proc = owners[k] /\ sockets[i].pair = k
        BY <3>1 DEF Kernel, Rooted, Had
      <3> QED
        BY <3>1, <3>2 DEF Grown, Had
    <2> QED
      BY <2>1, <2>2
  <1>4. ASSUME NEW e, e.sock \in Nat, Owned(e)
        PROVE  Owned(e)'
    <2>1. e.sock \in DOMAIN sockets' /\ sockets'[e.sock].pair = Key(e)
      BY <1>4 DEF Grown, Owned
    <2>2. ASSUME roomy'
          PROVE  Key(e) \in DOMAIN owners' /\ HadSince(owners[Key(e)], e)'
      <3>1. Key(e) \in DOMAIN owners /\ Key(e) \in DOMAIN owners' /\ HadSince(owners[Key(e)], e)
        BY <1>2, <1>4, <2>2 DEF Owned
      <3>2. CASE Key(e) = pair
        <4>1. ~(e.sock > n)
          BY <1>4, <3>2 DEF Owned
        <4>2. n \in e.sock .. Len(sockets')
          BY <1>1, <1>4, <4>1
        <4> QED
          BY <1>2, <3>1, <3>2, <4>2 DEF HadSince
      <3>3. CASE Key(e) # pair
        <4>1. PICK i \in e.sock .. Len(sockets) :
                sockets[i].proc = owners[Key(e)] /\ sockets[i].pair = Key(e)
          BY <3>1 DEF HadSince
        <4>2. i \in DOMAIN sockets /\ i \in e.sock .. Len(sockets')
          <5>1. e.sock >= 1
            BY <1>1, <1>4 DEF Owned
          <5> QED
            BY <1>1, <1>4, <4>1, <5>1 DEF Grown
        <4>3. owners'[Key(e)] = owners[Key(e)]
          BY <1>2, <3>1, <3>3
        <4> QED
          BY <3>1, <4>1, <4>2, <4>3 DEF HadSince, Grown
      <3> QED
        BY <3>2, <3>3
    <2> QED
      BY <2>1, <2>2 DEF Owned, Key
  <1> QED
    BY <1>2, <1>3, <1>4 DEF Rooted

\* When a socket is opened and nothing is recorded, all that stays true as well.
LEMMA GrowthKeeps ==
  ASSUME Kernel, Grown, sockets' \in Seq(Sockets), UNCHANGED <<owners, roomy>>
  PROVE  Rooted' /\ \A e : e.sock \in Nat /\ Owned(e) => Owned(e)'
  <1>1. /\ DOMAIN sockets = 1 .. Len(sockets) /\ Len(sockets) \in Nat
        /\ Len(sockets') \in Nat /\ Len(sockets) <= Len(sockets')
    BY LenProperties DEF Kernel, KernelTyped, Grown
  <1>2. Rooted'
    BY DEF Kernel, Rooted, Had, Grown
  <1>3. ASSUME NEW e, e.sock \in Nat, Owned(e)
        PROVE  Owned(e)'
    <2>1. e.sock \in DOMAIN sockets' /\ sockets'[e.sock].pair = Key(e)
      BY <1>3 DEF Grown, Owned
    <2>2. ASSUME roomy'
          PROVE  Key(e) \in DOMAIN owners' /\ HadSince(owners[Key(e)], e)'
      <3>1. Key(e) \in DOMAIN owners /\ HadSince(owners[Key(e)], e)
        BY <1>3, <2>2 DEF Owned
      <3>2. PICK i \in e.sock .. Len(sockets) :
              sockets[i].proc = owners[Key(e)] /\ sockets[i].pair = Key(e)
        BY <3>1 DEF HadSince
      <3>3. i \in DOMAIN sockets /\ i \in e.sock .. Len(sockets')
        <4>1. e.sock >= 1
          BY <1>1, <1>3 DEF Owned
        <4> QED
          BY <1>1, <1>3, <3>2, <4>1
      <3> QED
        BY <3>1, <3>2, <3>3 DEF HadSince, Grown
    <2> QED
      BY <2>1, <2>2 DEF Owned, Key
  <1> QED
    BY <1>2, <1>3

\* What the kernel does leaves what the monitor knows as it is: nobody loses the
\* sockets he had.
LEMMA Aside ==
  ASSUME IInv, Grown, sockets' \in Seq(Sockets), roomy' => roomy,
         now' \in Nat, now <= now', UNCHANGED monitorVars
  PROVE  Reading' /\ Handling' /\ Watching'
  <1>1. /\ DOMAIN sockets = 1 .. Len(sockets) /\ Len(sockets) \in Nat
        /\ Len(sockets') \in Nat /\ Len(sockets) <= Len(sockets')
    BY LenProperties DEF IInv, Kernel, KernelTyped, Grown
  <1>2. UNCHANGED <<filter, state, pkt, inodes, cache, listeners, refreshed, flows, lastGc, shown>>
    BY DEF monitorVars
  <1>3. now \in Nat /\ 0 .. now \subseteq 0 .. now'
    BY DEF IInv, Handling
  <1>4. Reading'
    BY <1>2, <1>3 DEF IInv, Reading, Had, Grown, Holds
  <1>5. Handling'
    BY <1>2, <1>3 DEF IInv, Handling, Sent
  <1>6. Blamed'
    BY <1>2 DEF IInv, Watching, Blamed, Grown, Key
  <1>7. NotEarlier'
    <2> SUFFICES ASSUME shown.pkt.sock # 0, shown.pkt.dir = Outgoing, roomy
                 PROVE  \E i \in shown.pkt.sock .. Len(sockets') :
                          sockets'[i].proc = shown.pid /\ sockets'[i].pair = Key(shown.pkt)
      BY <1>2 DEF NotEarlier, Key
    <2>1. PICK i \in shown.pkt.sock .. Len(sockets) :
            sockets[i].proc = shown.pid /\ sockets[i].pair = Key(shown.pkt)
      BY DEF IInv, Watching, NotEarlier
    <2>2. i \in DOMAIN sockets /\ i \in shown.pkt.sock .. Len(sockets')
      BY <1>1, <2>1 DEF IInv, Watching
    <2> QED
      BY <2>1, <2>2 DEF Grown
  <1>8. Watching'
    <2>1. ASSUME NEW k \in DOMAIN flows, flows[k].pid # Nobody
          PROVE  HadPort(flows[k].pid, LocalPort(k))'
      BY <1>2, <2>1 DEF IInv, Watching, HadPort, Grown, LocalPort
    <2> QED
      BY <1>2, <1>3, <1>6, <1>7, <2>1 DEF IInv, Watching, Holds
  <1> QED
    BY <1>4, <1>5, <1>8

\* What waits is a packet.
LEMMA Queued ==
  ASSUME KernelTyped, NEW j \in DOMAIN queue
  PROVE  /\ queue[j] \in Packets
         /\ queue[j].sock \in Nat /\ queue[j].dir \in {Incoming, Outgoing}
  <1>1. queue[j] \in Packets
    BY LenProperties, ElementOfSeq DEF KernelTyped
  <1> QED
    BY <1>1 DEF Packets

\* A socket that listens is in no map.
LEMMA ListenStep ==
  ASSUME IInv, NEW p \in Procs, NEW pair \in Pairs, Listen(p, pair)
  PROVE  IInv'
  <1>1. Kernel /\ KernelTyped /\ Latest /\ New(pair, p)
        /\ UNCHANGED <<owners, queue, sent, roomy, now, monitorVars>>
    BY DEF IInv, Kernel, Listen
  <1>2. /\ sockets' \in Seq(Sockets) /\ Grown /\ open' \subseteq DOMAIN sockets' /\ Latest'
    BY <1>1, Opened
  <1>3. Rooted' /\ \A e : e.sock \in Nat /\ Owned(e) => Owned(e)'
    BY <1>1, <1>2, GrowthKeeps
  <1>4. KernelTyped'
    BY <1>1, <1>2 DEF KernelTyped, Holds
  <1>5. Waiting'
    <2> SUFFICES ASSUME NEW j \in DOMAIN queue, Sent(queue[j])
                 PROVE  Owned(queue[j])'
      BY <1>1 DEF Waiting, Sent
    <2>1. queue[j].sock \in Nat /\ Owned(queue[j])
      BY <1>1, Queued DEF Kernel, Waiting
    <2> QED
      BY <1>1, <1>3, <2>1 DEF Owned, HadSince, Key
  <1>6. Reading' /\ Handling' /\ Watching'
    BY <1>1, <1>2, Aside DEF IInv, Handling
  <1> QED
    BY <1>2, <1>3, <1>4, <1>5, <1>6 DEF IInv, Kernel

\* One that connects or is accepted is recorded.
LEMMA JoinStep ==
  ASSUME IInv, NEW p \in Procs, NEW pair \in Pairs, Join(p, pair)
  PROVE  IInv'
  <1>1. Kernel /\ KernelTyped /\ Latest /\ New(pair, p) /\ Record(pair, p)
        /\ UNCHANGED <<queue, sent, now, monitorVars>>
    BY DEF IInv, Kernel, Join
  <1> DEFINE n == Len(sockets')
  <1>2. /\ sockets' \in Seq(Sockets) /\ n = Len(sockets) + 1 /\ n \in DOMAIN sockets'
        /\ sockets'[n].pair = pair /\ sockets'[n].proc = p
        /\ Grown /\ open' \subseteq DOMAIN sockets' /\ Latest'
    <2>1. /\ sockets' \in Seq(Sockets) /\ Len(sockets') = Len(sockets) + 1
          /\ Grown /\ open' \subseteq DOMAIN sockets' /\ Latest'
          /\ Len(sockets') \in DOMAIN sockets'
          /\ sockets'[Len(sockets')] = [proc |-> p, pair |-> pair]
      BY <1>1, Opened
    <2> QED
      BY <2>1
  <1>3. \A j \in DOMAIN sockets : ~(j > n)
    BY <1>1, <1>2, LenProperties DEF KernelTyped
  <1>4. Record(sockets'[n].pair, sockets'[n].proc)
    BY <1>1, <1>2
  <1> HIDE DEF n
  <1>5. /\ DOMAIN owners' \subseteq Pairs /\ Holds(owners', OwnerCap) /\ roomy' \in BOOLEAN
        /\ roomy' => roomy
        /\ Rooted' /\ \A e : e.sock \in Nat /\ Owned(e) => Owned(e)'
    BY <1>1, <1>2, <1>3, <1>4, RecordKeeps
  <1>6. KernelTyped'
    BY <1>1, <1>2, <1>5 DEF KernelTyped, Holds
  <1>7. Waiting'
    <2> SUFFICES ASSUME NEW j \in DOMAIN queue, Sent(queue[j])
                 PROVE  Owned(queue[j])'
      BY <1>1 DEF Waiting, Sent
    <2>1. queue[j].sock \in Nat /\ Owned(queue[j])
      BY <1>1, Queued DEF Kernel, Waiting
    <2> QED
      BY <1>1, <1>5, <2>1 DEF Owned, HadSince, Key
  <1>8. Reading' /\ Handling' /\ Watching'
    BY <1>1, <1>2, <1>5, Aside DEF IInv, Handling
  <1> QED
    BY <1>2, <1>5, <1>6, <1>7, <1>8 DEF IInv, Kernel

\* A socket that is closed is no longer the last with its ends.
LEMMA CloseStep ==
  ASSUME IInv, NEW i, CloseSocket(i)
  PROVE  IInv'
  <1>1. /\ KernelTyped /\ Rooted /\ Latest /\ Waiting /\ open' \subseteq open
        /\ UNCHANGED <<sockets, owners, queue, sent, roomy, now, monitorVars>>
    BY DEF IInv, Kernel, CloseSocket
  <1>2. Grown /\ sockets' \in Seq(Sockets)
    BY <1>1, LenProperties DEF KernelTyped, Grown
  <1>3. Reading' /\ Handling' /\ Watching'
    BY <1>1, <1>2, Aside DEF IInv, Handling
  <1>4. KernelTyped' /\ Rooted' /\ Latest' /\ Waiting'
    BY <1>1 DEF KernelTyped, Rooted, Latest, Waiting, Holds, Had, Sent, Owned, HadSince, Key
  <1> QED
    BY <1>3, <1>4 DEF IInv, Kernel

\* Who sends is recorded before the packet is there.
LEMMA SendStep ==
  ASSUME IInv, NEW i \in DOMAIN sockets, Send(i)
  PROVE  IInv'
  <1> DEFINE pair == sockets[i].pair
             going == Packet(pair[1], pair[2], Outgoing, i)
             in == Packet(pair[1], pair[2], Incoming, i)
  <1>1. /\ Kernel /\ KernelTyped /\ Latest /\ i \in open /\ i \in Nat \ {0}
        /\ DOMAIN sockets = 1 .. Len(sockets) /\ Len(sockets) \in Nat
        /\ Record(pair, sockets[i].proc)
        /\ UNCHANGED <<sockets, open, now, monitorVars>>
    BY LenProperties DEF IInv, Kernel, KernelTyped, Send
  <1>2. pair \in Pairs /\ pair = <<pair[1], pair[2]>>
    <2>1. sockets[i] \in Sockets
      BY <1>1, LenProperties DEF KernelTyped
    <2> QED
      BY <2>1, MonitorAssumption DEF Sockets
  <1>3. going \in Packets /\ in \in Packets
    BY <1>1, <1>2 DEF Packet, Packets, Ports, Incoming, Outgoing
  <1>4. /\ queue' \in Seq(Packets) /\ Len(queue') <= QueueCap
        /\ \A j \in DOMAIN queue' :
             (j \in DOMAIN queue /\ queue'[j] = queue[j]) \/ queue'[j] \in {going, in}
    <2>1. CASE pair[2] \in Locals
      <3>1. Capture(<<going, in>>)
        BY <2>1 DEF Send
      <3>2. <<going, in>> \in Seq(Packets) /\ \A n \in DOMAIN <<going, in>> : <<going, in>>[n] \in {going, in}
        BY <1>3
      <3> HIDE DEF going, in
      <3> QED
        BY <1>1, <3>1, <3>2, Captured
    <2>2. CASE pair[2] \notin Locals
      <3>1. Capture(<<going>>)
        BY <2>2 DEF Send
      <3>2. <<going>> \in Seq(Packets) /\ \A n \in DOMAIN <<going>> : <<going>>[n] \in {going, in}
        BY <1>3
      <3> HIDE DEF going, in
      <3> QED
        BY <1>1, <3>1, <3>2, Captured
    <2> QED
      BY <2>1, <2>2
  <1>5. /\ Grown /\ sockets' \in Seq(Sockets) /\ i \in DOMAIN sockets'
        /\ Record(sockets'[i].pair, sockets'[i].proc)
        /\ \A j \in DOMAIN sockets : j > i => sockets[j].pair # sockets'[i].pair
    BY <1>1 DEF KernelTyped, Grown, Latest
  <1>6. /\ DOMAIN owners' \subseteq Pairs /\ Holds(owners', OwnerCap) /\ roomy' \in BOOLEAN
        /\ roomy' => roomy
        /\ pair \in DOMAIN owners' /\ owners'[pair] = sockets[i].proc
        /\ Rooted' /\ \A e : e.sock \in Nat /\ Owned(e) => Owned(e)'
    BY <1>1, <1>5, RecordKeeps
  <1>7. KernelTyped'
    BY <1>1, <1>4, <1>5, <1>6 DEF KernelTyped, Holds
  <1>8. ASSUME NEW j \in DOMAIN queue', Sent(queue[j])'
        PROVE  Owned(queue[j])'
    <2>1. CASE j \in DOMAIN queue /\ queue'[j] = queue[j]
      <3>1. Owned(queue[j])
        BY <1>1, <1>8, <2>1 DEF Kernel, Waiting, Sent
      <3>2. queue[j].sock \in Nat
        BY <1>1, <2>1, Queued
      <3> QED
        BY <1>6, <2>1, <3>1, <3>2 DEF Owned, HadSince, Key
    <2>2. CASE queue'[j] = going
      <3>1. going.sock = i /\ Key(going) = pair
        BY <1>2 DEF Packet, Key
      <3>2. i \in i .. Len(sockets')
        BY <1>1
      <3> HIDE DEF going
      <3> QED
        BY <1>1, <1>5, <1>6, <2>2, <3>1, <3>2 DEF Owned, HadSince, Key
    <2>3. CASE queue'[j] = in
      BY <1>8, <2>3 DEF Packet, Sent, Incoming, Outgoing
    <2> QED
      BY <1>4, <2>1, <2>2, <2>3
  <1>9. Reading' /\ Handling' /\ Watching'
    BY <1>1, <1>5, <1>6, Aside DEF IInv, Handling
  <1>10. Latest' /\ Waiting'
    BY <1>1, <1>8 DEF Latest, Waiting
  <1> QED
    BY <1>6, <1>7, <1>9, <1>10 DEF IInv, Kernel

\* What comes from outside was not sent here.
LEMMA ArriveStep ==
  ASSUME IInv, NEW pair \in Pairs, Arrive(pair)
  PROVE  IInv'
  <1> DEFINE in == Packet(pair[2], pair[1], Incoming, 0)
  <1>1. /\ KernelTyped /\ Rooted /\ Latest /\ Waiting /\ Capture(<<in>>)
        /\ UNCHANGED <<sockets, open, owners, roomy, now, monitorVars>>
    BY DEF IInv, Kernel, Arrive
  <1>2. in \in Packets /\ ~Sent(in)
    BY DEF Packet, Packets, Ports, Incoming, Outgoing, Sent
  <1> HIDE DEF in
  <1>3. <<in>> \in Seq(Packets) /\ \A n \in DOMAIN <<in>> : <<in>>[n] = in
    BY <1>2
  <1>4. /\ queue' \in Seq(Packets) /\ Len(queue') <= QueueCap
        /\ \A j \in DOMAIN queue' : (j \in DOMAIN queue /\ queue'[j] = queue[j]) \/ queue'[j] = in
    BY <1>1, <1>3, Captured
  <1>5. Grown /\ sockets' \in Seq(Sockets)
    BY <1>1, LenProperties DEF KernelTyped, Grown
  <1>6. Reading' /\ Handling' /\ Watching'
    BY <1>1, <1>5, Aside DEF IInv, Handling
  <1>7. Waiting'
    BY <1>1, <1>2, <1>4 DEF Waiting, Sent, Owned, HadSince, Key
  <1>8. KernelTyped' /\ Rooted' /\ Latest'
    BY <1>1, <1>4 DEF KernelTyped, Rooted, Latest, Holds, Had
  <1> QED
    BY <1>6, <1>7, <1>8 DEF IInv, Kernel

\* Time passes.
LEMMA TickStep ==
  ASSUME IInv, Tick
  PROVE  IInv'
  <1>1. /\ KernelTyped /\ Rooted /\ Latest /\ Waiting
        /\ UNCHANGED <<sockets, open, owners, queue, sent, roomy, monitorVars>>
        /\ now' \in Nat /\ now <= now'
    BY MonitorAssumption DEF IInv, Kernel, Handling, Tick, kernelVars
  <1>2. Grown /\ sockets' \in Seq(Sockets)
    BY <1>1, LenProperties DEF KernelTyped, Grown
  <1>3. Reading' /\ Handling' /\ Watching'
    BY <1>1, <1>2, Aside
  <1>4. KernelTyped' /\ Rooted' /\ Latest' /\ Waiting'
    BY <1>1 DEF KernelTyped, Rooted, Latest, Waiting, Holds, Had, Sent, Owned, HadSince, Key
  <1> QED
    BY <1>3, <1>4 DEF IInv, Kernel

-----------------------------------------------------------------------------
(* The table of flows.                                                     *)

\* flowGet makes room for the flow asked for, and touches no other that stays.
LEMMA Got ==
  ASSUME Holds(flows, FlowCap), NEW key, NEW table \in FlowGet(key)
  PROVE  /\ Holds(table, FlowCap) /\ key \in DOMAIN table
         /\ \A k \in DOMAIN table :
              (k \in DOMAIN flows /\ table[k] = flows[k]) \/ (k = key /\ table[k] = Fresh)
         /\ \A k \in DOMAIN flows \ DOMAIN table :
              /\ Cardinality(DOMAIN flows) = FlowCap
              /\ \A j \in DOMAIN flows : flows[k].seen <= flows[j].seen
  <1>0. FlowCap \in Nat /\ Cardinality(DOMAIN flows) \in Nat
    BY MonitorAssumption, FS_CardinalityType DEF Holds
  <1>1. CASE key \in DOMAIN flows /\ table = flows
    BY <1>1
  <1>2. CASE /\ key \notin DOMAIN flows /\ Cardinality(DOMAIN flows) < FlowCap
             /\ table = With(flows, key, Fresh)
    <2>1. Holds(table, FlowCap)
      BY <1>0, <1>2, Fits
    <2> QED
      BY <1>2, <2>1 DEF With
  <1>3. CASE /\ key \notin DOMAIN flows /\ ~(Cardinality(DOMAIN flows) < FlowCap)
             /\ \E k \in Victims(flows) : table = With(Without(flows, {k}), key, Fresh)
    <2>1. PICK old \in Victims(flows) : table = With(Without(flows, {old}), key, Fresh)
      BY <1>3
    <2>2. old \in DOMAIN flows /\ \A j \in DOMAIN flows : flows[old].seen <= flows[j].seen
      BY DEF Victims
    <2>3. Holds(table, FlowCap)
      BY <1>0, <2>1, <2>2, FitsInstead
    <2>4. Cardinality(DOMAIN flows) = FlowCap
      BY <1>0, <1>3 DEF Holds
    <2>5. /\ DOMAIN table = (DOMAIN flows \ {old}) \cup {key} /\ table[key] = Fresh
          /\ \A k \in DOMAIN flows \ {old} : k # key => table[k] = flows[k]
      BY <2>1 DEF With, Without
    <2>6. \A k \in DOMAIN flows \ DOMAIN table : k = old
      BY <2>5
    <2>7. \A k \in DOMAIN table :
            (k \in DOMAIN flows /\ table[k] = flows[k]) \/ (k = key /\ table[k] = Fresh)
      BY <2>5
    <2> QED
      BY <2>2, <2>3, <2>4, <2>5, <2>6, <2>7
  <1>4. \/ key \in DOMAIN flows /\ table = flows
        \/ /\ key \notin DOMAIN flows /\ Cardinality(DOMAIN flows) < FlowCap
           /\ table = With(flows, key, Fresh)
        \/ /\ key \notin DOMAIN flows /\ ~(Cardinality(DOMAIN flows) < FlowCap)
           /\ \E k \in Victims(flows) : table = With(Without(flows, {k}), key, Fresh)
    BY DEF FlowGet
  <1> QED
    BY <1>1, <1>2, <1>3, <1>4

\* What processTCPFlow is told of a packet.
Told(e, pid) ==
  /\ e.dir \in {Incoming, Outgoing} /\ e.sock \in Nat /\ e.at \in 0 .. now
  /\ pid \in Anyone /\ (pid # Nobody => HadPort(pid, Key(e)[1]))
  /\ Sent(e) /\ roomy => HadSince(pid, e)

\* A flow's owner, told or kept, had the port; one that names the process asked for
\* came with it or from a flow that did.
LEMMA Processed ==
  ASSUME IInv, NEW e, NEW pid, Told(e, pid), Matches(pid), Process(e, pid),
         UNCHANGED <<sockets, filter, now, roomy>>
  PROVE  Watching' /\ FlowsKeptStep
  <1> DEFINE key == FlowKey(e)
             peer == ReverseKey(e)
  <1>0. /\ now \in Nat /\ Expire \in Nat /\ FlowCap \in Nat /\ e.at \in Nat /\ e.at <= now
        /\ Holds(flows, FlowCap) /\ lastGc \in 0 .. now
        /\ \A k \in DOMAIN flows :
             /\ flows[k].pid \in Anyone /\ flows[k].seen \in 0 .. now
             /\ flows[k].pid # Nobody =>
                  HadPort(flows[k].pid, LocalPort(k)) /\ filter \in {Nobody, flows[k].pid}
    BY MonitorAssumption DEF IInv, Handling, Watching, Told
  <1>1. PICK table \in FlowGet(key) :
          LET old   == table[key]
              flow  == [pid |-> IF pid # Nobody THEN pid ELSE old.pid, seen |-> e.at]
              f     == With(table, key, flow)
              named == IF pid = Nobody /\ peer \in DOMAIN f THEN f[peer].pid ELSE pid IN
          /\ shown' = [pkt |-> e, pid |-> named]
          /\ flows' = Cleaned(f, e.at)
          /\ lastGc' = IF lastGc = 0 \/ e.at - lastGc > GcEvery THEN e.at ELSE lastGc
    BY DEF Process
  <1> DEFINE flow == [pid |-> IF pid # Nobody THEN pid ELSE table[key].pid, seen |-> e.at]
             f == With(table, key, flow)
             named == IF pid = Nobody /\ peer \in DOMAIN f THEN f[peer].pid ELSE pid
             idle == {k \in DOMAIN f : f[k].seen < e.at - Expire}
  <1>2. shown'.pkt = e /\ shown'.pid = named /\ flows' = Cleaned(f, e.at) /\ lastGc' \in 0 .. now
    BY <1>0, <1>1
  <1>3. LocalPort(key) = Key(e)[1] /\ LocalPort(peer) = Key(e)[1]
    BY DEF Told, LocalPort, FlowKey, ReverseKey, Key, Incoming, Outgoing
  <1> HIDE DEF key, peer
  <1>4. /\ Holds(table, FlowCap) /\ key \in DOMAIN table
        /\ \A k \in DOMAIN table :
             (k \in DOMAIN flows /\ table[k] = flows[k]) \/ (k = key /\ table[k] = Fresh)
        /\ \A k \in DOMAIN flows \ DOMAIN table :
             /\ Cardinality(DOMAIN flows) = FlowCap
             /\ \A j \in DOMAIN flows : flows[k].seen <= flows[j].seen
    BY <1>0, <1>1, Got
  <1>5. /\ DOMAIN f = DOMAIN table /\ f[key] = flow
        /\ \A k \in DOMAIN table : k # key => f[k] = table[k]
    BY <1>4 DEF With
  <1>6. Holds(f, FlowCap)
    BY <1>4, <1>5 DEF Holds
  <1>7. flow.seen = e.at /\ flow.pid = IF pid # Nobody THEN pid ELSE table[key].pid
    OBVIOUS
  <1> HIDE DEF flow, f
  <1>8. pid # Nobody => filter \in {Nobody, pid} /\ HadPort(pid, Key(e)[1])
    BY DEF Told, Matches
  <1>9. ASSUME NEW k \in DOMAIN f
        PROVE  /\ f[k].pid \in Anyone /\ f[k].seen \in 0 .. now
               /\ f[k].pid # Nobody =>
                    HadPort(f[k].pid, LocalPort(k)) /\ filter \in {Nobody, f[k].pid}
    <2>1. /\ table[k].pid \in Anyone /\ table[k].seen \in 0 .. now
          /\ table[k].pid # Nobody =>
               HadPort(table[k].pid, LocalPort(k)) /\ filter \in {Nobody, table[k].pid}
      <3>1. CASE k \in DOMAIN flows /\ table[k] = flows[k]
        BY <1>0, <3>1
      <3>2. CASE table[k] = Fresh
        BY <1>0, <3>2 DEF Fresh, Anyone
      <3> QED
        BY <1>4, <1>5, <3>1, <3>2
    <2>2. CASE k # key
      BY <1>5, <2>1, <2>2
    <2>3. CASE k = key
      BY <1>0, <1>3, <1>5, <1>7, <1>8, <2>1, <2>3 DEF Told
    <2> QED
      BY <2>2, <2>3
  <1>10. flows' = f \/ flows' = Without(f, idle)
    BY <1>2 DEF Cleaned, Cutoff
  <1>11. /\ Holds(flows', FlowCap)
         /\ \A k \in DOMAIN flows' : k \in DOMAIN f /\ flows'[k] = f[k]
         /\ \A k \in DOMAIN f \ DOMAIN flows' : f[k].seen < e.at - Expire
    <2>1. CASE flows' = f
      BY <1>6, <2>1
    <2>2. CASE flows' = Without(f, idle)
      <3>1. Holds(flows', FlowCap)
        BY <1>0, <1>6, <2>2, FitsLess
      <3> QED
        BY <2>2, <3>1 DEF Without
    <2> QED
      BY <1>10, <2>1, <2>2
  <1>12. named \in Anyone /\ (named # Nobody => HadPort(named, Key(e)[1]) /\ filter \in {Nobody, named})
    BY <1>3, <1>8, <1>9 DEF Told
  <1>13. Sent(e) /\ roomy => HadSince(named, e)
    <2> SUFFICES ASSUME Sent(e), roomy
                 PROVE  HadSince(named, e)
      OBVIOUS
    <2>1. PICK i \in e.sock .. Len(sockets) : sockets[i].proc = pid /\ sockets[i].pair = Key(e)
      BY DEF Told, HadSince
    <2>2. i \in 1 .. Len(sockets)
      BY <2>1, LenProperties DEF Told, Sent, IInv, Kernel, KernelTyped
    <2>3. sockets[i] \in Sockets
      BY <2>2, LenProperties DEF IInv, Kernel, KernelTyped
    <2>4. pid # Nobody
      BY <2>1, <2>3, MonitorAssumption DEF Sockets
    <2> QED
      BY <2>4 DEF Told
  <1> HIDE DEF named
  <1>14. Blamed'
    BY <1>2, <1>12 DEF Blamed, HadPort, Key
  <1>15. NotEarlier'
    BY <1>2, <1>13 DEF NotEarlier, HadSince, Sent, Key
  <1>16. \A k \in DOMAIN flows' :
           /\ flows'[k].pid \in Anyone /\ flows'[k].seen \in 0 .. now
           /\ flows'[k].pid # Nobody =>
                HadPort(flows'[k].pid, LocalPort(k)) /\ filter \in {Nobody, flows'[k].pid}
    BY <1>9, <1>11
  <1>17. Watching'
    BY <1>2, <1>11, <1>12, <1>14, <1>15, <1>16 DEF Watching, HadPort, Holds, Told, LocalPort
  <1>18. FlowsKeptStep
    <2> SUFFICES ASSUME NEW k \in DOMAIN flows, k \notin DOMAIN flows'
                 PROVE  \/ /\ Cardinality(DOMAIN flows) = FlowCap
                           /\ \A j \in DOMAIN flows : flows[j].seen >= flows[k].seen
                        \/ now - flows[k].seen > Expire
      BY DEF FlowsKeptStep
    <2>1. CASE k \notin DOMAIN table
      <3>1. Cardinality(DOMAIN flows) = FlowCap
        BY <1>4, <2>1
      <3>2. ASSUME NEW j \in DOMAIN flows
            PROVE  flows[j].seen >= flows[k].seen
        <4>1. flows[k].seen <= flows[j].seen /\ flows[k].seen \in Int /\ flows[j].seen \in Int
          BY <1>0, <1>4, <2>1
        <4> QED
          BY <4>1
      <3> QED
        BY <3>1, <3>2
    <2>2. CASE k \in DOMAIN table
      <3>1. k \in DOMAIN f /\ f[k].seen < e.at - Expire
        BY <1>5, <1>11, <2>2
      <3>2. k # key
        <4>1. ~(e.at < e.at - Expire)
          BY <1>0
        <4> QED
          BY <1>5, <1>7, <3>1, <4>1
      <3>3. f[k] = flows[k]
        BY <1>4, <1>5, <2>2, <3>2
      <3>4. flows[k].seen < e.at - Expire /\ flows[k].seen \in Nat
        BY <1>0, <3>1, <3>3
      <3>5. now - flows[k].seen > Expire
        BY <1>0, <3>4
      <3> QED
        BY <3>5
    <2> QED
      BY <2>1, <2>2
  <1> QED
    BY <1>17, <1>18

-----------------------------------------------------------------------------
(* The owner of a packet.                                                  *)

\* A table of owners, Nobody for those it does not know.
Owning(t) == \A k \in DOMAIN t : t[k] \in Anyone /\ (t[k] # Nobody => Had(t[k], k))

\* One process is found at most, and it had the port.
LEMMA Looked ==
  ASSUME NEW t, Owning(t), NEW key
  PROVE  \/ Found(t, key) = {}
         \/ \E p \in Anyone : Found(t, key) = {p} /\ (p # Nobody => HadPort(p, key[1]))
  <1>1. CASE key \in DOMAIN t
    <2>1. t[key] \in Anyone /\ (t[key] # Nobody => Had(t[key], key))
      BY <1>1 DEF Owning
    <2>2. t[key] # Nobody => HadPort(t[key], key[1])
      BY <2>1 DEF Had, HadPort
    <2> QED
      BY <1>1, <2>1, <2>2 DEF Found
  <1>2. CASE key \notin DOMAIN t
    BY <1>2 DEF Found
  <1> QED
    BY <1>1, <1>2

\* The process found, if one is.
LEMMA Picked ==
  /\ PidOf({}) = Nobody
  /\ \A p : PidOf({p}) = p
  <1>1. ASSUME NEW p
        PROVE  PidOf({p}) = p
    <2>1. (CHOOSE q \in {p} : TRUE) \in {p}
      OBVIOUS
    <2> QED
      BY <2>1 DEF PidOf
  <1> QED
    BY <1>1 DEF PidOf

\* Whoever is recorded is a process.
LEMMA Recorders ==
  ASSUME KernelTyped, Rooted
  PROVE  Owning(owners) /\ \A k \in DOMAIN owners : owners[k] \in Procs
  <1>1. ASSUME NEW k \in DOMAIN owners
        PROVE  owners[k] \in Procs
    <2>1. PICK i \in DOMAIN sockets : sockets[i].proc = owners[k]
      BY DEF Rooted, Had
    <2>2. sockets[i] \in Sockets
      BY LenProperties DEF KernelTyped
    <2> QED
      BY <2>1, <2>2 DEF Sockets
  <1> QED
    BY <1>1 DEF Owning, Anyone, Rooted

\* Who is named had the port, wherever the name comes from.
LEMMA NamedHad ==
  ASSUME NEW found, NEW port,
         found = {} \/ \E p \in Anyone : found = {p} /\ (p # Nobody => HadPort(p, port))
  PROVE  PidOf(found) \in Anyone /\ (PidOf(found) # Nobody => HadPort(PidOf(found), port))
  <1>1. CASE found = {}
    BY <1>1, Picked DEF Anyone
  <1>2. ASSUME NEW p \in Anyone, found = {p}, p # Nobody => HadPort(p, port)
        PROVE  PidOf(found) \in Anyone /\ (PidOf(found) # Nobody => HadPort(PidOf(found), port))
    <2>1. PidOf(found) = p
      BY <1>2, Picked
    <2> QED
      BY <1>2, <2>1
  <1> QED
    BY <1>1, <1>2

LEMMA ListenerHad ==
  ASSUME NEW l, Owning(l), NEW e
  PROVE  \/ Listener(e, l) = {}
         \/ \E p \in Anyone : Listener(e, l) = {p} /\ (p # Nobody => HadPort(p, Key(e)[1]))
  <1> DEFINE key == <<Key(e)[1], AnyPeer>>
  <1>1. key[1] = Key(e)[1] /\ Listener(e, l) = Found(l, key)
    BY DEF Listener
  <1> HIDE DEF key
  <1> QED
    BY <1>1, Looked

\* What is known without reading /proc; of a packet that was sent, as long as the map
\* drops nothing, it is one who had its ends since.
LEMMA KnownHad ==
  ASSUME IInv, NEW e, e.sock \in Nat, Sent(e) => Owned(e)
  PROVE  /\ \/ Known(e) = {}
            \/ \E p \in Anyone : Known(e) = {p} /\ (p # Nobody => HadPort(p, Key(e)[1]))
         /\ Sent(e) /\ roomy => Known(e) # {} /\ HadSince(PidOf(Known(e)), e)
  <1> DEFINE owner == Found(owners, Key(e))
             listener == Listener(e, listeners)
  <1>1. Owning(owners) /\ Owning(cache) /\ Owning(listeners)
    BY Recorders DEF IInv, Kernel, Reading, Owning
  <1>2. Known(e) = IF owner # {} THEN owner
                   ELSE IF listener \ {Nobody} # {} THEN listener \ {Nobody}
                   ELSE Found(cache, Key(e))
    BY DEF Known
  <1>3. owner = {} \/ \E p \in Anyone : owner = {p} /\ (p # Nobody => HadPort(p, Key(e)[1]))
    BY <1>1, Looked
  <1>4. \/ Found(cache, Key(e)) = {}
        \/ \E p \in Anyone : Found(cache, Key(e)) = {p} /\ (p # Nobody => HadPort(p, Key(e)[1]))
    BY <1>1, Looked
  <1>5. \/ listener = {}
        \/ \E p \in Anyone : listener = {p} /\ (p # Nobody => HadPort(p, Key(e)[1]))
    BY <1>1, ListenerHad
  <1>6. ASSUME Sent(e), roomy
        PROVE  Known(e) # {} /\ HadSince(PidOf(Known(e)), e)
    <2>1. Key(e) \in DOMAIN owners /\ HadSince(owners[Key(e)], e)
      BY <1>6 DEF Owned
    <2>2. Known(e) = {owners[Key(e)]}
      BY <1>2, <2>1 DEF Found
    <2>3. PidOf(Known(e)) = owners[Key(e)]
      BY <2>2, Picked
    <2> QED
      BY <2>1, <2>2, <2>3
  <1> HIDE DEF owner, listener
  <1>7. \/ Known(e) = {}
        \/ \E p \in Anyone : Known(e) = {p} /\ (p # Nobody => HadPort(p, Key(e)[1]))
    <2>1. \/ listener \ {Nobody} = {}
          \/ \E p \in Anyone : listener \ {Nobody} = {p} /\ (p # Nobody => HadPort(p, Key(e)[1]))
      BY <1>5
    <2>2. CASE owner # {}
      BY <1>2, <1>3, <2>2
    <2>3. CASE owner = {} /\ listener \ {Nobody} # {}
      BY <1>2, <2>1, <2>3
    <2>4. CASE owner = {} /\ listener \ {Nobody} = {}
      BY <1>2, <1>4, <2>4
    <2> QED
      BY <2>2, <2>3, <2>4
  <1> QED
    BY <1>6, <1>7

\* The tables of /proc name processes that have the sockets now.
LEMMA Read ==
  ASSUME KernelTyped, NEW items \in SUBSET open
  PROVE  /\ DOMAIN Owners(items) \subseteq Pairs /\ Owning(Owners(items))
         /\ IsFiniteSet(items) /\ Cardinality(items) \in Nat
         /\ \A cap \in Nat : Cardinality(items) <= cap => Holds(Owners(items), cap)
  <1> DEFINE t == Owners(items)
             pairs == {sockets[i].pair : i \in items}
             Of(pair) == CHOOSE i \in items : sockets[i].pair = pair
  <1>1. items \subseteq 1 .. Len(sockets) /\ Len(sockets) \in Nat
    BY LenProperties DEF KernelTyped
  <1>2. IsFiniteSet(items) /\ Cardinality(items) \in Nat
    <2>1. IsFiniteSet(1 .. Len(sockets))
      BY <1>1, FS_Interval
    <2>2. IsFiniteSet(items)
      BY <1>1, <2>1, FS_Subset
    <2> QED
      BY <2>2, FS_CardinalityType
  <1>3. ASSUME NEW i \in items
        PROVE  sockets[i].pair \in Pairs /\ sockets[i].proc \in Procs
    <2>1. sockets[i] \in Sockets
      BY <1>1, LenProperties DEF KernelTyped
    <2> QED
      BY <2>1 DEF Sockets
  <1>4. DOMAIN t = pairs /\ pairs \subseteq Pairs
    BY <1>3 DEF Owners
  <1>5. ASSUME NEW k \in DOMAIN t
        PROVE  t[k] \in Anyone /\ (t[k] # Nobody => Had(t[k], k))
    <2>1. Of(k) \in items /\ sockets[Of(k)].pair = k
      BY <1>4
    <2>2. t[k] = IF Of(k) \in inodes THEN sockets[Of(k)].proc ELSE Nobody
      BY <1>4 DEF Owners
    <2> HIDE DEF Of, t
    <2>3. Of(k) \in DOMAIN sockets
      BY <2>1 DEF KernelTyped
    <2> QED
      BY <1>3, <2>1, <2>2, <2>3 DEF Anyone, Had
  <1>6. IsFiniteSet(pairs) /\ Cardinality(pairs) <= Cardinality(items) /\ Cardinality(pairs) \in Nat
    <2> DEFINE g == [i \in items |-> sockets[i].pair]
    <2>1. g \in Surjection(items, pairs)
      BY DEF Surjection
    <2> HIDE DEF g
    <2>2. IsFiniteSet(pairs) /\ Cardinality(pairs) <= Cardinality(items)
      BY <1>2, <2>1, FS_Surjection
    <2> QED
      BY <2>2, FS_CardinalityType
  <1>7. ASSUME NEW cap \in Nat, Cardinality(items) <= cap
        PROVE  Holds(t, cap)
    BY <1>2, <1>4, <1>6, <1>7 DEF Holds
  <1> QED
    BY <1>2, <1>4, <1>5, <1>7 DEF Owning

-----------------------------------------------------------------------------
(* handlePacket.                                                           *)

LEMMA FinishStep ==
  ASSUME IInv, NEW e, NEW pid, Told(e, pid), Finish(e, pid),
         UNCHANGED <<sockets, filter, now, roomy>>
  PROVE  Handling' /\ Watching' /\ FlowsKeptStep
  <1>1. Handling'
    BY DEF IInv, Handling, Finish
  <1>2. CASE Matches(pid)
    <2>1. Process(e, pid)
      BY <1>2 DEF Finish
    <2> QED
      BY <1>1, <1>2, <2>1, Processed
  <1>3. CASE ~Matches(pid)
    <2>1. UNCHANGED <<flows, lastGc, shown>>
      BY <1>3 DEF Finish, flowVars
    <2>2. Watching'
      BY <2>1 DEF IInv, Watching, Holds, HadPort, LocalPort, Blamed, NotEarlier, Key
    <2> QED
      BY <1>1, <2>1, <2>2 DEF FlowsKeptStep
  <1> QED
    BY <1>2, <1>3

\* The first packet is taken, and processed at once or after /proc was read.
LEMMA HandleStep ==
  ASSUME IInv, Handle
  PROVE  IInv' /\ FlowsKeptStep
  <1>1. PICK e : e = [src |-> queue[1].src, dst |-> queue[1].dst, dir |-> queue[1].dir,
                      sock |-> queue[1].sock, at |-> now]
    OBVIOUS
  <1>2. /\ queue # <<>> /\ queue' = Tail(queue)
        /\ UNCHANGED <<sockets, open, owners, sent, roomy, now, filter, cacheVars>>
        /\ KernelTyped /\ Rooted /\ Latest /\ Waiting /\ now \in Nat
    BY DEF IInv, Kernel, Handling, Handle
  <1>3. /\ 1 \in DOMAIN queue
        /\ queue' \in Seq(Packets) /\ Len(queue') <= QueueCap
        /\ \A j \in DOMAIN queue' : j + 1 \in DOMAIN queue /\ queue'[j] = queue[j + 1]
    <2>1. queue \in Seq(Packets) /\ Len(queue) <= QueueCap
      BY <1>2 DEF KernelTyped
    <2>2. Len(queue) \in Nat \ {0} /\ DOMAIN queue = 1 .. Len(queue)
      BY <1>2, <2>1, EmptySeq, LenProperties
    <2>3. /\ Tail(queue) \in Seq(Packets) /\ Len(Tail(queue)) = Len(queue) - 1
          /\ \A i \in 1 .. Len(Tail(queue)) : Tail(queue)[i] = queue[i + 1]
      BY <1>2, <2>1, HeadTailProperties
    <2>4. queue' \in Seq(Packets) /\ DOMAIN queue' = 1 .. Len(queue) - 1 /\ Len(queue') = Len(queue) - 1
      BY <1>2, <2>2, <2>3, LenProperties
    <2>5. \A j \in 1 .. Len(queue) - 1 : j + 1 \in 1 .. Len(queue) /\ queue'[j] = queue[j + 1]
      BY <1>2, <2>2, <2>3
    <2> QED
      BY <2>1, <2>2, <2>4, <2>5, MonitorAssumption
  <1>4. /\ queue[1] \in Packets /\ queue[1].sock \in Nat /\ queue[1].dir \in {Incoming, Outgoing}
        /\ e.src = queue[1].src /\ e.dst = queue[1].dst /\ e.dir = queue[1].dir
        /\ e.sock = queue[1].sock /\ e.at = now
    BY <1>1, <1>2, <1>3, Queued
  <1>5. Sent(e) => Owned(e)
    <2>1. Sent(queue[1]) => Owned(queue[1])
      BY <1>2, <1>3 DEF Waiting
    <2>2. Key(e) = Key(queue[1])
      BY <1>4 DEF Key
    <2> QED
      BY <1>4, <2>1, <2>2 DEF Sent, Owned, HadSince
  <1>6. /\ \/ Known(e) = {}
           \/ \E p \in Anyone : Known(e) = {p} /\ (p # Nobody => HadPort(p, Key(e)[1]))
        /\ Sent(e) /\ roomy => Known(e) # {} /\ HadSince(PidOf(Known(e)), e)
    BY <1>4, <1>5, KnownHad
  <1>7. KernelTyped' /\ Rooted' /\ Latest' /\ Waiting'
    <2>1. KernelTyped' /\ Rooted' /\ Latest'
      BY <1>2, <1>3 DEF KernelTyped, Rooted, Latest, Holds, Had
    <2>2. Waiting'
      <3> SUFFICES ASSUME NEW j \in DOMAIN queue', Sent(queue[j])'
                   PROVE  Owned(queue[j])'
        BY DEF Waiting
      <3>1. PICK k : k = j + 1 /\ k \in DOMAIN queue /\ queue'[j] = queue[k]
        BY <1>3
      <3>2. Owned(queue[k])
        BY <1>2, <3>1 DEF Waiting, Sent
      <3> QED
        BY <1>2, <3>1, <3>2 DEF Owned, HadSince, Key
    <2> QED
      BY <2>1, <2>2
  <1>8. Reading'
    BY <1>2 DEF IInv, Reading, Had, Holds, cacheVars
  <1>9. CASE Known(e) = {} /\ RefreshDue
    <2>1. state' = "scan" /\ pkt' = e /\ UNCHANGED <<flows, lastGc, shown>>
      BY <1>1, <1>9 DEF Handle, flowVars
    <2>2. Handling'
      BY <1>2, <1>4, <1>6, <1>9, <2>1 DEF IInv, Handling, Sent
    <2>3. Watching'
      BY <1>2, <2>1 DEF IInv, Watching, Holds, HadPort, LocalPort, Blamed, NotEarlier, Key
    <2> QED
      BY <1>7, <1>8, <2>1, <2>2, <2>3 DEF IInv, Kernel, FlowsKeptStep
  <1>10. CASE ~(Known(e) = {} /\ RefreshDue)
    <2>1. PICK found : found = IF Known(e) # {} THEN Known(e) ELSE Listener(e, listeners)
      OBVIOUS
    <2>2. Finish(e, PidOf(found))
      BY <1>1, <1>10, <2>1 DEF Handle
    <2>3. found = {} \/ \E p \in Anyone : found = {p} /\ (p # Nobody => HadPort(p, Key(e)[1]))
      <3>1. Owning(listeners)
        BY DEF IInv, Reading, Owning
      <3> QED
        BY <1>6, <2>1, <3>1, ListenerHad
    <2>4. PidOf(found) \in Anyone /\ (PidOf(found) # Nobody => HadPort(PidOf(found), Key(e)[1]))
      BY <2>3, NamedHad
    <2>5. Sent(e) /\ roomy => HadSince(PidOf(found), e)
      BY <1>6, <2>1
    <2>6. Told(e, PidOf(found))
      BY <1>2, <1>4, <2>4, <2>5 DEF Told
    <2>7. Handling' /\ Watching' /\ FlowsKeptStep
      BY <1>2, <2>2, <2>6, FinishStep
    <2> QED
      BY <1>7, <1>8, <2>7 DEF IInv, Kernel
  <1> QED
    BY <1>9, <1>10

\* The kernel does nothing.
LEMMA KernelStays ==
  ASSUME Kernel, UNCHANGED kernelVars
  PROVE  Kernel'
  BY DEF kernelVars, Kernel, KernelTyped, Rooted, Latest, Waiting, Holds, Had, Sent, Owned,
         HadSince, Key

\* The open files of the processes are read.
LEMMA ScanProcsStep ==
  ASSUME IInv, ScanProcs
  PROVE  IInv'
  <1>1. /\ state = "scan" /\ inodes' = open /\ state' = "tables"
        /\ UNCHANGED <<now, filter, pkt, cache, listeners, refreshed, flows, lastGc, shown>>
        /\ UNCHANGED kernelVars /\ UNCHANGED <<sockets, open, roomy>>
    BY DEF ScanProcs, flowVars, kernelVars
  <1>2. Kernel'
    BY <1>1, KernelStays DEF IInv
  <1>3. Reading'
    BY <1>1 DEF IInv, Kernel, KernelTyped, Reading, Had, Holds
  <1>4. Handling'
    BY <1>1 DEF IInv, Handling, Sent
  <1>5. Watching'
    BY <1>1 DEF IInv, Watching, Holds, HadPort, LocalPort, Blamed, NotEarlier, Key
  <1> QED
    BY <1>2, <1>3, <1>4, <1>5 DEF IInv

\* Something cannot be read; who listens is known from before.
LEMMA ScanFailsStep ==
  ASSUME IInv, ScanFails
  PROVE  IInv' /\ FlowsKeptStep
  <1>1. PICK e, pid : e = pkt /\ pid = PidOf(Listener(pkt, listeners))
    OBVIOUS
  <1>2. /\ state # "poll" /\ inodes' = {} /\ Finish(e, pid)
        /\ UNCHANGED <<now, filter, cache, listeners, refreshed>>
        /\ UNCHANGED kernelVars /\ UNCHANGED <<sockets, roomy>>
    BY <1>1 DEF ScanFails, kernelVars
  <1>3. Owning(listeners)
    BY DEF IInv, Reading, Owning
  <1>4. pid \in Anyone /\ (pid # Nobody => HadPort(pid, Key(e)[1]))
    <2>1. \/ Listener(e, listeners) = {}
          \/ \E p \in Anyone : Listener(e, listeners) = {p} /\ (p # Nobody => HadPort(p, Key(e)[1]))
      BY <1>3, ListenerHad
    <2> QED
      BY <1>1, <2>1, NamedHad
  <1>5. Told(e, pid)
    BY <1>1, <1>2, <1>4 DEF Told, IInv, Handling
  <1>6. Handling' /\ Watching' /\ FlowsKeptStep
    BY <1>2, <1>5, FinishStep
  <1>7. Reading'
    BY <1>2 DEF IInv, Reading, Had, Holds
  <1> QED
    BY <1>2, <1>6, <1>7, KernelStays DEF IInv

\* The tables are read, and the packet that waited is looked up in them.
LEMMA ScanTablesStep ==
  ASSUME IInv, ScanTables
  PROVE  IInv' /\ FlowsKeptStep
  <1>1. PICK items \in SUBSET open :
          /\ Cardinality(items) <= CacheCap
          /\ cache' = Owners(items)
          /\ listeners' = Owners({i \in open : sockets[i].pair[2] = AnyPeer})
          /\ Finish(pkt, PidOf(Resolve(pkt, cache', listeners')))
    BY DEF ScanTables
  <1>2. PICK e, c, l : e = pkt /\ c = cache' /\ l = listeners'
    OBVIOUS
  <1>3. PICK found : found = Resolve(e, c, l)
    OBVIOUS
  <1>4. /\ state # "poll" /\ inodes' = {} /\ refreshed' = now /\ Finish(e, PidOf(found))
        /\ UNCHANGED <<now, filter>> /\ UNCHANGED kernelVars /\ UNCHANGED <<sockets, roomy>>
    BY <1>1, <1>2, <1>3 DEF ScanTables, kernelVars
  <1>5. Owning(c) /\ DOMAIN c \subseteq Pairs /\ Holds(c, CacheCap)
    BY <1>1, <1>2, Read, MonitorAssumption DEF IInv, Kernel
  <1>6. Owning(l)
    BY <1>1, <1>2, Read DEF IInv, Kernel
  <1>7. found = {} \/ \E p \in Anyone : found = {p} /\ (p # Nobody => HadPort(p, Key(e)[1]))
    <2>1. \/ Found(c, Key(e)) = {}
          \/ \E p \in Anyone : Found(c, Key(e)) = {p} /\ (p # Nobody => HadPort(p, Key(e)[1]))
      BY <1>5, Looked
    <2>2. \/ Listener(e, l) = {}
          \/ \E p \in Anyone : Listener(e, l) = {p} /\ (p # Nobody => HadPort(p, Key(e)[1]))
      BY <1>6, ListenerHad
    <2> QED
      BY <1>3, <2>1, <2>2 DEF Resolve
  <1>8. PidOf(found) \in Anyone /\ (PidOf(found) # Nobody => HadPort(PidOf(found), Key(e)[1]))
    BY <1>7, NamedHad
  <1>9. Told(e, PidOf(found))
    BY <1>2, <1>4, <1>8 DEF Told, IInv, Handling
  <1>10. Handling' /\ Watching' /\ FlowsKeptStep
    BY <1>4, <1>9, FinishStep
  <1>11. Reading'
    BY <1>2, <1>4, <1>5, <1>6 DEF IInv, Handling, Reading, Owning, Had, Holds
  <1> QED
    BY <1>4, <1>10, <1>11, KernelStays DEF IInv

-----------------------------------------------------------------------------
(* The theorems.                                                           *)

LEMMA Begins == Init => IInv
  <1> SUFFICES ASSUME Init
               PROVE  IInv
    OBVIOUS
  <1>1. /\ sockets = <<>> /\ DOMAIN sockets = {} /\ DOMAIN owners = {} /\ DOMAIN queue = {}
        /\ DOMAIN cache = {} /\ DOMAIN listeners = {} /\ DOMAIN flows = {}
        /\ Len(queue) = 0 /\ open = {} /\ inodes = {}
    BY DEF Init
  <1>2. now \in Nat
    BY MonitorAssumption DEF Init
  <1>3. Holds(owners, OwnerCap) /\ Holds(cache, CacheCap) /\ Holds(flows, FlowCap)
    BY <1>1, FS_EmptySet, MonitorAssumption DEF Holds
  <1>4. Kernel
    <2>1. sockets \in Seq(Sockets) /\ queue \in Seq(Packets)
      BY EmptySeq DEF Init
    <2> QED
      BY <1>1, <1>3, <2>1, MonitorAssumption DEF Init, Kernel, KernelTyped, Rooted, Latest, Waiting
  <1>5. Reading /\ Handling
    BY <1>1, <1>2, <1>3 DEF Init, Reading, Handling
  <1>6. Watching
    BY <1>1, <1>2, <1>3 DEF Init, Watching, Blamed, NotEarlier, NoPacket, Anyone
  <1> QED
    BY <1>4, <1>5, <1>6 DEF IInv

LEMMA Steps ==
  ASSUME IInv, [Next]_vars
  PROVE  IInv' /\ FlowsKeptStep
  <1>1. ASSUME UNCHANGED <<monitorVars>>
        PROVE  FlowsKeptStep
    BY <1>1 DEF monitorVars, FlowsKeptStep
  <1>2. ASSUME NEW p \in Procs, NEW pair \in Pairs, Listen(p, pair) \/ Join(p, pair)
        PROVE  IInv' /\ FlowsKeptStep
    BY <1>1, <1>2, ListenStep, JoinStep DEF Listen, Join
  <1>3. ASSUME NEW i \in DOMAIN sockets, CloseSocket(i) \/ Send(i)
        PROVE  IInv' /\ FlowsKeptStep
    BY <1>1, <1>3, CloseStep, SendStep DEF CloseSocket, Send
  <1>4. ASSUME NEW pair \in Pairs, Arrive(pair)
        PROVE  IInv' /\ FlowsKeptStep
    BY <1>1, <1>4, ArriveStep DEF Arrive
  <1>5. CASE Tick
    BY <1>1, <1>5, TickStep DEF Tick
  <1>6. CASE Handle
    BY <1>6, HandleStep
  <1>7. CASE ScanProcs
    BY <1>7, ScanProcsStep DEF ScanProcs, flowVars, FlowsKeptStep
  <1>8. CASE ScanFails
    BY <1>8, ScanFailsStep
  <1>9. CASE ScanTables
    BY <1>9, ScanTablesStep
  <1>10. CASE UNCHANGED vars
    <2>1. UNCHANGED <<kernelVars, now, monitorVars>>
      BY <1>10 DEF vars
    <2>2. Kernel'
      BY <2>1, KernelStays DEF IInv
    <2>3. Grown /\ sockets' \in Seq(Sockets) /\ UNCHANGED roomy
      BY <2>1, LenProperties DEF kernelVars, IInv, Kernel, KernelTyped, Grown
    <2>4. Reading' /\ Handling' /\ Watching'
      BY <2>1, <2>3, Aside DEF IInv, Handling
    <2> QED
      BY <1>1, <2>1, <2>2, <2>4 DEF IInv
  <1> QED
    BY <1>2, <1>3, <1>4, <1>5, <1>6, <1>7, <1>8, <1>9, <1>10 DEF Next, Connect, Accept, Silence

\* What the invariant says of who is named.
LEMMA Tells == IInv => Accounted
  <1> SUFFICES ASSUME IInv
               PROVE  Accounted
    OBVIOUS
  <1>1. \A i \in DOMAIN sockets : sockets[i] \in [proc : Procs, pair : Pairs]
    <2>1. sockets \in Seq(Sockets)
      BY DEF IInv, Kernel, KernelTyped
    <2> QED
      BY <2>1, LenProperties DEF Sockets
  <1>2. TypeOK
    BY <1>1 DEF IInv, Kernel, KernelTyped, Reading, Handling, Watching, Holds, TypeOK
  <1> QED
    BY <1>2 DEF IInv, Watching, Accounted

\* A process is only named with a packet if it had a socket with that port here, and, as
\* long as the map of owners drops nothing, only if it had both ends when the packet was
\* sent or later (resolvePacketMeta and processTCPFlow), whatever the order in which
\* sockets come and go, packets wait and /proc is read.
THEOREM OwnersAreNamed == Spec => []Accounted
  <1>1. IInv /\ [Next]_vars => IInv'
    BY Steps
  <1> QED
    BY <1>1, Begins, Tells, PTL DEF Spec

\* flowGet and flowGC drop a flow only if it was idle for longer than flowIdleTimeout or
\* was one of the oldest of a full table.
THEOREM OnlyIdleFlowsLeave == Spec => FlowsKept
  <1>1. IInv /\ [Next]_vars => IInv' /\ [FlowsKeptStep]_vars
    BY Steps
  <1> QED
    BY <1>1, Begins, PTL DEF Spec, FlowsKept

-----------------------------------------------------------------------------
(* What the monitor reads of a connection.  The loop goes on until nothing  *)
(* more is taken (LoopEnds): whatever a round keeps holds at its end.  What *)
(* is still in the buffer and on its way is a part of what was sent without *)
(* a gap (Stream), of which the events took whole messages (Heads).         *)

LEMMA Least ==
  ASSUME NEW T, T \subseteq Nat, T # {}
  PROVE  \E i \in T : \A j \in T : i <= j
<1>1. PICK i \in T : \A j \in T : ~ (<<j, i>> \in OpToRel(<, Nat))
  BY WFMin, NatLessThanWellFounded
<1>2. ASSUME NEW j \in T PROVE i <= j
  <2>1. <<j, i>> \in Nat \X Nat => ~ (j < i)
    BY <1>1, <1>2 DEF OpToRel
  <2> QED BY <2>1
<1> QED BY <1>2

Parts == {"line", "blank", "body", "chunk", "last", "hello", "secret"}
Pieces == [msg : Nat, part : Parts, n : Nat]
Messages == [kind : F!Kinds, n : Nat]
Events == [msg : Nat, body : Seq(Pieces)]
Flows == [buf : Seq(Pieces), tls : BOOLEAN, events : Seq(Events)]

\* One round of the loop: without the message at the front.
Shorter(s) == [buf |-> F!After(s.buf, F!Parse(s.buf).used), tls |-> FALSE,
               events |-> Append(s.events, F!Event(s.buf, F!Parse(s.buf).body))]
Round(s) == IF F!Parse(s.buf).used = 0 THEN s ELSE Shorter(s)

\* A function over the first numbers that is made step by step.
Iterates(Z, g, x, N, f) == f \in [0 .. N -> Z] /\ f[0] = x /\ \A k \in 1 .. N : f[k] = g[f[k - 1]]

LEMMA Stepwise ==
  ASSUME NEW Z, NEW g, g \in [Z -> Z], NEW x, x \in Z, NEW N, N \in Nat
  PROVE  \E f : Iterates(Z, g, x, N, f)
<1> DEFINE Is(n, f) == f \in [0 .. n -> Z] /\ f[0] = x /\ \A k \in 1 .. n : f[k] = g[f[k - 1]]
           Bad == {n \in Nat : ~ \E f : Is(n, f)}
<1>1. Bad = {}
  <2>1. SUFFICES ASSUME Bad # {} PROVE FALSE
    OBVIOUS
  <2>2. Bad \subseteq Nat
    OBVIOUS
  <2>3. PICK n \in Bad : \A m \in Bad : n <= m
    <3> HIDE DEF Bad
    <3> QED BY <2>1, <2>2, Least
  <2>4. Is(0, [k \in 0 .. 0 |-> x])
    OBVIOUS
  <2>5. n # 0
    BY <2>4
  <2>6. n - 1 \in Nat /\ n - 1 \notin Bad
    <3> n \in Nat
      BY <2>3
    <3> HIDE DEF Bad
    <3> QED BY <2>3, <2>5
  <2>7. PICK f : Is(n - 1, f)
    BY <2>6
  <2> DEFINE h == [k \in 0 .. n |-> IF k = n THEN g[f[n - 1]] ELSE f[k]]
  <2>8. f[n - 1] \in Z /\ g[f[n - 1]] \in Z
    BY <2>6, <2>7
  <2>9. h \in [0 .. n -> Z] /\ h[0] = x
    BY <2>5, <2>6, <2>7, <2>8
  <2>10. ASSUME NEW k \in 1 .. n PROVE h[k] = g[h[k - 1]]
    BY <2>5, <2>6, <2>7
  <2>11. Is(n, h)
    BY <2>9, <2>10
  <2> QED BY <2>3, <2>11
<1>2. PICK f : Is(N, f)
  BY <1>1
<1> QED BY <1>2 DEF Iterates

\* What every round keeps holds when the loop is over, and then nothing more is taken.
LEMMA LoopEnds ==
  ASSUME Cap \in Nat, NEW Z, Z \subseteq Flows, NEW b \in Seq(Pieces), Len(b) <= Cap,
         [buf |-> b, tls |-> tls, events |-> events] \in Z, F!Parse(<<>>).used = 0,
         \A s \in Z : F!Parse(s.buf).used # 0 => Shorter(s) \in Z /\ Len(Shorter(s).buf) < Len(s.buf)
  PROVE  F!After_k(b) \in Z /\ F!Parse(F!After_k(b).buf).used = 0
<1> DEFINE x == [buf |-> b, tls |-> tls, events |-> events]
           g == [s \in Z |-> Round(s)]
           Rounds(f) == f = [k \in 0 .. Cap |-> IF k = 0 THEN x ELSE Round(f[k - 1])]
           r == CHOOSE f : Rounds(f)
<1>0. x \in Z /\ x.buf = b /\ g \in [Z -> Z]
  BY DEF Round
<1>1. F!After_k(b) = r[Cap]
  BY DEF F!After_k, Round, Shorter
<1>2. PICK f \in [0 .. Cap -> Z] : f[0] = x /\ \A k \in 1 .. Cap : f[k] = g[f[k - 1]]
  <2>1. g \in [Z -> Z] /\ x \in Z /\ Cap \in Nat
    BY <1>0
  <2> HIDE DEF g, x, r, Rounds
  <2>2. PICK y : y = x
    OBVIOUS
  <2>3. PICK h : h = g
    OBVIOUS
  <2>4. \E f : Iterates(Z, h, y, Cap, f)
    <3>1. h \in [Z -> Z] /\ y \in Z /\ Cap \in Nat
      BY <2>1, <2>2, <2>3
    <3> QED BY ONLY <3>1, Stepwise
  <2> QED BY <2>2, <2>3, <2>4 DEF Iterates
<1>3. Rounds(f)
  <2>1. \A z \in Z : g[z] = Round(z)
    OBVIOUS
  <2> HIDE DEF g, x
  <2>2. ASSUME NEW k \in 0 .. Cap, k # 0 PROVE g[f[k - 1]] = Round(f[k - 1])
    <3>1. k - 1 \in 0 .. Cap
      BY <2>2
    <3>2. f[k - 1] \in Z
      BY <1>2, <3>1
    <3> QED BY <2>1, <3>2
  <2> QED BY <1>2, <2>2
<1>4. Rounds(r)
  BY <1>3
<1> HIDE DEF r
<1>5. r[0] = x /\ \A k \in 1 .. Cap : r[k] = Round(r[k - 1])
  <2> HIDE DEF x
  <2> QED BY <1>4
<1> HIDE DEF x, g
<1> DEFINE Fine(k) == r[k] \in Z /\ (F!Parse(r[k].buf).used = 0 \/ Len(r[k].buf) <= Cap - k)
           Bad == {k \in 0 .. Cap : ~ Fine(k)}
<1>6. Fine(0)
  BY <1>0, <1>5
<1>7. ASSUME NEW k \in 1 .. Cap, Fine(k - 1) PROVE Fine(k)
  <2>1. CASE F!Parse(r[k - 1].buf).used = 0
    BY <1>5, <1>7, <2>1 DEF Round
  <2>2. CASE F!Parse(r[k - 1].buf).used # 0
    <3>1. r[k] = Shorter(r[k - 1]) /\ r[k] \in Z /\ Len(r[k].buf) < Len(r[k - 1].buf)
      BY <1>5, <1>7, <2>2 DEF Round
    <3>2. r[k] \in Flows /\ r[k - 1] \in Flows
      BY <1>7, <3>1
    <3>3. r[k].buf \in Seq(Pieces) /\ r[k - 1].buf \in Seq(Pieces)
      BY <3>2 DEF Flows
    <3>4. Len(r[k].buf) \in Nat /\ Len(r[k - 1].buf) \in Nat
      BY <3>3, LenProperties
    <3> QED BY <1>7, <2>2, <3>1, <3>4
  <2> QED BY <2>1, <2>2
<1>8. Bad = {}
  <2>1. SUFFICES ASSUME Bad # {} PROVE FALSE
    OBVIOUS
  <2>2. Bad \subseteq Nat
    OBVIOUS
  <2>3. PICK n \in Bad : \A m \in Bad : n <= m
    <3> HIDE DEF Bad
    <3> QED BY <2>1, <2>2, Least
  <2>4. n \in 1 .. Cap
    BY <1>6, <2>3
  <2>5. n - 1 \in 0 .. Cap /\ n - 1 \notin Bad
    <3> HIDE DEF Fine
    <3> QED BY <2>3, <2>4
  <2>6. Fine(n - 1)
    BY <2>5
  <2>7. Fine(n)
    <3> HIDE DEF Fine
    <3> QED BY <1>7, <2>4, <2>6
  <2> QED BY <2>3, <2>7
<1>9. Fine(Cap)
  <2> HIDE DEF Fine
  <2> QED BY <1>8
<1>10. ASSUME F!Parse(r[Cap].buf).used # 0 PROVE FALSE
  <2>1. r[Cap].buf \in Seq(Pieces) /\ Len(r[Cap].buf) <= 0
    BY <1>9, <1>10 DEF Flows
  <2>2. r[Cap].buf = <<>>
    BY <2>1
  <2> QED BY <1>10, <2>2
<1> QED BY <1>1, <1>9, <1>10
\* The places of the pieces of a message, and the last one.
Place(ms, p) == CASE p.part = "blank" -> 2
                  [] p.part \in {"body", "chunk"} -> p.n + 2
                  [] p.part = "last" -> ms[p.msg].n + 3
                  [] OTHER -> 1
Size(ms, i) == CASE ms[i].kind \in {"fixed", "open"} -> ms[i].n + 2
                 [] ms[i].kind = "chunked" -> ms[i].n + 3
                 [] ms[i].kind \in {"bare", "head"} -> 2
                 [] OTHER -> 1

\* A piece of one of the messages.
Of(ms, p) ==
  /\ p.msg \in 1 .. Len(ms)
  /\ CASE p.part \in {"line", "blank"} -> ms[p.msg].kind \in F!HttpKinds /\ p.n = 0
       [] p.part = "body" -> ms[p.msg].kind \in {"fixed", "open"} /\ p.n \in 1 .. ms[p.msg].n
       [] p.part = "chunk" -> ms[p.msg].kind = "chunked" /\ p.n \in 1 .. ms[p.msg].n
       [] p.part = "last" -> ms[p.msg].kind = "chunked" /\ p.n = 0
       [] OTHER -> ms[p.msg].kind = p.part /\ p.n = 0

\* What is l - k places behind a piece is of the same message, if that is long enough.
Behind(ms, s, k, l) ==
  IF Place(ms, s[k]) + l - k <= Size(ms, s[k].msg)
  THEN s[l].msg = s[k].msg /\ Place(ms, s[l]) = Place(ms, s[k]) + l - k
  ELSE /\ s[l].msg > s[k].msg
       /\ Place(ms, s[k]) + l - k = Size(ms, s[k].msg) + 1 => Place(ms, s[l]) = 1

Gapless(ms, s) ==
  /\ \A k \in 1 .. Len(s) : Of(ms, s[k])
  /\ \A k, l \in 1 .. Len(s) : k < l => Behind(ms, s, k, l)
EndsWhole(ms, s) == s # <<>> => Place(ms, s[Len(s)]) = Size(ms, s[Len(s)].msg)
Stream(ms, s) == Gapless(ms, s) /\ EndsWhole(ms, s)

\* How messages follow one another, and what is known of each.
InTurn(ms) ==
  /\ \A i, j \in 1 .. Len(ms) : i < j /\ ms[i].kind \notin F!HttpKinds => ms[j].kind = "secret"
  /\ \A j \in 2 .. Len(ms) : ms[j].kind = "hello" => ms[j - 1].kind = "open" /\ ms[j - 1].n = 0
Knowables(ms) ==
  /\ \A i \in 1 .. Len(ms) : ms[i].kind = "head" => ms[i].n = 0
  /\ \A i, j \in 1 .. Len(ms) : i < j /\ ms[i].kind = "open" => ms[j].kind \notin F!HttpKinds

\* Behind a message that has no end of its own no other is parsed.
Endless(ms) == \E i \in 1 .. Len(ms) : i < Len(ms) /\ ms[i].kind = "open"
Shut(ms, b, o) ==
  Endless(ms) => (b # <<>> => b[1].part # "line") /\ \A k \in 1 .. Len(o) : o[k].part # "line"

\* The message at the front of the buffer is not all there.
Waits(ms, b) ==
  b # <<>> /\ b[1].part = "line" =>
    Len(b) < Size(ms, b[1].msg) /\ (ms[b[1].msg].kind = "open" => Len(b) = 1)

\* The body of a message as far as it is shown.
Units(i, p, k) == [j \in 1 .. k |-> F!Piece(i, p, j)]
Upto(n) == IF limit < 0 THEN 0 ELSE IF limit = 0 THEN n ELSE F!Least(limit, n)
Shown(ms, i) == CASE ms[i].kind = "chunked" -> Units(i, "chunk", Upto(ms[i].n))
                  [] ms[i].kind \in {"fixed", "open"} -> Units(i, "body", Upto(ms[i].n))
                  [] OTHER -> <<>>

\* Events are of messages in their order, whose heads are no longer in the stream.
Heads(ms, s, e) ==
  /\ \A j \in 1 .. Len(e) : ms[e[j].msg].kind # "secret" /\ F!IsPrefix(e[j].body, Shown(ms, e[j].msg))
  /\ \A j, k \in 1 .. Len(e) : j < k => e[j].msg < e[k].msg
  /\ \A k \in 1 .. Len(s), j \in 1 .. Len(e) : Place(ms, s[k]) = 1 => e[j].msg < s[k].msg

\* Every message is in an event or still to come, and none is left half read but one
\* that has no end.
Complete(ms, b, s, e) ==
  /\ \A i \in 1 .. Len(ms) : ms[i].kind # "secret" =>
       \/ \E j \in 1 .. Len(e) : e[j].msg = i
       \/ \E k \in 1 .. Len(s) : s[k].msg = i /\ Place(ms, s[k]) = 1
  /\ \A j \in 1 .. Len(e) : ms[e[j].msg].kind # "open" => e[j].body = Shown(ms, e[j].msg)
  /\ s # <<>> => Place(ms, s[1]) = 1 \/ (s[1].part = "body" /\ ms[s[1].msg].kind = "open")
  /\ b # <<>> => b[1].part # "hello"

Numbered(ms, s) == \A k \in 1 .. Len(s) : s[k].msg \in 1 .. Len(ms)
Greeted(ms, t, e) == t => \E j \in 1 .. Len(e) : ms[e[j].msg].kind = "hello"
AtEdge(ms, o) == o # <<>> => Place(ms, o[1]) = 1

FlowTyped ==
  /\ limit \in Limits /\ msgs \in Seq(Messages) /\ (\A i \in 1 .. Len(msgs) : msgs[i].n \in 0 .. MaxLen)
  /\ buf \in Seq(Pieces) /\ Len(buf) <= Cap /\ Numbered(msgs, buf)
  /\ out \in Seq(Pieces) /\ Numbered(msgs, out)
  /\ wire \in Seq(Pieces) /\ Numbered(msgs, wire) /\ strays \in 0 .. MaxStray
  /\ events \in Seq(Events) /\ Numbered(msgs, events)
  /\ tls \in BOOLEAN /\ clean \in BOOLEAN /\ aligned \in BOOLEAN

\* What a round keeps, if nothing was lost: b in the buffer, o on its way, e emitted.
ReadSoFar(ms, b, o, t, e) ==
  /\ Stream(ms, b \o o) /\ Heads(ms, b \o o, e) /\ Shut(ms, b, o) /\ Greeted(ms, t, e)

FlowInv ==
  /\ FlowTyped /\ InTurn(msgs)
  /\ clean => /\ Knowables(msgs) /\ Waits(msgs, buf)
              /\ ReadSoFar(msgs, buf, out, tls, events)
              /\ aligned => AtEdge(msgs, out)
              /\ F!InStep => Complete(msgs, buf, buf \o out, events)

\* Every message that begins here is all here, and behind one that has no end of its own
\* is nothing else.
WholeIn(ms, b) ==
  \A k \in 1 .. Len(b) : b[k].part = "line" =>
    /\ Of(ms, b[k]) /\ Size(ms, b[k].msg) <= Len(b) - k + 1
    /\ \A j \in 1 .. Len(b) - k + 1 : j <= Size(ms, b[k].msg) =>
         b[k + j - 1].msg = b[k].msg /\ Place(ms, b[k + j - 1]) = j /\ Of(ms, b[k + j - 1])
    /\ ms[b[k].msg].kind = "open" => Len(b) - k + 1 = Size(ms, b[k].msg)

\* No event shows what is not of its message.
Begun(ms, e) == \A j \in 1 .. Len(e) : F!IsPrefix(e[j].body, Shown(ms, e[j].msg))

\* What holds in whatever order packets come, and if none has a part of a message only.
AnyPackets ==
  /\ F!Parse(buf).used = 0
  /\ aligned => Knowables(msgs) /\ Begun(msgs, events) /\ (buf # <<>> => buf[1].part # "line")

\* Where a piece is in its message tells what it is.
LEMMA Places ==
  ASSUME NEW ms, ms \in Seq(Messages), NEW p, p \in Pieces, Of(ms, p)
  PROVE  /\ p.msg \in 1 .. Len(ms) /\ Size(ms, p.msg) \in Nat
         /\ Place(ms, p) \in 1 .. Size(ms, p.msg)
         /\ Place(ms, p) = 1 <=> p.part \in {"line", "hello", "secret"}
         /\ Place(ms, p) = 2 <=> p.part = "blank"
         /\ p.part = "line" <=> Place(ms, p) = 1 /\ ms[p.msg].kind \in F!HttpKinds
<1>1. p.msg \in 1 .. Len(ms) /\ p.part \in Parts /\ p.n \in Nat
  BY DEF Of, Pieces
<1>2. ms[p.msg] \in Messages
  BY <1>1, ElementOfSeq
<1>3. ms[p.msg].kind \in F!Kinds /\ ms[p.msg].n \in Nat
  BY <1>2 DEF Messages
<1>4. CASE p.part \in {"line", "blank"}
  BY <1>1, <1>3, <1>4 DEF Of, Place, Size, F!HttpKinds
<1>5. CASE p.part = "body"
  <2>1. ms[p.msg].kind \in {"fixed", "open"} /\ p.n \in 1 .. ms[p.msg].n
    BY <1>5 DEF Of
  <2> QED BY <1>1, <1>3, <1>5, <2>1 DEF Place, Size
<1>8. CASE p.part = "chunk"
  <2>1. ms[p.msg].kind = "chunked" /\ p.n \in 1 .. ms[p.msg].n
    BY <1>8 DEF Of
  <2> QED BY <1>1, <1>3, <1>8, <2>1 DEF Place, Size
<1>6. CASE p.part = "last"
  BY <1>1, <1>3, <1>6 DEF Of, Place, Size
<1>7. CASE p.part \in {"hello", "secret"}
  <2>1. ms[p.msg].kind = p.part
    BY <1>7 DEF Of
  <2> QED BY <1>1, <1>3, <1>7, <2>1 DEF Place, Size, F!HttpKinds
<1> QED BY <1>1, <1>4, <1>5, <1>6, <1>7, <1>8 DEF Parts

\* The pieces of a body.
LEMMA UnitPlaces ==
  ASSUME NEW ms, ms \in Seq(Messages), NEW p, p \in Pieces, Of(ms, p), Place(ms, p) > 2
  PROVE  /\ ms[p.msg].kind \in {"fixed", "open"} => p = F!Piece(p.msg, "body", Place(ms, p) - 2)
         /\ ms[p.msg].kind = "chunked" =>
              IF Place(ms, p) = ms[p.msg].n + 3 THEN p.part = "last"
                                                ELSE p = F!Piece(p.msg, "chunk", Place(ms, p) - 2)
         /\ ms[p.msg].kind \in {"fixed", "open", "chunked"}
<1>1. p.msg \in 1 .. Len(ms) /\ p.part \in Parts /\ p.n \in Nat
  BY DEF Of, Pieces
<1>2. ms[p.msg] \in Messages
  BY <1>1, ElementOfSeq
<1>3. ms[p.msg].kind \in F!Kinds /\ ms[p.msg].n \in Nat
  BY <1>2 DEF Messages
<1>4. p = [msg |-> p.msg, part |-> p.part, n |-> p.n]
  BY DEF Pieces
<1>5. ASSUME p.part = "body" PROVE ms[p.msg].kind \in {"fixed", "open"} /\ p = F!Piece(p.msg, "body", Place(ms, p) - 2)
  BY <1>1, <1>4, <1>5 DEF Of, Place, F!Piece
<1>6. ASSUME p.part = "chunk"
      PROVE  /\ ms[p.msg].kind = "chunked" /\ p = F!Piece(p.msg, "chunk", Place(ms, p) - 2)
             /\ Place(ms, p) # ms[p.msg].n + 3
  BY <1>1, <1>3, <1>4, <1>6 DEF Of, Place, F!Piece
<1>7. ASSUME p.part = "last" PROVE ms[p.msg].kind = "chunked" /\ Place(ms, p) = ms[p.msg].n + 3
  BY <1>1, <1>3, <1>7 DEF Of, Place
<1>8. p.part \in {"body", "chunk", "last"}
  BY <1>1, <1>3 DEF Place, Parts
<1> QED BY <1>5, <1>6, <1>7, <1>8

\* What follows a piece in the stream.
LEMMA NextPiece ==
  ASSUME NEW ms, ms \in Seq(Messages), NEW s, s \in Seq(Pieces), Gapless(ms, s),
         NEW k \in 1 .. Len(s), k + 1 <= Len(s)
  PROVE  IF Place(ms, s[k]) < Size(ms, s[k].msg)
         THEN s[k + 1].msg = s[k].msg /\ Place(ms, s[k + 1]) = Place(ms, s[k]) + 1
         ELSE s[k + 1].msg > s[k].msg /\ Place(ms, s[k + 1]) = 1
<1>1. Len(s) \in Nat
  BY LenProperties
<1>2. s[k] \in Pieces /\ Of(ms, s[k])
  BY ElementOfSeq DEF Gapless
<1>3. Place(ms, s[k]) \in 1 .. Size(ms, s[k].msg) /\ Size(ms, s[k].msg) \in Nat
  BY <1>2, Places
<1>4. Behind(ms, s, k, k + 1)
  BY <1>1 DEF Gapless
<1> HIDE DEF Gapless
<1> QED BY <1>3, <1>4 DEF Behind

\* The first pieces of a stream that starts with the head of a message.
LEMMA Foremost ==
  ASSUME NEW ms, ms \in Seq(Messages), NEW s, s \in Seq(Pieces), Gapless(ms, s), s # <<>>, Place(ms, s[1]) = 1,
         NEW k \in 1 .. Len(s)
  PROVE  /\ k <= Size(ms, s[1].msg) => s[k].msg = s[1].msg /\ Place(ms, s[k]) = k
         /\ k > Size(ms, s[1].msg) => s[k].msg > s[1].msg
         /\ k = Size(ms, s[1].msg) + 1 => Place(ms, s[k]) = 1
         /\ k > 1 /\ Place(ms, s[k]) = 1 => s[k].msg > s[1].msg
<1>1. Len(s) \in Nat /\ 1 \in 1 .. Len(s)
  BY LenProperties
<1>2. s[1] \in Pieces /\ Of(ms, s[1])
  BY <1>1, ElementOfSeq DEF Gapless
<1>3. Size(ms, s[1].msg) \in Nat /\ Size(ms, s[1].msg) >= 1 /\ s[1].msg \in 1 .. Len(ms)
  BY <1>2, Places
<1>4. CASE k = 1
  BY <1>3, <1>4
<1>5. CASE k > 1
  <2>1. Behind(ms, s, 1, k)
    BY <1>1, <1>5 DEF Gapless
  <2>2. s[k] \in Pieces
    BY ElementOfSeq
  <2>3. s[k].msg \in Nat
    BY <2>2 DEF Pieces
  <2> HIDE DEF Gapless
  <2> QED BY <1>3, <1>5, <2>1, <2>3 DEF Behind
<1> QED BY <1>1, <1>4, <1>5

\* What is left of the stream when its first pieces are taken.
LEMMA Rest ==
  ASSUME NEW s, s \in Seq(Pieces), NEW n, n \in 0 .. Len(s), NEW t, t = SubSeq(s, n + 1, Len(s))
  PROVE  t \in Seq(Pieces) /\ Len(t) = Len(s) - n /\ \A k \in 1 .. Len(t) : t[k] = s[n + k] /\ n + k \in 1 .. Len(s)
<1>1. Len(s) \in Nat
  BY LenProperties
<1>2. \A i \in n + 1 .. Len(s) : s[i] \in Pieces
  BY <1>1, ElementOfSeq
<1>3. /\ t \in Seq(Pieces) /\ Len(t) = (IF n + 1 <= Len(s) THEN Len(s) - (n + 1) + 1 ELSE 0)
      /\ \A i \in 1 .. Len(s) - (n + 1) + 1 : t[i] = s[n + 1 + i - 1]
  BY <1>1, <1>2, SubSeqProperties
<1> QED BY <1>1, <1>3

LEMMA StreamGoesOn ==
  ASSUME NEW ms, ms \in Seq(Messages), NEW s, s \in Seq(Pieces), Stream(ms, s),
         NEW n, n \in 0 .. Len(s), NEW t, t = SubSeq(s, n + 1, Len(s))
  PROVE  Stream(ms, t)
<1>1. Len(s) \in Nat
  BY LenProperties
<1>2. t \in Seq(Pieces) /\ Len(t) = Len(s) - n /\ \A k \in 1 .. Len(t) : t[k] = s[n + k] /\ n + k \in 1 .. Len(s)
  BY Rest
<1>3. \A k \in 1 .. Len(t) : Of(ms, t[k])
  BY <1>2 DEF Stream, Gapless
<1>4. ASSUME NEW k \in 1 .. Len(t), NEW l \in 1 .. Len(t), k < l PROVE Behind(ms, t, k, l)
  <2>1. Behind(ms, s, n + k, n + l)
    BY <1>1, <1>2, <1>4 DEF Stream, Gapless
  <2>2. n + l - (n + k) = l - k
    BY <1>1, <1>2
  <2>3. t[k] = s[n + k] /\ t[l] = s[n + l]
    BY <1>2
  <2>4. t[k] \in Pieces /\ Of(ms, t[k])
    BY <1>2, <1>3, ElementOfSeq
  <2>5. Place(ms, t[k]) \in Nat
    BY <2>4, Places
  <2>6. Place(ms, t[k]) + (n + l) - (n + k) = Place(ms, t[k]) + l - k
    BY <1>1, <1>2, <2>5
  <2> QED BY <2>1, <2>3, <2>6 DEF Behind
<1>5. EndsWhole(ms, t)
  <2>1. SUFFICES ASSUME t # <<>> PROVE Place(ms, t[Len(t)]) = Size(ms, t[Len(t)].msg)
    BY DEF EndsWhole
  <2>2. Len(t) \in 1 .. Len(t)
    BY <1>2, <2>1, EmptySeq
  <2>3. t[Len(t)] = s[n + Len(t)]
    BY <1>2, <2>2
  <2>4. n + Len(t) = Len(s) /\ Len(s) # 0
    BY <1>1, <1>2, <2>2
  <2>5. s # <<>>
    BY <2>4
  <2> QED BY <2>3, <2>4, <2>5 DEF Stream, EndsWhole
<1> QED BY <1>3, <1>4, <1>5 DEF Stream, Gapless

\* Taking from the buffer is taking from the stream.
LEMMA Taking ==
  ASSUME NEW b, b \in Seq(Pieces), NEW o, o \in Seq(Pieces), NEW n, n \in 0 .. Len(b)
  PROVE  /\ b \o o \in Seq(Pieces) /\ Len(b \o o) = Len(b) + Len(o) /\ Len(b) \in Nat /\ Len(o) \in Nat
         /\ SubSeq(b, n + 1, Len(b)) \o o = SubSeq(b \o o, n + 1, Len(b \o o))
         /\ \A k \in 1 .. Len(b) : (b \o o)[k] = b[k]
         /\ \A k \in 1 .. Len(o) : (b \o o)[Len(b) + k] = o[k]
<1> DEFINE s == b \o o
           t == SubSeq(s, n + 1, Len(s))
           c == SubSeq(b, n + 1, Len(b))
           u == c \o o
<1>1. Len(b) \in Nat /\ Len(o) \in Nat
  BY LenProperties
<1>2. s \in Seq(Pieces) /\ Len(s) = Len(b) + Len(o)
      /\ \A i \in 1 .. Len(b) + Len(o) : s[i] = IF i <= Len(b) THEN b[i] ELSE o[i - Len(b)]
  BY ConcatProperties
<1> HIDE DEF s
<1>3. t \in Seq(Pieces) /\ Len(t) = Len(s) - n /\ \A k \in 1 .. Len(t) : t[k] = s[n + k] /\ n + k \in 1 .. Len(s)
  <2>1. n \in 0 .. Len(s)
    BY <1>1, <1>2
  <2> QED BY <1>2, <2>1, Rest
<1>4. c \in Seq(Pieces) /\ Len(c) = Len(b) - n /\ \A k \in 1 .. Len(c) : c[k] = b[n + k] /\ n + k \in 1 .. Len(b)
  BY Rest
<1> HIDE DEF t, c
<1>5. u \in Seq(Pieces) /\ Len(u) = Len(c) + Len(o)
      /\ \A i \in 1 .. Len(c) + Len(o) : u[i] = IF i <= Len(c) THEN c[i] ELSE o[i - Len(c)]
  BY <1>4, ConcatProperties
<1> HIDE DEF u
<1>6. Len(t) = Len(u)
  BY <1>1, <1>2, <1>3, <1>4, <1>5
<1>7. ASSUME NEW i \in 1 .. Len(t) PROVE t[i] = u[i]
  <2>1. t[i] = s[n + i] /\ n + i \in 1 .. Len(s)
    BY <1>3
  <2>2. CASE i <= Len(c)
    <3>1. u[i] = b[n + i] /\ n + i <= Len(b)
      BY <1>1, <1>4, <1>5, <1>6, <2>2
    <3> QED BY <1>1, <1>2, <2>1, <3>1
  <2>3. CASE i > Len(c)
    <3>1. n + i > Len(b) /\ n + i - Len(b) = i - Len(c) /\ Len(c) \in Nat
      BY <1>1, <1>3, <1>4, <2>3
    <3>2. i \in 1 .. Len(c) + Len(o)
      BY <1>5, <1>6
    <3>3. u[i] = o[i - Len(c)]
      BY <1>5, <2>3, <3>1, <3>2
    <3>4. s[n + i] = o[n + i - Len(b)]
      BY <1>1, <1>2, <2>1, <3>1
    <3> QED BY <2>1, <3>1, <3>3, <3>4
  <2> QED BY <1>1, <1>4, <2>2, <2>3
<1>8. t = u
  BY <1>3, <1>5, <1>6, <1>7, SeqEqual
<1>9. \A k \in 1 .. Len(b) : s[k] = b[k]
  BY <1>1, <1>2
<1>10. \A k \in 1 .. Len(o) : s[Len(b) + k] = o[k]
  BY <1>1, <1>2
<1> QED BY <1>1, <1>2, <1>8, <1>9, <1>10 DEF s, t, c, u

\* A packet moves the border between the buffer and what is on its way.
LEMMA Moved ==
  ASSUME NEW b, b \in Seq(Pieces), NEW o, o \in Seq(Pieces), NEW n, n \in 0 .. Len(o)
  PROVE  /\ SubSeq(o, 1, n) \in Seq(Pieces) /\ Len(SubSeq(o, 1, n)) = n
         /\ SubSeq(o, n + 1, Len(o)) \in Seq(Pieces)
         /\ (b \o SubSeq(o, 1, n)) \o SubSeq(o, n + 1, Len(o)) = b \o o
<1> DEFINE p == SubSeq(o, 1, n)
           q == SubSeq(o, n + 1, Len(o))
<1>1. Len(o) \in Nat
  BY LenProperties
<1>2. \A i \in 1 .. Len(o) : o[i] \in Pieces
  BY ElementOfSeq
<1>3. p \in Seq(Pieces) /\ Len(p) = n
  <2>1. \A i \in 1 .. n : o[i] \in Pieces
    BY <1>1, <1>2
  <2>2. p \in Seq(Pieces) /\ Len(p) = (IF 1 <= n THEN n - 1 + 1 ELSE 0)
    BY <1>1, <2>1, SubSeqProperties
  <2> QED BY <1>1, <2>2
<1>4. q \in Seq(Pieces)
  BY Rest
<1>5. p \o q = SubSeq(o, 1, Len(o))
  <2>1. 1 \in 1 .. Len(o) + 1 /\ n \in 1 - 1 .. Len(o) /\ Len(o) \in n .. Len(o)
    BY <1>1
  <2> QED BY <2>1, ConcatAdjacentSubSeq
<1>6. p \o q = o
  BY <1>5, SubSeqFull
<1> HIDE DEF p, q
<1>7. (b \o p) \o q = b \o (p \o q)
  BY <1>3, <1>4, ConcatAssociative
<1> QED BY <1>3, <1>4, <1>6, <1>7 DEF p, q

\* A message is sent as its pieces in their places.
LEMMA UnitsAre ==
  ASSUME NEW i \in Nat, NEW p \in Parts, NEW n \in Nat
  PROVE  Units(i, p, n) \in Seq(Pieces) /\ Len(Units(i, p, n)) = n /\ \A j \in 1 .. n : Units(i, p, n)[j] = F!Piece(i, p, j)
<1>1. \A j \in 1 .. n : F!Piece(i, p, j) \in Pieces
  BY DEF F!Piece, Pieces
<1>2. Units(i, p, n) \in [1 .. n -> Pieces]
  BY <1>1 DEF Units
<1>3. Units(i, p, n) \in Seq(Pieces) /\ Len(Units(i, p, n)) = n
  BY <1>2
<1>4. \A j \in 1 .. n : Units(i, p, n)[j] = F!Piece(i, p, j)
  BY DEF Units
<1> QED BY <1>3, <1>4

LEMMA SentPieces ==
  ASSUME NEW ms, ms \in Seq(Messages), NEW i, i \in 1 .. Len(ms),
         NEW P, P = F!PiecesOf(i, ms[i].kind, ms[i].n)
  PROVE  /\ P \in Seq(Pieces) /\ Len(P) = Size(ms, i) /\ P # <<>>
         /\ \A j \in 1 .. Len(P) : P[j].msg = i /\ Of(ms, P[j]) /\ Place(ms, P[j]) = j
<1>1. Len(ms) \in Nat /\ i \in Nat
  BY LenProperties
<1>2. ms[i] \in Messages
  BY ElementOfSeq
<1>3. ms[i].kind \in F!Kinds /\ ms[i].n \in Nat
  BY <1>2 DEF Messages
<1> DEFINE kind == ms[i].kind
           n == ms[i].n
           D == <<F!Piece(i, "line", 0), F!Piece(i, "blank", 0)>>
<1>4. CASE kind \notin F!HttpKinds
  <2>1. P = <<F!Piece(i, kind, 0)>> /\ kind \in {"hello", "secret"}
    BY <1>3, <1>4 DEF F!PiecesOf, F!Kinds
  <2>2. F!Piece(i, kind, 0) \in Pieces
    BY <1>1, <2>1 DEF F!Piece, Pieces, Parts
  <2>3. P \in Seq(Pieces) /\ Len(P) = 1 /\ P[1] = F!Piece(i, kind, 0)
    BY <2>1, <2>2
  <2>4. Size(ms, i) = 1
    BY <2>1 DEF Size
  <2>5. P[1].msg = i /\ P[1].part = kind /\ P[1].n = 0
    BY <2>3 DEF F!Piece
  <2>6. Of(ms, P[1]) /\ Place(ms, P[1]) = 1
    BY <1>1, <2>1, <2>5 DEF Of, Place
  <2>7. P # <<>>
    BY <2>3
  <2> QED BY <2>3, <2>4, <2>5, <2>6, <2>7
<1>5. CASE kind \in F!HttpKinds
  <2>1. F!Piece(i, "line", 0) \in Pieces /\ F!Piece(i, "blank", 0) \in Pieces
    BY <1>1 DEF F!Piece, Pieces, Parts
  <2>2. D \in Seq(Pieces) /\ Len(D) = 2 /\ D[1] = F!Piece(i, "line", 0) /\ D[2] = F!Piece(i, "blank", 0)
    BY <2>1
  <2>3. D[1].msg = i /\ D[1].part = "line" /\ D[1].n = 0 /\ D[2].msg = i /\ D[2].part = "blank" /\ D[2].n = 0
    BY <2>2 DEF F!Piece
  <2>4. \A j \in 1 .. 2 : D[j].msg = i /\ Of(ms, D[j]) /\ Place(ms, D[j]) = j
    <3>1. D[1].msg = i /\ Of(ms, D[1]) /\ Place(ms, D[1]) = 1
      BY <1>1, <1>5, <2>3 DEF Of, Place
    <3>2. D[2].msg = i /\ Of(ms, D[2]) /\ Place(ms, D[2]) = 2
      BY <1>1, <1>5, <2>3 DEF Of, Place
    <3> HIDE DEF D
    <3> QED BY <3>1, <3>2
  <2>5. \E T \in Seq(Pieces) : /\ P = D \o T /\ Len(T) + 2 = Size(ms, i)
                              /\ \A j \in 1 .. Len(T) : T[j].msg = i /\ Of(ms, T[j]) /\ Place(ms, T[j]) = j + 2
    <3>1. CASE kind \in {"bare", "head"}
      <4> DEFINE T == <<>>
      <4>1. P = D \o T
        BY <1>5, <3>1 DEF F!PiecesOf
      <4>2. Size(ms, i) = 2
        BY <3>1 DEF Size
      <4>3. T \in Seq(Pieces) /\ Len(T) = 0
        OBVIOUS
      <4> HIDE DEF T, D
      <4>4. \A j \in 1 .. Len(T) : T[j].msg = i /\ Of(ms, T[j]) /\ Place(ms, T[j]) = j + 2
        BY <4>3
      <4>5. Len(T) + 2 = Size(ms, i)
        BY <4>2, <4>3
      <4> QED BY <4>1, <4>3, <4>4, <4>5
    <3>2. CASE kind \in {"fixed", "open"}
      <4> DEFINE T == Units(i, "body", n)
      <4>1. P = D \o T
        BY <1>5, <3>2 DEF F!PiecesOf, Units
      <4>2. Size(ms, i) = n + 2
        BY <3>2 DEF Size
      <4>3. T \in Seq(Pieces) /\ Len(T) = n /\ \A j \in 1 .. n : T[j] = F!Piece(i, "body", j)
        BY <1>1, <1>3, UnitsAre DEF Parts
      <4> HIDE DEF T
      <4>4. ASSUME NEW j \in 1 .. n PROVE T[j].msg = i /\ Of(ms, T[j]) /\ Place(ms, T[j]) = j + 2
        <5>1. T[j].msg = i /\ T[j].part = "body" /\ T[j].n = j
          <6>1. T[j] = F!Piece(i, "body", j)
            BY <4>3
          <6> QED BY <6>1 DEF F!Piece
        <5> QED BY <1>1, <3>2, <5>1 DEF Of, Place
      <4> QED BY <1>3, <4>1, <4>2, <4>3, <4>4
    <3>3. CASE kind = "chunked"
      <4> DEFINE U == Units(i, "chunk", n)
                 L == F!Piece(i, "last", 0)
                 T == Append(U, L)
      <4>1. P = D \o T
        BY <1>5, <3>3 DEF F!PiecesOf, Units
      <4>2. Size(ms, i) = n + 3
        BY <3>3 DEF Size
      <4>3. U \in Seq(Pieces) /\ Len(U) = n /\ \A j \in 1 .. n : U[j] = F!Piece(i, "chunk", j)
        BY <1>1, <1>3, UnitsAre DEF Parts
      <4>4. L \in Pieces /\ L.msg = i /\ L.part = "last" /\ L.n = 0
        BY <1>1 DEF F!Piece, Pieces, Parts
      <4> HIDE DEF U, L
      <4>5. T \in Seq(Pieces) /\ Len(T) = n + 1 /\ T[n + 1] = L /\ \A j \in 1 .. n : T[j] = U[j]
        BY <4>3, <4>4, AppendProperties
      <4> HIDE DEF T
      <4>6. ASSUME NEW j \in 1 .. n PROVE T[j].msg = i /\ Of(ms, T[j]) /\ Place(ms, T[j]) = j + 2
        <5>1. T[j].msg = i /\ T[j].part = "chunk" /\ T[j].n = j
          <6>1. T[j] = F!Piece(i, "chunk", j)
            BY <4>3, <4>5
          <6> QED BY <6>1 DEF F!Piece
        <5> QED BY <1>1, <3>3, <5>1 DEF Of, Place
      <4>7. T[n + 1].msg = i /\ Of(ms, T[n + 1]) /\ Place(ms, T[n + 1]) = n + 3
        BY <1>1, <1>3, <3>3, <4>4, <4>5 DEF Of, Place
      <4>8. ASSUME NEW j \in 1 .. Len(T) PROVE T[j].msg = i /\ Of(ms, T[j]) /\ Place(ms, T[j]) = j + 2
        <5>1. j \in 1 .. n \/ (j = n + 1 /\ j + 2 = n + 3)
          BY <1>3, <4>5
        <5> QED BY <4>6, <4>7, <5>1
      <4>9. Len(T) + 2 = Size(ms, i)
        BY <1>3, <4>2, <4>5
      <4> QED BY <4>1, <4>5, <4>8, <4>9
    <3> QED BY <1>5, <3>1, <3>2, <3>3 DEF F!HttpKinds
  <2>6. PICK T \in Seq(Pieces) : /\ P = D \o T /\ Len(T) + 2 = Size(ms, i)
                                 /\ \A j \in 1 .. Len(T) : T[j].msg = i /\ Of(ms, T[j]) /\ Place(ms, T[j]) = j + 2
    BY <2>5
  <2> HIDE DEF D
  <2>7. Len(T) \in Nat
    BY LenProperties
  <2>8. P \in Seq(Pieces) /\ Len(P) = 2 + Len(T) /\ \A j \in 1 .. 2 + Len(T) : P[j] = IF j <= 2 THEN D[j] ELSE T[j - 2]
    <3>1. /\ D \o T \in Seq(Pieces) /\ Len(D \o T) = Len(D) + Len(T)
          /\ \A j \in 1 .. Len(D) + Len(T) : (D \o T)[j] = IF j <= Len(D) THEN D[j] ELSE T[j - Len(D)]
      BY <2>2, <2>6, ConcatProperties
    <3>2. Len(D) = 2 /\ P = D \o T
      BY <2>2, <2>6
    <3> QED BY <3>1, <3>2
  <2>9. ASSUME NEW j \in 1 .. Len(P) PROVE P[j].msg = i /\ Of(ms, P[j]) /\ Place(ms, P[j]) = j
    <3>1. CASE j <= 2
      BY <2>4, <2>7, <2>8, <3>1
    <3>2. CASE j > 2
      <4>1. P[j] = T[j - 2] /\ j - 2 \in 1 .. Len(T) /\ j - 2 + 2 = j
        BY <2>7, <2>8, <3>2
      <4> QED BY <2>6, <4>1
    <3> QED BY <2>7, <2>8, <3>1, <3>2
  <2>10. Len(P) = Size(ms, i)
    BY <2>6, <2>7, <2>8
  <2>11. P # <<>>
    <3>1. Len(P) # 0
      BY <2>7, <2>8
    <3> QED BY <3>1
  <2> QED BY <2>8, <2>9, <2>10, <2>11
<1> QED BY <1>4, <1>5

\* Another message leaves the others as they are.
LEMMA AnotherMessage ==
  ASSUME NEW ms, ms \in Seq(Messages), NEW m, m \in Messages, NEW ns, ns = Append(ms, m)
  PROVE  /\ ns \in Seq(Messages) /\ Len(ns) = Len(ms) + 1 /\ ns[Len(ns)] = m /\ Len(ms) \in Nat
         /\ \A i \in 1 .. Len(ms) : ns[i] = ms[i] /\ Size(ns, i) = Size(ms, i)
         /\ \A p \in Pieces : p.msg \in 1 .. Len(ms) => Place(ns, p) = Place(ms, p)
         /\ \A p \in Pieces : Of(ms, p) => Of(ns, p)
<1>1. /\ ns \in Seq(Messages) /\ Len(ns) = Len(ms) + 1 /\ ns[Len(ms) + 1] = m
      /\ \A i \in 1 .. Len(ms) : ns[i] = ms[i]
  BY AppendProperties
<1>2. Len(ms) \in Nat
  BY LenProperties
<1>3. \A i \in 1 .. Len(ms) : Size(ns, i) = Size(ms, i)
  BY <1>1 DEF Size
<1>4. \A p \in Pieces : p.msg \in 1 .. Len(ms) => Place(ns, p) = Place(ms, p)
  BY <1>1 DEF Place
<1>5. ASSUME NEW p \in Pieces, Of(ms, p) PROVE Of(ns, p)
  <2>1. p.msg \in 1 .. Len(ms) /\ p.msg \in 1 .. Len(ns)
    BY <1>1, <1>2, <1>5 DEF Of
  <2>2. ns[p.msg] = ms[p.msg]
    BY <1>1, <2>1
  <2> QED BY <1>5, <2>1, <2>2 DEF Of
<1> QED BY <1>1, <1>2, <1>3, <1>4, <1>5

LEMMA StreamGrows ==
  ASSUME NEW ms, ms \in Seq(Messages), NEW s, s \in Seq(Pieces), Stream(ms, s),
         NEW m, m \in Messages, NEW ns, ns = Append(ms, m),
         NEW P, P = F!PiecesOf(Len(ms) + 1, m.kind, m.n), NEW t, t = s \o P
  PROVE  /\ t \in Seq(Pieces) /\ Stream(ns, t)
         /\ Len(t) = Len(s) + Len(P) /\ P \in Seq(Pieces) /\ P # <<>> /\ Place(ns, P[1]) = 1
         /\ \A k \in 1 .. Len(P) : P[k].msg = Len(ms) + 1
         /\ \A k \in 1 .. Len(P) : Place(ns, P[k]) = k
<1> DEFINE N == Len(ms) + 1
<1>1. /\ ns \in Seq(Messages) /\ Len(ns) = N /\ ns[N] = m /\ Len(ms) \in Nat
      /\ \A i \in 1 .. Len(ms) : ns[i] = ms[i] /\ Size(ns, i) = Size(ms, i)
      /\ \A p \in Pieces : p.msg \in 1 .. Len(ms) => Place(ns, p) = Place(ms, p)
      /\ \A p \in Pieces : Of(ms, p) => Of(ns, p)
  <2>1. Len(ns) = Len(ms) + 1 /\ ns[Len(ns)] = m
    BY AnotherMessage
  <2>2. ns[Len(ms) + 1] = m
    BY <2>1
  <2> QED BY <2>1, <2>2, AnotherMessage
<1>2. N \in 1 .. Len(ns) /\ P = F!PiecesOf(N, ns[N].kind, ns[N].n)
  BY <1>1
<1> HIDE DEF N
<1>3. /\ P \in Seq(Pieces) /\ Len(P) = Size(ns, N) /\ P # <<>>
      /\ \A j \in 1 .. Len(P) : P[j].msg = N /\ Of(ns, P[j]) /\ Place(ns, P[j]) = j
  <2>1. ns \in Seq(Messages)
    BY <1>1
  <2> QED BY ONLY <1>2, <2>1, SentPieces
<1>4. Len(s) \in Nat /\ Len(P) \in Nat /\ Len(P) > 0
  <2>1. Len(s) \in Nat /\ Len(P) \in Nat
    BY <1>3, LenProperties
  <2>2. Len(P) # 0
    BY <1>3, EmptySeq
  <2> QED BY <2>1, <2>2
<1>5. /\ t \in Seq(Pieces) /\ Len(t) = Len(s) + Len(P)
      /\ \A i \in 1 .. Len(s) + Len(P) : t[i] = IF i <= Len(s) THEN s[i] ELSE P[i - Len(s)]
  BY <1>3, ConcatProperties
<1>6. ASSUME NEW k \in 1 .. Len(s)
      PROVE  /\ t[k] = s[k] /\ s[k] \in Pieces /\ Of(ms, s[k]) /\ Of(ns, s[k]) /\ s[k].msg \in 1 .. Len(ms)
             /\ Place(ns, t[k]) = Place(ms, s[k]) /\ Size(ns, t[k].msg) = Size(ms, s[k].msg)
             /\ Place(ms, s[k]) \in 1 .. Size(ms, s[k].msg) /\ Size(ms, s[k].msg) \in Nat
  <2>1. t[k] = s[k] /\ s[k] \in Pieces /\ Of(ms, s[k])
    BY <1>4, <1>5, ElementOfSeq DEF Stream, Gapless
  <2>2. s[k].msg \in 1 .. Len(ms) /\ Place(ms, s[k]) \in 1 .. Size(ms, s[k].msg) /\ Size(ms, s[k].msg) \in Nat
    BY <2>1, Places
  <2> QED BY <1>1, <2>1, <2>2
<1>7. ASSUME NEW k \in Len(s) + 1 .. Len(t)
      PROVE  t[k].msg = N /\ Of(ns, t[k]) /\ Place(ns, t[k]) = k - Len(s) /\ Size(ns, t[k].msg) = Len(P)
  <2>1. t[k] = P[k - Len(s)] /\ k - Len(s) \in 1 .. Len(P)
    BY <1>4, <1>5
  <2> QED BY <1>3, <2>1
<1>8. \A k \in 1 .. Len(t) : Of(ns, t[k])
  <2>1. \A k \in 1 .. Len(t) : k \in 1 .. Len(s) \/ k \in Len(s) + 1 .. Len(t)
    BY <1>4, <1>5
  <2> QED BY <1>6, <1>7, <2>1
<1>9. ASSUME NEW k \in 1 .. Len(t), NEW l \in 1 .. Len(t), k < l PROVE Behind(ns, t, k, l)
  <2>1. CASE l <= Len(s)
    <3>1. k \in 1 .. Len(s) /\ l \in 1 .. Len(s)
      BY <1>4, <1>9, <2>1
    <3>2. Behind(ms, s, k, l)
      BY <1>9, <3>1 DEF Stream, Gapless
    <3>3. t[k].msg = s[k].msg /\ t[l].msg = s[l].msg
      BY <1>6, <3>1
    <3>4. Place(ns, t[l]) = Place(ms, s[l]) /\ Place(ns, t[k]) = Place(ms, s[k]) /\ Size(ns, t[k].msg) = Size(ms, s[k].msg)
      BY <1>6, <3>1
    <3> QED BY <3>2, <3>3, <3>4 DEF Behind
  <2>2. CASE k > Len(s)
    <3>1. k \in Len(s) + 1 .. Len(t) /\ l \in Len(s) + 1 .. Len(t)
      BY <1>4, <1>5, <1>9, <2>2
    <3>2. t[k].msg = N /\ t[l].msg = N /\ Place(ns, t[k]) = k - Len(s) /\ Place(ns, t[l]) = l - Len(s) /\ Size(ns, t[k].msg) = Len(P)
      BY <1>7, <3>1
    <3>3. k - Len(s) + l - k <= Len(P) /\ l - Len(s) = k - Len(s) + l - k
      BY <1>4, <1>5
    <3> QED BY <3>2, <3>3 DEF Behind
  <2>3. CASE k <= Len(s) /\ l > Len(s)
    <3>1. k \in 1 .. Len(s) /\ l \in Len(s) + 1 .. Len(t) /\ Len(s) \in 1 .. Len(s)
      BY <1>4, <1>5, <2>3
    <3> DEFINE p == Place(ms, s[k])
               z == Size(ms, s[k].msg)
               e == Len(s)
    <3>2. p \in 1 .. z /\ z \in Nat /\ s[k].msg \in 1 .. Len(ms) /\ t[k].msg = s[k].msg
          /\ Place(ns, t[k]) = p /\ Size(ns, t[k].msg) = z
      BY <1>6, <3>1
    <3>3. t[l].msg = N /\ Place(ns, t[l]) = l - e
      BY <1>7, <3>1
    <3>4. Place(ms, s[e]) = Size(ms, s[e].msg)
      <4>1. s # <<>>
        BY <3>1
      <4> QED BY <4>1 DEF Stream, EndsWhole
    <3>5. p + e - k >= z
      <4>1. CASE k = e
        <5>1. p = z /\ p + e - k = p
          BY <1>4, <3>2, <3>4, <4>1
        <5> QED BY <3>2, <5>1
      <4>2. CASE k < e
        <5>1. Behind(ms, s, k, e)
          BY <3>1, <4>2 DEF Stream, Gapless
        <5>2. CASE p + e - k <= z
          <6>1. s[e].msg = s[k].msg /\ Place(ms, s[e]) = p + e - k
            BY <5>1, <5>2 DEF Behind
          <6>2. p + e - k = z
            BY <3>4, <6>1
          <6> QED BY <1>4, <3>2, <6>2
        <5>3. CASE ~ (p + e - k <= z)
          BY <1>4, <3>2, <5>3
        <5> QED BY <5>2, <5>3
      <4> QED BY <1>4, <3>1, <4>1, <4>2
    <3>6. p + l - k > z /\ (p + l - k = z + 1 => l - e = 1)
      BY <1>4, <2>3, <3>1, <3>2, <3>5
    <3>7. N > s[k].msg
      BY <1>1, <3>2 DEF N
    <3> HIDE DEF p, z, e
    <3>8. z \in Nat /\ p \in Nat /\ ~ (p + l - k <= z)
      BY <3>1, <3>2, <3>6
    <3>9. /\ t[l].msg > t[k].msg
          /\ p + l - k = z + 1 => Place(ns, t[l]) = 1
      BY <3>2, <3>3, <3>6, <3>7
    <3> QED BY <3>2, <3>8, <3>9 DEF Behind
  <2> QED BY <1>4, <1>5, <2>1, <2>2, <2>3
<1>10. EndsWhole(ns, t)
  <2>1. Len(t) \in Len(s) + 1 .. Len(t)
    BY <1>4, <1>5
  <2>2. Place(ns, t[Len(t)]) = Len(t) - Len(s) /\ Size(ns, t[Len(t)].msg) = Len(P)
    BY <1>7, <2>1
  <2> QED BY <1>4, <1>5, <2>2 DEF EndsWhole
<1>11. Place(ns, P[1]) = 1
  BY <1>3, <1>4
<1>12. \A k \in 1 .. Len(P) : P[k].msg = Len(ms) + 1
  BY <1>3 DEF N
<1> QED BY <1>3, <1>5, <1>8, <1>9, <1>10, <1>11, <1>12 DEF Stream, Gapless

\* The head of a message is before its other pieces, unless the stream starts within it.
LEMMA HeadBefore ==
  ASSUME NEW ms, ms \in Seq(Messages), NEW s, s \in Seq(Pieces), Gapless(ms, s), NEW k, k \in 1 .. Len(s),
         Place(ms, s[1]) = 1 \/ s[1].msg # s[k].msg
  PROVE  \E m \in 1 .. Len(s) : m <= k /\ s[m].msg = s[k].msg /\ Place(ms, s[m]) = 1
<1> DEFINE T == {m \in 1 .. Len(s) : m <= k /\ s[m].msg = s[k].msg}
<1>1. Len(s) \in Nat
  BY LenProperties
<1>2. T # {} /\ T \subseteq Nat
  <2>1. k \in T
    BY <1>1
  <2> QED BY <1>1, <2>1
<1>3. PICK m \in T : \A j \in T : m <= j
  <2> HIDE DEF T
  <2> QED BY <1>2, Least
<1>4. m \in 1 .. Len(s) /\ m <= k /\ s[m].msg = s[k].msg
  BY <1>3
<1>5. CASE m = 1
  BY <1>4, <1>5
<1>6. CASE m # 1
  <2>1. m - 1 \in 1 .. Len(s) /\ m - 1 + 1 = m /\ m - 1 <= k /\ ~ (m <= m - 1)
    BY <1>1, <1>4, <1>6
  <2>2. m - 1 \notin T
    BY <1>3, <2>1
  <2>3. s[m - 1].msg # s[m].msg
    BY <1>4, <2>1, <2>2
  <2>4. Place(ms, s[m]) = 1
    <3> HIDE DEF T
    <3>1. IF Place(ms, s[m - 1]) < Size(ms, s[m - 1].msg)
          THEN s[m - 1 + 1].msg = s[m - 1].msg /\ Place(ms, s[m - 1 + 1]) = Place(ms, s[m - 1]) + 1
          ELSE s[m - 1 + 1].msg > s[m - 1].msg /\ Place(ms, s[m - 1 + 1]) = 1
      <4>1. m - 1 + 1 <= Len(s)
        BY <1>4, <2>1
      <4> QED BY <2>1, <4>1, NextPiece
    <3> QED BY <2>1, <2>3, <3>1
  <2> QED BY <1>4, <2>4
<1> QED BY <1>5, <1>6

\* Messages in the stream are in their order.
LEMMA InOrder ==
  ASSUME NEW ms, ms \in Seq(Messages), NEW s, s \in Seq(Pieces), Gapless(ms, s), NEW k, k \in 1 .. Len(s), k # 1
  PROVE  /\ 1 \in 1 .. Len(s) /\ s[1] \in Pieces /\ s[k] \in Pieces /\ Of(ms, s[1]) /\ Of(ms, s[k])
         /\ s[1].msg \in 1 .. Len(ms) /\ s[k].msg \in 1 .. Len(ms) /\ s[k].msg >= s[1].msg
         /\ Place(ms, s[k]) = 1 => s[k].msg > s[1].msg
<1>1. Len(s) \in Nat /\ 1 \in 1 .. Len(s) /\ k > 1
  BY LenProperties
<1>2. s[1] \in Pieces /\ s[k] \in Pieces /\ Of(ms, s[1]) /\ Of(ms, s[k])
  BY <1>1, ElementOfSeq DEF Gapless
<1>3. s[1].msg \in 1 .. Len(ms) /\ s[k].msg \in 1 .. Len(ms) /\ Place(ms, s[1]) \in 1 .. Size(ms, s[1].msg)
      /\ Size(ms, s[1].msg) \in Nat
  BY <1>2, Places
<1>4. Behind(ms, s, 1, k)
  BY <1>1 DEF Gapless
<1>5. Len(ms) \in Nat
  BY LenProperties
<1>6. s[k].msg >= s[1].msg /\ (Place(ms, s[k]) = 1 => s[k].msg > s[1].msg)
  <2> HIDE DEF Gapless
  <2> QED BY <1>1, <1>3, <1>4, <1>5 DEF Behind
<1> QED BY <1>1, <1>2, <1>3, <1>6

\* A hello is sent when everything before it has been read.
LEMMA HelloAlone ==
  ASSUME NEW ms, ms \in Seq(Messages), InTurn(ms), Knowables(ms), NEW b, b \in Seq(Pieces), NEW o, o \in Seq(Pieces),
         NEW s, s = b \o o, Stream(ms, s), Shut(ms, b, o), NEW e, Complete(ms, b, s, e),
         NEW k, k \in 1 .. Len(s), s[k].part = "hello"
  PROVE  k = 1
<1>1. SUFFICES ASSUME k # 1 PROVE FALSE
  OBVIOUS
<1>2. /\ s \in Seq(Pieces) /\ Len(s) = Len(b) + Len(o) /\ Len(b) \in Nat /\ Len(o) \in Nat /\ Len(ms) \in Nat
      /\ \A i \in 1 .. Len(b) : s[i] = b[i]
      /\ \A i \in 1 .. Len(o) : s[Len(b) + i] = o[i]
  <2>1. 0 \in 0 .. Len(b) /\ Len(ms) \in Nat
    BY LenProperties
  <2> QED BY <2>1, Taking
<1>3. /\ 1 \in 1 .. Len(s) /\ s[1] \in Pieces /\ s[k] \in Pieces /\ Of(ms, s[1]) /\ Of(ms, s[k])
      /\ s[1].msg \in 1 .. Len(ms) /\ s[k].msg \in 1 .. Len(ms) /\ s[k].msg >= s[1].msg
      /\ Place(ms, s[k]) = 1 => s[k].msg > s[1].msg
  BY <1>1, <1>2, InOrder DEF Stream
<1> DEFINE i == s[k].msg
           j == s[1].msg
<1>4. ms[i].kind = "hello" /\ Place(ms, s[k]) = 1
  BY <1>3 DEF Of, Place
<1>5. j < i /\ j \in 1 .. Len(ms) /\ i \in 2 .. Len(ms)
  <2>1. j \in 1 .. Len(ms) /\ i \in 1 .. Len(ms) /\ i > j
    BY <1>3, <1>4
  <2>2. Len(ms) \in Nat
    BY <1>2
  <2> HIDE DEF i, j
  <2> QED BY <2>1, <2>2
<1> HIDE DEF i, j
<1>6. i - 1 \in 1 .. Len(ms) /\ ms[i - 1].kind = "open" /\ ms[i - 1].n = 0 /\ i - 1 < Len(ms)
  BY <1>2, <1>4, <1>5 DEF InTurn
<1>7. Endless(ms)
  BY <1>6 DEF Endless
<1>8. s[1].part # "line"
  <2>1. CASE b = <<>>
    <3>1. Len(b) = 0
      BY <2>1
    <3>2. 1 \in 1 .. Len(o) /\ Len(b) + 1 = 1
      BY <1>2, <1>3, <3>1
    <3>3. s[1] = o[1]
      BY <1>2, <3>2
    <3> QED BY <1>7, <3>2, <3>3 DEF Shut
  <2>2. CASE b # <<>>
    <3>1. 1 \in 1 .. Len(b)
      BY <2>2, <1>2, EmptySeq
    <3>2. s[1] = b[1]
      BY <1>2, <3>1
    <3> QED BY <1>7, <2>2, <3>2 DEF Shut
  <2> QED BY <2>1, <2>2
<1>9. Place(ms, s[1]) = 1 \/ (s[1].part = "body" /\ ms[j].kind = "open")
  <2>1. s # <<>>
    BY <1>2, <1>3
  <2> QED BY <2>1 DEF Complete, j
<1>10. CASE Place(ms, s[1]) = 1
  <2>1. s[1].part \in {"hello", "secret"}
    BY <1>3, <1>8, <1>10, Places
  <2>2. ms[j].kind = s[1].part
    BY <1>3, <2>1 DEF Of, j
  <2>3. ms[j].kind \notin F!HttpKinds
    BY <2>1, <2>2 DEF F!HttpKinds
  <2>4. ms[i].kind = "secret"
    <3>1. i \in 1 .. Len(ms)
      BY <1>2, <1>5
    <3> QED BY <1>5, <2>3, <3>1 DEF InTurn
  <2> QED BY <1>4, <2>4
<1>11. CASE s[1].part = "body" /\ ms[j].kind = "open"
  <2>1. CASE j = i - 1
    <3>1. s[1].n \in 1 .. ms[j].n
      BY <1>3, <1>11 DEF Of, j
    <3>2. s[1].n \in 1 .. 0
      BY <1>6, <2>1, <3>1
    <3> QED BY <3>2
  <2>2. CASE j # i - 1
    <3>1. j < i - 1
      <4>1. j \in Int /\ i \in Int
        BY <1>2, <1>5
      <4> QED BY <1>5, <2>2, <4>1
    <3>2. ms[i - 1].kind \notin F!HttpKinds
      BY <1>5, <1>6, <1>11, <3>1 DEF Knowables
    <3> QED BY <1>6, <3>2 DEF F!HttpKinds
  <2> QED BY <2>1, <2>2
<1> QED BY <1>9, <1>10, <1>11

\* What the parsers look for is the first of its kind.
LEMMA LeastOf == ASSUME NEW T, T \subseteq Nat, T # {} PROVE F!Min(T) \in T /\ \A j \in T : F!Min(T) <= j
<1>1. \E i \in T : \A j \in T : i <= j
  BY Least
<1> QED BY <1>1 DEF F!Min

LEMMA HeaderEndIs ==
  ASSUME NEW b, b \in Seq(Pieces)
  PROVE  /\ F!HeaderEnd(b) \in 0 .. Len(b)
         /\ F!HeaderEnd(b) # 0 => b[F!HeaderEnd(b)].part = "blank"
         /\ \A k \in 1 .. Len(b) : b[k].part = "blank" => F!HeaderEnd(b) # 0 /\ F!HeaderEnd(b) <= k
<1> DEFINE T == {k \in 1 .. Len(b) : b[k].part = "blank"}
<1>1. F!HeaderEnd(b) = IF T # {} THEN F!Min(T) ELSE 0
  BY DEF F!HeaderEnd, F!SelectInSeq
<1>2. Len(b) \in Nat /\ T \subseteq Nat
  BY LenProperties
<1>3. CASE T = {}
  <2>1. F!HeaderEnd(b) = 0
    BY <1>1, <1>3
  <2>2. \A k \in 1 .. Len(b) : b[k].part # "blank"
    BY <1>3
  <2> QED BY <1>2, <2>1, <2>2
<1>4. CASE T # {}
  <2>1. F!HeaderEnd(b) \in T /\ \A j \in T : F!HeaderEnd(b) <= j
    <3> HIDE DEF T
    <3> QED BY <1>1, <1>2, <1>4, LeastOf
  <2>2. F!HeaderEnd(b) \in 1 .. Len(b) /\ b[F!HeaderEnd(b)].part = "blank"
    BY <2>1
  <2>3. \A k \in 1 .. Len(b) : b[k].part = "blank" => k \in T
    OBVIOUS
  <2> HIDE DEF T
  <2> QED BY <1>2, <2>1, <2>2, <2>3
<1> QED BY <1>3, <1>4

LEMMA FieldIs ==
  ASSUME NEW b, b \in Seq(Pieces), NEW end, end \in 1 .. Len(b), NEW kinds
  PROVE  /\ F!Field(b, end, kinds) \in 0 .. end
         /\ F!Field(b, end, kinds) # 0 =>
              b[F!Field(b, end, kinds)].part = "line" /\ msgs[b[F!Field(b, end, kinds)].msg].kind \in kinds
         /\ \A k \in 1 .. end : b[k].part = "line" /\ msgs[b[k].msg].kind \in kinds =>
              F!Field(b, end, kinds) # 0 /\ F!Field(b, end, kinds) <= k
<1> DEFINE T == {k \in 1 .. end : b[k].part = "line" /\ msgs[b[k].msg].kind \in kinds}
<1>1. F!Field(b, end, kinds) = IF T # {} THEN F!Min(T) ELSE 0
  BY DEF F!Field, F!SelectInSubSeq
<1>2. Len(b) \in Nat /\ T \subseteq Nat
  BY LenProperties
<1>3. CASE T = {}
  <2>1. F!Field(b, end, kinds) = 0
    BY <1>1, <1>3
  <2>2. \A k \in 1 .. end : ~ (b[k].part = "line" /\ msgs[b[k].msg].kind \in kinds)
    BY <1>3
  <2> QED BY <1>2, <2>1, <2>2
<1>4. CASE T # {}
  <2>1. F!Field(b, end, kinds) \in T /\ \A j \in T : F!Field(b, end, kinds) <= j
    <3> HIDE DEF T
    <3> QED BY <1>1, <1>2, <1>4, LeastOf
  <2>2. F!Field(b, end, kinds) \in 1 .. end /\ b[F!Field(b, end, kinds)].part = "line"
        /\ msgs[b[F!Field(b, end, kinds)].msg].kind \in kinds
    BY <2>1
  <2>3. \A k \in 1 .. end : b[k].part = "line" /\ msgs[b[k].msg].kind \in kinds => k \in T
    OBVIOUS
  <2> HIDE DEF T
  <2> QED BY <1>2, <2>1, <2>2, <2>3
<1> QED BY <1>3, <1>4

Chunked(b, end, last) ==
  IF limit < 0 THEN [used |-> end, body |-> <<>>]
  ELSE IF last = 0 \/ b[last].part # "last" THEN F!NoMessage
  ELSE [used |-> last, body |-> IF limit = 0 THEN SubSeq(b, end + 1, last - 1)
                                             ELSE F!First(SubSeq(b, end + 1, last - 1), limit)]

LEMMA ChunkedIs ==
  ASSUME NEW b, b \in Seq(Pieces), NEW end, end \in 0 .. Len(b)
  PROVE  \E last \in 0 .. Len(b) :
           /\ F!ChunkedBody(b, end) = Chunked(b, end, last)
           /\ last # 0 => last > end /\ b[last].part # "chunk"
           /\ last = 0 => \A k \in end + 1 .. Len(b) : b[k].part = "chunk"
           /\ last # 0 => \A k \in end + 1 .. last - 1 : b[k].part = "chunk"
<1> DEFINE T == {k \in end + 1 .. Len(b) : b[k].part # "chunk"}
           last == IF T # {} THEN F!Min(T) ELSE 0
<1>1. F!ChunkedBody(b, end) = Chunked(b, end, last)
  BY DEF F!ChunkedBody, F!SelectInSubSeq, Chunked, F!ChunksUsed
<1>2. Len(b) \in Nat /\ T \subseteq Nat
  BY LenProperties
<1>3. CASE T = {}
  <2>1. last = 0
    BY <1>3
  <2>2. \A k \in end + 1 .. Len(b) : b[k].part = "chunk"
    BY <1>3
  <2> HIDE DEF last, T
  <2> QED BY <1>1, <1>2, <2>1, <2>2
<1>4. CASE T # {}
  <2>1. last \in T /\ \A j \in T : last <= j
    <3>1. last = F!Min(T)
      BY <1>4
    <3> HIDE DEF T, last
    <3> QED BY <1>2, <1>4, <3>1, LeastOf
  <2>2. last \in end + 1 .. Len(b) /\ b[last].part # "chunk"
    <3> HIDE DEF last
    <3> QED BY <2>1
  <2>3. ASSUME NEW k \in end + 1 .. last - 1 PROVE b[k].part = "chunk"
    <3>1. k \in T => last <= k
      <4> HIDE DEF last, T
      <4> QED BY <2>1
    <3>2. last \in Nat /\ ~ (last <= k) /\ k \in end + 1 .. Len(b)
      <4> HIDE DEF last, T
      <4> QED BY <1>2, <2>2, <2>3
    <3> HIDE DEF last
    <3> QED BY <3>1, <3>2
  <2> HIDE DEF last, T
  <2> QED BY <1>1, <1>2, <2>2, <2>3
<1> QED BY <1>3, <1>4

LEMMA PartOf ==
  ASSUME NEW b, b \in Seq(Pieces), NEW i \in Nat, NEW j \in Nat, j <= Len(b)
  PROVE  /\ SubSeq(b, i + 1, j) \in Seq(Pieces) /\ Len(SubSeq(b, i + 1, j)) = IF i < j THEN j - i ELSE 0
         /\ \A k \in 1 .. j - i : SubSeq(b, i + 1, j)[k] = b[i + k]
<1>1. Len(b) \in Nat
  BY LenProperties
<1>2. \A k \in i + 1 .. j : b[k] \in Pieces
  BY <1>1, ElementOfSeq
<1>3. /\ SubSeq(b, i + 1, j) \in Seq(Pieces) /\ Len(SubSeq(b, i + 1, j)) = IF i + 1 <= j THEN j - (i + 1) + 1 ELSE 0
      /\ \A k \in 1 .. j - (i + 1) + 1 : SubSeq(b, i + 1, j)[k] = b[i + 1 + k - 1]
  BY <1>2, SubSeqProperties
<1> QED BY <1>3

LEMMA FirstIs ==
  ASSUME NEW s, s \in Seq(Pieces), NEW n \in Nat
  PROVE  /\ F!First(s, n) \in Seq(Pieces) /\ Len(F!First(s, n)) = F!Least(n, Len(s))
         /\ \A k \in 1 .. F!Least(n, Len(s)) : F!First(s, n)[k] = s[k]
<1>1. Len(s) \in Nat
  BY LenProperties
<1>2. F!Least(n, Len(s)) \in Nat /\ F!Least(n, Len(s)) <= Len(s)
  BY <1>1 DEF F!Least
<1>3. \A k \in 1 .. F!Least(n, Len(s)) : s[k] \in Pieces
  BY <1>1, <1>2, ElementOfSeq
<1>4. PICK m \in Nat : m = F!Least(n, Len(s))
  BY <1>2
<1>5. /\ SubSeq(s, 1, m) \in Seq(Pieces) /\ Len(SubSeq(s, 1, m)) = IF 1 <= m THEN m - 1 + 1 ELSE 0
      /\ \A k \in 1 .. m - 1 + 1 : SubSeq(s, 1, m)[k] = s[1 + k - 1]
  BY <1>3, <1>4, SubSeqProperties
<1>6. F!First(s, n) = SubSeq(s, 1, m)
  BY <1>4 DEF F!First
<1> QED BY <1>4, <1>5, <1>6

LEMMA BodyTyped ==
  ASSUME NEW b, b \in Seq(Pieces), NEW end \in Nat, NEW kept \in Nat
  PROVE  F!Body(b, end, kept) \in Seq(Pieces)
<1>1. CASE end + kept <= Len(b)
  <2>1. F!Body(b, end, kept) = SubSeq(b, end + 1, end + kept)
    BY <1>1 DEF F!Body
  <2> QED BY <1>1, <2>1, PartOf
<1>2. CASE ~ (end + kept <= Len(b))
  BY <1>2 DEF F!Body
<1> QED BY <1>1, <1>2

LEMMA ParseTyped ==
  ASSUME limit \in Int, msgs \in Seq(Messages), NEW b, b \in Seq(Pieces), Numbered(msgs, b)
  PROVE  /\ F!Parse(b).used \in Nat /\ F!Parse(b).body \in Seq(Pieces)
         /\ F!Parse(b).used # 0 => b # <<>> /\ b[1].part = "line"
<1> DEFINE end == F!HeaderEnd(b)
           length == F!Field(b, end, {"fixed", "head"})
           Fine(m) == m.used \in Nat /\ m.body \in Seq(Pieces)
<1>0. F!NoMessage.used = 0 /\ F!NoMessage.body \in Seq(Pieces)
  BY DEF F!NoMessage
<1>1. CASE b = <<>> \/ end = 0 \/ ~ F!IsStart(b[1])
  <2>1. F!Parse(b) = F!NoMessage
    BY <1>1 DEF F!Parse
  <2> QED BY <1>0, <2>1
<1>2. CASE ~ (b = <<>> \/ end = 0 \/ ~ F!IsStart(b[1]))
  <2>1. end \in 1 .. Len(b) /\ Len(b) \in Nat
    <3>1. end \in 0 .. Len(b) /\ Len(b) \in Nat
      BY HeaderEndIs, LenProperties
    <3> QED BY <1>2, <3>1
  <2>2. b # <<>> /\ b[1].part = "line"
    BY <1>2 DEF F!IsStart
  <2>3. CASE F!NoBody(msgs[b[1].msg].kind)
    <3>1. F!Parse(b) = [used |-> end, body |-> <<>>]
      BY <1>2, <2>3 DEF F!Parse
    <3> HIDE DEF end
    <3> QED BY <2>1, <2>2, <3>1
  <2>4. CASE ~ F!NoBody(msgs[b[1].msg].kind) /\ F!Field(b, end, {"chunked"}) # 0
    <3>1. F!Parse(b) = F!ChunkedBody(b, end)
      BY <1>2, <2>4 DEF F!Parse
    <3> HIDE DEF end
    <3>2. PICK n \in 0 .. Len(b) : F!ChunkedBody(b, end) = Chunked(b, end, n)
      <4>1. end \in 0 .. Len(b)
        BY <2>1
      <4> QED BY <4>1, ChunkedIs
    <3>3. CASE limit < 0
      BY <2>1, <2>2, <3>1, <3>2, <3>3 DEF Chunked
    <3>4. CASE ~ (limit < 0) /\ (n = 0 \/ b[n].part # "last")
      BY <1>0, <3>1, <3>2, <3>4 DEF Chunked
    <3>5. CASE ~ (limit < 0) /\ ~ (n = 0 \/ b[n].part # "last")
      <4>1. n - 1 \in Nat /\ n - 1 <= Len(b) /\ n \in Nat /\ end \in Nat
        BY <2>1, <3>2, <3>5
      <4>2. SubSeq(b, end + 1, n - 1) \in Seq(Pieces)
        BY <4>1, PartOf
      <4>3. PICK all \in Seq(Pieces) : all = SubSeq(b, end + 1, n - 1)
        BY <4>2
      <4>4. ASSUME limit # 0 PROVE F!First(all, limit) \in Seq(Pieces)
        <5>1. limit \in Nat
          BY <3>5, <4>4
        <5>2. PICK l \in Nat : l = limit
          BY <5>1
        <5> QED BY <5>2, FirstIs
      <4>5. Chunked(b, end, n) = [used |-> n, body |-> IF limit = 0 THEN all ELSE F!First(all, limit)]
        BY <3>5, <4>3 DEF Chunked
      <4> QED BY <2>2, <3>1, <3>2, <4>1, <4>3, <4>4, <4>5
    <3> QED BY <3>3, <3>4, <3>5
  <2>5. CASE ~ F!NoBody(msgs[b[1].msg].kind) /\ F!Field(b, end, {"chunked"}) = 0 /\ length # 0
    <3>1. F!Parse(b) = F!FixedBody(b, end, msgs[b[length].msg].n)
      BY <1>2, <2>5 DEF F!Parse
    <3>2. length \in 1 .. Len(b)
      <4>1. length \in 0 .. end
        <5> HIDE DEF end
        <5> QED BY <2>1, FieldIs
      <4> HIDE DEF length, end
      <4> QED BY <2>1, <2>5, <4>1
    <3> HIDE DEF end, length
    <3>3. PICK n \in Nat : n = msgs[b[length].msg].n
      <4>1. b[length].msg \in 1 .. Len(msgs)
        BY <3>2 DEF Numbered
      <4>2. msgs[b[length].msg] \in Messages
        BY <4>1, ElementOfSeq
      <4> QED BY <4>2 DEF Messages
    <3> DEFINE avail == Len(b) - end
               kept == CASE limit < 0 -> 0 [] limit = 0 -> n [] limit > 0 -> F!Least(F!Least(avail, n), limit)
    <3>4. kept \in Nat /\ avail \in Nat
      BY <2>1, <3>3 DEF F!Least
    <3> HIDE DEF kept
    <3>5. F!FixedBody(b, end, n) = IF F!Complete(avail, n)
                                   THEN [used |-> F!Least(end + n, Len(b)), body |-> F!Body(b, end, kept)]
                                   ELSE F!NoMessage
      BY DEF F!FixedBody, kept
    <3>6. F!Body(b, end, kept) \in Seq(Pieces)
      BY <2>1, <3>4, BodyTyped
    <3>7. F!Least(end + n, Len(b)) \in Nat
      BY <2>1, <3>3 DEF F!Least
    <3>8. CASE F!Complete(avail, n)
      BY <2>2, <3>1, <3>3, <3>5, <3>6, <3>7, <3>8
    <3>9. CASE ~ F!Complete(avail, n)
      BY <1>0, <3>1, <3>3, <3>5, <3>9
    <3> QED BY <3>8, <3>9
  <2>6. CASE ~ F!NoBody(msgs[b[1].msg].kind) /\ F!Field(b, end, {"chunked"}) = 0 /\ length = 0
    <3>1. F!Parse(b) = F!OpenBody(b, end)
      BY <1>2, <2>6 DEF F!Parse
    <3> HIDE DEF end, length
    <3> DEFINE avail == Len(b) - end
               kept == CASE limit < 0 -> 0 [] limit = 0 -> avail [] limit > 0 -> F!Least(avail, limit)
    <3>2. kept \in Nat /\ avail \in Nat
      BY <2>1 DEF F!Least
    <3> HIDE DEF kept
    <3>3. F!OpenBody(b, end) = [used |-> end + kept, body |-> F!Body(b, end, kept)]
      BY DEF F!OpenBody, kept
    <3>4. F!Body(b, end, kept) \in Seq(Pieces)
      BY <2>1, <3>2, BodyTyped
    <3>5. end + kept \in Nat
      BY <2>1, <3>2
    <3> QED BY <2>2, <3>1, <3>3, <3>4, <3>5
  <2> QED BY <2>3, <2>4, <2>5, <2>6
<1> QED BY <1>1, <1>2

LEMMA NothingInNothing == F!Parse(<<>>).used = 0
BY DEF F!Parse, F!NoMessage

\* What is in the buffer has no gaps either.
LEMMA GaplessFront ==
  ASSUME NEW ms, ms \in Seq(Messages), NEW b, b \in Seq(Pieces), NEW o, o \in Seq(Pieces), Gapless(ms, b \o o)
  PROVE  Gapless(ms, b)
<1> DEFINE s == b \o o
<1>1. Len(b) \in Nat /\ Len(o) \in Nat /\ Len(s) = Len(b) + Len(o) /\ \A k \in 1 .. Len(b) : s[k] = b[k]
  <2>1. 0 \in 0 .. Len(b)
    BY LenProperties
  <2> QED BY <2>1, Taking
<1> HIDE DEF s
<1>2. Gapless(ms, s)
  BY DEF s
<1>3. \A k \in 1 .. Len(b) : Of(ms, b[k])
  BY <1>1, <1>2 DEF Gapless
<1>4. ASSUME NEW k \in 1 .. Len(b), NEW l \in 1 .. Len(b), k < l PROVE Behind(ms, b, k, l)
  <2>1. Behind(ms, s, k, l)
    BY <1>1, <1>2, <1>4 DEF Gapless
  <2>2. s[k] = b[k] /\ s[l] = b[l]
    BY <1>1
  <2> QED BY <2>1, <2>2 DEF Behind
<1> QED BY <1>3, <1>4 DEF Gapless

\* The pieces at the front are of one message, as many as are there.
Led(b) ==
  /\ Of(msgs, b[1])
  /\ \A k \in 1 .. Len(b) :
       k <= Size(msgs, b[1].msg) => b[k].msg = b[1].msg /\ Place(msgs, b[k]) = k /\ Of(msgs, b[k])

\* So are they without gaps.
LEMMA GaplessLed ==
  ASSUME msgs \in Seq(Messages), NEW b, b \in Seq(Pieces), Gapless(msgs, b), b # <<>>, b[1].part = "line"
  PROVE  Led(b) /\ \A k \in 1 .. Len(b) : k > Size(msgs, b[1].msg) => b[k].msg > b[1].msg /\ Of(msgs, b[k])
<1>1. Len(b) \in Nat /\ Len(b) >= 1 /\ 1 \in 1 .. Len(b)
  BY LenProperties, EmptySeq
<1>2. PICK ms \in Seq(Messages) : ms = msgs
  OBVIOUS
<1>3. \A k \in 1 .. Len(b) : b[k] \in Pieces /\ Of(ms, b[k])
  BY <1>2, ElementOfSeq DEF Gapless
<1>4. Place(ms, b[1]) = 1
  BY <1>1, <1>3, Places
<1>5. \A k \in 1 .. Len(b) :
        /\ k <= Size(ms, b[1].msg) => b[k].msg = b[1].msg /\ Place(ms, b[k]) = k
        /\ k > Size(ms, b[1].msg) => b[k].msg > b[1].msg
  <2>1. Gapless(ms, b)
    BY <1>2
  <2> QED BY <1>4, <2>1, Foremost
<1> QED BY <1>1, <1>2, <1>3, <1>5 DEF Led

\* A message at the front of the buffer, as its headers are read.
LEMMA LineFront ==
  ASSUME msgs \in Seq(Messages), NEW b, b \in Seq(Pieces), Led(b), b # <<>>, b[1].part = "line"
  PROVE  /\ Len(b) \in Nat /\ Len(b) >= 1 /\ b[1].msg \in 1 .. Len(msgs) /\ msgs[b[1].msg].kind \in F!HttpKinds
         /\ Size(msgs, b[1].msg) \in Nat /\ Size(msgs, b[1].msg) >= 2 /\ msgs[b[1].msg].n \in Nat
         /\ \A k \in 1 .. Len(b) :
              /\ b[k] \in Pieces
              /\ k <= Size(msgs, b[1].msg) => b[k].msg = b[1].msg /\ Place(msgs, b[k]) = k /\ Of(msgs, b[k])
         /\ Len(b) = 1 => F!Parse(b).used = 0
         /\ Len(b) # 1 => F!HeaderEnd(b) = 2
         /\ Len(b) # 1 => \A kinds : F!Field(b, 2, kinds) = IF msgs[b[1].msg].kind \in kinds THEN 1 ELSE 0
<1>1. Len(b) \in Nat /\ Len(b) >= 1 /\ 1 \in 1 .. Len(b)
  BY LenProperties, EmptySeq
<1>2. PICK ms \in Seq(Messages) : ms = msgs
  OBVIOUS
<1>3. (\A k \in 1 .. Len(b) : b[k] \in Pieces) /\ Of(ms, b[1])
  BY <1>2, ElementOfSeq DEF Led
<1>4. b[1].msg \in 1 .. Len(ms) /\ ms[b[1].msg].kind \in F!HttpKinds /\ Place(ms, b[1]) = 1 /\ Size(ms, b[1].msg) \in Nat
  <2>1. b[1] \in Pieces
    BY <1>1, <1>3
  <2>2. b[1].msg \in 1 .. Len(ms) /\ Size(ms, b[1].msg) \in Nat /\ Place(ms, b[1]) = 1
    BY <1>3, <2>1, Places
  <2>3. ms[b[1].msg].kind \in F!HttpKinds
    BY <1>3 DEF Of
  <2> QED BY <2>2, <2>3
<1>5. ms[b[1].msg].n \in Nat
  <2>1. ms[b[1].msg] \in Messages
    BY <1>4, ElementOfSeq
  <2> QED BY <2>1 DEF Messages
<1>6. Size(ms, b[1].msg) >= 2
  BY <1>4, <1>5 DEF Size, F!HttpKinds
<1>7. \A k \in 1 .. Len(b) :
        k <= Size(ms, b[1].msg) => b[k].msg = b[1].msg /\ Place(ms, b[k]) = k /\ Of(ms, b[k])
  BY <1>2 DEF Led
<1>8. ASSUME Len(b) = 1 PROVE F!Parse(b).used = 0
  <2>1. F!HeaderEnd(b) = 0
    <3>1. F!HeaderEnd(b) \in 0 .. 1 /\ (F!HeaderEnd(b) # 0 => b[F!HeaderEnd(b)].part = "blank")
      BY <1>8, HeaderEndIs
    <3> QED BY <3>1
  <2> QED BY <2>1 DEF F!Parse, F!NoMessage
<1>9. ASSUME Len(b) # 1
      PROVE  F!HeaderEnd(b) = 2 /\ \A kinds : F!Field(b, 2, kinds) = IF msgs[b[1].msg].kind \in kinds THEN 1 ELSE 0
  <2>1. 2 \in 1 .. Len(b)
    <3>1. PICK n \in Nat : n = Len(b) /\ n >= 1 /\ n # 1
      BY <1>1, <1>9
    <3> QED BY <3>1
  <2>2. Place(ms, b[2]) = 2 /\ b[2].msg = b[1].msg /\ Of(ms, b[2])
    <3>1. PICK z \in Nat : z = Size(ms, b[1].msg) /\ 2 <= z
      BY <1>4, <1>6
    <3> QED BY <1>7, <2>1, <3>1
  <2>3. b[2].part = "blank"
    BY <1>3, <2>1, <2>2, Places
  <2>4. F!HeaderEnd(b) = 2
    <3>1. F!HeaderEnd(b) # 0 /\ F!HeaderEnd(b) <= 2 /\ F!HeaderEnd(b) \in 0 .. Len(b) /\ b[F!HeaderEnd(b)].part = "blank"
      BY <2>1, <2>3, HeaderEndIs
    <3>2. F!HeaderEnd(b) # 1
      BY <3>1
    <3> QED BY <1>1, <3>1, <3>2
  <2>5. ASSUME NEW kinds PROVE F!Field(b, 2, kinds) = IF msgs[b[1].msg].kind \in kinds THEN 1 ELSE 0
    <3>1. /\ F!Field(b, 2, kinds) \in 0 .. 2
          /\ F!Field(b, 2, kinds) # 0 =>
               b[F!Field(b, 2, kinds)].part = "line" /\ msgs[b[F!Field(b, 2, kinds)].msg].kind \in kinds
          /\ \A k \in 1 .. 2 : b[k].part = "line" /\ msgs[b[k].msg].kind \in kinds =>
               F!Field(b, 2, kinds) # 0 /\ F!Field(b, 2, kinds) <= k
      BY <2>1, FieldIs
    <3>2. F!Field(b, 2, kinds) # 2
      BY <2>3, <3>1
    <3>3. F!Field(b, 2, kinds) \in {0, 1}
      BY <3>1, <3>2
    <3> QED BY <3>1, <3>3
  <2> QED BY <2>4, <2>5
<1> QED BY <1>1, <1>2, <1>3, <1>4, <1>5, <1>6, <1>7, <1>8, <1>9

\* A body that is made of the first units is a beginning of all of them.
LEMMA UnitsBegin ==
  ASSUME NEW i \in Nat, NEW p \in Parts, NEW n \in Nat, NEW y, y \in Seq(Pieces), Len(y) <= n,
         \A j \in 1 .. Len(y) : y[j] = F!Piece(i, p, j)
  PROVE  F!IsPrefix(y, Units(i, p, n)) /\ (Len(y) = n => y = Units(i, p, n))
<1> DEFINE u == Units(i, p, n)
<1>1. u \in Seq(Pieces) /\ Len(u) = n /\ \A j \in 1 .. n : u[j] = F!Piece(i, p, j)
  BY UnitsAre
<1> HIDE DEF u
<1>2. Len(y) \in Nat
  BY LenProperties
<1>3. \A j \in 1 .. Len(y) : y[j] \in Pieces /\ u[j] \in Pieces /\ y[j] = u[j]
  BY <1>1, <1>2, ElementOfSeq
<1> DEFINE a == SubSeq(y, 1, Len(y))
           c == SubSeq(u, 1, Len(y))
<1>4. /\ a \in Seq(Pieces) /\ Len(a) = Len(y) /\ \A j \in 1 .. Len(y) : a[j] = y[j]
      /\ c \in Seq(Pieces) /\ Len(c) = Len(y) /\ \A j \in 1 .. Len(y) : c[j] = u[j]
  <2>1. PICK m \in Nat : m = Len(y)
    BY <1>2
  <2>2. \A j \in 1 .. m : y[j] \in Pieces /\ u[j] \in Pieces
    BY <1>3, <2>1
  <2>3. /\ SubSeq(y, 1, m) \in Seq(Pieces) /\ Len(SubSeq(y, 1, m)) = (IF 1 <= m THEN m - 1 + 1 ELSE 0)
        /\ \A j \in 1 .. m - 1 + 1 : SubSeq(y, 1, m)[j] = y[1 + j - 1]
    BY <2>2, SubSeqProperties
  <2>4. /\ SubSeq(u, 1, m) \in Seq(Pieces) /\ Len(SubSeq(u, 1, m)) = (IF 1 <= m THEN m - 1 + 1 ELSE 0)
        /\ \A j \in 1 .. m - 1 + 1 : SubSeq(u, 1, m)[j] = u[1 + j - 1]
    BY <2>2, SubSeqProperties
  <2> QED BY <2>1, <2>3, <2>4
<1> HIDE DEF a, c
<1>5. a = c
  BY <1>3, <1>4, SeqEqual
<1>6. F!IsPrefix(y, u)
  BY <1>1, <1>5 DEF F!IsPrefix, a, c
<1>7. Len(y) = n => y = u
  BY <1>1, <1>3, SeqEqual
<1> QED BY <1>6, <1>7 DEF u

\* What parsing gives for a message at the front of the buffer, whether it is all there or not.
WholeThere(b) ==
  limit = 0 \/ (Size(msgs, b[1].msg) <= Len(b) /\ (limit > 0 \/ msgs[b[1].msg].kind # "chunked"))
Reads(b) ==
  /\ F!Parse(b).used # 0 =>
       /\ F!Parse(b).used \in 2 .. Len(b) /\ F!Parse(b).used <= Size(msgs, b[1].msg)
       /\ F!IsPrefix(F!Parse(b).body, Shown(msgs, b[1].msg))
  /\ F!Parse(b).used # 0 /\ msgs[b[1].msg].kind # "open" /\ WholeThere(b) =>
       F!Parse(b).used = Size(msgs, b[1].msg) /\ F!Parse(b).body = Shown(msgs, b[1].msg)
  /\ F!Parse(b).used = 0 => Len(b) < Size(msgs, b[1].msg) /\ (msgs[b[1].msg].kind = "open" => Len(b) = 1)

LEMMA UptoIs == ASSUME limit \in Int, NEW n \in Nat PROVE Upto(n) \in Nat /\ Upto(n) <= n
BY DEF Upto, F!Least

LEMMA ReadsShort ==
  ASSUME msgs \in Seq(Messages), NEW b, b \in Seq(Pieces), Led(b), b # <<>>, b[1].part = "line", Len(b) = 1
  PROVE  Reads(b)
BY LineFront DEF Reads

LEMMA ReadsBare ==
  ASSUME limit \in Int, msgs \in Seq(Messages), NEW b, b \in Seq(Pieces), Led(b), b # <<>>, b[1].part = "line",
         Len(b) # 1, msgs[b[1].msg].kind = "bare"
  PROVE  Reads(b)
<1>1. Len(b) \in Nat /\ Len(b) >= 2 /\ F!HeaderEnd(b) = 2
  <2>1. Len(b) \in Nat /\ Len(b) >= 1 /\ F!HeaderEnd(b) = 2
    BY LineFront
  <2>2. PICK n \in Nat : n = Len(b) /\ n >= 1 /\ n # 1
    BY <2>1
  <2> QED BY <2>1, <2>2
<1>2. F!Parse(b) = [used |-> 2, body |-> <<>>]
  BY <1>1 DEF F!Parse, F!IsStart, F!NoBody
<1>3. Size(msgs, b[1].msg) = 2 /\ Shown(msgs, b[1].msg) = <<>>
  BY DEF Size, Shown
<1>4. F!Parse(b).used = 2 /\ F!Parse(b).body = <<>>
  BY <1>2
<1>5. F!IsPrefix(<<>>, <<>>)
  BY DEF F!IsPrefix
<1> QED BY <1>1, <1>3, <1>4, <1>5 DEF Reads

\* The units of the message in the buffer.
LEMMA UnitsThere ==
  ASSUME msgs \in Seq(Messages), NEW b, b \in Seq(Pieces), Led(b), b # <<>>, b[1].part = "line",
         NEW k, k \in 1 .. Len(b), k > 2, k <= Size(msgs, b[1].msg)
  PROVE  /\ msgs[b[1].msg].kind \in {"fixed", "open"} => b[k] = F!Piece(b[1].msg, "body", k - 2)
         /\ msgs[b[1].msg].kind = "chunked" =>
              IF k = msgs[b[1].msg].n + 3 THEN b[k].part = "last" ELSE b[k] = F!Piece(b[1].msg, "chunk", k - 2)
<1>1. PICK ms \in Seq(Messages) : ms = msgs
  OBVIOUS
<1>2. b[k].msg = b[1].msg /\ Place(ms, b[k]) = k /\ b[k] \in Pieces /\ Of(ms, b[k])
  BY <1>1, LineFront
<1>3. /\ ms[b[k].msg].kind \in {"fixed", "open"} => b[k] = F!Piece(b[k].msg, "body", Place(ms, b[k]) - 2)
      /\ ms[b[k].msg].kind = "chunked" =>
           IF Place(ms, b[k]) = ms[b[k].msg].n + 3 THEN b[k].part = "last"
                                                  ELSE b[k] = F!Piece(b[k].msg, "chunk", Place(ms, b[k]) - 2)
  BY <1>2, UnitPlaces
<1> QED BY <1>1, <1>2, <1>3

\* The beginning of a body.
LEMMA BodyBegins ==
  ASSUME limit \in Int, msgs \in Seq(Messages), NEW b, b \in Seq(Pieces), Led(b), b # <<>>, b[1].part = "line",
         msgs[b[1].msg].kind \in {"fixed", "open"}, NEW kept \in Nat, kept <= Upto(msgs[b[1].msg].n), 2 + kept <= Len(b)
  PROVE  /\ F!IsPrefix(F!Body(b, 2, kept), Shown(msgs, b[1].msg))
         /\ kept = Upto(msgs[b[1].msg].n) => F!Body(b, 2, kept) = Shown(msgs, b[1].msg)
<1>1. /\ Len(b) \in Nat /\ b[1].msg \in 1 .. Len(msgs) /\ msgs[b[1].msg].n \in Nat
  BY LineFront
<1>2. PICK i \in Nat : i = b[1].msg
  BY <1>1
<1>3. PICK n \in Nat : n = msgs[i].n
  BY <1>1, <1>2
<1>4. PICK u \in Nat : u = Upto(n) /\ u <= n
  BY <1>3, UptoIs
<1>5. Shown(msgs, i) = Units(i, "body", u)
  BY <1>2, <1>3, <1>4 DEF Shown
<1>6. F!Body(b, 2, kept) = SubSeq(b, 2 + 1, 2 + kept)
  BY DEF F!Body
<1>7. PICK y : y = SubSeq(b, 2 + 1, 2 + kept)
  OBVIOUS
<1>8. y \in Seq(Pieces) /\ Len(y) = kept /\ \A j \in 1 .. kept : y[j] = b[2 + j]
  <2>1. /\ y \in Seq(Pieces) /\ Len(y) = IF 2 < 2 + kept THEN 2 + kept - 2 ELSE 0
        /\ \A j \in 1 .. 2 + kept - 2 : y[j] = b[2 + j]
    BY <1>7, PartOf
  <2> QED BY <2>1
<1>9. ASSUME NEW j \in 1 .. Len(y) PROVE y[j] = F!Piece(i, "body", j)
  <2>1. PICK k \in 1 .. Len(b) : k = 2 + j /\ k > 2 /\ k <= n + 2
    BY <1>1, <1>2, <1>3, <1>4, <1>8
  <2>2. Size(msgs, b[1].msg) = n + 2
    BY <1>2, <1>3 DEF Size
  <2>3. b[k] = F!Piece(i, "body", k - 2)
    BY <1>2, <2>1, <2>2, UnitsThere
  <2>4. k - 2 = j
    BY <2>1
  <2> QED BY <1>8, <2>1, <2>3, <2>4
<1>10. Len(y) <= u
  BY <1>2, <1>3, <1>4, <1>8
<1>11. F!IsPrefix(y, Units(i, "body", u)) /\ (Len(y) = u => y = Units(i, "body", u))
  <2>1. PICK p \in Parts : p = "body"
    BY DEF Parts
  <2>2. \A j \in 1 .. Len(y) : y[j] = F!Piece(i, p, j)
    BY <1>9, <2>1
  <2>3. F!IsPrefix(y, Units(i, p, u)) /\ (Len(y) = u => y = Units(i, p, u))
    BY <1>8, <1>10, <2>2, UnitsBegin
  <2> QED BY <2>1, <2>3
<1> QED BY <1>2, <1>3, <1>4, <1>5, <1>6, <1>7, <1>8, <1>11

LEMMA ReadsFixed ==
  ASSUME limit \in Int, msgs \in Seq(Messages), NEW b, b \in Seq(Pieces), Led(b), b # <<>>, b[1].part = "line",
         Len(b) # 1, msgs[b[1].msg].kind \in {"fixed", "head"}, msgs[b[1].msg].kind = "head" => msgs[b[1].msg].n = 0
  PROVE  Reads(b)
<1>1. /\ Len(b) \in Nat /\ Len(b) >= 2 /\ F!HeaderEnd(b) = 2 /\ msgs[b[1].msg].n \in Nat
      /\ F!Field(b, 2, {"chunked"}) = 0 /\ F!Field(b, 2, {"fixed", "head"}) = 1
  <2>1. Len(b) \in Nat /\ Len(b) >= 1 /\ F!HeaderEnd(b) = 2 /\ msgs[b[1].msg].n \in Nat
        /\ \A kinds : F!Field(b, 2, kinds) = IF msgs[b[1].msg].kind \in kinds THEN 1 ELSE 0
    BY LineFront
  <2>2. PICK n \in Nat : n = Len(b) /\ n >= 1 /\ n # 1
    BY <2>1
  <2> QED BY <2>1, <2>2
<1>2. PICK i : i = b[1].msg
  OBVIOUS
<1>3. PICK n \in Nat : n = msgs[i].n
  BY <1>1, <1>2
<1>4. F!Parse(b) = F!FixedBody(b, 2, n)
  BY <1>1, <1>2, <1>3 DEF F!Parse, F!IsStart, F!NoBody
<1>5. Size(msgs, i) = n + 2
  BY <1>2, <1>3 DEF Size
<1> DEFINE avail == Len(b) - 2
           kept == CASE limit < 0 -> 0 [] limit = 0 -> n [] limit > 0 -> F!Least(F!Least(avail, n), limit)
<1>6. F!FixedBody(b, 2, n) = IF F!Complete(avail, n)
                             THEN [used |-> F!Least(2 + n, Len(b)), body |-> F!Body(b, 2, kept)]
                             ELSE F!NoMessage
  BY DEF F!FixedBody
<1>7. kept \in Nat /\ kept <= Upto(n) /\ (limit = 0 \/ 2 + kept <= Len(b)) /\ (limit # 0 /\ n <= avail => kept = Upto(n))
      /\ (limit = 0 => kept = n /\ Upto(n) = n)
  BY <1>1 DEF F!Least, Upto
<1> HIDE DEF kept
<1>8. CASE F!Complete(avail, n)
  <2>1. F!Parse(b).used = F!Least(2 + n, Len(b)) /\ F!Parse(b).body = F!Body(b, 2, kept)
    BY <1>4, <1>6, <1>8
  <2>2. 2 + kept <= Len(b)
    BY <1>1, <1>7, <1>8 DEF F!Complete
  <2>3. F!Least(2 + n, Len(b)) \in 2 .. Len(b) /\ F!Least(2 + n, Len(b)) <= n + 2
    BY <1>1 DEF F!Least
  <2>4. WholeThere(b) => n <= avail /\ F!Least(2 + n, Len(b)) = n + 2
    BY <1>1, <1>2, <1>5, <1>8 DEF WholeThere, F!Complete, F!Least
  <2>5. WholeThere(b) => kept = Upto(n)
    BY <1>7, <2>4
  <2>6. F!IsPrefix(F!Body(b, 2, kept), Shown(msgs, i)) /\ (kept = Upto(n) => F!Body(b, 2, kept) = Shown(msgs, i))
    <3>1. CASE msgs[i].kind = "fixed"
      <4>1. PICK l \in Nat : l = kept
        BY <1>7
      <4> QED BY <1>2, <1>3, <1>7, <2>2, <3>1, <4>1, BodyBegins
    <3>2. CASE msgs[i].kind = "head"
      <4>1. n = 0
        BY <1>2, <1>3, <3>2
      <4>2. kept = 0
        BY <1>7, <4>1 DEF Upto, F!Least
      <4>3. F!Body(b, 2, kept) = <<>>
        <5>1. SubSeq(b, 2 + 1, 2 + 0) = <<>>
          BY SubSeqEmpty
        <5> QED BY <4>2, <5>1 DEF F!Body
      <4>4. Shown(msgs, i) = <<>>
        BY <3>2 DEF Shown
      <4>5. F!IsPrefix(<<>>, <<>>)
        BY DEF F!IsPrefix
      <4> QED BY <4>3, <4>4, <4>5
    <3> QED BY <1>2, <3>1, <3>2
  <2>7. F!Parse(b).used # 0
    BY <2>1, <2>3
  <2> QED BY <1>2, <1>5, <2>1, <2>3, <2>4, <2>5, <2>6, <2>7 DEF Reads
<1>9. CASE ~ F!Complete(avail, n)
  <2>1. F!Parse(b).used = 0
    BY <1>4, <1>6, <1>9 DEF F!NoMessage
  <2>2. Len(b) < n + 2
    BY <1>1, <1>9 DEF F!Complete
  <2>3. msgs[i].kind # "open"
    BY <1>2
  <2> QED BY <1>2, <1>5, <2>1, <2>2, <2>3 DEF Reads
<1> QED BY <1>8, <1>9

LEMMA ReadsOpen ==
  ASSUME limit \in Int, msgs \in Seq(Messages), NEW b, b \in Seq(Pieces), Led(b), b # <<>>, b[1].part = "line",
         Len(b) # 1, msgs[b[1].msg].kind = "open", Len(b) <= Size(msgs, b[1].msg)
  PROVE  Reads(b)
<1>1. /\ Len(b) \in Nat /\ Len(b) >= 2 /\ F!HeaderEnd(b) = 2 /\ msgs[b[1].msg].n \in Nat /\ b[1].msg \in 1 .. Len(msgs)
      /\ F!Field(b, 2, {"chunked"}) = 0 /\ F!Field(b, 2, {"fixed", "head"}) = 0
  <2>1. Len(b) \in Nat /\ Len(b) >= 1 /\ F!HeaderEnd(b) = 2 /\ msgs[b[1].msg].n \in Nat /\ b[1].msg \in 1 .. Len(msgs)
        /\ \A kinds : F!Field(b, 2, kinds) = IF msgs[b[1].msg].kind \in kinds THEN 1 ELSE 0
    BY LineFront
  <2>2. PICK n \in Nat : n = Len(b) /\ n >= 1 /\ n # 1
    BY <2>1
  <2> QED BY <2>1, <2>2
<1>2. PICK i : i = b[1].msg
  OBVIOUS
<1>3. PICK n \in Nat : n = msgs[i].n
  BY <1>1, <1>2
<1>4. F!Parse(b) = F!OpenBody(b, 2)
  BY <1>1, <1>2, <1>3 DEF F!Parse, F!IsStart, F!NoBody
<1>5. Size(msgs, i) = n + 2
  BY <1>2, <1>3 DEF Size
<1>6. Len(b) <= n + 2
  BY <1>2, <1>5
<1> DEFINE avail == Len(b) - 2
           kept == CASE limit < 0 -> 0 [] limit = 0 -> avail [] limit > 0 -> F!Least(avail, limit)
<1>7. F!OpenBody(b, 2) = [used |-> 2 + kept, body |-> F!Body(b, 2, kept)]
  BY DEF F!OpenBody
<1>8. kept \in Nat /\ kept <= Upto(n) /\ 2 + kept <= Len(b)
  BY <1>1, <1>6 DEF F!Least, Upto
<1> HIDE DEF kept
<1>9. F!Parse(b).used = 2 + kept /\ F!Parse(b).body = F!Body(b, 2, kept)
  BY <1>4, <1>7
<1>10. F!IsPrefix(F!Body(b, 2, kept), Shown(msgs, i))
  <2>1. PICK l \in Nat : l = kept
    BY <1>8
  <2> QED BY <1>2, <1>3, <1>8, <2>1, BodyBegins
<1>11. 2 + kept \in 2 .. Len(b) /\ 2 + kept <= n + 2 /\ 2 + kept # 0
  BY <1>1, <1>6, <1>8
<1> QED BY <1>2, <1>5, <1>9, <1>10, <1>11 DEF Reads

LEMMA ReadsChunked ==
  ASSUME limit \in Int, msgs \in Seq(Messages), NEW b, b \in Seq(Pieces), Led(b), b # <<>>, b[1].part = "line",
         Len(b) # 1, msgs[b[1].msg].kind = "chunked"
  PROVE  Reads(b)
<1>1. /\ Len(b) \in Nat /\ Len(b) >= 2 /\ F!HeaderEnd(b) = 2 /\ msgs[b[1].msg].n \in Nat /\ b[1].msg \in 1 .. Len(msgs)
      /\ F!Field(b, 2, {"chunked"}) = 1
  <2>1. Len(b) \in Nat /\ Len(b) >= 1 /\ F!HeaderEnd(b) = 2 /\ msgs[b[1].msg].n \in Nat /\ b[1].msg \in 1 .. Len(msgs)
        /\ \A kinds : F!Field(b, 2, kinds) = IF msgs[b[1].msg].kind \in kinds THEN 1 ELSE 0
    BY LineFront
  <2>2. PICK n \in Nat : n = Len(b) /\ n >= 1 /\ n # 1
    BY <2>1
  <2> QED BY <2>1, <2>2
<1>2. PICK i \in Nat : i = b[1].msg
  BY <1>1
<1>3. PICK n \in Nat : n = msgs[i].n
  BY <1>1, <1>2
<1>4. F!Parse(b) = F!ChunkedBody(b, 2)
  BY <1>1, <1>2, <1>3 DEF F!Parse, F!IsStart, F!NoBody
<1>5. Size(msgs, i) = n + 3
  BY <1>2, <1>3 DEF Size
<1>6. PICK last \in 0 .. Len(b) :
        /\ F!ChunkedBody(b, 2) = Chunked(b, 2, last)
        /\ last # 0 => last > 2 /\ b[last].part # "chunk"
        /\ last = 0 => \A k \in 2 + 1 .. Len(b) : b[k].part = "chunk"
        /\ last # 0 => \A k \in 2 + 1 .. last - 1 : b[k].part = "chunk"
  <2>1. 2 \in 0 .. Len(b)
    BY <1>1
  <2> QED BY <2>1, ChunkedIs
<1>7. ASSUME NEW k \in 1 .. Len(b), k > 2, k <= n + 3
      PROVE  IF k = n + 3 THEN b[k].part = "last" ELSE b[k] = F!Piece(i, "chunk", k - 2) /\ b[k].part = "chunk"
  <2>1. k <= Size(msgs, b[1].msg)
    BY <1>2, <1>5, <1>7
  <2>2. IF k = n + 3 THEN b[k].part = "last" ELSE b[k] = F!Piece(i, "chunk", k - 2)
    BY <1>2, <1>3, <1>7, <2>1, UnitsThere
  <2>3. F!Piece(i, "chunk", k - 2).part = "chunk"
    BY DEF F!Piece
  <2> QED BY <2>2, <2>3
<1>8. ASSUME n + 3 <= Len(b) PROVE last = n + 3 /\ b[last].part = "last"
  <2>1. n + 3 \in 1 .. Len(b) /\ b[n + 3].part = "last"
    BY <1>1, <1>7, <1>8
  <2>2. last # 0
    <3>1. n + 3 \in 2 + 1 .. Len(b)
      BY <1>1, <1>8
    <3> QED BY <1>6, <2>1, <3>1
  <2>3. last <= n + 3
    <3>1. n + 3 \notin 2 + 1 .. last - 1
      BY <1>6, <2>1, <2>2
    <3> QED BY <1>1, <1>6, <3>1
  <2>4. last \in 1 .. Len(b) /\ last > 2
    BY <1>1, <1>6, <2>2
  <2>5. last = n + 3
    BY <1>6, <1>7, <2>2, <2>3, <2>4
  <2> QED BY <2>1, <2>5
<1>9. ASSUME Len(b) < n + 3 PROVE last = 0
  <2>1. SUFFICES ASSUME last # 0 PROVE FALSE
    OBVIOUS
  <2>2. last \in 1 .. Len(b) /\ last > 2 /\ last <= n + 3 /\ last # n + 3
    BY <1>1, <1>6, <1>9, <2>1
  <2> QED BY <1>6, <1>7, <2>1, <2>2
<1>10. CASE limit < 0
  <2>1. F!Parse(b) = [used |-> 2, body |-> <<>>]
    BY <1>4, <1>6, <1>10 DEF Chunked
  <2>2. F!Parse(b).used = 2 /\ F!Parse(b).body = <<>>
    BY <2>1
  <2>3. Shown(msgs, i) = Units(i, "chunk", 0)
    BY <1>2, <1>3, <1>10 DEF Shown, Upto
  <2>4. F!IsPrefix(<<>>, Units(i, "chunk", 0))
    <3>1. PICK p \in Parts : p = "chunk"
      BY DEF Parts
    <3>2. PICK y : y = <<>>
      OBVIOUS
    <3>3. y \in Seq(Pieces) /\ Len(y) = 0 /\ \A j \in 1 .. Len(y) : y[j] = F!Piece(i, p, j)
      BY <3>2
    <3>4. PICK u \in Nat : u = 0
      OBVIOUS
    <3>5. F!IsPrefix(y, Units(i, p, u))
      <4>1. Len(y) <= u
        BY <3>3, <3>4
      <4> QED BY <3>3, <4>1, UnitsBegin
    <3> QED BY <3>1, <3>2, <3>4, <3>5
  <2>5. ~ WholeThere(b)
    BY <1>2, <1>10 DEF WholeThere
  <2>6. 2 \in 2 .. Len(b) /\ 2 <= n + 3
    BY <1>1
  <2> QED BY <1>2, <1>5, <2>2, <2>3, <2>4, <2>5, <2>6 DEF Reads
<1>11. CASE ~ (limit < 0) /\ Len(b) < n + 3
  <2>1. F!Parse(b).used = 0
    BY <1>4, <1>6, <1>9, <1>11 DEF Chunked, F!NoMessage
  <2> QED BY <1>2, <1>5, <1>11, <2>1 DEF Reads
<1>12. CASE ~ (limit < 0) /\ ~ (Len(b) < n + 3)
  <2>1. last = n + 3 /\ b[last].part = "last" /\ last # 0
    BY <1>1, <1>8, <1>12
  <2>2. PICK all : all = SubSeq(b, 2 + 1, n + 2)
    OBVIOUS
  <2>3. F!Parse(b) = [used |-> n + 3, body |-> IF limit = 0 THEN all ELSE F!First(all, limit)]
    <3>1. last - 1 = n + 2
      BY <2>1
    <3> QED BY <1>4, <1>6, <1>12, <2>1, <2>2, <3>1 DEF Chunked
  <2>4. all \in Seq(Pieces) /\ Len(all) = n /\ \A j \in 1 .. n : all[j] = b[2 + j]
    <3>1. n + 2 <= Len(b)
      BY <1>1, <1>12
    <3>2. /\ all \in Seq(Pieces) /\ Len(all) = IF 2 < n + 2 THEN n + 2 - 2 ELSE 0
          /\ \A j \in 1 .. n + 2 - 2 : all[j] = b[2 + j]
      BY <2>2, <3>1, PartOf
    <3> QED BY <3>2
  <2>5. ASSUME NEW j \in 1 .. n PROVE all[j] = F!Piece(i, "chunk", j)
    <3>1. PICK k \in 1 .. Len(b) : k = 2 + j /\ k > 2 /\ k <= n + 3 /\ k # n + 3
      BY <1>1, <1>12
    <3>2. b[k] = F!Piece(i, "chunk", k - 2) /\ k - 2 = j
      BY <1>7, <3>1
    <3> QED BY <2>4, <3>1, <3>2
  <2>6. PICK y : y = IF limit = 0 THEN all ELSE F!First(all, limit)
    OBVIOUS
  <2>7. PICK u \in Nat : u = Upto(n) /\ u <= n
    BY UptoIs
  <2>8. y \in Seq(Pieces) /\ Len(y) = u /\ \A j \in 1 .. u : y[j] = all[j]
    <3>1. CASE limit = 0
      BY <2>4, <2>6, <2>7, <3>1 DEF Upto
    <3>2. CASE limit # 0
      <4>1. PICK l \in Nat : l = limit /\ l > 0
        BY <1>12, <3>2
      <4>2. y = F!First(all, l)
        BY <2>6, <3>2, <4>1
      <4>3. F!Least(l, Len(all)) = u
        BY <1>12, <2>4, <2>7, <3>2, <4>1 DEF Upto, F!Least
      <4>4. /\ y \in Seq(Pieces) /\ Len(y) = F!Least(l, Len(all))
            /\ \A k \in 1 .. F!Least(l, Len(all)) : y[k] = all[k]
        BY <2>4, <4>2, FirstIs
      <4> QED BY <4>3, <4>4
    <3> QED BY <3>1, <3>2
  <2>9. F!IsPrefix(y, Units(i, "chunk", u)) /\ y = Units(i, "chunk", u)
    <3>1. PICK p \in Parts : p = "chunk"
      BY DEF Parts
    <3>2. \A j \in 1 .. Len(y) : y[j] = F!Piece(i, p, j)
      BY <2>5, <2>7, <2>8, <3>1
    <3>3. F!IsPrefix(y, Units(i, p, u)) /\ (Len(y) = u => y = Units(i, p, u))
      BY <2>8, <3>2, UnitsBegin
    <3> QED BY <2>8, <3>1, <3>3
  <2>10. Shown(msgs, i) = Units(i, "chunk", u)
    BY <1>2, <1>3, <2>7 DEF Shown
  <2>11. F!Parse(b).used = n + 3 /\ F!Parse(b).body = y
    BY <2>3, <2>6
  <2>12. n + 3 \in 2 .. Len(b) /\ n + 3 # 0
    BY <1>1, <1>12
  <2> QED BY <1>2, <1>5, <2>9, <2>10, <2>11, <2>12 DEF Reads
<1> QED BY <1>10, <1>11, <1>12

LEMMA ReadsLed ==
  ASSUME limit \in Int, msgs \in Seq(Messages), NEW b, b \in Seq(Pieces), Led(b), b # <<>>, b[1].part = "line",
         msgs[b[1].msg].kind = "head" => msgs[b[1].msg].n = 0,
         msgs[b[1].msg].kind = "open" => Len(b) <= Size(msgs, b[1].msg)
  PROVE  Reads(b)
<1>1. msgs[b[1].msg].kind \in F!HttpKinds /\ b[1].msg \in 1 .. Len(msgs)
  BY LineFront
<1>3. CASE Len(b) = 1
  BY <1>3, ReadsShort
<1>4. CASE Len(b) # 1 /\ msgs[b[1].msg].kind = "bare"
  BY <1>4, ReadsBare
<1>5. CASE Len(b) # 1 /\ msgs[b[1].msg].kind \in {"fixed", "head"}
  BY <1>5, ReadsFixed
<1>6. CASE Len(b) # 1 /\ msgs[b[1].msg].kind = "open"
  BY <1>6, ReadsOpen
<1>7. CASE Len(b) # 1 /\ msgs[b[1].msg].kind = "chunked"
  BY <1>7, ReadsChunked
<1> QED BY <1>1, <1>3, <1>4, <1>5, <1>6, <1>7 DEF F!HttpKinds

LEMMA ReadsAll ==
  ASSUME limit \in Int, msgs \in Seq(Messages), Knowables(msgs), NEW b, b \in Seq(Pieces), Gapless(msgs, b),
         b # <<>>, b[1].part = "line", ~ Endless(msgs)
  PROVE  Reads(b)
<1>1. Led(b) /\ \A k \in 1 .. Len(b) : k > Size(msgs, b[1].msg) => b[k].msg > b[1].msg /\ Of(msgs, b[k])
  BY GaplessLed
<1>2. b[1].msg \in 1 .. Len(msgs) /\ Size(msgs, b[1].msg) \in Nat /\ Len(b) \in Nat /\ Len(b) >= 1
  BY <1>1, LineFront
<1>3. msgs[b[1].msg].kind = "head" => msgs[b[1].msg].n = 0
  BY <1>2 DEF Knowables
<1>4. ASSUME msgs[b[1].msg].kind = "open", Len(b) > Size(msgs, b[1].msg) PROVE FALSE
  <2>1. PICK k \in 1 .. Len(b) : k = Len(b)
    BY <1>2
  <2>2. b[k].msg > b[1].msg /\ Of(msgs, b[k])
    BY <1>1, <1>4, <2>1
  <2>3. b[k].msg \in 1 .. Len(msgs)
    BY <2>2 DEF Of
  <2>4. b[1].msg < Len(msgs)
    <3>1. Len(msgs) \in Nat
      BY LenProperties
    <3> QED BY <1>2, <2>2, <2>3, <3>1
  <2> QED BY <1>2, <1>4, <2>4 DEF Endless
<1>5. msgs[b[1].msg].kind = "open" => Len(b) <= Size(msgs, b[1].msg)
  BY <1>2, <1>4
<1> QED BY <1>1, <1>3, <1>5, ReadsLed

\* What the loop makes of the buffer: what holds in any case, and what holds if nothing was lost.
Kept == {s \in Flows : Len(s.buf) <= Cap /\ Numbered(msgs, s.buf) /\ Numbered(msgs, s.events)}
NoHello(b) == \A k \in 1 .. Len(b) : b[k].part # "hello"
ReadOn(o, w) ==
  {s \in Kept : /\ ReadSoFar(msgs, s.buf, o, s.tls, s.events)
                /\ w => Complete(msgs, s.buf, s.buf \o o, s.events) /\ NoHello(s.buf)}

\* Nothing of the message at the front will come, or it is wanted whole.
Ripe(o) == limit = 0 \/ (AtEdge(msgs, o) /\ (limit > 0 \/ \A i \in 1 .. Len(msgs) : msgs[i].kind # "chunked"))

LEMMA KnownAfter ==
  ASSUME NEW ms, NEW b, b \in Seq(Pieces), Numbered(ms, b), NEW n, n \in 0 .. Len(b)
  PROVE  Numbered(ms, SubSeq(b, n + 1, Len(b)))
<1>1. PICK t : t = SubSeq(b, n + 1, Len(b))
  OBVIOUS
<1>2. \A k \in 1 .. Len(t) : t[k] = b[n + k] /\ n + k \in 1 .. Len(b)
  BY <1>1, Rest
<1>3. Numbered(ms, t)
  BY <1>2 DEF Numbered
<1> QED BY <1>1, <1>3

\* How one round changes the flow.
LEMMA TakenIs ==
  ASSUME limit \in Int, msgs \in Seq(Messages), NEW s, s \in Kept, F!Parse(s.buf).used # 0
  PROVE  /\ s.buf \in Seq(Pieces) /\ s.events \in Seq(Events) /\ s.buf # <<>> /\ s.buf[1].part = "line"
         /\ Len(s.buf) \in Nat /\ Len(s.buf) >= 1 /\ Numbered(msgs, s.buf) /\ Numbered(msgs, s.events)
         /\ F!Parse(s.buf).used \in Nat
         /\ F!Event(s.buf, F!Parse(s.buf).body) \in Events
         /\ F!Event(s.buf, F!Parse(s.buf).body).msg = s.buf[1].msg
         /\ F!Event(s.buf, F!Parse(s.buf).body).body = F!Parse(s.buf).body
         /\ Shorter(s).buf = SubSeq(s.buf, F!Parse(s.buf).used + 1, Len(s.buf))
         /\ Shorter(s).events = Append(s.events, F!Event(s.buf, F!Parse(s.buf).body))
         /\ Shorter(s).tls = FALSE
<1>1. s.buf \in Seq(Pieces) /\ s.events \in Seq(Events) /\ Numbered(msgs, s.buf) /\ Numbered(msgs, s.events)
  BY DEF Kept, Flows
<1>2. PICK b \in Seq(Pieces) : b = s.buf
  BY <1>1
<1>3. F!Parse(b).used \in Nat /\ F!Parse(b).body \in Seq(Pieces) /\ b # <<>> /\ b[1].part = "line"
  BY <1>1, <1>2, ParseTyped
<1>4. Len(b) \in Nat /\ Len(b) >= 1 /\ 1 \in 1 .. Len(b)
  BY <1>3, LenProperties, EmptySeq
<1>5. b[1] \in Pieces
  BY <1>4, ElementOfSeq
<1>6. F!Event(b, F!Parse(b).body) = [msg |-> b[1].msg, body |-> F!Parse(b).body]
  BY DEF F!Event
<1>7. F!Event(b, F!Parse(b).body) \in Events /\ F!Event(b, F!Parse(b).body).msg = b[1].msg
      /\ F!Event(b, F!Parse(b).body).body = F!Parse(b).body
  BY <1>3, <1>5, <1>6 DEF Events, Pieces
<1>8. /\ Shorter(s).buf = SubSeq(s.buf, F!Parse(s.buf).used + 1, Len(s.buf))
      /\ Shorter(s).events = Append(s.events, F!Event(s.buf, F!Parse(s.buf).body))
      /\ Shorter(s).tls = FALSE
  BY DEF Shorter, F!After
<1> QED BY <1>1, <1>2, <1>3, <1>4, <1>7, <1>8

LEMMA TakenTyped ==
  ASSUME limit \in Int, msgs \in Seq(Messages), Cap \in Nat, NEW s, s \in Kept, F!Parse(s.buf).used # 0
  PROVE  Shorter(s) \in Kept /\ Len(Shorter(s).buf) < Len(s.buf)
<1>1. PICK b \in Seq(Pieces) : b = s.buf
  BY TakenIs
<1>2. PICK u \in Nat : u = F!Parse(b).used
  BY <1>1, TakenIs
<1>3. PICK v \in Events : v = F!Event(b, F!Parse(b).body)
  BY <1>1, TakenIs
<1>4. /\ b # <<>> /\ b[1].part = "line" /\ Len(b) \in Nat /\ Len(b) >= 1 /\ Numbered(msgs, b) /\ Numbered(msgs, s.events)
      /\ s.events \in Seq(Events) /\ v.msg = b[1].msg /\ u # 0
      /\ Shorter(s).buf = SubSeq(b, u + 1, Len(b)) /\ Shorter(s).events = Append(s.events, v)
  BY <1>1, <1>2, <1>3, TakenIs
<1>5. PICK c : c = SubSeq(b, u + 1, Len(b))
  OBVIOUS
<1>6. c \in Seq(Pieces) /\ Len(c) < Len(b) /\ Numbered(msgs, c)
  <2>1. CASE u <= Len(b)
    <3>1. u \in 0 .. Len(b)
      BY <1>4, <2>1
    <3>2. c \in Seq(Pieces) /\ Len(c) = Len(b) - u
      BY <1>5, <3>1, Rest
    <3>3. Numbered(msgs, c)
      <4>1. PICK ms : ms = msgs
        OBVIOUS
      <4>2. Numbered(ms, b)
        BY <1>4, <4>1
      <4> QED BY <1>5, <3>1, <4>1, <4>2, KnownAfter
    <3> QED BY <1>4, <3>1, <3>2, <3>3
  <2>2. CASE u > Len(b)
    <3>1. c = <<>>
      <4>1. Len(b) \in Int /\ u + 1 \in Int /\ Len(b) < u + 1
        BY <1>4, <2>2
      <4> QED BY <1>5, <4>1, SubSeqEmpty
    <3> QED BY <1>4, <3>1 DEF Numbered
  <2> QED BY <1>4, <2>1, <2>2
<1>7. PICK e \in Seq(Events) : e = s.events
  BY <1>4
<1>8. PICK d : d = Append(e, v)
  OBVIOUS
<1>9. d \in Seq(Events) /\ Len(d) = Len(e) + 1 /\ d[Len(e) + 1] = v /\ \A k \in 1 .. Len(e) : d[k] = e[k]
  BY <1>8, AppendProperties
<1>10. Numbered(msgs, d)
  <2>1. Len(e) \in Nat
    BY LenProperties
  <2>2. v.msg \in 1 .. Len(msgs)
    BY <1>4 DEF Numbered
  <2>3. \A k \in 1 .. Len(e) : e[k].msg \in 1 .. Len(msgs)
    BY <1>4, <1>7 DEF Numbered
  <2>4. ASSUME NEW k \in 1 .. Len(d) PROVE d[k].msg \in 1 .. Len(msgs)
    <3>1. k \in 1 .. Len(e) \/ k = Len(e) + 1
      BY <1>9, <2>1
    <3> QED BY <1>9, <2>2, <2>3, <3>1
  <2> QED BY <2>4 DEF Numbered
<1>11. Len(c) <= Cap
  <2>1. Len(c) \in Nat /\ Len(b) <= Cap
    BY <1>1, <1>6, LenProperties DEF Kept
  <2> QED BY <1>4, <1>6, <2>1
<1>12. Shorter(s).buf = c /\ Shorter(s).events = d
  BY <1>4, <1>5, <1>7, <1>8
<1>13. Shorter(s) = [buf |-> c, tls |-> FALSE, events |-> d]
  BY <1>12 DEF Shorter
<1>14. Shorter(s) \in Flows
  BY <1>6, <1>9, <1>13 DEF Flows
<1> QED BY <1>1, <1>6, <1>10, <1>11, <1>12, <1>14 DEF Kept

\* A round takes the first pieces of the stream, all of the message at its front.
LEMMA FrontOf ==
  ASSUME msgs \in Seq(Messages), limit \in Int, Knowables(msgs), NEW b, b \in Seq(Pieces), NEW o, o \in Seq(Pieces),
         b # <<>>, b[1].part = "line", Stream(msgs, b \o o), Shut(msgs, b, o), NEW u, u = F!Parse(b).used, u # 0
  PROVE  /\ ~ Endless(msgs) /\ Reads(b) /\ u \in 2 .. Len(b) /\ u <= Size(msgs, b[1].msg) /\ u \in 0 .. Len(b)
         /\ Gapless(msgs, b \o o) /\ (b \o o)[1] = b[1] /\ Place(msgs, b[1]) = 1 /\ b \o o # <<>>
         /\ b[1].msg \in 1 .. Len(msgs) /\ msgs[b[1].msg].kind \in F!HttpKinds
<1>1. ~ Endless(msgs)
  BY DEF Shut
<1>2. PICK ms : ms = msgs
  OBVIOUS
<1>3. Gapless(msgs, b \o o)
  BY DEF Stream
<1>4. Gapless(msgs, b)
  <2>1. Gapless(ms, b \o o) /\ ms \in Seq(Messages)
    BY <1>2, <1>3
  <2>2. Gapless(ms, b)
    BY <2>1, GaplessFront
  <2> QED BY <1>2, <2>2
<1>5. Reads(b)
  BY <1>1, <1>4, ReadsAll
<1>6. u \in 2 .. Len(b) /\ u <= Size(msgs, b[1].msg)
  BY <1>5 DEF Reads
<1>7. /\ Len(b) \in Nat /\ Len(b) >= 1 /\ b[1].msg \in 1 .. Len(msgs) /\ msgs[b[1].msg].kind \in F!HttpKinds
      /\ 1 <= Size(msgs, b[1].msg) => Place(msgs, b[1]) = 1
      /\ Size(msgs, b[1].msg) \in Nat /\ Size(msgs, b[1].msg) >= 2
  <2>1. /\ Len(b) \in Nat /\ Len(b) >= 1 /\ b[1].msg \in 1 .. Len(msgs) /\ msgs[b[1].msg].kind \in F!HttpKinds
        /\ Size(msgs, b[1].msg) \in Nat /\ Size(msgs, b[1].msg) >= 2
        /\ \A k \in 1 .. Len(b) : k <= Size(msgs, b[1].msg) => b[k].msg = b[1].msg /\ Place(msgs, b[k]) = k
    BY <1>4, GaplessLed, LineFront
  <2>2. 1 \in 1 .. Len(b)
    BY <2>1
  <2> QED BY <2>1, <2>2
<1>8. Place(msgs, b[1]) = 1
  <2>1. PICK z \in Nat : z = Size(msgs, b[1].msg) /\ z >= 2
    BY <1>7
  <2> QED BY <1>7, <2>1
<1>9. u \in 0 .. Len(b)
  BY <1>6, <1>7
<1>10. (b \o o)[1] = b[1] /\ b \o o # <<>>
  <2>1. 0 \in 0 .. Len(b) /\ 1 \in 1 .. Len(b)
    BY <1>7
  <2>2. (b \o o)[1] = b[1] /\ Len(b \o o) = Len(b) + Len(o) /\ Len(o) \in Nat
    BY <2>1, Taking
  <2>3. Len(b \o o) # 0
    BY <1>7, <2>2
  <2> QED BY <2>2, <2>3
<1> QED BY <1>1, <1>3, <1>5, <1>6, <1>7, <1>8, <1>9, <1>10

\* The event is the next one.
LEMMA HeadsGoOn ==
  ASSUME NEW ms, ms \in Seq(Messages), NEW s, s \in Seq(Pieces), Gapless(ms, s), s # <<>>, Place(ms, s[1]) = 1,
         NEW e, e \in Seq(Events), Heads(ms, s, e), NEW v, v \in Events, v.msg = s[1].msg,
         ms[v.msg].kind # "secret", F!IsPrefix(v.body, Shown(ms, v.msg)),
         NEW u, u \in 1 .. Len(s), NEW t, t = SubSeq(s, u + 1, Len(s)), NEW d, d = Append(e, v)
  PROVE  Heads(ms, t, d)
<1>1. d \in Seq(Events) /\ Len(d) = Len(e) + 1 /\ d[Len(e) + 1] = v /\ (\A k \in 1 .. Len(e) : d[k] = e[k]) /\ Len(e) \in Nat
  BY AppendProperties, LenProperties
<1>2. Len(s) \in Nat /\ 1 \in 1 .. Len(s)
  BY LenProperties, EmptySeq
<1>3. t \in Seq(Pieces) /\ \A k \in 1 .. Len(t) : t[k] = s[u + k] /\ u + k \in 1 .. Len(s) /\ u + k # 1
  <2>1. u \in 0 .. Len(s)
    BY <1>2
  <2>2. t \in Seq(Pieces) /\ \A k \in 1 .. Len(t) : t[k] = s[u + k] /\ u + k \in 1 .. Len(s)
    BY <2>1, Rest
  <2>3. Len(t) \in Nat
    BY <2>2, LenProperties
  <2>4. \A k \in 1 .. Len(t) : u + k # 1
    BY <1>2, <2>3
  <2> QED BY <2>2, <2>4
<1>4. \A j \in 1 .. Len(d) : (j \in 1 .. Len(e) /\ d[j] = e[j]) \/ (j = Len(e) + 1 /\ d[j] = v)
  BY <1>1
<1>5. \A j \in 1 .. Len(d) : ms[d[j].msg].kind # "secret" /\ F!IsPrefix(d[j].body, Shown(ms, d[j].msg))
  BY <1>4 DEF Heads
<1>6. \A j \in 1 .. Len(e) : e[j].msg < v.msg
  BY <1>2 DEF Heads
<1>7. ASSUME NEW j \in 1 .. Len(d), NEW k \in 1 .. Len(d), j < k PROVE d[j].msg < d[k].msg
  <2>1. j \in 1 .. Len(e) /\ d[j] = e[j]
    BY <1>1, <1>4, <1>7
  <2>2. CASE k \in 1 .. Len(e) /\ d[k] = e[k]
    BY <1>7, <2>1, <2>2 DEF Heads
  <2>3. CASE d[k] = v
    BY <1>6, <2>1, <2>3
  <2> QED BY <1>4, <2>2, <2>3
<1>8. ASSUME NEW k \in 1 .. Len(t), NEW j \in 1 .. Len(d), Place(ms, t[k]) = 1 PROVE d[j].msg < t[k].msg
  <2>1. PICK l \in 1 .. Len(s) : t[k] = s[l] /\ l # 1
    BY <1>3
  <2>2. Place(ms, s[l]) = 1
    BY <1>8, <2>1
  <2>3. s[l].msg > s[1].msg
    BY <2>1, <2>2, InOrder
  <2>4. CASE j \in 1 .. Len(e) /\ d[j] = e[j]
    BY <2>1, <2>2, <2>4 DEF Heads
  <2>5. CASE d[j] = v
    BY <2>1, <2>3, <2>5
  <2> QED BY <1>4, <2>4, <2>5
<1> QED BY <1>5, <1>7, <1>8 DEF Heads

LEMMA TakenRead ==
  ASSUME limit \in Int, msgs \in Seq(Messages), Knowables(msgs), NEW o, o \in Seq(Pieces),
         NEW s, s \in Kept, F!Parse(s.buf).used # 0, ReadSoFar(msgs, s.buf, o, s.tls, s.events)
  PROVE  ReadSoFar(msgs, Shorter(s).buf, o, Shorter(s).tls, Shorter(s).events)
<1>1. PICK b \in Seq(Pieces) : b = s.buf
  BY TakenIs
<1>2. PICK u \in Nat : u = F!Parse(b).used
  BY <1>1, TakenIs
<1>3. PICK v \in Events : v = F!Event(b, F!Parse(b).body)
  BY <1>1, TakenIs
<1>4. PICK e \in Seq(Events) : e = s.events
  BY TakenIs
<1>5. /\ b # <<>> /\ b[1].part = "line" /\ v.msg = b[1].msg /\ u # 0 /\ v.body = F!Parse(b).body
      /\ Shorter(s).buf = SubSeq(b, u + 1, Len(b)) /\ Shorter(s).events = Append(e, v) /\ Shorter(s).tls = FALSE
  BY <1>1, <1>2, <1>3, <1>4, TakenIs
<1>6. Stream(msgs, b \o o) /\ Heads(msgs, b \o o, e) /\ Shut(msgs, b, o)
  BY <1>1, <1>4 DEF ReadSoFar
<1>7. /\ ~ Endless(msgs) /\ Reads(b) /\ u \in 2 .. Len(b) /\ u <= Size(msgs, b[1].msg) /\ u \in 0 .. Len(b)
      /\ Gapless(msgs, b \o o) /\ (b \o o)[1] = b[1] /\ Place(msgs, b[1]) = 1 /\ b \o o # <<>>
      /\ b[1].msg \in 1 .. Len(msgs) /\ msgs[b[1].msg].kind \in F!HttpKinds
  BY <1>2, <1>5, <1>6, FrontOf
<1>8. PICK t : t = b \o o
  OBVIOUS
<1>9. /\ t \in Seq(Pieces) /\ Len(t) = Len(b) + Len(o) /\ Len(b) \in Nat /\ Len(o) \in Nat
      /\ SubSeq(b, u + 1, Len(b)) \o o = SubSeq(t, u + 1, Len(t))
  <2>1. u \in 0 .. Len(b)
    BY <1>7
  <2>2. /\ b \o o \in Seq(Pieces) /\ Len(b \o o) = Len(b) + Len(o) /\ Len(b) \in Nat /\ Len(o) \in Nat
        /\ SubSeq(b, u + 1, Len(b)) \o o = SubSeq(b \o o, u + 1, Len(b \o o))
    BY <2>1, Taking
  <2> QED BY <1>8, <2>2
<1>10. PICK r : r = SubSeq(t, u + 1, Len(t))
  OBVIOUS
<1>11. PICK d : d = Append(e, v)
  OBVIOUS
<1>12. PICK ms \in Seq(Messages) : ms = msgs
  OBVIOUS
<1>13. Stream(ms, r)
  <2>1. u \in 0 .. Len(t) /\ Stream(ms, t)
    BY <1>6, <1>7, <1>8, <1>9, <1>12
  <2> QED BY <1>9, <1>10, <2>1, StreamGoesOn
<1>14. Heads(ms, r, d)
  <2>1. u \in 1 .. Len(t)
    BY <1>7, <1>9
  <2>2. Gapless(ms, t) /\ t # <<>> /\ Place(ms, t[1]) = 1 /\ Heads(ms, t, e) /\ v.msg = t[1].msg
    BY <1>5, <1>6, <1>7, <1>8, <1>12
  <2>3. ms[v.msg].kind # "secret"
    BY <1>5, <1>7, <1>12 DEF F!HttpKinds
  <2>4. F!IsPrefix(v.body, Shown(ms, v.msg))
    BY <1>2, <1>5, <1>7, <1>12 DEF Reads
  <2> QED BY <1>9, <1>10, <1>11, <2>1, <2>2, <2>3, <2>4, HeadsGoOn
<1>15. Shut(msgs, Shorter(s).buf, o) /\ Greeted(msgs, Shorter(s).tls, Shorter(s).events)
  BY <1>5, <1>7 DEF Shut, Greeted
<1>16. Shorter(s).buf \o o = r /\ Shorter(s).events = d
  BY <1>5, <1>9, <1>10, <1>11
<1> QED BY <1>12, <1>13, <1>14, <1>15, <1>16 DEF ReadSoFar

\* If what is on its way starts with a head, the message at the front of the buffer is all there.
LEMMA AllThere ==
  ASSUME NEW ms, ms \in Seq(Messages), NEW b, b \in Seq(Pieces), NEW o, o \in Seq(Pieces), b # <<>>,
         Stream(ms, b \o o), Place(ms, b[1]) = 1, AtEdge(ms, o)
  PROVE  Size(ms, b[1].msg) <= Len(b)
<1>1. PICK s : s = b \o o
  OBVIOUS
<1>2. /\ s \in Seq(Pieces) /\ Len(s) = Len(b) + Len(o) /\ Len(b) \in Nat /\ Len(o) \in Nat
      /\ \A k \in 1 .. Len(b) : s[k] = b[k]
      /\ \A k \in 1 .. Len(o) : s[Len(b) + k] = o[k]
  <2>1. 0 \in 0 .. Len(b)
    BY LenProperties
  <2> QED BY <1>1, <2>1, Taking
<1>3. Len(b) >= 1 /\ 1 \in 1 .. Len(b) /\ s # <<>> /\ s[1] = b[1] /\ Len(s) \in 1 .. Len(s) /\ Len(b) \in 1 .. Len(s)
  <2>1. Len(b) # 0
    BY EmptySeq
  <2>2. Len(s) # 0
    BY <1>2, <2>1
  <2> QED BY <1>2, <2>1, <2>2
<1>4. Gapless(ms, s) /\ EndsWhole(ms, s)
  BY <1>1 DEF Stream
<1>5. \A k \in 1 .. Len(s) : k <= Size(ms, s[1].msg) => s[k].msg = s[1].msg /\ Place(ms, s[k]) = k
  <2>1. Place(ms, s[1]) = 1 /\ s # <<>> /\ s \in Seq(Pieces) /\ Gapless(ms, s)
    BY <1>2, <1>3, <1>4
  <2>2. \A k \in 1 .. Len(s) : k <= Size(ms, s[1].msg) => s[k].msg = s[1].msg /\ Place(ms, s[k]) = k
    BY <2>1, Foremost
  <2> QED BY <2>2
<1>6. PICK z \in Nat : z = Size(ms, b[1].msg)
  <2>1. s[1] \in Pieces /\ Of(ms, s[1])
    BY <1>2, <1>3, <1>4, ElementOfSeq DEF Gapless
  <2> QED BY <1>3, <2>1, Places
<1>7. SUFFICES ASSUME Len(b) < z PROVE FALSE
  BY <1>2, <1>6
<1>8. CASE o = <<>>
  <2>1. Len(s) = Len(b)
    BY <1>2, <1>8
  <2>2. PICK l \in 1 .. Len(s) : l = Len(s) /\ l < z
    BY <1>3, <1>7, <2>1
  <2>3. Place(ms, s[l]) = Size(ms, s[l].msg)
    BY <1>3, <1>4, <2>2 DEF EndsWhole
  <2>4. s[l].msg = s[1].msg /\ Place(ms, s[l]) = l
    BY <1>3, <1>5, <1>6, <2>2
  <2> QED BY <1>3, <1>6, <2>2, <2>3, <2>4
<1>9. CASE o # <<>>
  <2>1. Len(o) >= 1 /\ 1 \in 1 .. Len(o)
    <3>1. Len(o) # 0
      BY <1>9, EmptySeq
    <3> QED BY <1>2, <3>1
  <2>2. PICK l \in 1 .. Len(s) : l = Len(b) + 1 /\ l <= z /\ l # 1
    BY <1>2, <1>3, <1>6, <1>7, <2>1
  <2>3. s[l] = o[1]
    BY <1>2, <2>1, <2>2
  <2>4. Place(ms, s[l]) = 1
    BY <1>9, <2>3 DEF AtEdge
  <2> QED BY <1>3, <1>5, <1>6, <2>2, <2>4
<1> QED BY <1>8, <1>9

\* The event is of the whole message, and all of it is taken, unless it has no end.
LEMMA CompleteGoesOn ==
  ASSUME NEW ms, ms \in Seq(Messages), NEW s, s \in Seq(Pieces), Gapless(ms, s), s # <<>>, Place(ms, s[1]) = 1,
         NEW e, e \in Seq(Events), NEW v, v \in Events, v.msg = s[1].msg, NEW b, Complete(ms, b, s, e),
         NEW u, u \in 2 .. Len(s), u <= Size(ms, s[1].msg),
         ms[v.msg].kind # "open" => u = Size(ms, v.msg) /\ v.body = Shown(ms, v.msg),
         NEW t, t = SubSeq(s, u + 1, Len(s)), NEW d, d = Append(e, v), NEW c, c # <<>> => c[1].part # "hello"
  PROVE  Complete(ms, c, t, d)
<1>1. d \in Seq(Events) /\ Len(d) = Len(e) + 1 /\ d[Len(e) + 1] = v /\ (\A k \in 1 .. Len(e) : d[k] = e[k]) /\ Len(e) \in Nat
  BY AppendProperties, LenProperties
<1>2. Len(s) \in Nat /\ 1 \in 1 .. Len(s) /\ u \in 0 .. Len(s)
  BY LenProperties, EmptySeq
<1>3. t \in Seq(Pieces) /\ Len(t) = Len(s) - u /\ \A k \in 1 .. Len(t) : t[k] = s[u + k] /\ u + k \in 1 .. Len(s)
  <2>1. PICK n \in 0 .. Len(s) : n = u
    BY <1>2
  <2>2. t = SubSeq(s, n + 1, Len(s))
    BY <2>1
  <2>3. t \in Seq(Pieces) /\ Len(t) = Len(s) - n /\ \A k \in 1 .. Len(t) : t[k] = s[n + k] /\ n + k \in 1 .. Len(s)
    BY <2>2, Rest
  <2> QED BY <2>1, <2>3
<1>4. \A k \in 1 .. Len(s) :
        /\ k <= Size(ms, s[1].msg) => s[k].msg = s[1].msg /\ Place(ms, s[k]) = k
        /\ k = Size(ms, s[1].msg) + 1 => Place(ms, s[k]) = 1
  BY Foremost
<1>5. s[1] \in Pieces /\ Of(ms, s[1])
  BY <1>2, ElementOfSeq DEF Gapless
<1>6. Size(ms, s[1].msg) \in Nat
  BY <1>5, Places
<1>7. ASSUME NEW i \in 1 .. Len(ms), ms[i].kind # "secret"
      PROVE  \/ \E j \in 1 .. Len(d) : d[j].msg = i
             \/ \E k \in 1 .. Len(t) : t[k].msg = i /\ Place(ms, t[k]) = 1
  <2>1. \/ \E j \in 1 .. Len(e) : e[j].msg = i
        \/ \E k \in 1 .. Len(s) : s[k].msg = i /\ Place(ms, s[k]) = 1
    BY <1>7 DEF Complete
  <2>2. CASE \E j \in 1 .. Len(e) : e[j].msg = i
    <3>1. PICK j \in 1 .. Len(e) : e[j].msg = i
      BY <2>2
    <3>2. j \in 1 .. Len(d) /\ d[j].msg = i
      BY <1>1, <3>1
    <3> QED BY <3>2
  <2>3. CASE \E k \in 1 .. Len(s) : s[k].msg = i /\ Place(ms, s[k]) = 1
    <3>1. PICK k \in 1 .. Len(s) : s[k].msg = i /\ Place(ms, s[k]) = 1
      BY <2>3
    <3>2. CASE k <= u
      <4>1. Place(ms, s[k]) = k
        BY <1>2, <1>4, <1>6, <3>2
      <4>2. v.msg = i
        BY <3>1, <4>1
      <4>3. Len(e) + 1 \in 1 .. Len(d)
        BY <1>1
      <4> QED BY <1>1, <4>2, <4>3
    <3>3. CASE k > u
      <4>1. PICK l \in 1 .. Len(t) : k = u + l
        <5>1. k - u \in 1 .. Len(t) /\ k = u + (k - u)
          BY <1>2, <1>3, <3>3
        <5> QED BY <5>1
      <4>2. t[l].msg = i /\ Place(ms, t[l]) = 1
        BY <1>3, <3>1, <4>1
      <4> QED BY <4>2
    <3>4. k <= u \/ k > u
      BY <1>2
    <3> QED BY <3>2, <3>3, <3>4
  <2> QED BY <2>1, <2>2, <2>3
<1>8. ASSUME NEW j \in 1 .. Len(d), ms[d[j].msg].kind # "open" PROVE d[j].body = Shown(ms, d[j].msg)
  <2>1. (j \in 1 .. Len(e) /\ d[j] = e[j]) \/ d[j] = v
    BY <1>1
  <2>2. CASE j \in 1 .. Len(e) /\ d[j] = e[j]
    BY <1>8, <2>2 DEF Complete
  <2>3. CASE d[j] = v
    BY <1>8, <2>3
  <2> QED BY <2>1, <2>2, <2>3
<1>9. ASSUME t # <<>> PROVE Place(ms, t[1]) = 1 \/ (t[1].part = "body" /\ ms[t[1].msg].kind = "open")
  <2>1. 1 \in 1 .. Len(t) /\ Len(t) # 0
    <3>1. Len(t) \in Nat /\ Len(t) # 0
      BY <1>3, <1>9, LenProperties, EmptySeq
    <3> QED BY <3>1
  <2>2. PICK l \in 1 .. Len(s) : l = u + 1 /\ t[1] = s[l]
    BY <1>3, <2>1
  <2>3. CASE u = Size(ms, s[1].msg)
    BY <1>4, <2>2, <2>3
  <2>4. CASE u # Size(ms, s[1].msg)
    <3>1. l <= Size(ms, s[1].msg) /\ l > 2
      BY <1>2, <1>6, <2>2, <2>4
    <3>2. s[l].msg = s[1].msg /\ Place(ms, s[l]) = l /\ ms[s[l].msg].kind = "open"
      BY <1>4, <2>4, <3>1
    <3>3. s[l] \in Pieces /\ Of(ms, s[l])
      BY ElementOfSeq DEF Gapless
    <3>4. s[l] = F!Piece(s[l].msg, "body", Place(ms, s[l]) - 2)
      BY <3>1, <3>2, <3>3, UnitPlaces
    <3>5. s[l].part = "body"
      <4>1. PICK i, n : s[l] = F!Piece(i, "body", n)
        BY <3>4
      <4> QED BY <4>1 DEF F!Piece
    <3> QED BY <2>2, <3>2, <3>5
  <2> QED BY <2>3, <2>4
<1> QED BY <1>7, <1>8, <1>9 DEF Complete

LEMMA TakenComplete ==
  ASSUME limit \in Int, msgs \in Seq(Messages), Knowables(msgs), NEW o, o \in Seq(Pieces), Ripe(o),
         NEW s, s \in Kept, F!Parse(s.buf).used # 0, ReadSoFar(msgs, s.buf, o, s.tls, s.events),
         Complete(msgs, s.buf, s.buf \o o, s.events), NoHello(s.buf)
  PROVE  Complete(msgs, Shorter(s).buf, Shorter(s).buf \o o, Shorter(s).events) /\ NoHello(Shorter(s).buf)
<1>1. PICK b \in Seq(Pieces) : b = s.buf
  BY TakenIs
<1>2. PICK u \in Nat : u = F!Parse(b).used
  BY <1>1, TakenIs
<1>3. PICK v \in Events : v = F!Event(b, F!Parse(b).body)
  BY <1>1, TakenIs
<1>4. PICK e \in Seq(Events) : e = s.events
  BY TakenIs
<1>5. /\ b # <<>> /\ b[1].part = "line" /\ v.msg = b[1].msg /\ u # 0 /\ v.body = F!Parse(b).body
      /\ Shorter(s).buf = SubSeq(b, u + 1, Len(b)) /\ Shorter(s).events = Append(e, v)
  BY <1>1, <1>2, <1>3, <1>4, TakenIs
<1>6. Stream(msgs, b \o o) /\ Shut(msgs, b, o)
  BY <1>1 DEF ReadSoFar
<1>7. /\ ~ Endless(msgs) /\ Reads(b) /\ u \in 2 .. Len(b) /\ u <= Size(msgs, b[1].msg) /\ u \in 0 .. Len(b)
      /\ Gapless(msgs, b \o o) /\ (b \o o)[1] = b[1] /\ Place(msgs, b[1]) = 1 /\ b \o o # <<>>
      /\ b[1].msg \in 1 .. Len(msgs) /\ msgs[b[1].msg].kind \in F!HttpKinds
  BY <1>2, <1>5, <1>6, FrontOf
<1>8. PICK t : t = b \o o
  OBVIOUS
<1>9. /\ t \in Seq(Pieces) /\ Len(t) = Len(b) + Len(o) /\ Len(b) \in Nat /\ Len(o) \in Nat
      /\ SubSeq(b, u + 1, Len(b)) \o o = SubSeq(t, u + 1, Len(t))
  <2>1. u \in 0 .. Len(b)
    BY <1>7
  <2>2. /\ b \o o \in Seq(Pieces) /\ Len(b \o o) = Len(b) + Len(o) /\ Len(b) \in Nat /\ Len(o) \in Nat
        /\ SubSeq(b, u + 1, Len(b)) \o o = SubSeq(b \o o, u + 1, Len(b \o o))
    BY <2>1, Taking
  <2> QED BY <1>8, <2>2
<1>10. PICK r : r = SubSeq(t, u + 1, Len(t))
  OBVIOUS
<1>11. PICK d : d = Append(e, v)
  OBVIOUS
<1>12. PICK ms \in Seq(Messages) : ms = msgs
  OBVIOUS
<1>13. PICK c : c = SubSeq(b, u + 1, Len(b))
  OBVIOUS
<1>14. NoHello(c) /\ (c # <<>> => c[1].part # "hello")
  <2>1. c \in Seq(Pieces) /\ \A k \in 1 .. Len(c) : c[k] = b[u + k] /\ u + k \in 1 .. Len(b)
    BY <1>7, <1>13, Rest
  <2>2. \A k \in 1 .. Len(c) : c[k].part # "hello"
    BY <1>1, <2>1 DEF NoHello
  <2>3. c # <<>> => 1 \in 1 .. Len(c)
    BY <2>1, LenProperties, EmptySeq
  <2> QED BY <2>2, <2>3 DEF NoHello
<1>15. WholeThere(b)
  <2>1. CASE limit = 0
    BY <2>1 DEF WholeThere
  <2>2. CASE limit # 0
    <3>1. AtEdge(ms, o) /\ (limit > 0 \/ \A i \in 1 .. Len(msgs) : msgs[i].kind # "chunked")
      BY <1>12, <2>2 DEF Ripe
    <3>2. Stream(ms, b \o o) /\ Place(ms, b[1]) = 1
      BY <1>6, <1>7, <1>12
    <3>3. Size(ms, b[1].msg) <= Len(b)
      BY <1>5, <3>1, <3>2, AllThere
    <3> QED BY <1>7, <1>12, <3>1, <3>3 DEF WholeThere
  <2> QED BY <2>1, <2>2
<1>16. ms[v.msg].kind # "open" => u = Size(ms, v.msg) /\ v.body = Shown(ms, v.msg)
  BY <1>2, <1>5, <1>7, <1>12, <1>15 DEF Reads
<1>17. Complete(ms, c, r, d)
  <2>1. Gapless(ms, t) /\ t # <<>> /\ Place(ms, t[1]) = 1 /\ v.msg = t[1].msg /\ u <= Size(ms, t[1].msg)
    BY <1>5, <1>7, <1>8, <1>12
  <2>2. Complete(ms, b, t, e)
    BY <1>1, <1>4, <1>8, <1>12
  <2>3. u \in 2 .. Len(t)
    BY <1>7, <1>9
  <2> QED BY <1>9, <1>10, <1>11, <1>14, <1>16, <2>1, <2>2, <2>3, CompleteGoesOn
<1>18. Shorter(s).buf = c /\ Shorter(s).buf \o o = r /\ Shorter(s).events = d
  BY <1>5, <1>9, <1>10, <1>11, <1>13
<1> QED BY <1>12, <1>14, <1>17, <1>18

LEMMA LoopTyped ==
  ASSUME limit \in Int, msgs \in Seq(Messages), Cap \in Nat, NEW b, b \in Seq(Pieces), Len(b) <= Cap, Numbered(msgs, b),
         tls \in BOOLEAN, events \in Seq(Events), Numbered(msgs, events)
  PROVE  F!After_k(b) \in Kept
<1>1. Kept \subseteq Flows
  BY DEF Kept
<1>2. [buf |-> b, tls |-> tls, events |-> events] \in Kept
  BY DEF Kept, Flows
<1>3. \A s \in Kept : F!Parse(s.buf).used # 0 => Shorter(s) \in Kept /\ Len(Shorter(s).buf) < Len(s.buf)
  BY TakenTyped
<1> QED BY <1>1, <1>2, <1>3, NothingInNothing, LoopEnds

LEMMA LoopRead ==
  ASSUME limit \in Int, msgs \in Seq(Messages), Cap \in Nat, Knowables(msgs),
         NEW b, b \in Seq(Pieces), Len(b) <= Cap, Numbered(msgs, b), NEW o, o \in Seq(Pieces), NEW w, w \in BOOLEAN,
         tls \in BOOLEAN, events \in Seq(Events), Numbered(msgs, events),
         ReadSoFar(msgs, b, o, tls, events), w => Ripe(o) /\ Complete(msgs, b, b \o o, events) /\ NoHello(b)
  PROVE  F!After_k(b) \in ReadOn(o, w) /\ Waits(msgs, F!After_k(b).buf)
<1>1. ReadOn(o, w) \subseteq Flows
  BY DEF ReadOn, Kept
<1>2. [buf |-> b, tls |-> tls, events |-> events] \in ReadOn(o, w)
  <2>1. [buf |-> b, tls |-> tls, events |-> events] \in Kept
    BY DEF Kept, Flows
  <2> QED BY <2>1 DEF ReadOn
<1>3. ASSUME NEW s \in ReadOn(o, w), F!Parse(s.buf).used # 0
      PROVE  Shorter(s) \in ReadOn(o, w) /\ Len(Shorter(s).buf) < Len(s.buf)
  <2>1. s \in Kept /\ ReadSoFar(msgs, s.buf, o, s.tls, s.events)
        /\ (w => Complete(msgs, s.buf, s.buf \o o, s.events) /\ NoHello(s.buf))
    BY DEF ReadOn
  <2>2. Shorter(s) \in Kept /\ Len(Shorter(s).buf) < Len(s.buf)
    BY <1>3, <2>1, TakenTyped
  <2>3. ReadSoFar(msgs, Shorter(s).buf, o, Shorter(s).tls, Shorter(s).events)
    BY <1>3, <2>1, TakenRead
  <2>4. w => Complete(msgs, Shorter(s).buf, Shorter(s).buf \o o, Shorter(s).events) /\ NoHello(Shorter(s).buf)
    BY <1>3, <2>1, TakenComplete
  <2> QED BY <2>2, <2>3, <2>4 DEF ReadOn
<1>4. F!After_k(b) \in ReadOn(o, w) /\ F!Parse(F!After_k(b).buf).used = 0
  BY <1>1, <1>2, <1>3, NothingInNothing, LoopEnds
<1>5. PICK c : c = F!After_k(b).buf
  OBVIOUS
<1>6. c \in Seq(Pieces) /\ Stream(msgs, c \o o) /\ Shut(msgs, c, o) /\ F!Parse(c).used = 0
  BY <1>4, <1>5 DEF ReadOn, Kept, Flows, ReadSoFar
<1>7. ASSUME c # <<>>, c[1].part = "line"
      PROVE  Len(c) < Size(msgs, c[1].msg) /\ (msgs[c[1].msg].kind = "open" => Len(c) = 1)
  <2>1. ~ Endless(msgs)
    BY <1>6, <1>7 DEF Shut
  <2>2. Gapless(msgs, c)
    <3>1. PICK ms : ms = msgs
      OBVIOUS
    <3>2. ms \in Seq(Messages) /\ Gapless(ms, c \o o)
      BY <1>6, <3>1 DEF Stream
    <3>3. Gapless(ms, c)
      BY <1>6, <3>2, GaplessFront
    <3> QED BY <3>1, <3>3
  <2>3. Reads(c)
    BY <1>6, <1>7, <2>1, <2>2, ReadsAll
  <2> QED BY <1>6, <2>3 DEF Reads
<1> QED BY <1>4, <1>5, <1>7 DEF Waits

\* Where a hello is looked for.
LEMMA HelloAtIs ==
  ASSUME Scan \in Nat \ {0}, NEW b, b \in Seq(Pieces)
  PROVE  /\ F!HelloAt(b) \in 0 .. Len(b)
         /\ F!HelloAt(b) # 0 => b[F!HelloAt(b)].part = "hello"
         /\ b # <<>> /\ b[1].part = "hello" => F!HelloAt(b) # 0
<1> DEFINE T == {j \in DOMAIN b : /\ F!IsHello(b[j])
                                  /\ \E i \in 1 .. F!Least(j, Scan) :
                                       /\ j - i < 8
                                       /\ \A k \in i .. j - 1 : F!IsRecord(b[k])}
<1>1. F!HelloAt(b) = IF T = {} THEN 0 ELSE CHOOSE j \in T : \A k \in T : j <= k
  BY DEF F!HelloAt
<1>2. T \subseteq 1 .. Len(b) /\ \A j \in T : b[j].part = "hello"
  BY LenProperties DEF F!IsHello
<1>3. Len(b) \in Nat /\ DOMAIN b = 1 .. Len(b)
  BY LenProperties
<1>4. ASSUME b # <<>>, b[1].part = "hello" PROVE 1 \in T
  <2>1. 1 \in DOMAIN b
    BY <1>3, <1>4, EmptySeq
  <2>2. F!IsHello(b[1])
    BY <1>4 DEF F!IsHello
  <2>3. 1 \in 1 .. F!Least(1, Scan) /\ 1 - 1 < 8 /\ \A k \in 1 .. 1 - 1 : F!IsRecord(b[k])
    BY DEF F!Least
  <2> QED BY <2>1, <2>2, <2>3
<1> HIDE DEF T
<1>5. CASE T = {}
  BY <1>1, <1>3, <1>4, <1>5
<1>6. CASE T # {}
  <2>1. T \subseteq Nat
    BY <1>2, <1>3
  <2>2. \E j \in T : \A k \in T : j <= k
    BY <1>6, <2>1, Least
  <2>3. F!HelloAt(b) \in T
    BY <1>1, <1>6, <2>2
  <2>4. PICK h : h = F!HelloAt(b) /\ h \in T
    BY <2>3
  <2>5. h \in 1 .. Len(b) /\ b[h].part = "hello"
    BY <1>2, <2>4
  <2>6. h \in 0 .. Len(b) /\ h # 0
    BY <1>3, <2>5
  <2> QED BY <2>4, <2>5, <2>6
<1> QED BY <1>5, <1>6

LEMMA AppendedIs ==
  ASSUME Cap \in Nat, NEW ms, NEW b, b \in Seq(Pieces), Numbered(ms, b), NEW p, p \in Seq(Pieces), Numbered(ms, p)
  PROVE  /\ F!Appended(b, p) \in Seq(Pieces) /\ Len(F!Appended(b, p)) <= Cap /\ Numbered(ms, F!Appended(b, p))
         /\ Len(b) + Len(p) <= Cap => F!Appended(b, p) = b \o p
<1>1. Len(b) \in Nat /\ Len(p) \in Nat
  BY LenProperties
<1>2. PICK s : s = b \o p
  OBVIOUS
<1>3. /\ s \in Seq(Pieces) /\ Len(s) = Len(b) + Len(p)
      /\ \A k \in 1 .. Len(b) + Len(p) : s[k] = IF k <= Len(b) THEN b[k] ELSE p[k - Len(b)]
  BY <1>2, ConcatProperties
<1>4. ASSUME NEW k \in 1 .. Len(s) PROVE s[k].msg \in 1 .. Len(ms)
  <2>1. CASE k <= Len(b)
    BY <1>1, <1>3, <2>1 DEF Numbered
  <2>2. CASE k > Len(b)
    <3>1. s[k] = p[k - Len(b)] /\ k - Len(b) \in 1 .. Len(p)
      BY <1>1, <1>3, <2>2
    <3> QED BY <3>1 DEF Numbered
  <2> QED BY <1>1, <1>3, <2>1, <2>2
<1>5. Numbered(ms, s)
  BY <1>4 DEF Numbered
<1>6. CASE Len(s) <= Cap
  <2>1. F!Appended(b, p) = s
    BY <1>2, <1>6 DEF F!Appended
  <2> QED BY <1>2, <1>3, <1>5, <1>6, <2>1
<1>7. CASE ~ (Len(s) <= Cap)
  <2>1. PICK n \in 0 .. Len(s) : n = Len(s) - Cap
    <3>1. Len(s) - Cap \in 0 .. Len(s)
      BY <1>1, <1>3, <1>7
    <3> QED BY <3>1
  <2>2. F!Appended(b, p) = SubSeq(s, n + 1, Len(s))
    BY <1>2, <1>7, <2>1 DEF F!Appended, F!After
  <2>3. PICK t : t = SubSeq(s, n + 1, Len(s))
    OBVIOUS
  <2>4. t \in Seq(Pieces) /\ Len(t) = Len(s) - n
    BY <1>3, <2>3, Rest
  <2>5. Numbered(ms, t)
    BY <1>3, <1>5, <2>3, KnownAfter
  <2>6. Len(t) <= Cap
    BY <1>1, <1>3, <2>1, <2>4
  <2> QED BY <1>3, <1>7, <2>2, <2>3, <2>4, <2>5, <2>6
<1> QED BY <1>6, <1>7

LEMMA CapturedIs ==
  ASSUME CapPayload \in Nat, NEW ms, NEW p, p \in Seq(Pieces), Numbered(ms, p)
  PROVE  /\ F!Captured(p) \in Seq(Pieces) /\ Numbered(ms, F!Captured(p))
         /\ Len(p) <= CapPayload => F!Captured(p) = p
<1>1. Len(p) \in Nat
  BY LenProperties
<1>2. PICK q : q = F!First(p, CapPayload)
  OBVIOUS
<1>3. q \in Seq(Pieces) /\ Len(q) = F!Least(CapPayload, Len(p)) /\ \A k \in 1 .. F!Least(CapPayload, Len(p)) : q[k] = p[k]
  BY <1>2, FirstIs
<1>4. Numbered(ms, q)
  <2>1. ASSUME NEW k \in 1 .. Len(q) PROVE q[k].msg \in 1 .. Len(ms)
    <3>1. k \in 1 .. Len(p) /\ q[k] = p[k]
      BY <1>1, <1>3 DEF F!Least
    <3> QED BY <3>1 DEF Numbered
  <2> QED BY <2>1 DEF Numbered
<1>5. Len(p) <= CapPayload => q = p
  <2>1. SUFFICES ASSUME Len(p) <= CapPayload PROVE q = p
    OBVIOUS
  <2>2. Len(q) = Len(p)
    BY <1>1, <1>3, <2>1 DEF F!Least
  <2>3. \A k \in 1 .. Len(q) : q[k] = p[k]
    BY <1>3
  <2> QED BY <1>3, <2>2, <2>3, SeqEqual
<1>6. F!Captured(p) = q
  BY <1>2 DEF F!Captured
<1> QED BY <1>3, <1>4, <1>5, <1>6

\* The pieces of a packet.
LEMMA PacketPieces ==
  ASSUME NEW ms, NEW o, o \in Seq(Pieces), Numbered(ms, o), NEW i \in Nat, NEW j \in Nat, i <= j, j <= Len(o)
  PROVE  /\ SubSeq(o, i + 1, j) \in Seq(Pieces) /\ Len(SubSeq(o, i + 1, j)) = j - i
         /\ Numbered(ms, SubSeq(o, i + 1, j))
<1>1. PICK p : p = SubSeq(o, i + 1, j)
  OBVIOUS
<1>2. p \in Seq(Pieces) /\ Len(p) = (IF i < j THEN j - i ELSE 0) /\ \A k \in 1 .. j - i : p[k] = o[i + k]
  BY <1>1, PartOf
<1>3. Len(p) = j - i /\ \A k \in 1 .. j - i : p[k] = o[i + k] /\ i + k \in 1 .. Len(o)
  BY <1>2, LenProperties
<1>4. Numbered(ms, p)
  BY <1>3 DEF Numbered
<1> QED BY <1>1, <1>2, <1>3, <1>4

\* The pieces of another message are added.
LEMMA PiecesJoin ==
  ASSUME NEW ms, NEW ns, Len(ms) \in Nat, Len(ns) = Len(ms) + 1, NEW o, o \in Seq(Pieces), Numbered(ms, o),
         NEW P, P \in Seq(Pieces), \A k \in 1 .. Len(P) : P[k].msg = Len(ms) + 1, NEW q, q = o \o P
  PROVE  q \in Seq(Pieces) /\ Numbered(ns, q)
<1>1. /\ q \in Seq(Pieces) /\ Len(q) = Len(o) + Len(P) /\ Len(o) \in Nat /\ Len(P) \in Nat
      /\ \A i \in 1 .. Len(o) + Len(P) : q[i] = IF i <= Len(o) THEN o[i] ELSE P[i - Len(o)]
  BY ConcatProperties, LenProperties
<1>2. ASSUME NEW k \in 1 .. Len(q) PROVE q[k].msg \in 1 .. Len(ns)
  <2>1. CASE k <= Len(o)
    <3>1. k \in 1 .. Len(o) /\ q[k] = o[k]
      BY <1>1, <2>1
    <3> QED BY <3>1 DEF Numbered
  <2>2. CASE k > Len(o)
    <3>1. k - Len(o) \in 1 .. Len(P) /\ k \in 1 .. Len(o) + Len(P)
      BY <1>1, <2>2
    <3>2. q[k] = P[k - Len(o)]
      BY <1>1, <2>2, <3>1
    <3> QED BY <3>1, <3>2
  <2> QED BY <1>1, <2>1, <2>2
<1> QED BY <1>1, <1>2 DEF Numbered

\* What another message changes.
LEMMA InTurnGrows ==
  ASSUME msgs \in Seq(Messages), InTurn(msgs), NEW kind, kind \in F!Kinds, NEW n, n \in Nat, F!MayFollow(kind),
         NEW ns, ns = Append(msgs, [kind |-> kind, n |-> n])
  PROVE  InTurn(ns)
<1>1. PICK ms \in Seq(Messages) : ms = msgs
  OBVIOUS
<1>2. PICK m \in Messages : m = [kind |-> kind, n |-> n] /\ m.kind = kind
  BY DEF Messages
<1>3. /\ Len(ns) = Len(ms) + 1 /\ ns[Len(ns)] = m /\ Len(ms) \in Nat
      /\ \A i \in 1 .. Len(ms) : ns[i] = ms[i]
  <2>1. ns = Append(ms, m)
    BY <1>1, <1>2
  <2> QED BY <2>1, AnotherMessage
<1>4. ASSUME ms # <<>>, kind # "secret"
      PROVE  /\ ms[Len(ms)].kind \in F!HttpKinds /\ Len(ms) \in 1 .. Len(ms)
             /\ kind = "hello" => ms[Len(ms)].kind = "open" /\ ms[Len(ms)].n = 0
  <2>1. Len(ms) \in 1 .. Len(ms)
    BY <1>3, <1>4, EmptySeq
  <2>2. CASE kind = "hello"
    BY <1>1, <1>4, <2>1, <2>2 DEF F!MayFollow, F!HttpKinds
  <2>3. CASE kind # "hello"
    BY <1>1, <1>4, <2>1, <2>3 DEF F!MayFollow
  <2> QED BY <2>1, <2>2, <2>3
<1>5. ASSUME NEW i \in 1 .. Len(ns), NEW j \in 1 .. Len(ns), i < j, ns[i].kind \notin F!HttpKinds
      PROVE  ns[j].kind = "secret"
  <2>1. i \in 1 .. Len(ms) /\ ns[i] = ms[i]
    BY <1>3, <1>5
  <2>2. CASE j \in 1 .. Len(ms)
    <3>1. ns[j] = ms[j]
      BY <1>3, <2>2
    <3> QED BY <1>1, <1>5, <2>1, <2>2, <3>1 DEF InTurn
  <2>3. CASE j = Len(ns)
    <3>1. SUFFICES ASSUME kind # "secret" PROVE FALSE
      BY <1>2, <1>3, <2>3
    <3>2. ms # <<>>
      BY <2>1
    <3>3. ms[Len(ms)].kind \in F!HttpKinds /\ Len(ms) \in 1 .. Len(ms)
      BY <1>4, <3>1, <3>2
    <3>4. CASE i = Len(ms)
      BY <1>5, <2>1, <3>3, <3>4
    <3>5. CASE i # Len(ms)
      <4>1. i < Len(ms)
        BY <1>3, <2>1, <3>5
      <4>2. ms[Len(ms)].kind = "secret"
        BY <1>1, <1>5, <2>1, <3>3, <4>1 DEF InTurn
      <4> QED BY <3>3, <4>2 DEF F!HttpKinds
    <3> QED BY <3>4, <3>5
  <2> QED BY <1>3, <2>2, <2>3
<1>6. ASSUME NEW j \in 2 .. Len(ns), ns[j].kind = "hello" PROVE ns[j - 1].kind = "open" /\ ns[j - 1].n = 0
  <2>1. j - 1 \in 1 .. Len(ms) /\ ns[j - 1] = ms[j - 1]
    BY <1>3
  <2>2. CASE j \in 2 .. Len(ms)
    <3>1. ns[j] = ms[j]
      BY <1>3, <2>2
    <3> QED BY <1>1, <1>6, <2>1, <2>2, <3>1 DEF InTurn
  <2>3. CASE j = Len(ns)
    <3>1. kind = "hello"
      BY <1>2, <1>3, <1>6, <2>3
    <3>2. ms # <<>> /\ j - 1 = Len(ms)
      BY <1>3, <2>1, <2>3
    <3> QED BY <1>4, <2>1, <3>1, <3>2
  <2> QED BY <1>3, <2>2, <2>3
<1> QED BY <1>5, <1>6 DEF InTurn

LEMMA KnowablesGrow ==
  ASSUME msgs \in Seq(Messages), Knowables(msgs), NEW kind, kind \in F!Kinds, NEW n, n \in Nat, F!Knowable(kind, n),
         NEW ns, ns = Append(msgs, [kind |-> kind, n |-> n])
  PROVE  Knowables(ns)
<1>1. PICK ms \in Seq(Messages) : ms = msgs
  OBVIOUS
<1>2. PICK m \in Messages : m = [kind |-> kind, n |-> n] /\ m.kind = kind /\ m.n = n
  BY DEF Messages
<1>3. /\ Len(ns) = Len(ms) + 1 /\ ns[Len(ns)] = m /\ Len(ms) \in Nat
      /\ \A i \in 1 .. Len(ms) : ns[i] = ms[i]
  <2>1. ns = Append(ms, m)
    BY <1>1, <1>2
  <2> QED BY <2>1, AnotherMessage
<1>4. (kind = "head" => n = 0) /\ (kind \in F!HttpKinds => \A i \in 1 .. Len(ms) : ms[i].kind # "open")
  <2>1. DOMAIN ms = 1 .. Len(ms)
    BY LenProperties
  <2> QED BY <1>1, <2>1 DEF F!Knowable
<1>5. \A i \in 1 .. Len(ns) : i \in 1 .. Len(ms) \/ i = Len(ns)
  BY <1>3
<1>6. ASSUME NEW i \in 1 .. Len(ns), ns[i].kind = "head" PROVE ns[i].n = 0
  BY <1>1, <1>2, <1>3, <1>4, <1>5, <1>6 DEF Knowables
<1>7. ASSUME NEW i \in 1 .. Len(ns), NEW j \in 1 .. Len(ns), i < j, ns[i].kind = "open" PROVE ns[j].kind \notin F!HttpKinds
  <2>1. i \in 1 .. Len(ms) /\ ns[i] = ms[i]
    BY <1>3, <1>7
  <2>2. CASE j \in 1 .. Len(ms)
    <3>1. ns[j] = ms[j]
      BY <1>3, <2>2
    <3> QED BY <1>1, <1>7, <2>1, <2>2, <3>1 DEF Knowables
  <2>3. CASE j = Len(ns)
    BY <1>2, <1>3, <1>4, <1>7, <2>1, <2>3
  <2> QED BY <1>5, <2>2, <2>3
<1> QED BY <1>6, <1>7 DEF Knowables

\* A message of which a beginning is in the buffer is all there when nothing is on its way.
LEMMA NothingWaits ==
  ASSUME NEW ms, ms \in Seq(Messages), NEW b, b \in Seq(Pieces), NEW o, o = <<>>, Stream(ms, b \o o), Waits(ms, b), b # <<>>
  PROVE  b[1].part # "line"
<1>1. SUFFICES ASSUME b[1].part = "line" PROVE FALSE
  OBVIOUS
<1>2. o \in Seq(Pieces) /\ AtEdge(ms, o) /\ b \o o = b
  <2>1. b \o <<>> = b
    BY ConcatEmptySeq
  <2> QED BY <2>1 DEF AtEdge
<1>3. Place(ms, b[1]) = 1
  BY <1>1 DEF Place
<1>4. Size(ms, b[1].msg) <= Len(b)
  BY <1>2, <1>3, AllThere
<1>5. Len(b) < Size(ms, b[1].msg) /\ Len(b) \in Nat
  BY <1>1, LenProperties DEF Waits
<1>6. Size(ms, b[1].msg) \in Nat
  <2>1. 1 \in 1 .. Len(b)
    BY <1>5, EmptySeq
  <2>2. b[1] \in Pieces /\ Of(ms, b[1])
    BY <1>2, <2>1, ElementOfSeq DEF Stream, Gapless
  <2> QED BY <2>2, Places
<1> QED BY <1>4, <1>5, <1>6

LEMMA ShutGrows ==
  ASSUME msgs \in Seq(Messages), NEW kind, kind \in F!Kinds, NEW n, n \in Nat, F!MayFollow(kind), F!Knowable(kind, n),
         NEW ns, ns = Append(msgs, [kind |-> kind, n |-> n]), InTurn(msgs),
         NEW b, b \in Seq(Pieces), out \in Seq(Pieces), Stream(msgs, b \o out), Waits(msgs, b), Shut(msgs, b, out),
         NEW P, P = F!PiecesOf(Len(msgs) + 1, kind, n)
  PROVE  Shut(ns, b, out \o P)
<1>1. PICK ms \in Seq(Messages) : ms = msgs
  OBVIOUS
<1>2. PICK m \in Messages : m = [kind |-> kind, n |-> n] /\ m.kind = kind /\ m.n = n
  <2>1. PICK m : m = [kind |-> kind, n |-> n]
    OBVIOUS
  <2>2. m \in Messages /\ m.kind = kind /\ m.n = n
    BY <2>1 DEF Messages
  <2> QED BY <2>1, <2>2
<1>3. /\ Len(ns) = Len(ms) + 1 /\ ns[Len(ns)] = m /\ Len(ms) \in Nat
      /\ \A i \in 1 .. Len(ms) : ns[i] = ms[i]
  <2>1. ns = Append(ms, m)
    BY <1>1, <1>2
  <2> QED BY ONLY <1>1, <1>2, <2>1, AnotherMessage
<1>4. SUFFICES ASSUME Endless(ns) PROVE (b # <<>> => b[1].part # "line") /\ \A k \in 1 .. Len(out \o P) : (out \o P)[k].part # "line"
  BY DEF Shut
<1>5. PICK i \in 1 .. Len(ms) : ms[i].kind = "open"
  <2>1. PICK i \in 1 .. Len(ns) : i < Len(ns) /\ ns[i].kind = "open"
    BY <1>4 DEF Endless
  <2>2. i \in 1 .. Len(ms)
    BY <1>3, <2>1
  <2> QED BY <1>3, <2>1, <2>2
<1>6. kind \in {"hello", "secret"}
  <2>1. DOMAIN ms = 1 .. Len(ms)
    BY LenProperties
  <2>2. kind \notin F!HttpKinds
    BY <1>1, <1>5, <2>1 DEF F!Knowable
  <2> QED BY <2>2 DEF F!Kinds
<1>7. ms # <<>> /\ Len(ms) \in 1 .. Len(ms)
  BY <1>3, <1>5
<1>8. P = <<F!Piece(Len(ms) + 1, kind, 0)>>
  BY <1>1, <1>6 DEF F!PiecesOf, F!HttpKinds
<1>9. P \in Seq(Pieces) /\ Len(P) = 1 /\ P[1].part # "line"
  <2>1. PICK q : q = F!Piece(Len(ms) + 1, kind, 0)
    OBVIOUS
  <2>2. q \in Pieces /\ q.part = kind
    BY <1>3, <1>6, <2>1 DEF F!Piece, Pieces, Parts
  <2>3. P = <<q>>
    BY <1>8, <2>1
  <2>4. P \in Seq(Pieces) /\ Len(P) = 1 /\ P[1] = q
    BY ONLY <2>2, <2>3
  <2> QED BY <1>6, <2>2, <2>4
<1>10. (b # <<>> => b[1].part # "line") /\ \A k \in 1 .. Len(out) : out[k].part # "line"
  <2>1. CASE kind = "hello"
    <3>1. out = <<>>
      BY <1>1, <1>7, <2>1 DEF F!MayFollow
    <3>2. ASSUME b # <<>> PROVE b[1].part # "line"
      <4>1. PICK o : o = out
        OBVIOUS
      <4>2. Stream(ms, b \o o) /\ Waits(ms, b) /\ o = <<>>
        BY <1>1, <3>1, <4>1
      <4> QED BY <3>2, <4>2, NothingWaits
    <3>3. Len(out) = 0
      BY <3>1
    <3> QED BY <3>2, <3>3
  <2>2. CASE kind = "secret"
    <3>1. ms[Len(ms)].kind \in {"hello", "secret"}
      BY <1>1, <1>7, <2>2 DEF F!MayFollow
    <3>2. i < Len(ms)
      BY <1>3, <1>5, <3>1
    <3>3. Endless(ms)
      BY <1>5, <3>2 DEF Endless
    <3> QED BY <1>1, <3>3 DEF Shut
  <2> QED BY <1>6, <2>1, <2>2
<1>11. ASSUME NEW k \in 1 .. Len(out \o P) PROVE (out \o P)[k].part # "line"
  <2>1. /\ Len(out \o P) = Len(out) + Len(P) /\ Len(out) \in Nat
        /\ \A l \in 1 .. Len(out) + Len(P) : (out \o P)[l] = IF l <= Len(out) THEN out[l] ELSE P[l - Len(out)]
    BY <1>9, ConcatProperties, LenProperties
  <2>2. CASE k <= Len(out)
    BY <1>10, <2>1, <2>2
  <2>3. CASE k > Len(out)
    <3>1. k - Len(out) = 1 /\ (out \o P)[k] = P[k - Len(out)]
      BY <1>9, <2>1, <2>3
    <3> QED BY <1>9, <3>1
  <2> QED BY <2>1, <2>2, <2>3
<1> QED BY <1>10, <1>11

LEMMA HeadsGrow ==
  ASSUME NEW ms, ms \in Seq(Messages), NEW s, s \in Seq(Pieces), Gapless(ms, s), NEW e, e \in Seq(Events), Numbered(ms, e),
         Heads(ms, s, e), NEW m, m \in Messages, NEW ns, ns = Append(ms, m), NEW P, P \in Seq(Pieces),
         \A k \in 1 .. Len(P) : P[k].msg = Len(ms) + 1, NEW t, t = s \o P
  PROVE  Heads(ns, t, e)
<1>1. /\ ns \in Seq(Messages) /\ Len(ns) = Len(ms) + 1 /\ Len(ms) \in Nat
      /\ \A i \in 1 .. Len(ms) : ns[i] = ms[i] /\ Size(ns, i) = Size(ms, i)
      /\ \A p \in Pieces : p.msg \in 1 .. Len(ms) => Place(ns, p) = Place(ms, p)
  <2>1. ms \in Seq(Messages) /\ m \in Messages /\ ns = Append(ms, m)
    OBVIOUS
  <2> QED BY ONLY <2>1, AnotherMessage
<1>2. \A i \in 1 .. Len(ms) : Shown(ns, i) = Shown(ms, i)
  BY <1>1 DEF Shown
<1>3. ASSUME NEW j \in 1 .. Len(e) PROVE ns[e[j].msg].kind # "secret" /\ F!IsPrefix(e[j].body, Shown(ns, e[j].msg))
  <2>1. e[j].msg \in 1 .. Len(ms)
    BY DEF Numbered
  <2> QED BY <1>1, <1>2, <2>1 DEF Heads
<1>4. ASSUME NEW k \in 1 .. Len(t), NEW j \in 1 .. Len(e), Place(ns, t[k]) = 1 PROVE e[j].msg < t[k].msg
  <2>1. e[j].msg \in 1 .. Len(ms)
    BY DEF Numbered
  <2>2. /\ Len(s) \in Nat /\ Len(P) \in Nat /\ Len(t) = Len(s) + Len(P)
        /\ \A i \in 1 .. Len(s) + Len(P) : t[i] = IF i <= Len(s) THEN s[i] ELSE P[i - Len(s)]
    BY ConcatProperties, LenProperties
  <2>3. CASE k <= Len(s)
    <3>1. k \in 1 .. Len(s) /\ t[k] = s[k]
      BY <2>2, <2>3
    <3>2. s[k] \in Pieces /\ Of(ms, s[k])
      BY <3>1, ElementOfSeq DEF Gapless
    <3>3. s[k].msg \in 1 .. Len(ms)
      BY <3>2 DEF Of
    <3>4. Place(ms, s[k]) = 1
      BY <1>1, <1>4, <3>1, <3>2, <3>3
    <3> QED BY <3>1, <3>4 DEF Heads
  <2>4. CASE k > Len(s)
    <3>1. t[k] = P[k - Len(s)] /\ k - Len(s) \in 1 .. Len(P)
      BY <2>2, <2>4
    <3>2. t[k].msg = Len(ms) + 1
      BY <3>1
    <3> QED BY <1>1, <2>1, <3>2
  <2> QED BY <2>2, <2>3, <2>4
<1> QED BY <1>3, <1>4 DEF Heads

LEMMA CompleteGrows ==
  ASSUME NEW ms, ms \in Seq(Messages), NEW s, s \in Seq(Pieces), Gapless(ms, s), NEW e, e \in Seq(Events), Numbered(ms, e),
         NEW b, Complete(ms, b, s, e), NEW m, m \in Messages, NEW ns, ns = Append(ms, m), NEW P, P \in Seq(Pieces),
         \A k \in 1 .. Len(P) : P[k].msg = Len(ms) + 1, P # <<>>, Place(ns, P[1]) = 1, NEW t, t = s \o P
  PROVE  Complete(ns, b, t, e)
<1>1. /\ ns \in Seq(Messages) /\ Len(ns) = Len(ms) + 1 /\ Len(ms) \in Nat
      /\ \A i \in 1 .. Len(ms) : ns[i] = ms[i] /\ Size(ns, i) = Size(ms, i)
      /\ \A p \in Pieces : p.msg \in 1 .. Len(ms) => Place(ns, p) = Place(ms, p)
  <2>1. ms \in Seq(Messages) /\ m \in Messages /\ ns = Append(ms, m)
    OBVIOUS
  <2> QED BY ONLY <2>1, AnotherMessage
<1>2. \A i \in 1 .. Len(ms) : Shown(ns, i) = Shown(ms, i)
  BY <1>1 DEF Shown
<1>3. /\ Len(s) \in Nat /\ Len(P) \in Nat /\ Len(t) = Len(s) + Len(P)
      /\ \A i \in 1 .. Len(s) + Len(P) : t[i] = IF i <= Len(s) THEN s[i] ELSE P[i - Len(s)]
  BY ConcatProperties, LenProperties
<1>4. Len(P) # 0
  BY EmptySeq
<1>5. \A k \in 1 .. Len(s) : k \in 1 .. Len(t) /\ t[k] = s[k] /\ s[k].msg \in 1 .. Len(ms) /\ Place(ns, t[k]) = Place(ms, s[k])
  <2>1. ASSUME NEW k \in 1 .. Len(s)
        PROVE  k \in 1 .. Len(t) /\ t[k] = s[k] /\ s[k].msg \in 1 .. Len(ms) /\ Place(ns, t[k]) = Place(ms, s[k])
    <3>1. s[k] \in Pieces /\ Of(ms, s[k])
      BY ElementOfSeq DEF Gapless
    <3>2. s[k].msg \in 1 .. Len(ms)
      BY <3>1 DEF Of
    <3>3. k \in 1 .. Len(t) /\ t[k] = s[k]
      BY <1>3
    <3> QED BY <1>1, <3>1, <3>2, <3>3
  <2> QED BY <2>1
<1>6. Len(s) + 1 \in 1 .. Len(t) /\ t[Len(s) + 1] = P[1]
  BY <1>3, <1>4
<1>7. ASSUME NEW i \in 1 .. Len(ns), ns[i].kind # "secret"
      PROVE  \/ \E j \in 1 .. Len(e) : e[j].msg = i
             \/ \E k \in 1 .. Len(t) : t[k].msg = i /\ Place(ns, t[k]) = 1
  <2>1. CASE i \in 1 .. Len(ms)
    <3>1. \/ \E j \in 1 .. Len(e) : e[j].msg = i
          \/ \E k \in 1 .. Len(s) : s[k].msg = i /\ Place(ms, s[k]) = 1
      BY <1>1, <1>7, <2>1 DEF Complete
    <3>2. ASSUME NEW k \in 1 .. Len(s), s[k].msg = i /\ Place(ms, s[k]) = 1
          PROVE  k \in 1 .. Len(t) /\ t[k].msg = i /\ Place(ns, t[k]) = 1
      BY <1>5, <3>2
    <3> QED BY <3>1, <3>2
  <2>2. CASE i = Len(ms) + 1
    <3>1. 1 \in 1 .. Len(P)
      BY <1>3, <1>4
    <3>2. t[Len(s) + 1].msg = i /\ Place(ns, t[Len(s) + 1]) = 1
      BY <1>6, <2>2, <3>1
    <3> QED BY <1>6, <3>2
  <2> QED BY <1>1, <2>1, <2>2
<1>8. ASSUME NEW j \in 1 .. Len(e), ns[e[j].msg].kind # "open" PROVE e[j].body = Shown(ns, e[j].msg)
  <2>1. e[j].msg \in 1 .. Len(ms)
    BY DEF Numbered
  <2> QED BY <1>1, <1>2, <1>8, <2>1 DEF Complete
<1>9. Place(ns, t[1]) = 1 \/ (t[1].part = "body" /\ ns[t[1].msg].kind = "open")
  <2>1. CASE s = <<>>
    <3>1. Len(s) = 0
      BY <2>1
    <3> QED BY <1>6, <3>1
  <2>2. CASE s # <<>>
    <3>1. 1 \in 1 .. Len(s)
      BY <1>3, <2>2, EmptySeq
    <3>2. Place(ms, s[1]) = 1 \/ (s[1].part = "body" /\ ms[s[1].msg].kind = "open")
      BY <2>2 DEF Complete
    <3> QED BY <1>1, <1>5, <3>1, <3>2
  <2> QED BY <2>1, <2>2
<1>10. b # <<>> => b[1].part # "hello"
  BY DEF Complete
<1> QED BY <1>7, <1>8, <1>9, <1>10 DEF Complete

\* The body that is shown does not depend on the time.
LEMMA FlowInvNext ==
  ASSUME limit' = limit, NEW ns, ns = msgs', NEW b, b = buf', NEW o, o = out', NEW e, e = events', NEW h, h = tls',
         FlowTyped', InTurn(ns),
         clean' => /\ Knowables(ns) /\ Waits(ns, b) /\ ReadSoFar(ns, b, o, h, e)
                   /\ aligned' => AtEdge(ns, o)
                   /\ F!InStep' => Complete(ns, b, b \o o, e)
  PROVE  FlowInv'
<1>1. \A i : Shown(ns, i)' = Shown(ns, i)
  BY DEF Shown, Upto
<1>2. \A s : Heads(ns, s, e) => Heads(ns, s, e)'
  BY <1>1 DEF Heads
<1>3. \A s : Complete(ns, b, s, e) => Complete(ns, b, s, e)'
  BY <1>1 DEF Complete
<1>4. ReadSoFar(ns, b, o, h, e) => ReadSoFar(ns, b, o, h, e)'
  BY <1>2 DEF ReadSoFar
<1> QED BY <1>3, <1>4 DEF FlowInv

LEMMA SendKeeps ==
  ASSUME FlowAssumed, FlowInv, NEW kind \in F!Kinds, NEW n \in 0 .. MaxLen, F!Send(kind, n)
  PROVE  FlowInv'
<1>1. PICK ms \in Seq(Messages) : ms = msgs
  BY DEF FlowInv, FlowTyped
<1>2. PICK m : m = [kind |-> kind, n |-> n]
  OBVIOUS
<1>3. m \in Messages /\ m.kind = kind /\ m.n = n /\ n \in Nat
  BY <1>2 DEF Messages, FlowAssumed
<1>4. PICK ns : ns = msgs'
  OBVIOUS
<1>5. PICK P : P = F!PiecesOf(Len(ms) + 1, m.kind, m.n)
  OBVIOUS
<1>6. ns = Append(ms, m) /\ out' = out \o P /\ wire' = wire \o P
  BY <1>1, <1>2, <1>3, <1>4, <1>5 DEF F!Send
<1>7. /\ limit' = limit /\ buf' = buf /\ tls' = tls /\ events' = events /\ strays' = strays
      /\ aligned' = (aligned /\ F!Knowable(kind, n)) /\ clean' = (clean /\ F!Knowable(kind, n)) /\ F!MayFollow(kind)
  BY DEF F!Send, F!flowVars
<1>8. /\ ns \in Seq(Messages) /\ Len(ns) = Len(ms) + 1 /\ ns[Len(ns)] = m /\ Len(ms) \in Nat
      /\ \A i \in 1 .. Len(ms) : ns[i] = ms[i] /\ Size(ns, i) = Size(ms, i)
      /\ \A p \in Pieces : p.msg \in 1 .. Len(ms) => Place(ns, p) = Place(ms, p)
  BY <1>3, <1>6, AnotherMessage
<1>9. /\ buf \in Seq(Pieces) /\ out \in Seq(Pieces) /\ events \in Seq(Events)
      /\ Numbered(ms, buf) /\ Numbered(ms, out) /\ Numbered(ms, events) /\ InTurn(msgs)
  BY <1>1 DEF FlowInv, FlowTyped
<1>10. /\ P \in Seq(Pieces) /\ P # <<>> /\ Place(ns, P[1]) = 1
       /\ \A k \in 1 .. Len(P) : P[k].msg = Len(ms) + 1
  <2>1. PICK N \in 1 .. Len(ns) : N = Len(ms) + 1 /\ ns[N] = m
    BY <1>8
  <2>2. P = F!PiecesOf(N, ns[N].kind, ns[N].n)
    BY <1>5, <2>1
  <2>3. ns \in Seq(Messages)
    BY <1>8
  <2>4. /\ P \in Seq(Pieces) /\ P # <<>>
        /\ \A j \in 1 .. Len(P) : P[j].msg = N /\ Of(ns, P[j]) /\ Place(ns, P[j]) = j
    BY ONLY <2>2, <2>3, SentPieces
  <2>5. 1 \in 1 .. Len(P)
    BY <2>4, LenProperties, EmptySeq
  <2> QED BY <2>1, <2>4, <2>5
<1>11. FlowTyped'
  <2>1. \A i \in 1 .. Len(ns) : ns[i].n \in 0 .. MaxLen
    <3>1. \A i \in 1 .. Len(ns) : i \in 1 .. Len(ms) \/ i = Len(ns)
      BY <1>8
    <3>2. \A i \in 1 .. Len(ms) : ms[i].n \in 0 .. MaxLen
      BY <1>1 DEF FlowInv, FlowTyped
    <3> QED BY <1>3, <1>8, <3>1, <3>2
  <2>2. Numbered(ns, buf) /\ Numbered(ns, events)
    BY <1>8, <1>9 DEF Numbered
  <2>3. PICK o : o = out \o P
    OBVIOUS
  <2>4. o \in Seq(Pieces) /\ Numbered(ns, o)
    BY <1>8, <1>9, <1>10, <2>3, PiecesJoin
  <2>5. PICK w : w = wire \o P
    OBVIOUS
  <2>6. w \in Seq(Pieces) /\ Numbered(ns, w)
    <3>1. wire \in Seq(Pieces) /\ Numbered(ms, wire)
      BY <1>1 DEF FlowInv, FlowTyped
    <3> QED BY <1>8, <1>10, <2>5, <3>1, PiecesJoin
  <2>7. clean' \in BOOLEAN
    BY <1>7 DEF FlowInv, FlowTyped, F!Knowable
  <2>8. /\ limit' \in Limits /\ buf' \in Seq(Pieces) /\ Len(buf') <= Cap /\ events' \in Seq(Events) /\ tls' \in BOOLEAN
        /\ aligned' \in BOOLEAN /\ strays' \in 0 .. MaxStray
    BY <1>7 DEF FlowInv, FlowTyped
  <2>9. msgs' = ns /\ out' = o /\ wire' = w /\ buf' = buf /\ events' = events
    BY <1>4, <1>6, <1>7, <2>3, <2>5
  <2> QED BY <1>8, <2>1, <2>2, <2>4, <2>6, <2>7, <2>8, <2>9 DEF FlowTyped
<1>12. InTurn(ns)
  BY <1>1, <1>2, <1>3, <1>6, <1>7, <1>9, InTurnGrows
<1>13. ASSUME clean'
       PROVE  /\ Knowables(ns) /\ Waits(ns, buf) /\ ReadSoFar(ns, buf, out \o P, tls, events)
              /\ aligned => AtEdge(ns, out \o P)
              /\ F!InStep' => Complete(ns, buf, buf \o (out \o P), events)
  <2>1. clean /\ F!Knowable(kind, n)
    BY <1>7, <1>13
  <2>2. /\ Knowables(ms) /\ Waits(ms, buf) /\ ReadSoFar(ms, buf, out, tls, events)
        /\ aligned => AtEdge(ms, out)
        /\ F!InStep => Complete(ms, buf, buf \o out, events)
    BY <1>1, <2>1 DEF FlowInv
  <2>3. PICK b \in Seq(Pieces) : b = buf
    BY <1>9
  <2>4. PICK o \in Seq(Pieces) : o = out
    BY <1>9
  <2>5. PICK s : s = b \o o
    OBVIOUS
  <2>6. PICK t : t = s \o P
    OBVIOUS
  <2>7. s \in Seq(Pieces) /\ t = b \o (o \o P)
    BY <1>10, <2>5, <2>6, ConcatProperties, ConcatAssociative
  <2>8. Stream(ms, s) /\ Heads(ms, s, events) /\ Shut(ms, b, o) /\ Greeted(ms, tls, events)
    BY <2>2, <2>3, <2>4, <2>5 DEF ReadSoFar
  <2>9. t \in Seq(Pieces) /\ Stream(ns, t)
    <3>1. P = F!PiecesOf(Len(ms) + 1, m.kind, m.n)
      BY <1>5
    <3>2. ms \in Seq(Messages) /\ s \in Seq(Pieces) /\ Stream(ms, s) /\ m \in Messages /\ ns = Append(ms, m) /\ t = s \o P
      BY <1>3, <1>6, <2>6, <2>7, <2>8
    <3> QED BY ONLY <3>1, <3>2, StreamGrows
  <2>10. Knowables(ns)
    BY <1>1, <1>2, <1>3, <1>6, <2>1, <2>2, KnowablesGrow
  <2>11. Shut(ns, b, o \o P)
    <3>1. /\ msgs \in Seq(Messages) /\ n \in Nat /\ ns = Append(msgs, [kind |-> kind, n |-> n])
          /\ out \in Seq(Pieces) /\ Stream(msgs, b \o out) /\ Waits(msgs, b) /\ Shut(msgs, b, out)
          /\ P = F!PiecesOf(Len(msgs) + 1, kind, n)
      BY <1>1, <1>2, <1>3, <1>5, <1>6, <1>9, <2>2, <2>3, <2>4, <2>5, <2>8
    <3>2. Shut(ns, b, out \o P)
      BY <1>7, <1>9, <2>1, <3>1, ShutGrows
    <3> QED BY <2>4, <3>2
  <2>12. Heads(ns, t, events)
    <3>1. PICK e \in Seq(Events) : e = events
      BY <1>9
    <3>2. Gapless(ms, s) /\ Numbered(ms, e) /\ Heads(ms, s, e)
      BY <1>9, <2>8, <3>1 DEF Stream
    <3> QED BY <1>3, <1>6, <1>10, <2>6, <2>7, <3>1, <3>2, HeadsGrow
  <2>13. Greeted(ns, tls, events)
    <3>1. \A j \in 1 .. Len(events) : ns[events[j].msg] = ms[events[j].msg]
      BY <1>8, <1>9 DEF Numbered
    <3> QED BY <2>8, <3>1 DEF Greeted
  <2>14. Waits(ns, b)
    <3>1. SUFFICES ASSUME b # <<>>, b[1].part = "line"
                   PROVE  Len(b) < Size(ns, b[1].msg) /\ (ns[b[1].msg].kind = "open" => Len(b) = 1)
      BY DEF Waits
    <3>2. 1 \in 1 .. Len(b)
      BY <3>1, LenProperties, EmptySeq
    <3>3. b[1].msg \in 1 .. Len(ms)
      BY <1>9, <2>3, <3>2 DEF Numbered
    <3> QED BY <1>8, <2>2, <2>3, <3>1, <3>3 DEF Waits
  <2>15. ASSUME aligned PROVE AtEdge(ns, o \o P)
    <3>1. PICK q : q = o \o P
      OBVIOUS
    <3>2. /\ q \in Seq(Pieces) /\ Len(q) = Len(o) + Len(P) /\ Len(o) \in Nat /\ Len(P) \in Nat
          /\ \A i \in 1 .. Len(o) + Len(P) : q[i] = IF i <= Len(o) THEN o[i] ELSE P[i - Len(o)]
      BY <1>10, <3>1, ConcatProperties, LenProperties
    <3>3. Len(P) # 0
      BY <1>10, EmptySeq
    <3>4. Place(ns, q[1]) = 1
      <4>1. CASE o = <<>>
        <5>1. Len(o) = 0
          BY <4>1
        <5>2. q[1] = P[1]
          BY <3>2, <3>3, <5>1
        <5> QED BY <1>10, <5>2
      <4>2. CASE o # <<>>
        <5>1. 1 \in 1 .. Len(o)
          BY <3>2, <4>2, EmptySeq
        <5>2. q[1] = o[1] /\ o[1] \in Pieces
          <6>1. 1 \in 1 .. Len(o) + Len(P) /\ 1 <= Len(o)
            BY <3>2, <5>1
          <6>2. q[1] = o[1]
            BY <3>2, <6>1
          <6>3. o[1] \in Pieces
            BY <1>10, <5>1, ElementOfSeq
          <6> QED BY <6>2, <6>3
        <5>3. Place(ms, o[1]) = 1
          BY <2>2, <2>4, <2>15, <4>2 DEF AtEdge
        <5>4. o[1].msg \in 1 .. Len(ms)
          BY <1>9, <2>4, <5>1 DEF Numbered
        <5> QED BY <1>8, <5>2, <5>3, <5>4
      <4> QED BY <4>1, <4>2
    <3> QED BY <3>1, <3>4 DEF AtEdge
  <2>16. ASSUME F!InStep' PROVE Complete(ns, b, t, events)
    <3>1. F!InStep
      <4>1. limit = 0 \/ (aligned /\ (limit > 0 \/ \A i \in DOMAIN ns : ns[i].kind # "chunked"))
        BY <1>4, <1>7, <2>16 DEF F!InStep
      <4>2. DOMAIN ns = 1 .. Len(ns) /\ DOMAIN ms = 1 .. Len(ms)
        BY <1>8, LenProperties
      <4>3. (\A i \in DOMAIN ns : ns[i].kind # "chunked") => \A i \in DOMAIN ms : ms[i].kind # "chunked"
        BY <1>8, <4>2
      <4> QED BY <1>1, <4>1, <4>3 DEF F!InStep
    <3>2. PICK e \in Seq(Events) : e = events
      BY <1>9
    <3>3. Gapless(ms, s) /\ Numbered(ms, e) /\ Complete(ms, b, s, e)
      BY <1>9, <2>2, <2>3, <2>4, <2>5, <2>8, <3>1, <3>2 DEF Stream
    <3> QED BY <1>3, <1>6, <1>10, <2>6, <2>7, <3>2, <3>3, CompleteGrows
  <2>17. ReadSoFar(ns, b, o \o P, tls, events)
    BY <2>7, <2>9, <2>11, <2>12, <2>13 DEF ReadSoFar
  <2> QED BY <2>3, <2>4, <2>7, <2>10, <2>14, <2>15, <2>16, <2>17
<1>14. PICK b : b = buf
  OBVIOUS
<1>15. PICK o : o = out \o P
  OBVIOUS
<1>16. PICK e : e = events
  OBVIOUS
<1>17. PICK h : h = tls
  OBVIOUS
<1>18. /\ limit' = limit /\ ns = msgs' /\ b = buf' /\ o = out' /\ e = events' /\ h = tls' /\ (aligned' => aligned)
       /\ clean' => /\ Knowables(ns) /\ Waits(ns, b) /\ ReadSoFar(ns, b, o, h, e)
                    /\ aligned => AtEdge(ns, o)
                    /\ F!InStep' => Complete(ns, b, b \o o, e)
  BY <1>4, <1>6, <1>7, <1>13, <1>14, <1>15, <1>16, <1>17
<1> QED BY <1>11, <1>12, <1>18, FlowInvNext

\* Nothing was sent.
LEMMA FlowInit == ASSUME FlowAssumed, F!Init PROVE FlowInv
<1>1. PICK z : z = <<>>
  OBVIOUS
<1>2. /\ z \in Seq(Messages) /\ z \in Seq(Pieces) /\ z \in Seq(Events) /\ Len(z) = 0 /\ z \o z = z
  BY <1>1, EmptySeq
<1>3. msgs = z /\ buf = z /\ out = z /\ wire = z /\ strays = 0 /\ events = z /\ tls = FALSE /\ clean = TRUE /\ aligned = TRUE /\ limit \in Limits
  BY <1>1 DEF F!Init
<1>4. \A k \in 1 .. 0 : FALSE
  OBVIOUS
<1>5. FlowTyped
  <2>1. Numbered(msgs, buf) /\ Numbered(msgs, out) /\ Numbered(msgs, wire) /\ Numbered(msgs, events)
    BY <1>2, <1>3, <1>4 DEF Numbered
  <2>2. Len(buf) <= Cap /\ strays \in 0 .. MaxStray
    BY <1>2, <1>3 DEF FlowAssumed
  <2> QED BY <1>2, <1>3, <1>4, <2>1, <2>2 DEF FlowTyped
<1>6. InTurn(z)
  BY <1>2, <1>4 DEF InTurn
<1>7. Knowables(z)
  BY <1>2, <1>4 DEF Knowables
<1>8. Waits(z, z) /\ AtEdge(z, z) /\ Shut(z, z, z) /\ Greeted(z, FALSE, z)
  BY <1>1, <1>2, <1>4 DEF Waits, AtEdge, Shut, Greeted, Endless
<1>9. Gapless(z, z)
  BY <1>2, <1>4 DEF Gapless
<1>10. EndsWhole(z, z)
  BY <1>1 DEF EndsWhole
<1>11. Heads(z, z, z)
  BY <1>2, <1>4 DEF Heads
<1>12. Complete(z, z, z, z)
  BY <1>1, <1>2, <1>4 DEF Complete
<1>13. ReadSoFar(z, z, z, FALSE, z)
  BY <1>2, <1>8, <1>9, <1>10, <1>11 DEF ReadSoFar, Stream
<1> QED BY <1>2, <1>3, <1>5, <1>6, <1>7, <1>8, <1>12, <1>13 DEF FlowInv

\* What is not lost goes on.
LEMMA LoseKeeps == ASSUME FlowAssumed, FlowInv, NEW n, F!Lose(n) PROVE FlowInv'
<1>1. /\ n \in 1 .. Len(out) /\ out' = SubSeq(out, n + 1, Len(out)) /\ clean' = FALSE
      /\ limit' = limit /\ buf' = buf /\ tls' = tls /\ events' = events /\ msgs' = msgs /\ aligned' = aligned
      /\ wire' = wire /\ strays' = strays
  BY DEF F!Lose, F!flowVars, F!After
<1>2. /\ out \in Seq(Pieces) /\ Numbered(msgs, out) /\ FlowTyped /\ InTurn(msgs)
  BY DEF FlowInv, FlowTyped
<1>3. n \in 0 .. Len(out)
  BY <1>1, <1>2, LenProperties
<1>4. out' \in Seq(Pieces)
  BY <1>1, <1>2, <1>3, Rest
<1>5. Numbered(msgs, out')
  <2>1. Numbered(msgs, SubSeq(out, n + 1, Len(out)))
    BY <1>2, <1>3, KnownAfter
  <2> QED BY <1>1, <2>1
<1>6. FlowTyped'
  <2>1. PICK o : o = out'
    OBVIOUS
  <2>2. o \in Seq(Pieces) /\ Numbered(msgs, o)
    BY <1>4, <1>5, <2>1
  <2> QED BY <1>1, <1>2, <2>1, <2>2 DEF FlowTyped
<1>7. PICK ns : ns = msgs'
  OBVIOUS
<1>8. PICK b : b = buf'
  OBVIOUS
<1>9. PICK o : o = out'
  OBVIOUS
<1>10. PICK e : e = events'
  OBVIOUS
<1>11. PICK h : h = tls'
  OBVIOUS
<1>12. InTurn(ns)
  BY <1>1, <1>2, <1>7
<1> QED BY <1>1, <1>6, <1>7, <1>8, <1>9, <1>10, <1>11, <1>12, FlowInvNext

\* What a packet does to the buffer.
PacketDone(b) ==
  IF F!HelloAt(b) # 0 /\ ~ tls
  THEN /\ events' = Append(events, [msg |-> b[F!HelloAt(b)].msg, body |-> <<>>])
       /\ tls' = TRUE /\ buf' = <<>>
  ELSE buf' = F!After_k(b).buf /\ tls' = F!After_k(b).tls /\ events' = F!After_k(b).events

LEMMA DataIs ==
  ASSUME FlowAssumed, FlowTyped, NEW p, p \in Seq(Pieces), Numbered(msgs, p), F!Process(F!Captured(p))
  PROVE  \E b \in Seq(Pieces) : /\ Len(b) <= Cap /\ Numbered(msgs, b) /\ PacketDone(b)
                                /\ F!Kept(p) => b = buf \o p
<1>1. PICK q : q = F!Captured(p)
  OBVIOUS
<1>2. buf \in Seq(Pieces) /\ Numbered(msgs, buf) /\ Cap \in Nat /\ CapPayload \in Nat
  BY DEF FlowTyped, FlowAssumed
<1>3. q \in Seq(Pieces) /\ Numbered(msgs, q) /\ (Len(p) <= CapPayload => q = p)
  BY <1>1, <1>2, CapturedIs
<1>4. PICK b : b = F!Appended(buf, q)
  OBVIOUS
<1>5. b \in Seq(Pieces) /\ Len(b) <= Cap /\ Numbered(msgs, b) /\ (Len(buf) + Len(q) <= Cap => b = buf \o q)
  <2>1. buf \in Seq(Pieces) /\ Numbered(msgs, buf) /\ q \in Seq(Pieces) /\ Numbered(msgs, q) /\ Cap \in Nat
    BY <1>2, <1>3
  <2> QED BY ONLY <1>4, <2>1, AppendedIs
<1>6. F!Kept(p) => b = buf \o p
  BY <1>3, <1>5 DEF F!Kept
<1>7. PacketDone(b)
  <2>1. F!Process(q)
    BY <1>1
  <2>2. F!Event(<<b[F!HelloAt(b)]>>, <<>>) = [msg |-> b[F!HelloAt(b)].msg, body |-> <<>>]
    BY DEF F!Event
  <2> QED BY <1>4, <2>1, <2>2 DEF F!Process, PacketDone
<1> QED BY <1>5, <1>6, <1>7

LEMMA PacketIs ==
  ASSUME FlowAssumed, FlowTyped, NEW n, F!Packet(n)
  PROVE  /\ n \in 1 .. Len(out) /\ limit' = limit /\ msgs' = msgs /\ wire' = wire /\ strays' = strays
         /\ out' = SubSeq(out, n + 1, Len(out))
         /\ clean' = (clean /\ n <= CapPayload /\ Len(buf) + n <= Cap)
         /\ aligned' => aligned /\ F!EndsMessage(n) /\ F!Entire(SubSeq(out, 1, n))
         /\ aligned' \in BOOLEAN
         /\ SubSeq(out, 1, n) \in Seq(Pieces) /\ Numbered(msgs, SubSeq(out, 1, n))
         /\ \E b \in Seq(Pieces) : /\ Len(b) <= Cap /\ Numbered(msgs, b) /\ PacketDone(b)
                                   /\ clean' \/ aligned' => b = buf \o SubSeq(out, 1, n)
<1>1. PICK p : p = F!First(out, n)
  OBVIOUS
<1>2. /\ n \in 1 .. Len(out) /\ limit' = limit /\ msgs' = msgs /\ wire' = wire /\ strays' = strays
      /\ out' = SubSeq(out, n + 1, Len(out))
      /\ clean' = (clean /\ F!Kept(p))
      /\ aligned' = (aligned /\ F!EndsMessage(n) /\ F!Kept(p) /\ F!Entire(p))
      /\ F!Process(F!Captured(p))
  BY <1>1 DEF F!Packet, F!After
<1>3. out \in Seq(Pieces) /\ Numbered(msgs, out) /\ Len(out) \in Nat
  BY LenProperties DEF FlowTyped
<1>4. p = SubSeq(out, 1, n)
  <2>1. F!Least(n, Len(out)) = n
    BY <1>2, <1>3 DEF F!Least
  <2> QED BY <1>1, <2>1 DEF F!First
<1>5. p \in Seq(Pieces) /\ Len(p) = n /\ Numbered(msgs, p)
  <2>1. PICK o \in Seq(Pieces) : o = out
    BY <1>3
  <2>2. PICK i \in Nat : i = 0
    OBVIOUS
  <2>3. n \in Nat /\ i <= n /\ n <= Len(o) /\ p = SubSeq(o, i + 1, n) /\ n - i = n
    BY <1>2, <1>3, <1>4, <2>1, <2>2
  <2>4. PICK ms : ms = msgs
    OBVIOUS
  <2>5. Numbered(ms, o)
    BY <1>3, <2>1, <2>4
  <2>6. p \in Seq(Pieces) /\ Len(p) = n /\ Numbered(ms, p)
    BY ONLY <2>1, <2>2, <2>3, <2>5, PacketPieces
  <2> QED BY <2>4, <2>6
<1>6. PICK b \in Seq(Pieces) : Len(b) <= Cap /\ Numbered(msgs, b) /\ PacketDone(b) /\ (F!Kept(p) => b = buf \o p)
  BY <1>2, <1>5, DataIs
<1>7. clean' = (clean /\ n <= CapPayload /\ Len(buf) + n <= Cap)
  BY <1>2, <1>5 DEF F!Kept
<1> QED BY <1>2, <1>4, <1>5, <1>6, <1>7

\* What has moved to the buffer is shut as before.
LEMMA ShutMoves ==
  ASSUME NEW ms, NEW b, b \in Seq(Pieces), NEW o, o \in Seq(Pieces), NEW n, n \in 0 .. Len(o), Shut(ms, b, o),
         NEW c, c = b \o SubSeq(o, 1, n), NEW q, q = SubSeq(o, n + 1, Len(o))
  PROVE  Shut(ms, c, q)
<1>1. SUFFICES ASSUME Endless(ms) PROVE (c # <<>> => c[1].part # "line") /\ \A k \in 1 .. Len(q) : q[k].part # "line"
  BY DEF Shut
<1>2. (b # <<>> => b[1].part # "line") /\ \A k \in 1 .. Len(o) : o[k].part # "line"
  BY <1>1 DEF Shut
<1>3. ASSUME NEW k \in 1 .. Len(q) PROVE q[k].part # "line"
  <2>1. q[k] = o[n + k] /\ n + k \in 1 .. Len(o)
    BY Rest
  <2> QED BY <1>2, <2>1
<1>4. PICK p : p = SubSeq(o, 1, n)
  OBVIOUS
<1>5. /\ p \in Seq(Pieces) /\ Len(p) = n /\ \A k \in 1 .. n : p[k] = o[k]
  BY <1>4, SubSeqProperties, Moved
<1>6. ASSUME c # <<>> PROVE c[1].part # "line"
  <2>1. /\ Len(c) = Len(b) + Len(p) /\ Len(b) \in Nat /\ Len(p) \in Nat /\ c \in Seq(Pieces)
        /\ \A i \in 1 .. Len(b) + Len(p) : c[i] = IF i <= Len(b) THEN b[i] ELSE p[i - Len(b)]
    BY <1>4, <1>5, ConcatProperties, LenProperties
  <2>2. 1 \in 1 .. Len(c)
    BY <1>6, <2>1, EmptySeq
  <2>3. CASE b = <<>>
    <3>1. Len(b) = 0
      BY <2>3
    <3>2. c[1] = p[1] /\ 1 \in 1 .. n
      BY <1>5, <2>1, <2>2, <3>1
    <3>3. 1 \in 1 .. Len(o)
      BY <3>2
    <3> QED BY <1>2, <1>5, <3>2, <3>3
  <2>4. CASE b # <<>>
    <3>1. 1 \in 1 .. Len(b)
      BY <2>1, <2>4, EmptySeq
    <3>2. c[1] = b[1]
      BY <2>1, <2>2, <3>1
    <3> QED BY <1>2, <2>4, <3>2
  <2> QED BY <2>3, <2>4
<1> QED BY <1>3, <1>6

\* A packet that ends with a message leaves the beginning of another.
LEMMA EdgeAfter ==
  ASSUME NEW ms, ms \in Seq(Messages), NEW b, b \in Seq(Pieces), out \in Seq(Pieces), Stream(ms, b \o out),
         NEW n, n \in 1 .. Len(out), F!EndsMessage(n), NEW q, q = SubSeq(out, n + 1, Len(out))
  PROVE  AtEdge(ms, q)
<1>1. SUFFICES ASSUME q # <<>> PROVE Place(ms, q[1]) = 1
  BY DEF AtEdge
<1>2. PICK o : o = out
  OBVIOUS
<1>3. PICK s : s = b \o o
  OBVIOUS
<1>4. /\ o \in Seq(Pieces) /\ n \in 0 .. Len(o) /\ Len(o) \in Nat /\ n \in 1 .. Len(o) /\ q = SubSeq(o, n + 1, Len(o))
  BY <1>2, LenProperties
<1>5. q \in Seq(Pieces) /\ Len(q) = Len(o) - n /\ \A k \in 1 .. Len(q) : q[k] = o[n + k] /\ n + k \in 1 .. Len(o)
  BY ONLY <1>4, Rest
<1>6. 1 \in 1 .. Len(q) /\ Len(q) # 0
  BY <1>1, <1>4, <1>5, EmptySeq
<1>7. q[1] = o[n + 1] /\ n + 1 \in 1 .. Len(o)
  BY <1>5, <1>6
<1>8. o[n + 1].msg # o[n].msg
  BY <1>2, <1>4, <1>5, <1>6 DEF F!EndsMessage
<1>9. /\ s \in Seq(Pieces) /\ Len(s) = Len(b) + Len(o) /\ Len(b) \in Nat
      /\ \A k \in 1 .. Len(o) : s[Len(b) + k] = o[k]
  BY <1>3, <1>4, Taking
<1>10. PICK k \in 1 .. Len(s) : k = Len(b) + n /\ k + 1 <= Len(s)
  <2>1. n \in Nat /\ n >= 1 /\ n + 1 <= Len(o)
    BY <1>4, <1>7
  <2>2. Len(b) + n \in 1 .. Len(s) /\ Len(b) + n + 1 <= Len(s)
    BY <1>4, <1>9, <2>1
  <2> QED BY <2>2
<1>11. s[k] = o[n] /\ s[k + 1] = o[n + 1]
  <2>1. s[Len(b) + n] = o[n]
    BY <1>4, <1>9
  <2>2. s[Len(b) + (n + 1)] = o[n + 1] /\ k + 1 = Len(b) + (n + 1)
    BY <1>4, <1>7, <1>9, <1>10
  <2> QED BY <1>10, <2>1, <2>2
<1>12. Gapless(ms, s)
  BY <1>2, <1>3 DEF Stream
<1>13. IF Place(ms, s[k]) < Size(ms, s[k].msg)
       THEN s[k + 1].msg = s[k].msg /\ Place(ms, s[k + 1]) = Place(ms, s[k]) + 1
       ELSE s[k + 1].msg > s[k].msg /\ Place(ms, s[k + 1]) = 1
  <2>1. ms \in Seq(Messages) /\ s \in Seq(Pieces) /\ Gapless(ms, s) /\ k \in 1 .. Len(s) /\ k + 1 <= Len(s)
    BY <1>9, <1>10, <1>12
  <2> QED BY ONLY <2>1, NextPiece
<1> QED BY <1>7, <1>8, <1>11, <1>13

\* A hello that was read leaves the rest as it was.
LEMMA HelloTaken ==
  ASSUME msgs \in Seq(Messages), NEW b, b \in Seq(Pieces), NEW o, o \in Seq(Pieces), NEW e, e \in Seq(Events),
         NEW t, ReadSoFar(msgs, b, o, t, e), NEW h, h \in 1 .. Len(b), b[h].part = "hello",
         NEW v, v \in Events, v.msg = b[h].msg, v.body = <<>>, NEW z, z = <<>>, NEW d, d = Append(e, v)
  PROVE  ReadSoFar(msgs, z, o, TRUE, d)
<1>1. PICK s : s = b \o o
  OBVIOUS
<1>2. PICK ms \in Seq(Messages) : ms = msgs
  OBVIOUS
<1>3. Stream(ms, s) /\ Heads(ms, s, e) /\ Shut(ms, b, o) /\ Gapless(ms, s)
  BY <1>1, <1>2 DEF ReadSoFar, Stream
<1>4. /\ s \in Seq(Pieces) /\ Len(s) = Len(b) + Len(o) /\ Len(b) \in Nat /\ Len(o) \in Nat
      /\ \A k \in 1 .. Len(b) : s[k] = b[k]
      /\ \A k \in 1 .. Len(o) : s[Len(b) + k] = o[k]
  <2>1. Len(b) \in Nat /\ 0 \in 0 .. Len(b)
    BY LenProperties
  <2> QED BY <1>1, <2>1, Taking
<1>5. h \in 1 .. Len(s) /\ s[h] = b[h] /\ s[h] \in Pieces /\ Of(ms, s[h])
  BY <1>3, <1>4, ElementOfSeq DEF Gapless
<1>6. ms[v.msg].kind = "hello" /\ Size(ms, v.msg) = 1 /\ Place(ms, s[h]) = 1 /\ v.msg \in 1 .. Len(ms) /\ s[h].msg = v.msg
  BY <1>5 DEF Of, Size, Place
<1>7. o \in Seq(Pieces) /\ z \o o = o
  <2>1. \A y \in Seq(Pieces) : <<>> \o y = y
    BY ConcatEmptySeq
  <2> QED BY <2>1
<1>8. o = SubSeq(s, Len(b) + 1, Len(s))
  <2>1. Len(b) \in 0 .. Len(b)
    BY <1>4
  <2>2. SubSeq(b, Len(b) + 1, Len(b)) \o o = SubSeq(s, Len(b) + 1, Len(s))
    BY <1>1, <2>1, Taking
  <2>3. SubSeq(b, Len(b) + 1, Len(b)) = z
    <3>1. PICK q : q = SubSeq(b, Len(b) + 1, Len(b))
      OBVIOUS
    <3>2. q \in Seq(Pieces) /\ Len(q) = Len(b) - Len(b)
      BY <2>1, <3>1, Rest
    <3>3. Len(q) = 0
      BY <1>4, <3>2
    <3> QED BY <3>1, <3>2, <3>3, EmptySeq
  <2> QED BY <1>7, <2>2, <2>3
<1>9. Stream(ms, o)
  <2>1. Len(b) \in 0 .. Len(s)
    BY <1>4
  <2> QED BY <1>3, <1>4, <1>8, <2>1, StreamGoesOn
<1>10. Shut(ms, z, o)
  BY <1>3 DEF Shut
<1>11. /\ d \in Seq(Events) /\ Len(d) = Len(e) + 1 /\ d[Len(e) + 1] = v /\ Len(e) \in Nat
       /\ \A j \in 1 .. Len(e) : d[j] = e[j]
  BY AppendProperties, LenProperties
<1>12. Greeted(ms, TRUE, d)
  <2>1. Len(e) + 1 \in 1 .. Len(d)
    BY <1>11
  <2> QED BY <1>6, <1>11, <2>1 DEF Greeted
<1>13. Heads(ms, o, d)
  <2>1. ASSUME NEW j \in 1 .. Len(d) PROVE (j \in 1 .. Len(e) /\ d[j] = e[j]) \/ d[j] = v
    BY <1>11
  <2>2. \A j \in 1 .. Len(e) : e[j].msg < v.msg
    BY <1>3, <1>5, <1>6 DEF Heads
  <2>3. ASSUME NEW j \in 1 .. Len(d) PROVE ms[d[j].msg].kind # "secret" /\ F!IsPrefix(d[j].body, Shown(ms, d[j].msg))
    <3>1. CASE d[j] = v
      <4>1. F!IsPrefix(z, z)
        <5>1. z \in Seq(Pieces)
          BY EmptySeq
        <5>2. Len(z) = 0
          OBVIOUS
        <5> QED BY <5>1, <5>2 DEF F!IsPrefix
      <4>2. Shown(ms, v.msg) = z
        BY <1>6 DEF Shown
      <4> QED BY <1>6, <3>1, <4>1, <4>2
    <3>2. CASE j \in 1 .. Len(e) /\ d[j] = e[j]
      BY <1>3, <3>2 DEF Heads
    <3> QED BY <2>1, <3>1, <3>2
  <2>4. ASSUME NEW j \in 1 .. Len(d), NEW k \in 1 .. Len(d), j < k PROVE d[j].msg < d[k].msg
    <3>1. j \in 1 .. Len(e) /\ d[j] = e[j]
      BY <1>11, <2>4
    <3>2. CASE k \in 1 .. Len(e) /\ d[k] = e[k]
      BY <1>3, <2>4, <3>1, <3>2 DEF Heads
    <3>3. CASE d[k] = v
      BY <2>2, <3>1, <3>3
    <3> QED BY <2>1, <3>2, <3>3
  <2>5. ASSUME NEW k \in 1 .. Len(o), NEW j \in 1 .. Len(d), Place(ms, o[k]) = 1 PROVE d[j].msg < o[k].msg
    <3>1. PICK l \in 1 .. Len(s) : l = Len(b) + k /\ s[l] = o[k] /\ h < l
      <4>1. Len(b) + k \in 1 .. Len(s) /\ h < Len(b) + k
        BY <1>4
      <4> QED BY <1>4, <4>1
    <3>2. CASE d[j] = v
      <4>1. Behind(ms, s, h, l)
        BY <1>3, <1>5, <3>1 DEF Gapless
      <4>2. ~ (Place(ms, s[h]) + l - h <= Size(ms, s[h].msg))
        BY <1>6, <3>1
      <4> QED BY <1>6, <3>1, <3>2, <4>1, <4>2 DEF Behind
    <3>3. CASE j \in 1 .. Len(e) /\ d[j] = e[j]
      BY <1>3, <2>5, <3>1, <3>3 DEF Heads
    <3> QED BY <2>1, <3>2, <3>3
  <2> QED BY <2>3, <2>4, <2>5 DEF Heads
<1> QED BY <1>2, <1>7, <1>9, <1>10, <1>12, <1>13 DEF ReadSoFar

\* A hello that comes first leaves nothing that is to be read.
LEMMA HelloCompletes ==
  ASSUME NEW ms, ms \in Seq(Messages), InTurn(ms), NEW s, s \in Seq(Pieces), Gapless(ms, s), s # <<>>, s[1].part = "hello",
         NEW e, e \in Seq(Events), NEW c, Complete(ms, c, s, e),
         NEW v, v \in Events, v.msg = s[1].msg, v.body = <<>>, NEW z, z = <<>>, NEW d, d = Append(e, v),
         NEW n, n \in 1 .. Len(s), NEW o, o = SubSeq(s, n + 1, Len(s))
  PROVE  Complete(ms, z, o, d)
<1>1. 1 \in 1 .. Len(s) /\ Len(s) \in Nat /\ n \in 0 .. Len(s)
  BY LenProperties, EmptySeq
<1>2. s[1] \in Pieces /\ Of(ms, s[1])
  BY <1>1, ElementOfSeq DEF Gapless
<1>3. ms[v.msg].kind = "hello" /\ v.msg \in 1 .. Len(ms) /\ v.msg \in Nat
  BY <1>2 DEF Of
<1>4. /\ d \in Seq(Events) /\ Len(d) = Len(e) + 1 /\ d[Len(e) + 1] = v /\ Len(e) \in Nat
      /\ \A j \in 1 .. Len(e) : d[j] = e[j]
  BY AppendProperties, LenProperties
<1>5. ASSUME NEW i \in 1 .. Len(ms), i > v.msg PROVE ms[i].kind = "secret"
  BY <1>3, <1>5 DEF InTurn, F!HttpKinds
<1>6. ASSUME NEW k \in 1 .. Len(s), k # 1 PROVE s[k].msg \in 1 .. Len(ms) /\ s[k].msg >= v.msg /\ (Place(ms, s[k]) = 1 => s[k].msg > v.msg) /\ Of(ms, s[k])
  BY <1>6, InOrder
<1>7. ASSUME NEW i \in 1 .. Len(ms), ms[i].kind # "secret" PROVE \E j \in 1 .. Len(d) : d[j].msg = i
  <2>1. CASE \E j \in 1 .. Len(e) : e[j].msg = i
    <3>1. PICK j \in 1 .. Len(e) : e[j].msg = i
      BY <2>1
    <3>2. j \in 1 .. Len(d) /\ d[j].msg = i
      BY <1>4, <3>1
    <3> QED BY <3>2
  <2>2. CASE \E k \in 1 .. Len(s) : s[k].msg = i /\ Place(ms, s[k]) = 1
    <3>1. PICK k \in 1 .. Len(s) : s[k].msg = i /\ Place(ms, s[k]) = 1
      BY <2>2
    <3>2. k = 1
      BY <1>3, <1>5, <1>6, <1>7, <3>1
    <3>3. Len(e) + 1 \in 1 .. Len(d) /\ d[Len(e) + 1].msg = i
      BY <1>4, <3>1, <3>2
    <3> QED BY <3>3
  <2> QED BY <1>7, <2>1, <2>2 DEF Complete
<1>8. ASSUME NEW j \in 1 .. Len(d), ms[d[j].msg].kind # "open" PROVE d[j].body = Shown(ms, d[j].msg)
  <2>1. CASE j \in 1 .. Len(e)
    <3>1. d[j] = e[j]
      BY <1>4, <2>1
    <3> QED BY <1>8, <2>1, <3>1 DEF Complete
  <2>2. CASE j = Len(e) + 1
    BY <1>3, <1>4, <2>2 DEF Shown
  <2> QED BY <1>4, <2>1, <2>2
<1>9. ASSUME o # <<>> PROVE Place(ms, o[1]) = 1
  <2>1. o \in Seq(Pieces) /\ Len(o) = Len(s) - n /\ \A k \in 1 .. Len(o) : o[k] = s[n + k] /\ n + k \in 1 .. Len(s)
    BY <1>1, Rest
  <2>2. 1 \in 1 .. Len(o)
    BY <1>9, <2>1, LenProperties, EmptySeq
  <2>3. o[1] = s[n + 1] /\ n + 1 \in 1 .. Len(s) /\ n + 1 # 1
    BY <1>1, <2>1, <2>2
  <2>4. o[1].msg \in 1 .. Len(ms) /\ o[1].msg >= v.msg /\ Of(ms, o[1])
    BY <1>6, <2>3
  <2>5. o[1] \in Pieces
    BY <2>1, <2>2, ElementOfSeq
  <2>6. ms[o[1].msg].kind \in {"hello", "secret"}
    <3>1. CASE o[1].msg = v.msg
      BY <1>3, <3>1
    <3>2. CASE o[1].msg > v.msg
      BY <1>5, <2>4, <3>2
    <3>3. PICK i \in 1 .. Len(ms) : i = o[1].msg /\ i >= v.msg
      BY <2>4
    <3>4. i = v.msg \/ i > v.msg
      <4>1. i \in Nat
        BY LenProperties
      <4>2. PICK m \in Nat : m = v.msg
        BY <1>3
      <4>3. i >= m
        BY <3>3, <4>2
      <4>4. i = m \/ i > m
        BY <4>1, <4>3
      <4> QED BY <4>2, <4>4
    <3> QED BY <3>1, <3>2, <3>3, <3>4
  <2> QED BY <2>4, <2>5, <2>6 DEF Of, Place, Pieces, Parts, F!HttpKinds
<1> QED BY <1>7, <1>8, <1>9 DEF Complete

\* What the loop starts with holds no hello.
LEMMA NoHelloLeft ==
  ASSUME msgs \in Seq(Messages), InTurn(msgs), Knowables(msgs), Scan \in Nat \ {0},
         NEW c, c \in Seq(Pieces), NEW b, b \in Seq(Pieces), NEW o, o \in Seq(Pieces), NEW q, q \in Seq(Pieces),
         NEW s, s = c \o o, s = b \o q, NEW e, e \in Seq(Events), Numbered(msgs, e),
         NEW t, ReadSoFar(msgs, c, o, t, e), Complete(msgs, c, s, e), F!HelloAt(b) = 0 \/ t
  PROVE  NoHello(b)
<1>1. SUFFICES ASSUME NEW k \in 1 .. Len(b), b[k].part = "hello" PROVE FALSE
  BY DEF NoHello
<1>2. PICK ms \in Seq(Messages) : ms = msgs
  OBVIOUS
<1>3. /\ s \in Seq(Pieces) /\ k \in 1 .. Len(s) /\ s[k] = b[k] /\ Len(b) \in Nat
      /\ \A l \in 1 .. Len(b) : s[l] = b[l] /\ l \in 1 .. Len(s)
  <2>1. Len(b) \in Nat /\ 0 \in 0 .. Len(b)
    BY LenProperties
  <2>2. /\ s \in Seq(Pieces) /\ Len(s) = Len(b) + Len(q) /\ Len(q) \in Nat
        /\ \A l \in 1 .. Len(b) : s[l] = b[l]
    BY <2>1, Taking
  <2> QED BY <2>1, <2>2
<1>4. Stream(ms, s) /\ Gapless(ms, s) /\ Heads(ms, s, e) /\ Shut(ms, c, o) /\ Greeted(ms, t, e)
  BY <1>2 DEF ReadSoFar, Stream
<1>5. CASE t
  <2>1. PICK j \in 1 .. Len(e) : ms[e[j].msg].kind = "hello"
    BY <1>4, <1>5 DEF Greeted
  <2>2. s[k] \in Pieces /\ Of(ms, s[k])
    BY <1>3, <1>4, ElementOfSeq DEF Gapless
  <2>3. ms[s[k].msg].kind = "hello" /\ s[k].msg \in 1 .. Len(ms) /\ Place(ms, s[k]) = 1
    BY <1>1, <1>3, <2>2 DEF Of, Place
  <2>4. e[j].msg < s[k].msg
    BY <1>3, <1>4, <2>3 DEF Heads
  <2>5. e[j].msg \in 1 .. Len(ms)
    BY <1>2 DEF Numbered
  <2>6. ms[s[k].msg].kind = "secret"
    BY <1>2, <2>1, <2>3, <2>4, <2>5 DEF InTurn, F!HttpKinds
  <2> QED BY <2>3, <2>6
<1>6. CASE F!HelloAt(b) = 0
  <2>1. InTurn(ms) /\ Knowables(ms) /\ Complete(ms, c, s, e)
    BY <1>2
  <2>2. k = 1
    BY <1>1, <1>3, <1>4, <2>1, HelloAlone
  <2>3. b # <<>> /\ b[1].part = "hello"
    BY <1>1, <2>2, EmptySeq
  <2> QED BY <1>6, <2>3, HelloAtIs
<1> QED BY <1>5, <1>6

\* What is in the buffer and was emitted then.
LEMMA DoneTyped ==
  ASSUME limit \in Int, msgs \in Seq(Messages), Cap \in Nat, Scan \in Nat \ {0}, tls \in BOOLEAN,
         events \in Seq(Events), Numbered(msgs, events),
         NEW b, b \in Seq(Pieces), Len(b) <= Cap, Numbered(msgs, b), PacketDone(b)
  PROVE  /\ buf' \in Seq(Pieces) /\ Len(buf') <= Cap /\ Numbered(msgs, buf')
         /\ events' \in Seq(Events) /\ Numbered(msgs, events') /\ tls' \in BOOLEAN
<1>1. CASE F!HelloAt(b) # 0 /\ ~ tls
  <2>1. PICK h : h = F!HelloAt(b)
    OBVIOUS
  <2>2. h \in 1 .. Len(b)
    <3>1. h \in 0 .. Len(b) /\ h # 0 /\ Len(b) \in Nat
      BY <1>1, <2>1, HelloAtIs, LenProperties
    <3> QED BY <3>1
  <2>3. PICK v : v = [msg |-> b[h].msg, body |-> <<>>]
    OBVIOUS
  <2>4. b[h].msg \in 1 .. Len(msgs) /\ b[h].msg \in Nat
    BY <2>2, ElementOfSeq DEF Numbered, Pieces
  <2>5. v \in Events /\ v.msg = b[h].msg
    <3>1. PICK z \in Seq(Pieces) : z = <<>>
      BY EmptySeq
    <3>2. v = [msg |-> b[h].msg, body |-> z]
      BY <2>3, <3>1
    <3> QED BY <2>4, <3>2 DEF Events
  <2>6. events' = Append(events, v) /\ tls' = TRUE /\ buf' = <<>>
    BY <1>1, <2>1, <2>3 DEF PacketDone
  <2>7. PICK d : d = Append(events, v)
    OBVIOUS
  <2>8. /\ d \in Seq(Events) /\ Len(d) = Len(events) + 1 /\ d[Len(events) + 1] = v /\ Len(events) \in Nat
        /\ \A j \in 1 .. Len(events) : d[j] = events[j]
    BY <2>5, <2>7, AppendProperties, LenProperties
  <2>9. Numbered(msgs, d)
    <3>1. ASSUME NEW j \in 1 .. Len(d) PROVE d[j].msg \in 1 .. Len(msgs)
      <4>1. CASE j \in 1 .. Len(events)
        BY <2>8, <4>1 DEF Numbered
      <4>2. CASE j = Len(events) + 1
        BY <2>4, <2>5, <2>8, <4>2
      <4> QED BY <2>8, <4>1, <4>2
    <3> QED BY <3>1 DEF Numbered
  <2>10. PICK z : z = <<>>
    OBVIOUS
  <2>11. z \in Seq(Pieces) /\ Len(z) = 0 /\ Numbered(msgs, z)
    BY <2>10, EmptySeq DEF Numbered
  <2>12. buf' \in Seq(Pieces) /\ Len(buf') <= Cap /\ Numbered(msgs, buf')
    BY <2>6, <2>10, <2>11
  <2> QED BY <2>6, <2>7, <2>8, <2>9, <2>12
<1>2. CASE ~ (F!HelloAt(b) # 0 /\ ~ tls)
  <2>1. PICK s : s = F!After_k(b)
    OBVIOUS
  <2>2. s \in Kept
    BY <2>1, LoopTyped
  <2>3. buf' = s.buf /\ tls' = s.tls /\ events' = s.events
    BY <1>2, <2>1 DEF PacketDone
  <2> QED BY <2>2, <2>3 DEF Kept, Flows
<1> QED BY <1>1, <1>2

LEMMA PacketTyped == ASSUME FlowAssumed, FlowInv, NEW n, F!Packet(n) PROVE FlowTyped'
<1>1. /\ n \in 1 .. Len(out) /\ limit' = limit /\ msgs' = msgs /\ wire' = wire /\ strays' = strays
      /\ out' = SubSeq(out, n + 1, Len(out))
      /\ clean' = (clean /\ n <= CapPayload /\ Len(buf) + n <= Cap)
      /\ aligned' \in BOOLEAN
  BY PacketIs DEF FlowInv
<1>2. /\ FlowTyped /\ limit \in Int /\ msgs \in Seq(Messages) /\ Cap \in Nat /\ Scan \in Nat \ {0}
      /\ tls \in BOOLEAN /\ events \in Seq(Events) /\ Numbered(msgs, events)
      /\ out \in Seq(Pieces) /\ Numbered(msgs, out)
      /\ wire \in Seq(Pieces) /\ Numbered(msgs, wire) /\ strays \in 0 .. MaxStray
  BY DEF FlowInv, FlowTyped, FlowAssumed
<1>3. PICK b \in Seq(Pieces) : Len(b) <= Cap /\ Numbered(msgs, b) /\ PacketDone(b)
  BY <1>2, PacketIs
<1>4. out' \in Seq(Pieces) /\ Numbered(msgs, out')
  <2>1. n \in 0 .. Len(out)
    BY <1>1, <1>2, LenProperties
  <2>2. Numbered(msgs, SubSeq(out, n + 1, Len(out)))
    BY <1>2, <2>1, KnownAfter
  <2>3. out' \in Seq(Pieces)
    BY <1>1, <1>2, <2>1, Rest
  <2> QED BY <1>1, <2>2, <2>3
<1>5. /\ buf' \in Seq(Pieces) /\ Len(buf') <= Cap /\ Numbered(msgs, buf')
      /\ events' \in Seq(Events) /\ Numbered(msgs, events') /\ tls' \in BOOLEAN
  BY <1>2, <1>3, DoneTyped
<1>6. limit' \in Limits /\ clean' \in BOOLEAN /\ aligned' \in BOOLEAN
  BY <1>1, <1>2 DEF FlowTyped
<1>7. PICK ms \in Seq(Messages) : ms = msgs
  BY <1>2
<1>8. \A i \in 1 .. Len(ms) : ms[i].n \in 0 .. MaxLen
  BY <1>2, <1>7 DEF FlowTyped
<1>9. msgs' = ms
  BY <1>1, <1>7
<1>10. Numbered(ms, buf') /\ Numbered(ms, out') /\ Numbered(ms, events') /\ Numbered(ms, wire')
  BY <1>1, <1>2, <1>4, <1>5, <1>7
<1>11. wire' \in Seq(Pieces) /\ strays' \in 0 .. MaxStray
  BY <1>1, <1>2
<1> QED BY <1>4, <1>5, <1>6, <1>7, <1>8, <1>9, <1>10, <1>11 DEF FlowTyped

LEMMA PacketReads ==
  ASSUME FlowAssumed, FlowInv, NEW n, F!Packet(n), clean',
         NEW c, c = buf', NEW o, o = out', NEW e, e = events', NEW t, t = tls'
  PROVE  /\ Knowables(msgs) /\ Waits(msgs, c) /\ ReadSoFar(msgs, c, o, t, e)
         /\ aligned' => AtEdge(msgs, o)
         /\ F!InStep' => Complete(msgs, c, c \o o, e)
<1>1. /\ n \in 1 .. Len(out) /\ limit' = limit /\ msgs' = msgs
      /\ o = SubSeq(out, n + 1, Len(out))
      /\ clean /\ (aligned' => aligned /\ F!EndsMessage(n))
  BY PacketIs DEF FlowInv
<1>2. /\ limit \in Int /\ msgs \in Seq(Messages) /\ Cap \in Nat /\ Scan \in Nat \ {0}
      /\ buf \in Seq(Pieces) /\ out \in Seq(Pieces) /\ tls \in BOOLEAN
      /\ events \in Seq(Events) /\ Numbered(msgs, events) /\ aligned \in BOOLEAN
  BY DEF FlowInv, FlowTyped, FlowAssumed
<1>3. PICK b \in Seq(Pieces) : Len(b) <= Cap /\ Numbered(msgs, b) /\ PacketDone(b) /\ b = buf \o SubSeq(out, 1, n)
  BY PacketIs DEF FlowInv
<1>4. /\ InTurn(msgs) /\ Knowables(msgs) /\ ReadSoFar(msgs, buf, out, tls, events)
      /\ aligned => AtEdge(msgs, out)
      /\ F!InStep => Complete(msgs, buf, buf \o out, events)
  BY <1>1 DEF FlowInv
<1>5. n \in 0 .. Len(out) /\ n \in Nat /\ n >= 1 /\ Len(out) \in Nat
  BY <1>1, <1>2, LenProperties
<1>6. o \in Seq(Pieces) /\ b \o o = buf \o out
  <2>1. PICK w : w = out
    OBVIOUS
  <2>2. PICK f : f = buf
    OBVIOUS
  <2>3. /\ f \in Seq(Pieces) /\ w \in Seq(Pieces) /\ n \in 0 .. Len(w)
        /\ b = f \o SubSeq(w, 1, n) /\ o = SubSeq(w, n + 1, Len(w))
    BY <1>1, <1>2, <1>3, <1>5, <2>1, <2>2
  <2>4. o \in Seq(Pieces) /\ b \o o = f \o w
    BY ONLY <2>3, Moved
  <2> QED BY <2>1, <2>2, <2>4
<1>7. Shut(msgs, b, o)
  <2>1. Shut(msgs, buf, out)
    BY <1>4 DEF ReadSoFar
  <2> QED BY <1>1, <1>2, <1>3, <1>5, <2>1, ShutMoves
<1>8. ReadSoFar(msgs, b, o, tls, events)
  BY <1>4, <1>6, <1>7 DEF ReadSoFar
<1>9. ASSUME aligned' PROVE AtEdge(msgs, o)
  <2>1. F!EndsMessage(n) /\ Stream(msgs, buf \o out)
    BY <1>1, <1>4, <1>9 DEF ReadSoFar
  <2> QED BY <1>1, <1>2, <2>1, EdgeAfter
<1>10. ASSUME F!InStep' PROVE Ripe(o) /\ Complete(msgs, buf, b \o o, events)
  <2>1. DOMAIN msgs = 1 .. Len(msgs)
    BY <1>2, LenProperties
  <2>2. limit = 0 \/ (aligned' /\ (limit > 0 \/ \A i \in DOMAIN msgs : msgs[i].kind # "chunked"))
    BY <1>1, <1>10 DEF F!InStep
  <2>3. F!InStep
    BY <1>1, <2>2 DEF F!InStep
  <2>4. Ripe(o)
    BY <1>9, <2>1, <2>2 DEF Ripe
  <2> QED BY <1>4, <1>6, <2>3, <2>4
<1>11. PICK s : s = b \o o
  OBVIOUS
<1>12. s = buf \o out /\ s \in Seq(Pieces)
  BY <1>6, <1>11, ConcatProperties
<1>13. CASE F!HelloAt(b) # 0 /\ ~ tls
  <2>1. PICK h : h = F!HelloAt(b)
    OBVIOUS
  <2>2. h \in 1 .. Len(b) /\ b[h].part = "hello" /\ Len(b) \in Nat
    <3>1. h \in 0 .. Len(b) /\ h # 0 /\ Len(b) \in Nat /\ b[h].part = "hello"
      BY <1>2, <1>13, <2>1, HelloAtIs, LenProperties
    <3> QED BY <3>1
  <2>3. PICK z : z = <<>>
    OBVIOUS
  <2>4. PICK v : v = [msg |-> b[h].msg, body |-> z]
    OBVIOUS
  <2>5. v \in Events /\ v.msg = b[h].msg /\ v.body = z
    <3>1. b[h].msg \in Nat
      <4>1. b[h] \in Pieces
        BY <2>2, ElementOfSeq
      <4> QED BY <4>1 DEF Pieces
    <3>2. z \in Seq(Pieces)
      BY <2>3, EmptySeq
    <3> QED BY <2>4, <3>1, <3>2 DEF Events
  <2>6. e = Append(events, v) /\ t = TRUE /\ c = z
    BY <1>3, <1>13, <2>1, <2>3, <2>4 DEF PacketDone
  <2>7. ReadSoFar(msgs, z, o, TRUE, e)
    <3>1. PICK d : d = events
      OBVIOUS
    <3>2. PICK g : g = tls
      OBVIOUS
    <3>3. d \in Seq(Events) /\ ReadSoFar(msgs, b, o, g, d) /\ e = Append(d, v)
      BY <1>2, <1>8, <2>6, <3>1, <3>2
    <3> QED BY <1>2, <1>6, <2>2, <2>3, <2>5, <3>3, HelloTaken
  <2>8. Waits(msgs, z)
    BY <2>3 DEF Waits
  <2>9. ASSUME F!InStep' PROVE Complete(msgs, z, z \o o, e)
    <3>1. PICK ms \in Seq(Messages) : ms = msgs
      BY <1>2
    <3>2. PICK d \in Seq(Events) : d = events
      BY <1>2
    <3>3. Complete(ms, buf, s, d) /\ InTurn(ms) /\ Knowables(ms) /\ Stream(ms, s) /\ Shut(ms, buf, out) /\ Gapless(ms, s)
      BY <1>4, <1>10, <1>11, <1>12, <2>9, <3>1, <3>2 DEF ReadSoFar, Stream
    <3>4. /\ Len(s) = Len(b) + Len(o) /\ Len(o) \in Nat
          /\ \A k \in 1 .. Len(b) : s[k] = b[k]
          /\ SubSeq(b, Len(b) + 1, Len(b)) \o o = SubSeq(s, Len(b) + 1, Len(s))
      <4>1. Len(b) \in 0 .. Len(b)
        BY <2>2
      <4> QED BY <1>6, <1>11, <4>1, Taking
    <3>5. h \in 1 .. Len(s) /\ s[h].part = "hello" /\ Len(b) \in 1 .. Len(s)
      BY <2>2, <3>4
    <3>6. h = 1
      <4>1. PICK a \in Seq(Pieces) : a = buf
        BY <1>2
      <4>2. PICK q \in Seq(Pieces) : q = out
        BY <1>2
      <4>3. s = a \o q /\ Complete(ms, a, s, d) /\ Shut(ms, a, q)
        BY <1>12, <3>3, <4>1, <4>2
      <4> QED BY <3>3, <3>5, <4>3, HelloAlone
    <3>7. z \o o = o
      <4>1. \A y \in Seq(Pieces) : <<>> \o y = y
        BY ConcatEmptySeq
      <4> QED BY <1>6, <2>3, <4>1
    <3>8. o = SubSeq(s, Len(b) + 1, Len(s))
      <4>1. SubSeq(b, Len(b) + 1, Len(b)) = z
        <5>1. PICK q : q = SubSeq(b, Len(b) + 1, Len(b))
          OBVIOUS
        <5>2. Len(b) \in 0 .. Len(b)
          BY <2>2
        <5>3. q \in Seq(Pieces) /\ Len(q) = Len(b) - Len(b)
          BY <5>1, <5>2, Rest
        <5>4. Len(q) = 0
          BY <2>2, <5>3
        <5> QED BY <2>3, <5>1, <5>3, <5>4, EmptySeq
      <4> QED BY <3>4, <3>7, <4>1
    <3>9. v.msg = s[1].msg /\ s[1].part = "hello" /\ s # <<>>
      <4>1. s[h] = b[h]
        BY <2>2, <3>4
      <4>2. Len(s) # 0
        BY <3>5, <1>12, LenProperties
      <4>3. s # <<>>
        BY <4>2
      <4> QED BY <2>5, <3>5, <3>6, <4>1, <4>3
    <3>10. PICK N \in 1 .. Len(s) : N = Len(b)
      BY <3>5
    <3>11. o = SubSeq(s, N + 1, Len(s)) /\ e = Append(d, v)
      BY <2>6, <3>2, <3>8, <3>10
    <3>12. PICK a : a = buf
      OBVIOUS
    <3>13. InTurn(ms) /\ Gapless(ms, s) /\ Complete(ms, a, s, d)
      BY <3>3, <3>12
    <3>14. Complete(ms, z, o, e)
      BY <1>12, <2>3, <2>5, <3>9, <3>11, <3>13, HelloCompletes
    <3> QED BY <3>1, <3>7, <3>14
  <2> QED BY <1>4, <1>9, <2>6, <2>7, <2>8, <2>9
<1>14. CASE ~ (F!HelloAt(b) # 0 /\ ~ tls)
  <2>1. PICK w \in BOOLEAN : w <=> F!InStep'
    <3>1. F!InStep' \in BOOLEAN
      BY DEF F!InStep
    <3> QED BY <3>1
  <2>2. ASSUME w PROVE Ripe(o) /\ Complete(msgs, b, b \o o, events) /\ NoHello(b)
    <3>1. Ripe(o) /\ Complete(msgs, buf, b \o o, events)
      BY <1>10, <2>1, <2>2
    <3>2. NoHello(b)
      <4>1. PICK d \in Seq(Events) : d = events
        BY <1>2
      <4>2. PICK g : g = tls
        OBVIOUS
      <4>3. PICK a \in Seq(Pieces) : a = buf
        BY <1>2
      <4>4. PICK q \in Seq(Pieces) : q = out
        BY <1>2
      <4>5. Numbered(msgs, d) /\ ReadSoFar(msgs, a, q, g, d) /\ Complete(msgs, a, s, d) /\ s = a \o q /\ (F!HelloAt(b) = 0 \/ g)
        BY <1>2, <1>4, <1>11, <1>12, <1>14, <3>1, <4>1, <4>2, <4>3, <4>4
      <4> QED BY <1>2, <1>4, <1>6, <1>11, <4>5, NoHelloLeft
    <3>3. b # <<>> => b[1].part # "hello"
      BY <3>2, LenProperties, EmptySeq DEF NoHello
    <3> QED BY <3>1, <3>2, <3>3 DEF Complete
  <2>3. PICK r : r = F!After_k(b)
    OBVIOUS
  <2>4. r \in ReadOn(o, w) /\ Waits(msgs, r.buf)
    BY <1>2, <1>3, <1>4, <1>6, <1>8, <2>2, <2>3, LoopRead
  <2>5. c = r.buf /\ t = r.tls /\ e = r.events
    BY <1>3, <1>14, <2>3 DEF PacketDone
  <2>6. ReadSoFar(msgs, c, o, t, e) /\ (w => Complete(msgs, c, c \o o, e))
    BY <2>4, <2>5 DEF ReadOn
  <2> QED BY <1>4, <1>9, <2>1, <2>4, <2>5, <2>6
<1> QED BY <1>13, <1>14

LEMMA PacketKeeps == ASSUME FlowAssumed, FlowInv, NEW n, F!Packet(n) PROVE FlowInv'
<1>1. limit' = limit /\ msgs' = msgs /\ (clean' => clean)
  BY PacketIs DEF FlowInv
<1>2. FlowTyped'
  BY PacketTyped
<1>3. PICK c : c = buf'
  OBVIOUS
<1>4. PICK o : o = out'
  OBVIOUS
<1>5. PICK e : e = events'
  OBVIOUS
<1>6. PICK t : t = tls'
  OBVIOUS
<1>7. PICK ms : ms = msgs'
  OBVIOUS
<1>8. InTurn(ms)
  BY <1>1, <1>7 DEF FlowInv
<1>9. ASSUME clean'
      PROVE  /\ Knowables(ms) /\ Waits(ms, c) /\ ReadSoFar(ms, c, o, t, e)
             /\ aligned' => AtEdge(ms, o)
             /\ F!InStep' => Complete(ms, c, c \o o, e)
  BY <1>1, <1>3, <1>4, <1>5, <1>6, <1>7, <1>9, PacketReads
<1> QED BY <1>1, <1>2, <1>3, <1>4, <1>5, <1>6, <1>7, <1>8, <1>9, FlowInvNext

\* A packet out of its turn.
LEMMA StrayIs ==
  ASSUME FlowAssumed, FlowTyped, NEW i \in 0 .. Len(wire), NEW n \in 1 .. MaxPacket, F!Stray(i, n)
  PROVE  /\ limit' = limit /\ msgs' = msgs /\ out' = out /\ wire' = wire /\ clean' = FALSE
         /\ strays' \in 0 .. MaxStray /\ aligned' \in BOOLEAN
         /\ \E p \in Seq(Pieces) :
              /\ Numbered(msgs, p)
              /\ aligned' => aligned /\ F!Entire(p)
              /\ \E b \in Seq(Pieces) : /\ Len(b) <= Cap /\ Numbered(msgs, b) /\ PacketDone(b)
                                        /\ aligned' => b = buf \o p
<1>1. PICK p : p = SubSeq(wire, i + 1, i + n)
  OBVIOUS
<1>2. /\ i + n <= Len(wire) /\ F!Process(F!Captured(p)) /\ aligned' = (aligned /\ F!Kept(p) /\ F!Entire(p))
      /\ strays < MaxStray /\ strays' = strays + 1 /\ clean' = FALSE
      /\ limit' = limit /\ msgs' = msgs /\ out' = out /\ wire' = wire
  BY <1>1 DEF F!Stray
<1>3. wire \in Seq(Pieces) /\ Numbered(msgs, wire) /\ strays \in 0 .. MaxStray /\ MaxStray \in Nat
  BY DEF FlowTyped, FlowAssumed
<1>4. i \in Nat /\ n \in Nat
  BY <1>3, LenProperties
<1>5. p \in Seq(Pieces) /\ Numbered(msgs, p)
  <2>1. PICK w \in Seq(Pieces) : w = wire
    BY <1>3
  <2>2. PICK ms : ms = msgs
    OBVIOUS
  <2>3. i + n <= Len(w) /\ p = SubSeq(w, i + 1, i + n) /\ Numbered(ms, w) /\ i + n \in Nat /\ i <= i + n
    BY <1>1, <1>2, <1>3, <1>4, <2>1, <2>2
  <2>4. p \in Seq(Pieces) /\ Numbered(ms, p)
    BY ONLY <1>4, <2>1, <2>3, PacketPieces
  <2> QED BY <2>2, <2>4
<1>6. PICK b \in Seq(Pieces) : Len(b) <= Cap /\ Numbered(msgs, b) /\ PacketDone(b) /\ (F!Kept(p) => b = buf \o p)
  BY <1>2, <1>5, DataIs
<1>7. strays' \in 0 .. MaxStray
  BY <1>2, <1>3
<1>8. aligned' \in BOOLEAN
  BY <1>2
<1> QED BY <1>2, <1>5, <1>6, <1>7, <1>8

LEMMA StrayKeeps ==
  ASSUME FlowAssumed, FlowInv, NEW i \in 0 .. Len(wire), NEW n \in 1 .. MaxPacket, F!Stray(i, n)
  PROVE  FlowInv'
<1>1. /\ limit' = limit /\ msgs' = msgs /\ out' = out /\ wire' = wire /\ clean' = FALSE
      /\ strays' \in 0 .. MaxStray /\ aligned' \in BOOLEAN
      /\ \E b \in Seq(Pieces) : Len(b) <= Cap /\ Numbered(msgs, b) /\ PacketDone(b)
  BY StrayIs DEF FlowInv
<1>2. /\ limit \in Int /\ limit \in Limits /\ msgs \in Seq(Messages) /\ Cap \in Nat /\ Scan \in Nat \ {0}
      /\ tls \in BOOLEAN /\ events \in Seq(Events) /\ Numbered(msgs, events)
      /\ out \in Seq(Pieces) /\ Numbered(msgs, out) /\ wire \in Seq(Pieces) /\ Numbered(msgs, wire)
      /\ \A k \in 1 .. Len(msgs) : msgs[k].n \in 0 .. MaxLen
  BY DEF FlowInv, FlowTyped, FlowAssumed
<1>3. PICK b \in Seq(Pieces) : Len(b) <= Cap /\ Numbered(msgs, b) /\ PacketDone(b)
  BY <1>1
<1>4. /\ buf' \in Seq(Pieces) /\ Len(buf') <= Cap /\ Numbered(msgs, buf')
      /\ events' \in Seq(Events) /\ Numbered(msgs, events') /\ tls' \in BOOLEAN
  BY <1>2, <1>3, DoneTyped
<1>5. PICK ms : ms = msgs
  OBVIOUS
<1>6. msgs' = ms /\ Numbered(ms, buf') /\ Numbered(ms, out') /\ Numbered(ms, events') /\ Numbered(ms, wire')
  BY <1>1, <1>2, <1>4, <1>5
<1>7. FlowTyped'
  BY <1>1, <1>2, <1>4, <1>5, <1>6 DEF FlowTyped
<1>8. PICK c : c = buf'
  OBVIOUS
<1>9. PICK o : o = out'
  OBVIOUS
<1>10. PICK e : e = events'
  OBVIOUS
<1>11. PICK t : t = tls'
  OBVIOUS
<1>12. InTurn(ms)
  BY <1>5 DEF FlowInv
<1> QED BY <1>1, <1>6, <1>7, <1>8, <1>9, <1>10, <1>11, <1>12, FlowInvNext

\* A packet that has no part of a message only.
LEMMA EntireIs ==
  ASSUME msgs \in Seq(Messages), NEW p, p \in Seq(Pieces), Numbered(msgs, p), F!Entire(p)
  PROVE  WholeIn(msgs, p)
<1>1. PICK ms \in Seq(Messages) : ms = msgs
  OBVIOUS
<1>2. ASSUME NEW k \in 1 .. Len(p), p[k].part = "line"
      PROVE  /\ Of(ms, p[k]) /\ Size(ms, p[k].msg) <= Len(p) - k + 1
             /\ \A j \in 1 .. Len(p) - k + 1 : j <= Size(ms, p[k].msg) =>
                  p[k + j - 1].msg = p[k].msg /\ Place(ms, p[k + j - 1]) = j /\ Of(ms, p[k + j - 1])
             /\ ms[p[k].msg].kind = "open" => Len(p) - k + 1 = Size(ms, p[k].msg)
  <2>1. PICK i \in 1 .. Len(ms) : i = p[k].msg
    BY <1>1 DEF Numbered
  <2>2. PICK P : P = F!PiecesOf(i, ms[i].kind, ms[i].n)
    OBVIOUS
  <2>3. /\ P \in Seq(Pieces) /\ Len(P) = Size(ms, i) /\ P # <<>>
        /\ \A j \in 1 .. Len(P) : P[j].msg = i /\ Of(ms, P[j]) /\ Place(ms, P[j]) = j
    BY <2>2, SentPieces
  <2>4. Len(p) \in Nat /\ Len(P) \in Nat /\ Len(P) >= 1 /\ DOMAIN p = 1 .. Len(p)
    BY <2>3, LenProperties, EmptySeq
  <2>5. PICK n \in 0 .. Len(p) : n = k - 1
    BY <2>4
  <2>6. PICK r : r = SubSeq(p, n + 1, Len(p))
    OBVIOUS
  <2>7. r \in Seq(Pieces) /\ Len(r) = Len(p) - n /\ \A j \in 1 .. Len(r) : r[j] = p[n + j]
    BY <2>6, Rest
  <2>8. IF ms[i].kind = "open" THEN r = P ELSE F!IsPrefix(P, r)
    <3>1. F!After(p, k - 1) = r
      BY <2>5, <2>6 DEF F!After
    <3>2. F!IsStart(p[k])
      BY <1>2 DEF F!IsStart
    <3> QED BY <1>1, <2>1, <2>2, <2>4, <3>1, <3>2 DEF F!Entire
  <2>9. Len(P) <= Len(r) /\ (\A j \in 1 .. Len(P) : r[j] = P[j]) /\ (ms[i].kind = "open" => Len(r) = Len(P))
    <3>1. CASE ms[i].kind = "open"
      BY <2>4, <2>8, <3>1
    <3>2. CASE ms[i].kind # "open"
      <4>1. Len(P) <= Len(r) /\ SubSeq(P, 1, Len(P)) = SubSeq(r, 1, Len(P))
        BY <2>8, <3>2 DEF F!IsPrefix
      <4>2. PICK z \in Nat : z = Len(P) /\ z <= Len(r)
        BY <2>4, <4>1
      <4>3. \A j \in 1 .. z : SubSeq(P, 0 + 1, z)[j] = P[0 + j]
        BY <2>3, <4>2, PartOf
      <4>4. \A j \in 1 .. z : SubSeq(r, 0 + 1, z)[j] = r[0 + j]
        BY <2>7, <4>2, PartOf
      <4>5. ASSUME NEW j \in 1 .. z PROVE r[j] = P[j]
        <5>1. 0 + 1 = 1 /\ 0 + j = j
          BY <4>2
        <5> QED BY <4>1, <4>2, <4>3, <4>4, <5>1
      <4> QED BY <3>2, <4>1, <4>2, <4>5
    <3> QED BY <3>1, <3>2
  <2>10. ASSUME NEW j \in 1 .. Len(p) - k + 1, j <= Len(P)
         PROVE  p[k + j - 1].msg = i /\ Place(ms, p[k + j - 1]) = j /\ Of(ms, p[k + j - 1])
    <3>1. j \in 1 .. Len(P) /\ j \in 1 .. Len(r) /\ n + j = k + j - 1
      BY <2>4, <2>5, <2>7, <2>10
    <3>2. p[k + j - 1] = P[j]
      BY <2>7, <2>9, <3>1
    <3> QED BY <2>3, <3>1, <3>2
  <2>11. Len(r) = Len(p) - k + 1
    BY <2>4, <2>5, <2>7
  <2>12. Of(ms, p[k])
    <3>1. 1 \in 1 .. Len(p) - k + 1 /\ 1 <= Len(P) /\ k + 1 - 1 = k
      BY <2>4, <2>9, <2>11
    <3>2. Of(ms, p[k + 1 - 1])
      BY <2>10, <3>1
    <3> QED BY <3>1, <3>2
  <2> QED BY <2>1, <2>3, <2>9, <2>10, <2>11, <2>12
<1> QED BY <1>1, <1>2 DEF WholeIn

\* Nor has what is left of it.
LEMMA WholeRest ==
  ASSUME NEW ms, NEW b, b \in Seq(Pieces), WholeIn(ms, b), NEW n, n \in 0 .. Len(b),
         NEW c, c = SubSeq(b, n + 1, Len(b))
  PROVE  WholeIn(ms, c)
<1>1. Len(b) \in Nat /\ c \in Seq(Pieces) /\ Len(c) = Len(b) - n /\ \A k \in 1 .. Len(c) : c[k] = b[n + k]
  BY Rest, LenProperties
<1>2. ASSUME NEW k \in 1 .. Len(c), c[k].part = "line"
      PROVE  /\ Of(ms, c[k]) /\ Size(ms, c[k].msg) <= Len(c) - k + 1
             /\ \A j \in 1 .. Len(c) - k + 1 : j <= Size(ms, c[k].msg) =>
                  c[k + j - 1].msg = c[k].msg /\ Place(ms, c[k + j - 1]) = j /\ Of(ms, c[k + j - 1])
             /\ ms[c[k].msg].kind = "open" => Len(c) - k + 1 = Size(ms, c[k].msg)
  <2>1. PICK l \in 1 .. Len(b) : l = n + k
    BY <1>1
  <2>2. b[l] = c[k] /\ Len(b) - l + 1 = Len(c) - k + 1
    BY <1>1, <2>1
  <2>3. /\ Of(ms, b[l]) /\ Size(ms, b[l].msg) <= Len(b) - l + 1
        /\ \A j \in 1 .. Len(b) - l + 1 : j <= Size(ms, b[l].msg) =>
             b[l + j - 1].msg = b[l].msg /\ Place(ms, b[l + j - 1]) = j /\ Of(ms, b[l + j - 1])
        /\ ms[b[l].msg].kind = "open" => Len(b) - l + 1 = Size(ms, b[l].msg)
    BY <1>2, <2>2 DEF WholeIn
  <2>4. ASSUME NEW j \in 1 .. Len(c) - k + 1 PROVE c[k + j - 1] = b[l + j - 1]
    <3>1. k + j - 1 \in 1 .. Len(c) /\ n + (k + j - 1) = l + j - 1
      BY <1>1, <2>1
    <3> QED BY <1>1, <3>1
  <2> QED BY <2>2, <2>3, <2>4
<1> QED BY <1>2 DEF WholeIn

\* So the message at the front of the buffer is read, and it is all there.
LEMMA WholeReads ==
  ASSUME limit \in Int, msgs \in Seq(Messages), Knowables(msgs), NEW b, b \in Seq(Pieces), WholeIn(msgs, b),
         b # <<>>, b[1].part = "line"
  PROVE  Reads(b) /\ Len(b) \in Nat /\ Size(msgs, b[1].msg) \in Nat /\ Size(msgs, b[1].msg) <= Len(b)
<1>1. Len(b) \in Nat /\ Len(b) >= 1 /\ 1 \in 1 .. Len(b)
  BY LenProperties, EmptySeq
<1>2. /\ Of(msgs, b[1]) /\ Size(msgs, b[1].msg) <= Len(b) - 1 + 1
      /\ \A j \in 1 .. Len(b) - 1 + 1 : j <= Size(msgs, b[1].msg) =>
           b[1 + j - 1].msg = b[1].msg /\ Place(msgs, b[1 + j - 1]) = j /\ Of(msgs, b[1 + j - 1])
      /\ msgs[b[1].msg].kind = "open" => Len(b) - 1 + 1 = Size(msgs, b[1].msg)
  BY <1>1 DEF WholeIn
<1>3. Len(b) - 1 + 1 = Len(b)
  BY <1>1
<1>4. Led(b)
  <2>1. ASSUME NEW k \in 1 .. Len(b), k <= Size(msgs, b[1].msg)
        PROVE  b[k].msg = b[1].msg /\ Place(msgs, b[k]) = k /\ Of(msgs, b[k])
    <3>1. 1 + k - 1 = k /\ k \in 1 .. Len(b) - 1 + 1
      BY <1>1
    <3> QED BY <1>2, <2>1, <3>1
  <2> QED BY <1>2, <2>1 DEF Led
<1>5. b[1].msg \in 1 .. Len(msgs) /\ Size(msgs, b[1].msg) \in Nat
  BY <1>4, LineFront
<1>6. msgs[b[1].msg].kind = "head" => msgs[b[1].msg].n = 0
  BY <1>5 DEF Knowables
<1>7. msgs[b[1].msg].kind = "open" => Len(b) <= Size(msgs, b[1].msg)
  BY <1>1, <1>2, <1>3
<1> QED BY <1>1, <1>2, <1>3, <1>4, <1>5, <1>6, <1>7, ReadsLed

Wholes == {s \in Kept : WholeIn(msgs, s.buf) /\ Begun(msgs, s.events)}

LEMMA WholeTaken ==
  ASSUME limit \in Int, msgs \in Seq(Messages), Cap \in Nat, Knowables(msgs), NEW s, s \in Wholes, F!Parse(s.buf).used # 0
  PROVE  Shorter(s) \in Wholes /\ Len(Shorter(s).buf) < Len(s.buf)
<1>1. s \in Kept /\ WholeIn(msgs, s.buf) /\ Begun(msgs, s.events)
  BY DEF Wholes
<1>2. PICK b \in Seq(Pieces) : b = s.buf
  BY <1>1, TakenIs
<1>3. PICK u \in Nat : u = F!Parse(b).used
  BY <1>1, <1>2, TakenIs
<1>4. PICK v \in Events : v = F!Event(b, F!Parse(b).body)
  BY <1>1, <1>2, TakenIs
<1>5. PICK e \in Seq(Events) : e = s.events
  BY <1>1, TakenIs
<1>6. PICK ms \in Seq(Messages) : ms = msgs
  OBVIOUS
<1>7. /\ b # <<>> /\ b[1].part = "line" /\ v.msg = b[1].msg /\ u # 0 /\ v.body = F!Parse(b).body
      /\ Shorter(s).buf = SubSeq(b, u + 1, Len(b)) /\ Shorter(s).events = Append(e, v)
  BY <1>1, <1>2, <1>3, <1>4, <1>5, TakenIs
<1>8. Reads(b) /\ Len(b) \in Nat
  BY <1>1, <1>2, <1>7, WholeReads
<1>9. u \in 0 .. Len(b) /\ F!IsPrefix(v.body, Shown(ms, v.msg))
  BY <1>3, <1>6, <1>7, <1>8 DEF Reads
<1>10. PICK c : c = SubSeq(b, u + 1, Len(b))
  OBVIOUS
<1>11. WholeIn(ms, c)
  <2>1. WholeIn(ms, b)
    BY <1>1, <1>2, <1>6
  <2> QED BY <1>9, <1>10, <2>1, WholeRest
<1>12. PICK d : d = Append(e, v)
  OBVIOUS
<1>13. Len(d) = Len(e) + 1 /\ Len(e) \in Nat /\ d[Len(e) + 1] = v /\ \A k \in 1 .. Len(e) : d[k] = e[k]
  BY <1>12, AppendProperties, LenProperties
<1>14. Begun(ms, d)
  <2>1. ASSUME NEW k \in 1 .. Len(d) PROVE F!IsPrefix(d[k].body, Shown(ms, d[k].msg))
    <3>1. k \in 1 .. Len(e) \/ k = Len(e) + 1
      BY <1>13
    <3>2. \A j \in 1 .. Len(e) : F!IsPrefix(e[j].body, Shown(ms, e[j].msg))
      BY <1>1, <1>5, <1>6 DEF Begun
    <3> QED BY <1>9, <1>13, <3>1, <3>2
  <2> QED BY <2>1 DEF Begun
<1>15. Shorter(s) \in Kept /\ Len(Shorter(s).buf) < Len(s.buf)
  BY <1>1, TakenTyped
<1> QED BY <1>6, <1>7, <1>10, <1>11, <1>12, <1>14, <1>15 DEF Wholes

\* Packets that have no part of a message only leave none at the front of the buffer.
LEMMA WholeDone ==
  ASSUME limit \in Int, msgs \in Seq(Messages), Cap \in Nat, tls \in BOOLEAN, events \in Seq(Events), Numbered(msgs, events),
         Knowables(msgs), Begun(msgs, events), buf \in Seq(Pieces), buf # <<>> => buf[1].part # "line",
         NEW p, p \in Seq(Pieces), WholeIn(msgs, p),
         NEW b, b \in Seq(Pieces), b = buf \o p, Len(b) <= Cap, Numbered(msgs, b), NEW r, r = F!After_k(b)
  PROVE  Begun(msgs, r.events) /\ (r.buf # <<>> => r.buf[1].part # "line")
<1>1. PICK x : x = [buf |-> b, tls |-> tls, events |-> events]
  OBVIOUS
<1>2. x \in Kept /\ x.buf = b /\ x.events = events
  BY <1>1 DEF Kept, Flows
<1>3. PICK a \in Seq(Pieces) : a = buf
  OBVIOUS
<1>4. CASE a # <<>>
  <2>1. 1 \in 1 .. Len(a) /\ Len(a) \in Nat
    BY <1>4, LenProperties, EmptySeq
  <2>2. b[1] = a[1] /\ b # <<>>
    <3>1. 1 \in 1 .. Len(a) + Len(p) /\ b[1] = a[1] /\ Len(b) = Len(a) + Len(p) /\ Len(p) \in Nat
      BY <1>3, <2>1, ConcatProperties, LenProperties
    <3> QED BY <2>1, <3>1, EmptySeq
  <2>3. b[1].part # "line"
    BY <1>3, <1>4, <2>2
  <2>4. F!Parse(b).used = 0
    BY <2>3, ParseTyped
  <2>5. PICK Z : Z = {x}
    OBVIOUS
  <2>6. Z \subseteq Flows /\ x \in Z /\ \A s \in Z : F!Parse(s.buf).used # 0 => Shorter(s) \in Z /\ Len(Shorter(s).buf) < Len(s.buf)
    BY <1>2, <2>4, <2>5 DEF Kept
  <2>7. r \in Z
    BY <1>1, <2>6, NothingInNothing, LoopEnds
  <2>8. r = x
    BY <2>5, <2>7
  <2> QED BY <1>2, <2>3, <2>8
<1>5. CASE a = <<>>
  <2>1. b = p
    <3>1. \A y \in Seq(Pieces) : <<>> \o y = y
      BY ConcatEmptySeq
    <3> QED BY <1>3, <1>5, <3>1
  <2>2. x \in Wholes /\ Wholes \subseteq Flows
    BY <1>2, <2>1 DEF Wholes, Kept
  <2>3. \A s \in Wholes : F!Parse(s.buf).used # 0 => Shorter(s) \in Wholes /\ Len(Shorter(s).buf) < Len(s.buf)
    BY WholeTaken
  <2>4. r \in Wholes /\ F!Parse(r.buf).used = 0
    BY <1>1, <2>2, <2>3, NothingInNothing, LoopEnds
  <2>5. PICK c \in Seq(Pieces) : c = r.buf
    BY <2>4 DEF Wholes, Kept, Flows
  <2>6. WholeIn(msgs, c) /\ Begun(msgs, r.events) /\ F!Parse(c).used = 0
    BY <2>4, <2>5 DEF Wholes
  <2>7. ASSUME c # <<>>, c[1].part = "line" PROVE FALSE
    <3>1. Reads(c) /\ Len(c) \in Nat /\ Size(msgs, c[1].msg) \in Nat /\ Size(msgs, c[1].msg) <= Len(c)
      BY <2>6, <2>7, WholeReads
    <3>2. Len(c) < Size(msgs, c[1].msg)
      BY <2>6, <3>1 DEF Reads
    <3> QED BY <3>1, <3>2
  <2> QED BY <2>5, <2>6, <2>7
<1> QED BY <1>4, <1>5

LEMMA FlowNext == ASSUME FlowAssumed, FlowInv, [F!Next]_fVars PROVE FlowInv'
<1>1. CASE UNCHANGED fVars
  <2>1. /\ limit' = limit /\ buf' = buf /\ tls' = tls /\ events' = events /\ msgs' = msgs /\ out' = out
        /\ clean' = clean /\ aligned' = aligned /\ wire' = wire /\ strays' = strays
    BY <1>1 DEF fVars
  <2>2. F!InStep' <=> F!InStep
    BY <2>1 DEF F!InStep
  <2>3. FlowTyped'
    BY <2>1 DEF FlowInv, FlowTyped
  <2>4. PICK c : c = buf'
    OBVIOUS
  <2>5. PICK o : o = out'
    OBVIOUS
  <2>6. PICK e : e = events'
    OBVIOUS
  <2>7. PICK t : t = tls'
    OBVIOUS
  <2>8. PICK ms : ms = msgs'
    OBVIOUS
  <2>9. /\ InTurn(ms)
        /\ clean' => /\ Knowables(ms) /\ Waits(ms, c) /\ ReadSoFar(ms, c, o, t, e)
                     /\ aligned' => AtEdge(ms, o)
                     /\ F!InStep' => Complete(ms, c, c \o o, e)
    BY <2>1, <2>2, <2>4, <2>5, <2>6, <2>7, <2>8 DEF FlowInv
  <2> QED BY <2>1, <2>3, <2>4, <2>5, <2>6, <2>7, <2>8, <2>9, FlowInvNext
<1>2. CASE \E kind \in F!Kinds, n \in 0 .. MaxLen : F!Send(kind, n)
  BY <1>2, SendKeeps
<1>3. CASE \E n \in 1 .. MaxPacket : F!Packet(n)
  BY <1>3, PacketKeeps
<1>4. CASE \E n \in 1 .. MaxPacket : F!Lose(n)
  BY <1>4, LoseKeeps
<1>6. CASE \E n \in 1 .. MaxPacket, i \in 0 .. Len(wire) : F!Stray(i, n)
  BY <1>6, StrayKeeps
<1>5. CASE F!Silence
  <2>1. UNCHANGED fVars
    BY <1>5 DEF F!Silence, F!vars, F!flowVars, fVars
  <2> QED BY <1>1, <2>1
<1> QED BY <1>1, <1>2, <1>3, <1>4, <1>5, <1>6 DEF F!Next

\* Parsing looks at nothing but the buffer, the limit and the messages in it.
LEMMA ParseSame ==
  ASSUME limit' = limit, NEW c, c \in Seq(Pieces), \A k \in 1 .. Len(c) : msgs'[c[k].msg] = msgs[c[k].msg]
  PROVE  F!Parse(c)' = F!Parse(c)
<1>1. PICK end : end = F!HeaderEnd(c)
  OBVIOUS
<1>2. F!HeaderEnd(c)' = end
  BY <1>1 DEF F!HeaderEnd, F!SelectInSeq, F!Min
<1>3. end \in 0 .. Len(c) /\ Len(c) \in Nat
  BY <1>1, HeaderEndIs, LenProperties
<1>4. ASSUME NEW kinds PROVE F!Field(c, end, kinds)' = F!Field(c, end, kinds)
  <2> DEFINE T == {k \in 1 .. end : c[k].part = "line" /\ msgs[c[k].msg].kind \in kinds}
             U == {k \in 1 .. end : c[k].part = "line" /\ msgs'[c[k].msg].kind \in kinds}
  <2>1. F!Field(c, end, kinds) = IF T # {} THEN F!Min(T) ELSE 0
    BY DEF F!Field, F!SelectInSubSeq
  <2>2. F!Field(c, end, kinds)' = IF U # {} THEN F!Min(U) ELSE 0
    BY DEF F!Field, F!SelectInSubSeq, F!Min
  <2>3. T = U
    BY <1>3
  <2> QED BY <2>1, <2>2, <2>3
<1>5. CASE c = <<>> \/ end = 0 \/ c[1].part # "line"
  <2>1. F!Parse(c) = F!NoMessage
    BY <1>1, <1>5 DEF F!Parse, F!IsStart
  <2>2. F!Parse(c)' = F!NoMessage
    BY <1>2, <1>5 DEF F!Parse, F!IsStart, F!NoMessage
  <2> QED BY <2>1, <2>2
<1>6. CASE ~ (c = <<>> \/ end = 0 \/ c[1].part # "line")
  <2>1. 1 \in 1 .. Len(c) /\ end \in 1 .. Len(c)
    BY <1>3, <1>6
  <2>2. PICK h : h = F!Field(c, end, {"chunked"})
    OBVIOUS
  <2>3. PICK l : l = F!Field(c, end, {"fixed", "head"})
    OBVIOUS
  <2>4. F!Field(c, end, {"chunked"})' = h /\ F!Field(c, end, {"fixed", "head"})' = l
    BY <1>4, <2>2, <2>3
  <2>5. l # 0 => l \in 1 .. Len(c)
    <3>1. l \in 0 .. end
      BY <2>1, <2>3, FieldIs
    <3> QED BY <1>3, <2>1, <3>1
  <2>6. msgs'[c[1].msg] = msgs[c[1].msg] /\ (l # 0 => msgs'[c[l].msg] = msgs[c[l].msg])
    BY <2>1, <2>5
  <2>7. PICK A : A = F!ChunkedBody(c, end)
    OBVIOUS
  <2>8. F!ChunkedBody(c, end)' = A
    BY <2>7 DEF F!ChunkedBody, F!SelectInSubSeq, F!Min, F!ChunksUsed, F!NoMessage, F!First, F!Least
  <2>9. ASSUME NEW m PROVE F!FixedBody(c, end, m)' = F!FixedBody(c, end, m)
    BY DEF F!FixedBody, F!Complete, F!Least, F!Body, F!NoMessage
  <2>10. PICK O : O = F!OpenBody(c, end)
    OBVIOUS
  <2>11. F!OpenBody(c, end)' = O
    BY <2>10 DEF F!OpenBody, F!Least, F!Body
  <2>12. F!Parse(c) = IF F!NoBody(msgs[c[1].msg].kind) THEN [used |-> end, body |-> <<>>]
                      ELSE IF h # 0 THEN A
                      ELSE IF l # 0 THEN F!FixedBody(c, end, msgs[c[l].msg].n)
                      ELSE O
    BY <1>1, <1>6, <2>2, <2>3, <2>7, <2>10 DEF F!Parse, F!IsStart
  <2>13. PICK g : g = msgs'
    OBVIOUS
  <2>14. F!Parse(c)' = IF F!NoBody(g[c[1].msg].kind) THEN [used |-> end, body |-> <<>>]
                       ELSE IF h # 0 THEN A
                       ELSE IF l # 0 THEN F!FixedBody(c, end, g[c[l].msg].n)'
                       ELSE O
    BY <1>2, <1>6, <2>4, <2>8, <2>11, <2>13 DEF F!Parse, F!IsStart, F!NoBody
  <2> QED BY <2>6, <2>9, <2>12, <2>13, <2>14
<1> QED BY <1>5, <1>6

\* What holds however packets come is the same with more messages.
LEMMA AnyNext ==
  ASSUME limit' = limit, NEW ns, ns = msgs', NEW c, c = buf', c \in Seq(Pieces), NEW e, e = events', F!Parse(c).used = 0,
         \A k \in 1 .. Len(c) : ns[c[k].msg] = msgs[c[k].msg],
         aligned' => Knowables(ns) /\ Begun(ns, e) /\ (c # <<>> => c[1].part # "line")
  PROVE  AnyPackets'
<1>1. F!Parse(c)' = F!Parse(c)
  BY ParseSame
<1>2. \A i : Shown(ns, i)' = Shown(ns, i)
  BY DEF Shown, Upto
<1>3. Begun(ns, e) => Begun(ns, e)'
  BY <1>2 DEF Begun
<1> QED BY <1>1, <1>3 DEF AnyPackets

\* Nothing that could be read is left by a packet.
LEMMA DoneDrained ==
  ASSUME limit \in Int, msgs \in Seq(Messages), Cap \in Nat, tls \in BOOLEAN, events \in Seq(Events), Numbered(msgs, events),
         NEW b, b \in Seq(Pieces), Len(b) <= Cap, Numbered(msgs, b), PacketDone(b), NEW c, c = buf'
  PROVE  F!Parse(c).used = 0
<1>1. CASE F!HelloAt(b) # 0 /\ ~ tls
  BY <1>1, NothingInNothing DEF PacketDone
<1>2. CASE ~ (F!HelloAt(b) # 0 /\ ~ tls)
  <2>1. Kept \subseteq Flows
    BY DEF Kept
  <2>2. [buf |-> b, tls |-> tls, events |-> events] \in Kept
    BY DEF Kept, Flows
  <2>3. \A s \in Kept : F!Parse(s.buf).used # 0 => Shorter(s) \in Kept /\ Len(Shorter(s).buf) < Len(s.buf)
    BY TakenTyped
  <2>4. F!Parse(F!After_k(b).buf).used = 0
    BY <2>1, <2>2, <2>3, NothingInNothing, LoopEnds
  <2> QED BY <1>2, <2>4 DEF PacketDone
<1> QED BY <1>1, <1>2

LEMMA ShownTyped ==
  ASSUME limit \in Int, NEW ms, ms \in Seq(Messages), NEW i, i \in 1 .. Len(ms)
  PROVE  Shown(ms, i) \in Seq(Pieces)
<1>1. ms[i].n \in Nat /\ i \in Nat
  <2>1. ms[i] \in Messages /\ Len(ms) \in Nat
    BY ElementOfSeq, LenProperties
  <2> QED BY <2>1 DEF Messages
<1>2. PICK u \in Nat : u = Upto(ms[i].n)
  BY <1>1, UptoIs
<1>3. Units(i, "chunk", u) \in Seq(Pieces) /\ Units(i, "body", u) \in Seq(Pieces)
  BY <1>1, UnitsAre DEF Parts
<1> QED BY <1>2, <1>3 DEF Shown

\* A packet, in its turn or not.
LEMMA DataAny ==
  ASSUME FlowAssumed, FlowInv, AnyPackets, limit' = limit, msgs' = msgs,
         NEW p, p \in Seq(Pieces), Numbered(msgs, p), aligned' => aligned /\ F!Entire(p),
         NEW b, b \in Seq(Pieces), Len(b) <= Cap, Numbered(msgs, b), PacketDone(b), aligned' => b = buf \o p
  PROVE  AnyPackets'
<1>1. /\ limit \in Int /\ msgs \in Seq(Messages) /\ Cap \in Nat /\ Scan \in Nat \ {0} /\ tls \in BOOLEAN
      /\ events \in Seq(Events) /\ Numbered(msgs, events) /\ buf \in Seq(Pieces)
  BY DEF FlowInv, FlowTyped, FlowAssumed
<1>2. PICK c : c = buf'
  OBVIOUS
<1>3. PICK e : e = events'
  OBVIOUS
<1>4. PICK ms : ms = msgs
  OBVIOUS
<1>5. c \in Seq(Pieces)
  BY <1>1, <1>2, DoneTyped
<1>6. F!Parse(c).used = 0
  BY <1>1, <1>2, DoneDrained
<1>7. ASSUME aligned' PROVE Knowables(ms) /\ Begun(ms, e) /\ (c # <<>> => c[1].part # "line")
  <2>1. /\ Knowables(msgs) /\ Begun(msgs, events) /\ (buf # <<>> => buf[1].part # "line")
        /\ F!Entire(p) /\ b = buf \o p
    BY <1>7 DEF AnyPackets
  <2>2. WholeIn(msgs, p)
    BY <1>1, <2>1, EntireIs
  <2>3. CASE F!HelloAt(b) # 0 /\ ~ tls
    <3>1. PICK z : z = <<>>
      OBVIOUS
    <3>2. PICK d \in Seq(Events) : d = events
      BY <1>1
    <3>3. PICK v : v = [msg |-> b[F!HelloAt(b)].msg, body |-> z]
      OBVIOUS
    <3>4. c = z /\ e = Append(d, v) /\ v.body = z
      BY <1>2, <1>3, <2>3, <3>1, <3>2, <3>3 DEF PacketDone
    <3>5. PICK h : h = F!HelloAt(b)
      OBVIOUS
    <3>6. h \in 1 .. Len(b)
      <4>1. h \in 0 .. Len(b) /\ h # 0 /\ Len(b) \in Nat
        BY <1>1, <2>3, <3>5, HelloAtIs, LenProperties
      <4> QED BY <4>1
    <3>7. v.msg \in 1 .. Len(msgs)
      BY <3>3, <3>5, <3>6 DEF Numbered
    <3>8. F!IsPrefix(z, Shown(ms, v.msg))
      <4>1. PICK y : y = Shown(ms, v.msg)
        OBVIOUS
      <4>2. y \in Seq(Pieces)
        <5>1. PICK i \in 1 .. Len(msgs) : i = v.msg
          BY <3>7
        <5> QED BY <1>1, <1>4, <4>1, <5>1, ShownTyped
      <4>3. Len(z) = 0 /\ Len(y) \in Nat
        BY <3>1, <4>2, LenProperties
      <4>4. SubSeq(z, 1, 0) = <<>> /\ SubSeq(y, 1, 0) = <<>>
        BY SubSeqEmpty
      <4> QED BY <4>1, <4>3, <4>4 DEF F!IsPrefix
    <3>9. v \in Events
      <4>1. z \in Seq(Pieces) /\ v.msg \in Nat
        BY <1>1, <3>1, <3>7, EmptySeq, LenProperties
      <4> QED BY <3>3, <3>4, <4>1 DEF Events
    <3>10. Len(e) = Len(d) + 1 /\ Len(d) \in Nat /\ e[Len(d) + 1] = v /\ \A k \in 1 .. Len(d) : e[k] = d[k]
      BY <3>4, <3>9, AppendProperties, LenProperties
    <3>11. ASSUME NEW k \in 1 .. Len(e) PROVE F!IsPrefix(e[k].body, Shown(ms, e[k].msg))
      <4>1. k \in 1 .. Len(d) \/ k = Len(d) + 1
        BY <3>10
      <4>2. \A j \in 1 .. Len(d) : F!IsPrefix(d[j].body, Shown(ms, d[j].msg))
        BY <1>4, <2>1, <3>2 DEF Begun
      <4> QED BY <3>4, <3>8, <3>10, <4>1, <4>2
    <3>12. Begun(ms, e)
      BY <3>11 DEF Begun
    <3> QED BY <1>4, <2>1, <3>1, <3>4, <3>12
  <2>4. CASE ~ (F!HelloAt(b) # 0 /\ ~ tls)
    <3>1. PICK r : r = F!After_k(b)
      OBVIOUS
    <3>2. c = r.buf /\ e = r.events
      BY <1>2, <1>3, <2>4, <3>1 DEF PacketDone
    <3>3. Begun(msgs, r.events) /\ (r.buf # <<>> => r.buf[1].part # "line")
      BY <1>1, <2>1, <2>2, <3>1, WholeDone
    <3> QED BY <1>4, <2>1, <3>2, <3>3
  <2> QED BY <2>3, <2>4
<1>8. ms = msgs' /\ \A k \in 1 .. Len(c) : ms[c[k].msg] = msgs[c[k].msg]
  BY <1>4
<1> QED BY <1>2, <1>3, <1>5, <1>6, <1>7, <1>8, AnyNext

LEMMA AnyKeeps == ASSUME FlowAssumed, FlowInv, AnyPackets, [F!Next]_fVars PROVE AnyPackets'
<1>1. /\ limit \in Int /\ msgs \in Seq(Messages) /\ events \in Seq(Events) /\ Numbered(msgs, events)
      /\ buf \in Seq(Pieces) /\ Numbered(msgs, buf) /\ FlowTyped
  BY DEF FlowInv, FlowTyped, FlowAssumed
<1>2. ASSUME limit' = limit, msgs' = msgs, buf' = buf, events' = events, aligned' = aligned PROVE AnyPackets'
  <2>1. PICK c \in Seq(Pieces) : c = buf
    BY <1>1
  <2>2. PICK e : e = events
    OBVIOUS
  <2>3. PICK ms : ms = msgs
    OBVIOUS
  <2>4. F!Parse(c).used = 0 /\ (aligned => Knowables(ms) /\ Begun(ms, e) /\ (c # <<>> => c[1].part # "line"))
    BY <2>1, <2>2, <2>3 DEF AnyPackets
  <2>5. c = buf' /\ e = events' /\ ms = msgs' /\ \A k \in 1 .. Len(c) : ms[c[k].msg] = msgs[c[k].msg]
    BY <1>2, <2>1, <2>2, <2>3
  <2> QED BY <1>2, <2>4, <2>5, AnyNext
<1>3. CASE UNCHANGED fVars
  BY <1>2, <1>3 DEF fVars
<1>4. CASE F!Silence
  BY <1>2, <1>4 DEF F!Silence, F!vars, F!flowVars
<1>5. CASE \E n \in 1 .. MaxPacket : F!Lose(n)
  BY <1>2, <1>5 DEF F!Lose, F!flowVars
<1>6. CASE \E n \in 1 .. MaxPacket : F!Packet(n)
  <2>1. PICK n \in 1 .. MaxPacket : F!Packet(n)
    BY <1>6
  <2>2. PICK p : p = SubSeq(out, 1, n)
    OBVIOUS
  <2>3. /\ limit' = limit /\ msgs' = msgs /\ p \in Seq(Pieces) /\ Numbered(msgs, p) /\ (aligned' => aligned /\ F!Entire(p))
        /\ \E b \in Seq(Pieces) : Len(b) <= Cap /\ Numbered(msgs, b) /\ PacketDone(b) /\ (aligned' => b = buf \o p)
    BY <1>1, <2>1, <2>2, PacketIs
  <2>4. PICK b \in Seq(Pieces) : Len(b) <= Cap /\ Numbered(msgs, b) /\ PacketDone(b) /\ (aligned' => b = buf \o p)
    BY <2>3
  <2> QED BY <2>3, <2>4, DataAny
<1>7. CASE \E n \in 1 .. MaxPacket, i \in 0 .. Len(wire) : F!Stray(i, n)
  <2>1. PICK n \in 1 .. MaxPacket, i \in 0 .. Len(wire) : F!Stray(i, n)
    BY <1>7
  <2>2. /\ limit' = limit /\ msgs' = msgs
        /\ \E p \in Seq(Pieces) :
             /\ Numbered(msgs, p)
             /\ aligned' => aligned /\ F!Entire(p)
             /\ \E b \in Seq(Pieces) : Len(b) <= Cap /\ Numbered(msgs, b) /\ PacketDone(b) /\ (aligned' => b = buf \o p)
    BY <1>1, <2>1, StrayIs
  <2>3. PICK p \in Seq(Pieces) :
          /\ Numbered(msgs, p)
          /\ aligned' => aligned /\ F!Entire(p)
          /\ \E b \in Seq(Pieces) : Len(b) <= Cap /\ Numbered(msgs, b) /\ PacketDone(b) /\ (aligned' => b = buf \o p)
    BY <2>2
  <2>4. PICK b \in Seq(Pieces) : Len(b) <= Cap /\ Numbered(msgs, b) /\ PacketDone(b) /\ (aligned' => b = buf \o p)
    BY <2>3
  <2> QED BY <2>2, <2>3, <2>4, DataAny
<1>8. CASE \E kind \in F!Kinds, n \in 0 .. MaxLen : F!Send(kind, n)
  <2>1. PICK kind \in F!Kinds, n \in 0 .. MaxLen : F!Send(kind, n)
    BY <1>8
  <2>2. /\ msgs' = Append(msgs, [kind |-> kind, n |-> n]) /\ limit' = limit /\ buf' = buf /\ events' = events
        /\ aligned' = (aligned /\ F!Knowable(kind, n))
    BY <2>1 DEF F!Send, F!flowVars
  <2>3. PICK c \in Seq(Pieces) : c = buf
    BY <1>1
  <2>4. PICK e \in Seq(Events) : e = events
    BY <1>1
  <2>5. PICK ms \in Seq(Messages) : ms = msgs
    BY <1>1
  <2>6. n \in Nat
    BY DEF FlowAssumed
  <2>7. PICK m \in Messages : m = [kind |-> kind, n |-> n]
    BY <2>6 DEF Messages
  <2>8. PICK ns : ns = Append(ms, m)
    OBVIOUS
  <2>9. /\ Len(ns) = Len(ms) + 1 /\ Len(ms) \in Nat /\ \A i \in 1 .. Len(ms) : ns[i] = ms[i]
    BY <2>8, AnotherMessage
  <2>10. \A k \in 1 .. Len(c) : ns[c[k].msg] = msgs[c[k].msg]
    BY <1>1, <2>3, <2>5, <2>9 DEF Numbered
  <2>11. ASSUME aligned' PROVE Knowables(ns) /\ Begun(ns, e) /\ (c # <<>> => c[1].part # "line")
    <3>1. Knowables(msgs) /\ Begun(ms, e) /\ (c # <<>> => c[1].part # "line") /\ F!Knowable(kind, n)
      BY <2>2, <2>3, <2>4, <2>5, <2>11 DEF AnyPackets
    <3>2. Knowables(ns)
      BY <1>1, <2>5, <2>6, <2>7, <2>8, <3>1, KnowablesGrow
    <3>3. ASSUME NEW j \in 1 .. Len(e) PROVE F!IsPrefix(e[j].body, Shown(ns, e[j].msg))
      <4>1. ns[e[j].msg] = ms[e[j].msg]
        BY <1>1, <2>4, <2>5, <2>9 DEF Numbered
      <4>2. Shown(ns, e[j].msg) = Shown(ms, e[j].msg)
        BY <4>1 DEF Shown
      <4> QED BY <3>1, <4>2 DEF Begun
    <3> QED BY <3>1, <3>2, <3>3 DEF Begun
  <2>12. F!Parse(c).used = 0
    BY <2>3 DEF AnyPackets
  <2>13. ns = msgs' /\ c = buf' /\ e = events'
    BY <2>2, <2>3, <2>4, <2>5, <2>7, <2>8
  <2>14. limit' = limit /\ (aligned' => Knowables(ns) /\ Begun(ns, e) /\ (c # <<>> => c[1].part # "line"))
    BY <2>2, <2>11
  <2> QED BY ONLY <2>3, <2>10, <2>12, <2>13, <2>14, AnyNext
<1> QED BY <1>3, <1>4, <1>5, <1>6, <1>7, <1>8 DEF F!Next

\* What is shown of a body are its first units.
LEMMA FirstUnits ==
  ASSUME NEW i \in Nat, NEW p \in Parts, NEW n \in Nat, NEW l \in Nat
  PROVE  F!First(Units(i, p, n), l) = Units(i, p, F!Least(l, n))
<1>1. PICK m \in Nat : m = F!Least(l, n) /\ m <= n
  BY DEF F!Least
<1>2. PICK u : u = Units(i, p, n)
  OBVIOUS
<1>3. PICK x : x = Units(i, p, m)
  OBVIOUS
<1>4. u \in Seq(Pieces) /\ Len(u) = n /\ \A j \in 1 .. n : u[j] = F!Piece(i, p, j)
  BY <1>2, UnitsAre
<1>5. x \in Seq(Pieces) /\ Len(x) = m /\ \A j \in 1 .. m : x[j] = F!Piece(i, p, j)
  BY <1>3, UnitsAre
<1>6. PICK y : y = F!First(u, l)
  OBVIOUS
<1>7. y \in Seq(Pieces) /\ Len(y) = m /\ \A k \in 1 .. m : y[k] = u[k]
  <2>1. /\ F!First(u, l) \in Seq(Pieces) /\ Len(F!First(u, l)) = F!Least(l, Len(u))
        /\ \A k \in 1 .. F!Least(l, Len(u)) : F!First(u, l)[k] = u[k]
    BY <1>4, FirstIs
  <2>2. F!Least(l, Len(u)) = m
    BY <1>1, <1>4
  <2> QED BY <1>6, <2>1, <2>2
<1>8. \A k \in 1 .. m : y[k] = x[k]
  BY <1>1, <1>4, <1>5, <1>7
<1>9. y = x
  BY <1>5, <1>7, <1>8, SeqEqual
<1> QED BY <1>1, <1>2, <1>3, <1>6, <1>9

LEMMA BodyIs ==
  ASSUME limit \in Int, msgs \in Seq(Messages), NEW i, i \in 1 .. Len(msgs)
  PROVE  F!BodyOf(i) = Shown(msgs, i)
<1>1. PICK m \in Messages : m = msgs[i]
  BY ElementOfSeq
<1>2. m.n \in Nat /\ m.kind \in F!Kinds /\ i \in Nat
  BY <1>1, LenProperties DEF Messages
<1>3. PICK z : z = <<>>
  OBVIOUS
<1>4. z \in Seq(Pieces) /\ Len(z) = 0
  BY <1>3, EmptySeq
<1>5. ASSUME NEW p \in Parts PROVE Units(i, p, 0) = z /\ (limit > 0 => F!First(Units(i, p, m.n), limit) = Units(i, p, F!Least(limit, m.n)))
  <2>1. Units(i, p, 0) \in Seq(Pieces) /\ Len(Units(i, p, 0)) = 0
    BY <1>2, UnitsAre
  <2>2. ASSUME limit > 0 PROVE F!First(Units(i, p, m.n), limit) = Units(i, p, F!Least(limit, m.n))
    <3>1. limit \in Nat
      BY <2>2
    <3> QED BY <1>2, <3>1, FirstUnits
  <2> QED BY <1>3, <2>1, <2>2, EmptySeq
<1>6. ASSUME limit > 0 PROVE F!First(z, limit) = z
  <2>1. limit \in Nat
    BY <1>6
  <2>2. F!First(z, limit) \in Seq(Pieces) /\ Len(F!First(z, limit)) = F!Least(limit, 0)
    BY <1>4, <2>1, FirstIs
  <2>3. F!Least(limit, 0) = 0
    BY <1>6, <2>1 DEF F!Least
  <2> QED BY <1>3, <2>2, <2>3, EmptySeq
<1>7. PICK all : all = CASE m.kind = "chunked" -> Units(i, "chunk", m.n)
                         [] m.kind \in {"fixed", "open"} -> Units(i, "body", m.n)
                         [] OTHER -> z
  OBVIOUS
<1>8. F!BodyOf(i) = CASE limit < 0 -> z [] limit = 0 -> all [] limit > 0 -> F!First(all, limit)
  BY <1>1, <1>3, <1>7 DEF F!BodyOf, Units
<1>9. CASE m.kind = "chunked"
  <2>1. all = Units(i, "chunk", m.n) /\ Shown(msgs, i) = Units(i, "chunk", Upto(m.n))
    BY <1>1, <1>7, <1>9 DEF Shown
  <2>2. "chunk" \in Parts
    BY DEF Parts
  <2> QED BY <1>5, <1>8, <2>1, <2>2 DEF Upto
<1>10. CASE m.kind \in {"fixed", "open"}
  <2>1. all = Units(i, "body", m.n) /\ Shown(msgs, i) = Units(i, "body", Upto(m.n))
    BY <1>1, <1>7, <1>10 DEF Shown
  <2>2. "body" \in Parts
    BY DEF Parts
  <2> QED BY <1>5, <1>8, <2>1, <2>2 DEF Upto
<1>11. CASE m.kind \notin {"fixed", "open", "chunked"}
  <2>1. all = z /\ Shown(msgs, i) = z
    BY <1>1, <1>3, <1>7, <1>11 DEF Shown
  <2> QED BY <1>6, <1>8, <2>1
<1> QED BY <1>9, <1>10, <1>11

\* Of a message whose event is out nothing is on its way but a body that has no end.
Emitted(ms, s, e) ==
  \A j \in 1 .. Len(e), k \in 1 .. Len(s) :
    s[k].msg = e[j].msg => ms[s[k].msg].kind = "open" /\ s[k].part # "blank"

LEMMA EmittedArrived ==
  ASSUME NEW ms, ms \in Seq(Messages), NEW s, s \in Seq(Pieces), Gapless(ms, s), NEW e, e \in Seq(Events), Heads(ms, s, e),
         NEW b, Complete(ms, b, s, e)
  PROVE  Emitted(ms, s, e)
<1> SUFFICES ASSUME NEW j \in 1 .. Len(e), NEW k \in 1 .. Len(s), s[k].msg = e[j].msg
             PROVE  ms[s[k].msg].kind = "open" /\ s[k].part # "blank"
  BY DEF Emitted
<1>1. /\ s[k] \in Pieces /\ Of(ms, s[k]) /\ s[k].msg \in Nat
  <2>1. s[k] \in Pieces /\ Of(ms, s[k])
    BY ElementOfSeq DEF Gapless
  <2> QED BY <2>1 DEF Pieces
<1>2. ASSUME Place(ms, s[1]) = 1 \/ s[1].msg # s[k].msg PROVE FALSE
  <2>1. PICK m \in 1 .. Len(s) : s[m].msg = s[k].msg /\ Place(ms, s[m]) = 1
    BY <1>2, HeadBefore
  <2>2. e[j].msg < s[m].msg
    BY <2>1 DEF Heads
  <2> QED BY <1>1, <2>1, <2>2
<1>3. s # <<>> /\ 1 \in 1 .. Len(s)
  BY LenProperties, EmptySeq
<1>4. s[1].msg = s[k].msg /\ s[1].part = "body" /\ ms[s[1].msg].kind = "open"
  BY <1>2, <1>3 DEF Complete
<1>5. ASSUME s[k].part = "blank" PROVE FALSE
  <2>1. k # 1
    BY <1>4, <1>5
  <2>2. Behind(ms, s, 1, k)
    <3>1. k \in Nat /\ 1 < k
      BY <2>1, LenProperties
    <3> QED BY <1>3, <3>1 DEF Gapless
  <2>3. s[1] \in Pieces /\ Of(ms, s[1])
    BY <1>3, ElementOfSeq DEF Gapless
  <2>4. Place(ms, s[1]) \in Nat /\ Place(ms, s[1]) > 2
    BY <1>4, <2>3 DEF Place, Of, Pieces
  <2>5. Place(ms, s[k]) = 2
    BY <1>1, <1>5, Places
  <2>6. k \in Nat /\ k > 1
    BY <2>1, LenProperties
  <2>7. s[1].msg \in Nat
    BY <2>3 DEF Pieces
  <2> QED BY <1>1, <1>4, <2>2, <2>4, <2>5, <2>6, <2>7 DEF Behind
<1> QED BY <1>4, <1>5

\* A head is followed by an empty line, unless its message is only a record.
LEMMA BlankNext ==
  ASSUME NEW ms, ms \in Seq(Messages), NEW s, s \in Seq(Pieces), Stream(ms, s),
         NEW k, k \in 1 .. Len(s), Place(ms, s[k]) = 1, ms[s[k].msg].kind = "open"
  PROVE  k + 1 \in 1 .. Len(s) /\ s[k + 1] = F!Piece(s[k].msg, "blank", 0)
<1>1. Gapless(ms, s) /\ EndsWhole(ms, s) /\ k \in Nat /\ Len(s) \in Nat
  BY LenProperties DEF Stream
<1>2. s[k] \in Pieces /\ Of(ms, s[k])
  BY <1>1, ElementOfSeq DEF Gapless
<1>3. Size(ms, s[k].msg) \in Nat /\ Size(ms, s[k].msg) > 1
  <2>1. s[k].msg \in 1 .. Len(ms)
    BY <1>2 DEF Of
  <2>2. ms[s[k].msg] \in Messages
    BY <2>1, ElementOfSeq
  <2>3. ms[s[k].msg].n \in Nat
    BY <2>2 DEF Messages
  <2> QED BY <2>3 DEF Size
<1>4. k # Len(s)
  <2>1. s # <<>>
    BY LenProperties, EmptySeq
  <2> QED BY <1>1, <1>3, <2>1 DEF EndsWhole
<1>5. k + 1 \in 1 .. Len(s) /\ k + 1 <= Len(s)
  BY <1>1, <1>4
<1>6. s[k + 1].msg = s[k].msg /\ Place(ms, s[k + 1]) = 1 + 1
  <2>1. IF Place(ms, s[k]) < Size(ms, s[k].msg)
        THEN s[k + 1].msg = s[k].msg /\ Place(ms, s[k + 1]) = Place(ms, s[k]) + 1
        ELSE s[k + 1].msg > s[k].msg /\ Place(ms, s[k + 1]) = 1
    BY <1>1, <1>5, NextPiece
  <2> QED BY <1>3, <2>1
<1>7. PICK p \in Pieces : p = s[k + 1]
  BY <1>5, ElementOfSeq
<1>8. Of(ms, p)
  BY <1>1, <1>5, <1>7 DEF Gapless
<1>9. p.part = "blank"
  <2>1. Place(ms, p) = 2
    BY <1>6, <1>7
  <2> QED BY <1>8, <2>1, Places
<1>10. p.n = 0
  BY <1>8, <1>9 DEF Of
<1>11. p = [msg |-> s[k].msg, part |-> "blank", n |-> 0]
  BY <1>6, <1>7, <1>9, <1>10 DEF Pieces
<1> QED BY <1>5, <1>7, <1>11 DEF F!Piece

\* If the head of a message is still in the stream, not all it waits for has arrived.
Coming(ms, s, o) ==
  \A k \in 1 .. Len(s), i \in 1 .. Len(ms) :
    Place(ms, s[k]) = 1 /\ s[k].msg = i /\ ms[i].kind # "secret" =>
      \E l \in 1 .. Len(o) : o[l].msg = i /\ (ms[i].kind = "open" => o[l] = F!Piece(i, "blank", 0))

LEMMA StillComing ==
  ASSUME NEW ms, ms \in Seq(Messages), InTurn(ms), Knowables(ms), NEW b, b \in Seq(Pieces), NEW o, o \in Seq(Pieces),
         NEW s, s = b \o o, Stream(ms, s), Shut(ms, b, o), Waits(ms, b), NEW e, Complete(ms, b, s, e)
  PROVE  Coming(ms, s, o)
<1> SUFFICES ASSUME NEW k \in 1 .. Len(s), NEW i \in 1 .. Len(ms), Place(ms, s[k]) = 1, i = s[k].msg, ms[i].kind # "secret"
             PROVE  \E l \in 1 .. Len(o) : o[l].msg = i /\ (ms[i].kind = "open" => o[l] = F!Piece(i, "blank", 0))
  BY DEF Coming
<1>1. /\ s \in Seq(Pieces) /\ Len(s) = Len(b) + Len(o) /\ Len(b) \in Nat /\ Len(o) \in Nat
      /\ \A j \in 1 .. Len(b) : s[j] = b[j]
      /\ \A j \in 1 .. Len(o) : s[Len(b) + j] = o[j]
  <2>1. Len(b) \in Nat /\ 0 \in 0 .. Len(b)
    BY LenProperties
  <2> QED BY <2>1, Taking
<1>2. k \in Nat /\ k >= 1 /\ k <= Len(s)
  BY <1>1
<1>3. Gapless(ms, s) /\ EndsWhole(ms, s)
  BY DEF Stream
<1>4. s[k] \in Pieces /\ Of(ms, s[k]) /\ i \in 1 .. Len(ms) /\ Size(ms, i) \in Nat
  <2>1. s[k] \in Pieces /\ Of(ms, s[k])
    BY <1>1, <1>3, ElementOfSeq DEF Gapless
  <2> QED BY <2>1, Places
<1>5. ASSUME NEW j \in 1 .. Len(s), j > Len(b) PROVE j - Len(b) \in 1 .. Len(o) /\ o[j - Len(b)] = s[j]
  <2>1. j - Len(b) \in 1 .. Len(o) /\ j = Len(b) + (j - Len(b))
    BY <1>1, <1>5
  <2>2. s[Len(b) + (j - Len(b))] = o[j - Len(b)]
    BY <1>1, <2>1
  <2> QED BY <2>1, <2>2
<1>6. ASSUME ms[i].kind = "open" PROVE k + 1 \in 1 .. Len(s) /\ s[k + 1] = F!Piece(i, "blank", 0) /\ s[k + 1].msg = i
  <2>1. k + 1 \in 1 .. Len(s) /\ s[k + 1] = F!Piece(i, "blank", 0)
    <3>1. ms[s[k].msg].kind = "open"
      BY <1>6
    <3>2. s \in Seq(Pieces) /\ k \in 1 .. Len(s) /\ Stream(ms, s) /\ ms \in Seq(Messages) /\ Place(ms, s[k]) = 1
      BY <1>1
    <3>3. k + 1 \in 1 .. Len(s) /\ s[k + 1] = F!Piece(s[k].msg, "blank", 0)
      BY ONLY <3>1, <3>2, BlankNext
    <3> QED BY <3>3
  <2> QED BY <2>1 DEF F!Piece
<1>7. CASE k > Len(b)
  <2>1. CASE ms[i].kind = "open"
    <3>1. k + 1 > Len(b)
      BY <1>1, <1>2, <1>7
    <3> QED BY <1>5, <1>6, <2>1, <3>1
  <2>2. CASE ms[i].kind # "open"
    BY <1>5, <1>7, <2>2
  <2> QED BY <2>1, <2>2
<1>8. CASE k <= Len(b)
  <2>1. b # <<>> /\ s # <<>> /\ 1 \in 1 .. Len(b) /\ 1 \in 1 .. Len(s) /\ s[1] = b[1]
    <3>1. Len(b) # 0 /\ Len(s) # 0 /\ 1 \in 1 .. Len(b) /\ 1 \in 1 .. Len(s)
      BY <1>1, <1>2, <1>8
    <3> QED BY <1>1, <3>1
  <2>2. s[1] \in Pieces /\ Of(ms, s[1])
    BY <1>1, <1>3, <2>1, ElementOfSeq DEF Gapless
  <2>3. b[1].part # "hello" /\ (Place(ms, s[1]) = 1 \/ (s[1].part = "body" /\ ms[s[1].msg].kind = "open"))
    BY <2>1 DEF Complete
  <2>4. CASE k = 1
    <3>1. b[1].part = "line"
      <4>1. s[1].part \in {"line", "hello", "secret"}
        BY <2>2, <2>4, Places
      <4>2. s[1].part # "secret"
        BY <2>2, <2>4 DEF Of
      <4> QED BY <2>1, <2>3, <4>1, <4>2
    <3>2. Len(b) < Size(ms, i) /\ (ms[i].kind = "open" => Len(b) = 1)
      BY <2>1, <2>4, <3>1 DEF Waits
    <3>3. CASE ms[i].kind = "open"
      <4>1. k + 1 > Len(b)
        BY <2>4, <3>2, <3>3
      <4> QED BY <1>5, <1>6, <3>3, <4>1
    <3>4. CASE ms[i].kind # "open"
      <4>1. Len(s) # Len(b)
        <5>1. ASSUME Len(s) = Len(b) PROVE FALSE
          <6>1. PICK L \in 1 .. Len(s) : L = Len(s)
            BY <2>1, <1>1
          <6>2. Place(ms, s[L]) = Size(ms, s[L].msg)
            BY <1>3, <2>1, <6>1 DEF EndsWhole
          <6>3. s[L].msg = s[1].msg /\ Place(ms, s[L]) = L
            <7>1. L <= Size(ms, s[1].msg)
              BY <1>1, <1>4, <2>4, <3>2, <5>1, <6>1
            <7>2. /\ ms \in Seq(Messages) /\ s \in Seq(Pieces) /\ Gapless(ms, s) /\ s # <<>> /\ Place(ms, s[1]) = 1
                  /\ L \in 1 .. Len(s)
              BY <1>1, <1>3, <2>1, <2>4
            <7> QED BY ONLY <7>1, <7>2, Foremost
          <6> QED BY <1>1, <1>4, <2>4, <3>2, <5>1, <6>1, <6>2, <6>3
        <5> QED BY <5>1
      <4>2. PICK L \in 1 .. Len(s) : L = Len(b) + 1
        <5>1. Len(b) + 1 \in 1 .. Len(s)
          BY <1>1, <4>1
        <5> QED BY <5>1
      <4>3. s[L].msg = i
        <5>1. L <= Size(ms, s[1].msg)
          BY <1>1, <1>4, <2>4, <3>2, <4>2
        <5> QED BY <1>1, <1>3, <2>1, <2>4, <5>1, Foremost
      <4>4. L > Len(b)
        BY <1>1, <4>2
      <4> QED BY <1>5, <3>4, <4>3, <4>4
    <3> QED BY <3>3, <3>4
  <2>5. CASE k # 1
    <3>1. i > s[1].msg /\ s[1].msg \in 1 .. Len(ms)
      BY <1>1, <1>3, <2>5, InOrder
    <3>2. CASE s[1].part = "body" /\ ms[s[1].msg].kind = "open"
      <4>1. ms[i].kind \notin F!HttpKinds
        BY <1>4, <3>1, <3>2 DEF Knowables
      <4>2. ms[i].kind = "hello"
        <5>1. ms[i] \in Messages
          BY <1>4, ElementOfSeq
        <5> QED BY <4>1, <5>1 DEF Messages, F!Kinds
      <4>3. s[k].part = "hello"
        <5>1. s[k].part \in {"line", "hello", "secret"}
          BY <1>4, Places
        <5> QED BY <1>4, <4>1, <4>2, <5>1 DEF Of
      <4> QED BY <2>5, <4>3, HelloAlone
    <3>3. CASE Place(ms, s[1]) = 1
      <4>1. s[1].part \in {"line", "secret"}
        BY <2>1, <2>2, <2>3, <3>3, Places
      <4>2. CASE s[1].part = "line"
        <5>1. Len(b) < Size(ms, s[1].msg)
          BY <2>1, <4>2 DEF Waits
        <5>2. k <= Size(ms, s[1].msg)
          <6>1. Size(ms, s[1].msg) \in Nat
            BY <2>2, Places
          <6> QED BY <1>1, <1>2, <1>8, <5>1, <6>1
        <5>3. Place(ms, s[k]) = k
          <6>1. /\ ms \in Seq(Messages) /\ s \in Seq(Pieces) /\ Gapless(ms, s) /\ s # <<>> /\ Place(ms, s[1]) = 1
                /\ k \in 1 .. Len(s)
            BY <1>1, <1>3, <2>1, <3>3
          <6> QED BY ONLY <5>2, <6>1, Foremost
        <5> QED BY <2>5, <5>3
      <4>3. CASE s[1].part = "secret"
        <5>1. ms[s[1].msg].kind = "secret"
          BY <2>2, <4>3 DEF Of
        <5>2. ms[s[1].msg].kind \notin F!HttpKinds
          BY <5>1 DEF F!HttpKinds
        <5> QED BY <1>4, <3>1, <5>2 DEF InTurn
      <4> QED BY <4>1, <4>2, <4>3
    <3> QED BY <2>3, <3>2, <3>3
  <2> QED BY <2>4, <2>5
<1>9. k > Len(b) \/ k <= Len(b)
  BY <1>1, <1>2
<1> QED BY <1>7, <1>8, <1>9

LEMMA FlowTypes == ASSUME FlowAssumed, FlowInv PROVE F!TypeOK
<1>1. FlowTyped
  BY DEF FlowInv
<1>2. DOMAIN buf = 1 .. Len(buf) /\ DOMAIN events = 1 .. Len(events) /\ DOMAIN msgs = 1 .. Len(msgs) /\ DOMAIN out = 1 .. Len(out)
      /\ DOMAIN wire = 1 .. Len(wire)
  BY <1>1, LenProperties DEF FlowTyped
<1>3. ASSUME NEW i \in 1 .. Len(msgs) PROVE msgs[i] \in [kind : F!Kinds, n : 0 .. MaxLen]
  <2>1. PICK m \in Messages : m = msgs[i]
    BY <1>1, ElementOfSeq DEF FlowTyped
  <2>2. m.n \in 0 .. MaxLen
    BY <1>1, <2>1 DEF FlowTyped
  <2> QED BY <2>1, <2>2 DEF Messages
<1>4. /\ \A i \in DOMAIN buf : buf[i].msg \in DOMAIN msgs
      /\ \A i \in DOMAIN out : out[i].msg \in DOMAIN msgs
      /\ \A i \in DOMAIN wire : wire[i].msg \in DOMAIN msgs
  BY <1>1, <1>2 DEF FlowTyped, Numbered
<1>5. \A i \in DOMAIN events : events[i].msg \in DOMAIN msgs
  BY <1>1, <1>2 DEF FlowTyped, Numbered
<1>6. limit \in Limits /\ Len(buf) <= Cap /\ {tls, clean, aligned} \subseteq BOOLEAN /\ strays \in 0 .. MaxStray
  BY <1>1 DEF FlowTyped
<1>7. \A i \in DOMAIN msgs : msgs[i] \in [kind : F!Kinds, n : 0 .. MaxLen]
  BY <1>2, <1>3
<1> QED BY <1>4, <1>5, <1>6, <1>7 DEF F!TypeOK

LEMMA FlowUnmixed == ASSUME FlowAssumed, FlowInv, AnyPackets PROVE F!Unmixed
<1>1. PICK e \in Seq(Events) : e = events
  BY DEF FlowInv, FlowTyped
<1>2. limit \in Int /\ msgs \in Seq(Messages) /\ Numbered(msgs, e) /\ Len(e) \in Nat /\ DOMAIN events = 1 .. Len(e)
  BY <1>1, LenProperties DEF FlowInv, FlowTyped, FlowAssumed
<1>3. clean => Heads(msgs, buf \o out, e)
  BY <1>1 DEF FlowInv, ReadSoFar
<1>4. aligned => Begun(msgs, e)
  BY <1>1 DEF AnyPackets
<1>5. ASSUME clean \/ aligned, NEW i \in 1 .. Len(e) PROVE F!IsPrefix(e[i].body, F!BodyOf(e[i].msg))
  <2>1. e[i].msg \in 1 .. Len(msgs)
    BY <1>2 DEF Numbered
  <2>2. F!BodyOf(e[i].msg) = Shown(msgs, e[i].msg)
    <3>1. PICK m \in 1 .. Len(msgs) : m = e[i].msg
      BY <2>1
    <3>2. F!BodyOf(m) = Shown(msgs, m)
      BY <1>2, BodyIs
    <3> QED BY <3>1, <3>2
  <2> QED BY <1>3, <1>4, <1>5, <2>2 DEF Heads, Begun
<1>6. ASSUME clean, NEW i \in 2 .. Len(e) PROVE e[i].msg > e[i - 1].msg
  <2>1. PICK j \in 1 .. Len(e) : j = i - 1 /\ j < i /\ i \in 1 .. Len(e)
    BY <1>2
  <2>2. e[j].msg < e[i].msg
    BY <1>3, <1>6, <2>1 DEF Heads
  <2>3. e[j].msg \in Nat /\ e[i].msg \in Nat
    <3>1. e[j] \in Events /\ e[i] \in Events
      BY <2>1, ElementOfSeq
    <3> QED BY <3>1 DEF Events
  <2> QED BY <2>1, <2>2, <2>3
<1> QED BY <1>1, <1>2, <1>5, <1>6 DEF F!Unmixed

LEMMA FlowWhole == ASSUME FlowAssumed, FlowInv PROVE F!NothingMissing
<1>1. SUFFICES ASSUME clean, F!InStep
               PROVE  /\ {events[i].msg : i \in DOMAIN events} = {i \in DOMAIN msgs : F!Arrived(i)}
                      /\ \A i \in DOMAIN events :
                           msgs[events[i].msg].kind # "open" => events[i].body = F!BodyOf(events[i].msg)
  BY DEF F!NothingMissing
<1>2. PICK ms \in Seq(Messages) : ms = msgs
  BY DEF FlowInv, FlowTyped
<1>3. PICK b \in Seq(Pieces) : b = buf
  BY DEF FlowInv, FlowTyped
<1>4. PICK o \in Seq(Pieces) : o = out
  BY DEF FlowInv, FlowTyped
<1>5. PICK e \in Seq(Events) : e = events
  BY DEF FlowInv, FlowTyped
<1>6. PICK s : s = b \o o
  OBVIOUS
<1>7. /\ limit \in Int /\ Numbered(ms, e) /\ Len(e) \in Nat
      /\ DOMAIN events = 1 .. Len(e) /\ DOMAIN msgs = 1 .. Len(ms) /\ DOMAIN out = 1 .. Len(o)
  BY <1>2, <1>4, <1>5, LenProperties DEF FlowInv, FlowTyped, FlowAssumed
<1>8. /\ InTurn(ms) /\ Knowables(ms) /\ Waits(ms, b) /\ Stream(ms, s) /\ Heads(ms, s, e) /\ Shut(ms, b, o)
      /\ Complete(ms, b, s, e)
  BY <1>1, <1>2, <1>3, <1>4, <1>5, <1>6 DEF FlowInv, ReadSoFar
<1>9. /\ Gapless(ms, s) /\ s \in Seq(Pieces) /\ Len(s) = Len(b) + Len(o) /\ Len(b) \in Nat /\ Len(o) \in Nat
      /\ \A j \in 1 .. Len(o) : s[Len(b) + j] = o[j]
  <2>1. Len(b) \in Nat /\ 0 \in 0 .. Len(b)
    BY LenProperties
  <2> QED BY <1>6, <1>8, <2>1, Taking DEF Stream
<1>10. ASSUME NEW j \in 1 .. Len(e) PROVE e[j].msg \in 1 .. Len(ms) /\ F!Arrived(e[j].msg)
  <2>1. e[j].msg \in 1 .. Len(ms) /\ ms[e[j].msg].kind # "secret"
    BY <1>7, <1>8 DEF Numbered, Heads
  <2>2. ASSUME NEW k \in 1 .. Len(o), o[k].msg = e[j].msg PROVE ms[e[j].msg].kind = "open" /\ o[k].part # "blank"
    <3>1. PICK l \in 1 .. Len(s) : l = Len(b) + k /\ s[l] = o[k]
      <4>1. Len(b) + k \in 1 .. Len(s)
        BY <1>9
      <4> QED BY <1>9, <4>1
    <3>2. s[l].msg = e[j].msg
      BY <2>2, <3>1
    <3>3. ms[s[l].msg].kind = "open" /\ s[l].part # "blank"
      <4>1. Emitted(ms, s, e)
        BY <1>8, <1>9, EmittedArrived
      <4> QED BY <3>2, <4>1 DEF Emitted
    <3> QED BY <2>2, <3>1, <3>3
  <2>3. CASE ms[e[j].msg].kind = "open"
    <3>1. ASSUME NEW k \in 1 .. Len(o), o[k] = F!Piece(e[j].msg, "blank", 0) PROVE FALSE
      <4>1. o[k].msg = e[j].msg /\ o[k].part = "blank"
        BY <3>1 DEF F!Piece
      <4> QED BY <2>2, <4>1
    <3> QED BY <1>2, <1>4, <1>7, <2>1, <2>3, <3>1 DEF F!Arrived
  <2>4. CASE ms[e[j].msg].kind # "open"
    BY <1>2, <1>4, <1>7, <2>1, <2>2, <2>4 DEF F!Arrived
  <2> QED BY <2>1, <2>3, <2>4
<1>11. ASSUME NEW i \in 1 .. Len(ms), F!Arrived(i) PROVE \E j \in 1 .. Len(e) : e[j].msg = i
  <2>1. ms[i].kind # "secret"
    BY <1>2, <1>11 DEF F!Arrived
  <2>2. ASSUME NEW k \in 1 .. Len(s), s[k].msg = i, Place(ms, s[k]) = 1 PROVE FALSE
    <3>1. PICK l \in 1 .. Len(o) : o[l].msg = i /\ (ms[i].kind = "open" => o[l] = F!Piece(i, "blank", 0))
      <4>1. /\ ms \in Seq(Messages) /\ InTurn(ms) /\ Knowables(ms) /\ b \in Seq(Pieces) /\ o \in Seq(Pieces)
            /\ s = b \o o /\ Stream(ms, s) /\ Shut(ms, b, o) /\ Waits(ms, b) /\ Complete(ms, b, s, e)
        BY <1>6, <1>8
      <4>2. Coming(ms, s, o)
        BY ONLY <4>1, StillComing
      <4> QED BY <2>1, <2>2, <4>2 DEF Coming
    <3> QED BY <1>2, <1>4, <1>7, <1>11, <2>1, <3>1 DEF F!Arrived
  <2> QED BY <1>8, <2>1, <2>2 DEF Complete
<1>12. ASSUME NEW j \in 1 .. Len(e), ms[e[j].msg].kind # "open" PROVE e[j].body = F!BodyOf(e[j].msg)
  <2>1. PICK m \in 1 .. Len(ms) : m = e[j].msg
    BY <1>10
  <2>2. F!BodyOf(m) = Shown(ms, m)
    BY <1>2, <1>7, BodyIs
  <2>3. e[j].body = Shown(ms, e[j].msg)
    BY <1>8, <1>12 DEF Complete
  <2> QED BY <2>1, <2>2, <2>3
<1>13. {e[j].msg : j \in 1 .. Len(e)} = {i \in 1 .. Len(ms) : F!Arrived(i)}
  BY <1>10, <1>11
<1>14. {events[i].msg : i \in DOMAIN events} = {i \in DOMAIN msgs : F!Arrived(i)}
  <2>1. {events[i].msg : i \in 1 .. Len(e)} = {i \in 1 .. Len(ms) : F!Arrived(i)}
    BY <1>5, <1>13
  <2>2. DOMAIN events = 1 .. Len(e) /\ DOMAIN msgs = 1 .. Len(ms)
    BY <1>7
  <2> QED BY <2>1, <2>2, Zenon
<1>15. \A i \in DOMAIN events :
         msgs[events[i].msg].kind # "open" => events[i].body = F!BodyOf(events[i].msg)
  <2>1. \A i \in 1 .. Len(e) :
          msgs[events[i].msg].kind # "open" => events[i].body = F!BodyOf(events[i].msg)
    BY <1>2, <1>5, <1>12
  <2>2. DOMAIN events = 1 .. Len(e)
    BY <1>7
  <2> QED BY <2>1, <2>2
<1> QED BY <1>14, <1>15

\* Whatever is sent in packets cut anywhere, and whatever the limit: as long as each comes
\* once and in its turn every event is of one message, shows the beginning of its body and
\* comes in its turn; and if whole bodies are wanted, or packets end with messages, there
\* is an event of every message that has arrived, with all of it that is to be shown.  If
\* no packet has a part of a message only, no event shows what is not of its message
\* though packets are lost, come again or come before their turn; and whatever comes, no
\* message that could be read is left in the buffer (monitor.go, processTCPFlow,
\* bufferAppend and parseHTTPMessage; monitor.c, process_tcp_flow).
THEOREM MessagesUnmixed == F!Spec => []Unmixed
<1>1. F!Init => FlowInv /\ AnyPackets
  <2>1. SUFFICES ASSUME F!Init PROVE FlowInv /\ AnyPackets
    OBVIOUS
  <2>2. FlowInv
    BY <2>1, FlowAssumption, FlowInit
  <2>3. msgs = <<>> /\ buf = <<>> /\ events = <<>>
    BY <2>1 DEF F!Init
  <2>4. Len(<<>>) = 0 /\ \A k \in 1 .. 0 : FALSE
    BY EmptySeq
  <2>5. Knowables(msgs) /\ Begun(msgs, events)
    BY <2>3, <2>4 DEF Knowables, Begun
  <2> QED BY <2>2, <2>3, <2>5, NothingInNothing DEF AnyPackets
<1>2. FlowInv /\ AnyPackets /\ [F!Next]_F!vars => (FlowInv /\ AnyPackets)'
  <2>1. [F!Next]_F!vars => [F!Next]_fVars
    BY DEF F!vars, F!flowVars, fVars
  <2> QED BY <2>1, FlowAssumption, FlowNext, AnyKeeps
<1>3. FlowInv /\ AnyPackets => Unmixed
  BY FlowAssumption, FlowTypes, FlowUnmixed, FlowWhole DEF Unmixed, F!Drained, AnyPackets
<1> QED BY <1>1, <1>2, <1>3, PTL DEF F!Spec
===============================================================================
