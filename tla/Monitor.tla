-------------------------------- MODULE Monitor --------------------------------
(***************************************************************************)
(* Who sent it?  The eBPF monitor names a process with every message it    *)
(* shows.  Probes in the kernel (app/ebpf/ebpf_capture.c) note the owner   *)
(* of a socket when it connects, is accepted or sends.  The monitor        *)
(* (app/ebpfgo/monitor.go) gets packets later, looks the owner up, falls   *)
(* back to what it read in /proc, which it reads again from time to time,  *)
(* and keeps a table of flows whose two directions lend each other their   *)
(* owner.                                                                  *)
(*                                                                         *)
(* TCP only; what is inside the packets is the matter of HttpFlow, and the *)
(* start and the end of the monitor that of EbpfServer.                    *)
(***************************************************************************)
EXTENDS Integers, SequencesExt

CONSTANTS
  Procs,       \* processes
  Nobody,      \* no process: a pid of 0
  Pairs,       \* <<local, remote>>: the sockets there can be
  AnyPeer,     \* the remote end of a listening socket
  Filters,     \* the values of PIDFilter to look at, Nobody for none
  OwnerCap,    \* max_entries of flow_owner_map
  QueueCap,    \* packets the packet socket holds
  CacheCap,    \* socketCacheMaxItems
  FlowCap,     \* flowStateMaxItems
  Refresh,     \* socketCacheRefresh
  GcEvery,     \* flowGCInterval
  Expire,      \* flowIdleTimeout
  Times,       \* bound: the times at which something happens
  MaxEvents    \* bound: sockets and packets

ASSUME MonitorAssumption ==
  /\ \A pair \in Pairs : pair = <<pair[1], pair[2]>>
  /\ Nobody \notin Procs /\ Filters \subseteq Procs \cup {Nobody}
  /\ {OwnerCap, FlowCap} \subseteq Nat \ {0}
  /\ {QueueCap, CacheCap, Refresh, GcEvery, Expire, MaxEvents} \subseteq Nat
  /\ Times \subseteq Nat \ {0}

VARIABLES
  sockets,   \* every socket there was: who opened it and what it connects
  open,      \* those that are open
  owners,    \* flow_owner_map
  queue,     \* packets in the packet socket
  sent,      \* bound: how many packets there were
  roomy,     \* history: flow_owner_map never dropped an entry
  now,       \* time.Now
  filter,    \* cfg.PIDFilter
  state,     \* "poll", "scan" the processes or read the "tables"
  pkt,       \* the packet of handlePacket, and when that started
  inodes,    \* owners by inode, of rebuildSocketCache
  cache,     \* state.sockets.items
  listeners, \* state.sockets.listenerItems
  refreshed, \* state.sockets.lastRefresh
  flows,     \* state.flows
  lastGc,    \* state.lastGC
  shown      \* the last packet that was processed and the process named with it

monitorVars == <<filter, state, pkt, inodes, cache, listeners, refreshed, flows, lastGc, shown>>
kernelVars == <<sockets, open, owners, queue, sent, roomy>>
cacheVars == <<inodes, cache, listeners, refreshed>>
flowVars == <<flows, lastGc, shown>>
vars == <<kernelVars, now, monitorVars>>

Anyone == Procs \cup {Nobody}
Locals == {pair[1] : pair \in Pairs}
Incoming == 0
Outgoing == 1

\* The open socket of a pair.  At most one.
At(pair) == {i \in open : sockets[i].pair = pair}

\* Partial functions.
Without(f, ks) == [k \in DOMAIN f \ ks |-> f[k]]
With(f, k, v) == [j \in DOMAIN f \cup {k} |-> IF j = k THEN v ELSE f[j]]

\* A flow just made.
Fresh == [pid |-> Nobody, seen |-> 0]

NoPacket == [src |-> AnyPeer, dst |-> AnyPeer, dir |-> Incoming, sock |-> 0, at |-> 0]

Init ==
  /\ sockets = <<>> /\ open = {} /\ owners = <<>>
  /\ queue = <<>> /\ sent = 0 /\ roomy = TRUE
  /\ now \in Times /\ filter \in Filters
  /\ state = "poll" /\ pkt = NoPacket
  /\ inodes = {} /\ cache = <<>> /\ listeners = <<>> /\ refreshed \in {0, now}
  /\ flows = <<>> /\ lastGc = 0
  /\ shown = [pkt |-> NoPacket, pid |-> Nobody]

-----------------------------------------------------------------------------
(* The kernel and its probes.                                              *)

\* Mutant: an entry of an earlier connection stays.
Noted_First(f, pair, p) == IF pair \in DOMAIN f THEN f ELSE With(f, pair, p)

Noted(f, pair, p) == With(f, pair, p)

\* record_socket_owner.  A full map drops another entry, about the least
\* recently used one.
Record(pair, p) ==
  IF pair \in DOMAIN owners \/ Cardinality(DOMAIN owners) < OwnerCap
  THEN owners' = Noted(owners, pair, p) /\ UNCHANGED roomy
  ELSE /\ \E victim \in DOMAIN owners :
            owners' = Noted(Without(owners, {victim}), pair, p)
       /\ roomy' = FALSE

New(pair, p) ==
  /\ Len(sockets) + sent < MaxEvents /\ At(pair) = {}
  /\ sockets' = Append(sockets, [proc |-> p, pair |-> pair])
  /\ open' = open \cup {Len(sockets) + 1}

Listen(p, pair) ==
  /\ pair[2] = AnyPeer
  /\ New(pair, p)
  /\ UNCHANGED <<owners, queue, sent, roomy, now, monitorVars>>

Join(p, pair) ==
  /\ pair[2] # AnyPeer
  /\ New(pair, p)
  /\ Record(pair, p)
  /\ UNCHANGED <<queue, sent, now, monitorVars>>

Listened(port) == At(<<port, AnyPeer>>) # {}

\* track_tcp_connect.
Connect(p, pair) == ~Listened(pair[1]) /\ Join(p, pair)

\* track_tcp_accept: by the process that listens, or one it has forked.
Accept(p, pair) == Listened(pair[1]) /\ Join(p, pair)

CloseSocket(i) ==
  /\ i \in open
  /\ open' = open \ {i}
  /\ UNCHANGED <<sockets, owners, queue, sent, roomy, now, monitorVars>>

Packet(src, dst, dir, i) == [src |-> src, dst |-> dst, dir |-> dir, sock |-> i]

\* What capture_prog takes for something else and what finds the socket full
\* does not come through.
Capture(packets) ==
  /\ Len(sockets) + sent < MaxEvents
  /\ \E kept \in {<<>>, packets} \cup {<<packets[j]>> : j \in DOMAIN packets} :
       Len(queue) + Len(kept) <= QueueCap /\ queue' = queue \o kept
  /\ sent' = sent + 1

\* track_tcp_sendmsg, and the packet.  On the loopback device it is seen twice.
Send(i) ==
  LET pair == sockets[i].pair
      out  == Packet(pair[1], pair[2], Outgoing, i)
      in   == Packet(pair[1], pair[2], Incoming, i) IN
  /\ i \in open /\ pair[2] # AnyPeer
  /\ Record(pair, sockets[i].proc)
  /\ Capture(IF pair[2] \in Locals THEN <<out, in>> ELSE <<out>>)
  /\ UNCHANGED <<sockets, open, now, monitorVars>>

\* From outside, to a socket or to one that is not accepted yet.
Arrive(pair) ==
  /\ pair[2] \notin Locals \cup {AnyPeer}
  /\ At(pair) # {} \/ Listened(pair[1])
  /\ Capture(<<Packet(pair[2], pair[1], Incoming, 0)>>)
  /\ UNCHANGED <<sockets, open, owners, roomy, now, monitorVars>>

Tick ==
  /\ \E t \in Times : t > now /\ now' = t
  /\ UNCHANGED <<kernelVars, monitorVars>>

-----------------------------------------------------------------------------
(* The owner of a packet.                                                  *)

\* The pair of the socket on this machine: flowOwnerLookupKey.
Key(e) == IF e.dir = Outgoing THEN <<e.src, e.dst>> ELSE <<e.dst, e.src>>

\* What a lookup finds, {} if nothing.  An entry without a process counts.
Found(table, key) == IF key \in DOMAIN table THEN {table[key]} ELSE {}

Listener(e, l) == Found(l, <<Key(e)[1], AnyPeer>>)

\* resolvePacketMeta before it reads /proc.
Known(e) ==
  LET owner    == Found(owners, Key(e))
      listener == Listener(e, listeners) \ {Nobody} IN
  IF owner # {} THEN owner
  ELSE IF listener # {} THEN listener
  ELSE Found(cache, Key(e))

\* And after it, with the tables it has then.
Resolve(e, c, l) ==
  IF Found(c, Key(e)) # {} THEN Found(c, Key(e)) ELSE Listener(e, l)

RefreshDue == refreshed = 0 \/ now - refreshed > Refresh

-----------------------------------------------------------------------------
(* The table of flows.                                                     *)

FlowKey(e) == <<e.src, e.dst, e.dir>>
ReverseKey(e) == <<e.dst, e.src, 1 - e.dir>>

\* The oldest.
Victims(f) == {k \in DOMAIN f : \A j \in DOMAIN f : f[k].seen <= f[j].seen}

\* flowGet: what the table may be then.
FlowGet(key) ==
  IF key \in DOMAIN flows
  THEN {flows}
  ELSE IF Cardinality(DOMAIN flows) < FlowCap
  THEN {With(flows, key, Fresh)}
  ELSE {With(Without(flows, {k}), key, Fresh) : k \in Victims(flows)}

\* Mutant: without the difference.
Cutoff_Now(at) == at

Cutoff(at) == at - Expire

\* flowGC.
Cleaned(f, at) ==
  IF lastGc = 0 \/ at - lastGc > GcEvery
  THEN Without(f, {k \in DOMAIN f : f[k].seen < Cutoff(at)})
  ELSE f

\* processTCPFlow, as far as owners go, and the end of handlePacket.
Process(e, pid) ==
  \E table \in FlowGet(FlowKey(e)) :
    LET old   == table[FlowKey(e)]
        flow  == [pid |-> IF pid # Nobody THEN pid ELSE old.pid, seen |-> e.at]
        f     == With(table, FlowKey(e), flow)
        peer  == ReverseKey(e)
        named == IF pid = Nobody /\ peer \in DOMAIN f THEN f[peer].pid ELSE pid IN
    /\ shown' = [pkt |-> e, pid |-> named]
    /\ flows' = Cleaned(f, e.at)
    /\ lastGc' = IF lastGc = 0 \/ e.at - lastGc > GcEvery THEN e.at ELSE lastGc

\* packetMatchesFilters.
Matches(pid) == filter = Nobody \/ pid = filter

Finish(e, pid) ==
  /\ state' = "poll" /\ pkt' = NoPacket
  /\ IF Matches(pid) THEN Process(e, pid) ELSE UNCHANGED flowVars

-----------------------------------------------------------------------------
(* handlePacket.                                                           *)

PidOf(found) == IF found = {} THEN Nobody ELSE CHOOSE p \in found : TRUE

Handle ==
  LET e == [src |-> queue[1].src, dst |-> queue[1].dst, dir |-> queue[1].dir,
            sock |-> queue[1].sock, at |-> now] IN
  /\ state = "poll" /\ queue # <<>>
  /\ queue' = Tail(queue)
  /\ IF Known(e) = {} /\ RefreshDue
     THEN state' = "scan" /\ pkt' = e /\ UNCHANGED flowVars
     ELSE Finish(e, PidOf(IF Known(e) # {} THEN Known(e) ELSE Listener(e, listeners)))
  /\ UNCHANGED <<sockets, open, owners, sent, roomy, now, filter, cacheVars>>

\* buildInodeOwners reads the open files of every process.
ScanProcs ==
  /\ state = "scan"
  /\ inodes' = open
  /\ state' = "tables"
  /\ UNCHANGED <<kernelVars, now, filter, pkt, cache, listeners, refreshed, flowVars>>

\* The processes or one of the tables cannot be read: what is known stays.
ScanFails ==
  /\ state \in {"scan", "tables"}
  /\ inodes' = {}
  /\ Finish(pkt, PidOf(Listener(pkt, listeners)))
  /\ UNCHANGED <<kernelVars, now, filter, cache, listeners, refreshed>>

\* The sockets of the table, with the processes found before.
Owners(items) ==
  [pair \in {sockets[i].pair : i \in items} |->
     LET i == CHOOSE i \in items : sockets[i].pair = pair IN
     IF i \in inodes THEN sockets[i].proc ELSE Nobody]

\* parseProcNetTable: the sockets there are by now.  There is room for some, and
\* for all that listen.
ScanTables ==
  /\ state = "tables"
  /\ \E items \in SUBSET open :
       /\ items = open \/ Cardinality(items) = CacheCap
       /\ Cardinality(items) <= CacheCap
       /\ cache' = Owners(items)
       /\ listeners' = Owners({i \in open : sockets[i].pair[2] = AnyPeer})
       /\ Finish(pkt, PidOf(Resolve(pkt, cache', listeners')))
  /\ inodes' = {} /\ refreshed' = now
  /\ UNCHANGED <<kernelVars, now, filter>>

\* Everybody is silent.
Silence == queue = <<>> /\ state = "poll" /\ UNCHANGED vars

Next ==
  \/ \E p \in Procs, pair \in Pairs :
       Listen(p, pair) \/ Connect(p, pair) \/ Accept(p, pair)
  \/ \E i \in DOMAIN sockets : CloseSocket(i) \/ Send(i)
  \/ \E pair \in Pairs : Arrive(pair)
  \/ Tick
  \/ Handle \/ ScanProcs \/ ScanFails
  \/ ScanTables
  \/ Silence

Spec == Init /\ [][Next]_vars

-----------------------------------------------------------------------------
(* Properties. *)

TypeOK ==
  /\ \A i \in DOMAIN sockets : sockets[i] \in [proc : Procs, pair : Pairs]
  /\ open \subseteq DOMAIN sockets /\ inodes \subseteq DOMAIN sockets
  /\ DOMAIN owners \subseteq Pairs /\ Cardinality(DOMAIN owners) <= OwnerCap
  /\ DOMAIN cache \subseteq Pairs /\ Cardinality(DOMAIN cache) <= CacheCap
  /\ Len(queue) <= QueueCap
  /\ state \in {"poll", "scan", "tables"}
  /\ Cardinality(DOMAIN flows) <= FlowCap
  /\ \A k \in DOMAIN flows : flows[k].pid \in Anyone /\ flows[k].seen \in 0 .. now
  /\ {refreshed, lastGc} \subseteq 0 .. now
  /\ shown.pid \in Anyone

\* A process is only named if it once had a socket with the port on this machine,
\* whichever way the packet goes and whatever closes, opens or is read meanwhile;
\* and, also if the name is that of the other direction, only the one asked for.
Blamed ==
  shown.pid # Nobody =>
    /\ filter \in {Nobody, shown.pid}
    /\ \E i \in DOMAIN sockets :
         sockets[i].proc = shown.pid /\ sockets[i].pair[1] = Key(shown.pkt)[1]

\* As long as the map of owners has room, a packet that goes out is named after
\* its sender or after one who used the ends later, while the packet waited: never
\* after nobody or one who used them before.
NotEarlier ==
  shown.pkt.sock # 0 /\ shown.pkt.dir = Outgoing /\ roomy =>
    \E i \in shown.pkt.sock .. Len(sockets) :
      /\ sockets[i].proc = shown.pid
      /\ sockets[i].pair = Key(shown.pkt)

\* A process is only blamed for what its own sockets sent, and for nothing before it
\* had them (monitor.go, resolvePacketMeta and processTCPFlow), in every state of the
\* types the code can be in.
Accounted == TypeOK /\ Blamed /\ NotEarlier

\* A flow only leaves the table if it was not seen for a while, or as one of the
\* oldest of a full table.
FlowsKeptStep ==
  \A k \in DOMAIN flows \ DOMAIN flows' :
    \/ /\ Cardinality(DOMAIN flows) = FlowCap
       /\ \A j \in DOMAIN flows : flows[j].seen >= flows[k].seen
    \/ now - flows[k].seen > Expire

FlowsKept == [][FlowsKeptStep]_vars
=============================================================================
