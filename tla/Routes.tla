--------------------------------- MODULE Routes ---------------------------------
(***************************************************************************)
(* What the proxies make once and keep: the gateway of a route (app/kwdog2/ *)
(* kwdog.go, app/front2/handler.go: GetProxy, NewProxy) and the certificate *)
(* of a host (z/ze/tlsx/tls.go: GetCert), asked for by many requests at     *)
(* once.                                                                    *)
(***************************************************************************)
EXTENDS Naturals, FiniteSets

CONSTANTS
  Asks,    \* requests and TLS greetings
  Routed,  \* keys of Routers
  Hosts,   \* names of hosts
  Bad      \* the keys that no gateway, and the hosts that no certificate, can be made for

VARIABLES
  routerMap,  \* the gateway of a key; a gateway is named by the request that made it
  lmap,       \* the certificate of a host, named likewise
  svcLock,    \* _svc_lock: its readers and its writer
  lock,       \* TLSAutoConfig.lock: its holder, or none
  writing,    \* who is within a write of lmap
  ask,        \* what each one does: its step, its key, what it got
  cached,     \* the asks that came when what they want was there
  thrown      \* the runtime saw a map read and written at once, and the program ended

routeVars == <<routerMap, lmap, svcLock, lock, writing, ask, cached, thrown>>

None == {}
Empty == [k \in {} |-> {}]
Store(f, k, v) == [j \in DOMAIN f \cup {k} |-> IF j = k THEN v ELSE f[j]]
Get(f, k) == IF k \in DOMAIN f THEN f[k] ELSE None

Init ==
  /\ routerMap = Empty /\ lmap = Empty
  /\ svcLock = [readers |-> {}, writer |-> None] /\ lock = None /\ writing = None
  /\ ask = [a \in Asks |-> [at |-> "new", key |-> "none", got |-> None]]
  /\ cached = {} /\ thrown = FALSE

Goes(a, to) == ask' = [ask EXCEPT ![a].at = to]
Ends(a, what) == ask' = [ask EXCEPT ![a].at = "end", ![a].got = what]
At(a, step) == ~thrown /\ ask[a].at = step

-----------------------------------------------------------------------------
(* The gateway of a route.                                                 *)

\* GetProxy: no map at all is no gateway, seen without the lock.
AskGateway(a, k) ==
  /\ At(a, "new")
  /\ ask' = [ask EXCEPT ![a] = [at |-> IF routerMap = Empty THEN "lock" ELSE "rlock", key |-> k, got |-> None]]
  /\ cached' = IF k \in DOMAIN routerMap THEN cached \cup {a} ELSE cached
  /\ UNCHANGED <<routerMap, lmap, svcLock, lock, writing, thrown>>

RLock(a) ==
  /\ At(a, "rlock") /\ svcLock.writer = None
  /\ svcLock' = [svcLock EXCEPT !.readers = @ \cup {a}] /\ Goes(a, "get")
  /\ UNCHANGED <<routerMap, lmap, lock, writing, cached, thrown>>

Lookup(a) ==
  LET found == Get(routerMap, ask[a].key)
  IN /\ At(a, "get")
     /\ svcLock' = [svcLock EXCEPT !.readers = @ \ {a}]
     /\ IF found = None THEN Goes(a, "lock") ELSE Ends(a, found)
     /\ UNCHANGED <<routerMap, lmap, lock, writing, cached, thrown>>

\* NewProxy: the lock is for the map; who waited for it does not look again.
Lock(a) ==
  /\ At(a, "lock") /\ svcLock.writer = None /\ svcLock.readers = {}
  /\ svcLock' = [svcLock EXCEPT !.writer = {a}] /\ Goes(a, "make")
  /\ UNCHANGED <<routerMap, lmap, lock, writing, cached, thrown>>

\* Mutant: the map is made anew with every gateway.
MapWith_New(k, gateway) == Store(Empty, k, gateway)

\* The map is made with the first gateway.
MapWith(k, gateway) == Store(routerMap, k, gateway)

\* A target that cannot be parsed is answered with 502.
NewProxy(a) ==
  /\ At(a, "make")
  /\ svcLock' = [svcLock EXCEPT !.writer = None]
  /\ IF ask[a].key \in Bad
     THEN Ends(a, None) /\ UNCHANGED routerMap
     ELSE Ends(a, {a}) /\ routerMap' = MapWith(ask[a].key, {a})
  /\ UNCHANGED <<lmap, lock, writing, cached, thrown>>

-----------------------------------------------------------------------------
(* The certificate of a host.                                              *)

\* GetCert looks without the lock. While another one writes, the runtime may
\* find out, and the program ends; else the host is not found, or found without
\* a certificate yet.
AskCert(a, h) ==
  /\ At(a, "new")
  /\ cached' = IF h \in DOMAIN lmap THEN cached \cup {a} ELSE cached
  /\ \/ /\ Get(lmap, h) # None
        /\ ask' = [ask EXCEPT ![a] = [at |-> "end", key |-> h, got |-> lmap[h]]]
        /\ UNCHANGED thrown
     \/ /\ Get(lmap, h) = None \/ writing # None
        /\ ask' = [ask EXCEPT ![a] = [at |-> "mutex", key |-> h, got |-> None]]
        /\ UNCHANGED thrown
     \/ /\ writing # None
        /\ \/ thrown' = TRUE /\ UNCHANGED ask
           \/ ask' = [ask EXCEPT ![a] = [at |-> "end", key |-> h, got |-> None]] /\ UNCHANGED thrown
  /\ UNCHANGED <<routerMap, lmap, svcLock, lock, writing>>

Mutex(a) ==
  /\ At(a, "mutex") /\ lock = None
  /\ lock' = {a} /\ Goes(a, "again")
  /\ UNCHANGED <<routerMap, lmap, svcLock, writing, cached, thrown>>

\* With the lock it looks again.
Again(a) == Get(lmap, ask[a].key)

CreateCE(a) ==
  /\ At(a, "again")
  /\ \/ Again(a) # None /\ Ends(a, Again(a)) /\ lock' = None /\ UNCHANGED writing
     \/ Again(a) = None /\ ask[a].key \in Bad /\ Ends(a, None) /\ lock' = None /\ UNCHANGED writing
     \/ Again(a) = None /\ ask[a].key \notin Bad /\ Goes(a, "store") /\ writing' = {a} /\ UNCHANGED lock
  /\ UNCHANGED <<routerMap, lmap, svcLock, cached, thrown>>

StoreCert(a) ==
  /\ At(a, "store")
  /\ lmap' = Store(lmap, ask[a].key, {a})
  /\ Ends(a, {a}) /\ writing' = None /\ lock' = None
  /\ UNCHANGED <<routerMap, svcLock, cached, thrown>>

-----------------------------------------------------------------------------

Next ==
  \E a \in Asks :
    \/ \E k \in Routed : AskGateway(a, k)
    \/ \E h \in Hosts : AskCert(a, h)
    \/ RLock(a) \/ Lookup(a) \/ Lock(a) \/ NewProxy(a)
    \/ Mutex(a) \/ CreateCE(a) \/ StoreCert(a)

Spec == Init /\ [][Next]_routeVars

-----------------------------------------------------------------------------
(* Properties. *)

Got(a) == ask[a].at = "end" /\ ask[a].got # None

\* All connections to one host are shown the same certificate, whoever asked
\* for it first and however many at once (tls.go, GetCert).
OneCertificate ==
  \A a, b \in {c \in Asks : Got(c) /\ ask[c].key \in Hosts} : ask[a].key = ask[b].key => ask[a].got = ask[b].got

\* A request that comes when the gateway of its route is there uses one that
\* another made; what is kept for a key was made for that key, and is never
\* lost (kwdog.go, GetProxy and NewProxy).
GatewayKept ==
  /\ \A a \in cached : Got(a) => ask[a].got # {a}
  /\ \A k \in DOMAIN routerMap : \A b \in routerMap[k] : ask[b].key = k
  /\ \A a \in {c \in Asks : Got(c) /\ ask[c].key \in Routed} :
       /\ ask[a].key \in DOMAIN routerMap
       /\ \A b \in ask[a].got : ask[b].key = ask[a].key
=============================================================================
