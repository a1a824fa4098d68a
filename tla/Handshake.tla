------------------------------- MODULE Handshake -------------------------------
(***************************************************************************)
(* The opening handshake of a WebSocket between the Dialer (z/ze/wsg/       *)
(* client.go, proxy.go) and the Upgrader (server.go): what both settle on,  *)
(* and what becomes of the connection when a step fails, is late or is      *)
(* canceled.                                                                *)
(*                                                                         *)
(* A dial goes through functions wrapped around each other: connect, greet  *)
(* with TLS whom it is connected to (netDialWithTLSHandshake), set the      *)
(* deadline (netDialWithDeadline), ask the proxy (httpProxyDialer); only    *)
(* then has DialContext the connection.  Each of them closes it when it     *)
(* fails, by itself; DialContext has a deferred function for that, and so   *)
(* has Upgrade.                                                             *)
(***************************************************************************)
EXTENDS Naturals, SequencesExt

CONSTANT Protocols  \* the subprotocols

VARIABLES
  dialer,    \* Dialer, and the header it is given
  upgrader,  \* Upgrader, and the header it is given
  client,    \* where the dial is
  server,    \* where Upgrade is
  cconn,     \* the client's connection: "none", "open", "closed"
  sconn,     \* the server's: "none", "http" until it is hijacked, "open", "closed"
  netConn,   \* the sides whose deferred function has a netConn to close
  limited,   \* the sides whose connection has a deadline
  settled,   \* what the Conn of each side is to use, or Nothing
  request,   \* on the wire, or None
  answer,    \* on the wire, or None
  late,      \* HandshakeTimeout has passed
  silent     \* the server, or the proxy, does not answer any more

ends == <<dialer, upgrader>>
wire == <<request, answer, silent>>
hsVars == <<ends, client, server, cconn, sconn, netConn, limited, settled, wire, late>>

None == [kind |-> "none"]
Nothing == [protocol |-> "?", compress |-> FALSE]
Orders == {s \in UNION {[1 .. n -> Protocols] : n \in 0 .. 2} : \A i, j \in DOMAIN s : s[i] = s[j] => i = j}

\* Subprotocols, or one in requestHeader; a header that Dial sets itself is an
\* error; the Origin is that of the server, or none, or another one.  HandshakeTimeout
\* is not 0 (45 s unless the application says otherwise).
Dialers == [protocols : Orders, compress : BOOLEAN, tls : BOOLEAN, proxy : {"", "http", "https"},
            duplicate : BOOLEAN, foreign : BOOLEAN]

\* Subprotocols may be nil, and then the application may choose in the header.
Upgraders == [protocols : SUBSET Protocols, isNil : BOOLEAN, chosen : {""} \cup Protocols, compress : BOOLEAN,
              extensions : BOOLEAN, timeout : BOOLEAN]

Init ==
  /\ dialer \in {d \in Dialers : d.duplicate \/ d.foreign => d.protocols = <<>> /\ ~d.compress /\ ~(d.duplicate /\ d.foreign)}
  /\ upgrader \in {u \in Upgraders : (u.isNil => u.protocols = {}) /\ (~u.isNil => u.chosen = "")
                                     /\ (u.extensions => u.isNil /\ u.compress)}
  /\ client = "start" /\ server = "waits"
  /\ cconn = "none" /\ sconn = "none"
  /\ netConn = {} /\ limited = {} /\ settled = [side \in {"client", "server"} |-> Nothing]
  /\ request = None /\ answer = None /\ late = FALSE /\ silent = FALSE

-----------------------------------------------------------------------------
(* The client.                                                             *)

\* Connecting and TLS end with the context, reads and writes with the deadline.
InContext == ~late /\ ~silent
Writable == ~(late /\ "client" \in limited)
Readable == Writable /\ ~silent

\* The connection is DialContext's now; a server that uses TLS is greeted through a
\* proxy only here.
Given ==
  /\ client' = IF dialer.proxy # "" /\ dialer.tls THEN "tls" ELSE "write"
  /\ netConn' = netConn \cup {"client"}

\* The header is put together; one that Dial sets itself must not be given.
Prepare ==
  /\ client = "start"
  /\ client' = IF dialer.duplicate THEN "failed" ELSE "dial"
  /\ UNCHANGED <<ends, server, cconn, sconn, netConn, limited, settled, wire, late>>

\* netDialFromURL: to the proxy, if there is one, or to the server.
Connect ==
  /\ client = "dial" /\ InContext
  /\ client' = IF dialer.proxy = "https" \/ (dialer.proxy = "" /\ dialer.tls) THEN "greet" ELSE "limit"
  /\ cconn' = "open"
  /\ UNCHANGED <<ends, server, sconn, netConn, limited, settled, wire, late>>

\* netDialWithTLSHandshake.
Greet ==
  /\ client = "greet" /\ InContext
  /\ client' = "limit"
  /\ UNCHANGED <<ends, server, cconn, sconn, netConn, limited, settled, wire, late>>

\* Mutant: the deadline is only that of a direct connection.
Limited_Direct == IF dialer.proxy = "" THEN {"client"} ELSE {}

Limited == {"client"}

\* netDialWithDeadline, for whatever connection is dialed.
Limit ==
  /\ client = "limit"
  /\ limited' = limited \cup Limited
  /\ IF dialer.proxy = "" THEN Given ELSE client' = "connect" /\ UNCHANGED netConn
  /\ UNCHANGED <<ends, server, cconn, sconn, settled, wire, late>>

\* httpProxyDialer writes CONNECT and reads a 200.
Ask ==
  /\ client = "connect" /\ Writable
  /\ client' = "answer"
  /\ UNCHANGED <<ends, server, cconn, sconn, netConn, limited, settled, wire, late>>

Proxied ==
  /\ client = "answer" /\ Readable
  /\ Given
  /\ UNCHANGED <<ends, server, cconn, sconn, limited, settled, wire, late>>

doHandshake ==
  /\ client = "tls" /\ InContext
  /\ client' = "write"
  /\ UNCHANGED <<ends, server, cconn, sconn, netConn, limited, settled, wire, late>>

WriteRequest ==
  /\ client = "write" /\ Writable
  /\ client' = "read"
  /\ request' = [kind |-> "request", protocols |-> dialer.protocols, compress |-> dialer.compress,
                 foreign |-> dialer.foreign]
  /\ sconn' = "http"
  /\ UNCHANGED <<ends, server, cconn, netConn, limited, settled, answer, silent, late>>

\* The settings are those of the answer.
ReadAnswer ==
  /\ client = "read" /\ answer.kind = "101" /\ Writable
  /\ client' = "clear"
  /\ settled' = [settled EXCEPT !["client"] = [protocol |-> answer.protocol, compress |-> answer.compress]]
  /\ UNCHANGED <<ends, server, cconn, sconn, netConn, limited, wire, late>>

\* The deadline is taken off, also one that has passed, and netConn is nil.
Return ==
  /\ client = "clear"
  /\ client' = "done"
  /\ limited' = limited \ {"client"}
  /\ netConn' = netConn \ {"client"}
  /\ UNCHANGED <<ends, server, cconn, sconn, settled, wire, late>>

-----------------------------------------------------------------------------
(* The errors of the client: no route, a reset, a certificate, a refusal,   *)
(* the end of the context or of the deadline.                               *)

Fails(conn) ==
  /\ client' = "failed"
  /\ cconn' = conn
  /\ UNCHANGED <<ends, server, sconn, netConn, limited, settled, wire, late>>

ConnectFails == client = "dial" /\ Fails(cconn)

\* Mutant: who is not greeted well is left to himself.
GreetFails_Kept == client = "greet" /\ Fails(cconn)

GreetFails == client = "greet" /\ Fails("closed")
LimitFails == client = "limit" /\ Fails("closed")
AskFails == client = "connect" /\ Fails("closed")

\* No answer, or one that is not 200.
Unproxied == client = "answer" /\ Fails("closed")

\* The deferred function of DialContext.  Whoever answers anything but the right 101
\* gives ErrBadHandshake.
DialFails ==
  /\ client \in {"tls", "write", "read", "clear"}
  /\ Fails(IF "client" \in netConn THEN "closed" ELSE cconn)

Errors == ConnectFails \/ GreetFails \/ LimitFails \/ AskFails \/ Unproxied \/ DialFails

TimedOut ==
  /\ late
  /\ client \in {"dial", "greet", "tls"} \/ (client \in {"connect", "answer", "write", "read"} /\ ~Writable)
  /\ Errors

BadAnswer == client = "read" /\ answer.kind \in {"403", "500"} /\ DialFails

Expire ==
  /\ client \notin {"start", "failed"} /\ ~late
  /\ late' = TRUE
  /\ UNCHANGED <<ends, client, server, cconn, sconn, netConn, limited, settled, wire>>

-----------------------------------------------------------------------------
(* The server.                                                             *)

\* The first that the client names and the server has; without a list what the
\* application says.
selectSubprotocol(r) ==
  LET both == {i \in DOMAIN r.protocols : r.protocols[i] \in upgrader.protocols}
  IN IF upgrader.isNil THEN upgrader.chosen
     ELSE IF both = {} THEN "" ELSE r.protocols[CHOOSE i \in both : \A j \in both : i <= j]

CheckOrigin(r) == ~r.foreign

Negotiated(r) == upgrader.compress /\ r.compress

\* A refusal is an answer like any other, and the HTTP server goes on.
Refuse ==
  /\ server = "waits" /\ request.kind = "request"
  /\ upgrader.extensions \/ ~CheckOrigin(request)
  /\ server' = "refused"
  /\ answer' = [kind |-> IF upgrader.extensions THEN "500" ELSE "403"]
  /\ UNCHANGED <<ends, client, cconn, sconn, netConn, limited, settled, request, silent, late>>

Hijack ==
  /\ server = "waits" /\ request.kind = "request"
  /\ ~upgrader.extensions /\ CheckOrigin(request)
  /\ server' = "limit" /\ sconn' = "open"
  /\ netConn' = netConn \cup {"server"}
  /\ settled' = [settled EXCEPT !["server"] = [protocol |-> selectSubprotocol(request), compress |-> Negotiated(request)]]
  /\ UNCHANGED <<ends, client, cconn, limited, wire, late>>

HijackFails ==
  /\ server = "waits" /\ request.kind = "request"
  /\ ~upgrader.extensions /\ CheckOrigin(request)
  /\ server' = "refused" /\ answer' = [kind |-> "500"]
  /\ UNCHANGED <<ends, client, cconn, sconn, netConn, limited, settled, request, silent, late>>

\* A deadline for the answer; without a timeout whatever the HTTP server set is cleared.
LimitAnswer ==
  /\ server = "limit"
  /\ server' = "write"
  /\ limited' = IF upgrader.timeout THEN limited \cup {"server"} ELSE limited \ {"server"}
  /\ UNCHANGED <<ends, client, cconn, sconn, netConn, settled, wire, late>>

\* What the Conn uses is what the answer says.
WriteAnswer ==
  /\ server = "write"
  /\ answer' = [kind |-> "101", protocol |-> settled["server"].protocol, compress |-> settled["server"].compress]
  /\ IF upgrader.timeout
     THEN server' = "clear" /\ UNCHANGED netConn
     ELSE server' = "done" /\ netConn' = netConn \ {"server"}
  /\ UNCHANGED <<ends, client, cconn, sconn, limited, settled, request, silent, late>>

ClearLimit ==
  /\ server = "clear"
  /\ server' = "done"
  /\ limited' = limited \ {"server"}
  /\ netConn' = netConn \ {"server"}
  /\ UNCHANGED <<ends, client, cconn, sconn, settled, wire, late>>

\* A deadline cannot be set or cleared, or the answer not be written; by the last of
\* these the client may have read it.
UpgradeFails ==
  /\ server \in {"limit", "write", "clear"}
  /\ server' = "failed"
  /\ sconn' = IF "server" \in netConn THEN "closed" ELSE sconn
  /\ UNCHANGED <<ends, client, cconn, netConn, limited, settled, wire, late>>

\* The other side may stop to answer.
Silence ==
  /\ ~silent /\ silent' = TRUE
  /\ UNCHANGED <<ends, client, server, cconn, sconn, netConn, limited, settled, request, answer, late>>

ClientStep ==
  \/ Prepare \/ Connect \/ Greet \/ Limit \/ Ask \/ Proxied \/ doHandshake
  \/ WriteRequest \/ ReadAnswer \/ Return \/ BadAnswer \/ TimedOut
ServerStep == Refuse \/ Hijack \/ HijackFails \/ LimitAnswer \/ WriteAnswer \/ ClearLimit \/ UpgradeFails
Next == ClientStep \/ Errors \/ Expire \/ (~silent /\ ServerStep) \/ Silence

Spec == Init /\ [][Next]_hsVars

\* Dial goes on while it can, and time does; the server need not.
Fairness == WF_hsVars(ClientStep) /\ WF_hsVars(Expire)

-----------------------------------------------------------------------------
(* Properties. *)

\* When Dial returns a connection it is open and without the deadline of the handshake,
\* and Upgrade has its end, unless it failed behind its answer; both use the same
\* subprotocol, that was asked for or chosen by the application, and compression both
\* or neither, and only if both wanted it.
BothAgree ==
  /\ client = "done" =>
       /\ cconn = "open" /\ "client" \notin limited
       /\ (server \in {"clear", "done"} /\ sconn = "open") \/ server = "failed"
       /\ settled["client"] = settled["server"]
       /\ settled["client"].protocol \in {"", upgrader.chosen} \cup Range(dialer.protocols)
       /\ settled["client"].compress => dialer.compress /\ upgrader.compress
  /\ server = "done" => sconn = "open" /\ "server" \notin limited

\* Whoever fails leaves no connection open, in whichever function it fails; one that
\* was not hijacked stays the HTTP server's.
FailureCloses ==
  /\ client = "failed" => cconn # "open"
  /\ server = "failed" => sconn = "closed"
  /\ server = "refused" => sconn = "http"

\* With a timeout Dial returns, whatever the server and the proxy do.
DialReturns == <>(client \in {"done", "failed"})
=============================================================================
