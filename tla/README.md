# Verification of zgg

TLA+ models of the parts of `zgg` whose correctness depends on the order in
which things happen, model-checked with TLC, and theorems about them checked
with TLAPS. Line numbers refer to the files under `src/`.

## 1. The system

`zgg` is a Go toolbox for small services: a program is assembled from *options*
that register themselves (`z.Register`), start in the order of their keys, may
add servers, and are closed in reverse. On top of that runtime sit a reverse
proxy with request records, a log collector, WebSocket handlers, a process
supervisor, routers, a configuration reader and an SQL mapper.

| Component | Source | State | Operations | Modelled by |
|---|---|---|---|---|
| program lifecycle | `z/zgg.go`, `z/zgc.go` | options, `Servers`, `Closeds`, `_abort` | Register, ServeInit, RunServe, WaitFor, ServeStop | `Zgg` |
| service kit | `z/zgg.go`, `z/zgc.go` | routes; contexts of requests; services by name and by type; templates | AddRouter, ServeHTTP, TokenAuth, JSON..., Clear, Clone; Set, Get, Inj; Load, Render | `Service`, `Registry` |
| process controller | `z/ze/proc` | state, cmd, done under `mu` | Start, Serve, Stop, Wait, Restart, the waiting function, the goroutine of Stop | `Process`, `Supervisor` |
| rolling log files | `z/ze/log/file` | map of files; per file: key, index, handle, timer | Write, Writex, `_check`, `_close`, Close | `LogStore` |
| log collector | `app/kwlog2` | none of its own | AddRecord, record | `LogStore` (the posts) |
| WebSocket handlers | `z/ze/wsz` | `Clients`; per connection a reader, `msgc`, a context | ServeHTTP of Handler0/Handler1, ServeConn, sender | `WsHandler` |
| WebSocket connection | `z/ze/wsg` | `mu`, `writeErr`, the open writer, the fields of the frame being read; the connections of a handshake; prepared frames | NextWriter, Write, Close, WriteMessage, WriteControl, NextReader, Read, `advanceFrame`; DialContext, Upgrade; `frame` | `WsConn`, `Handshake`, `WsCodec` |
| gateway and records | `z/ze/gtw` (`gateway.go`, `record*.go`, `authorizer.go`) | pool of records, `_abort` | ServeHTTP, `_track`, `_recycle`, Get/Put | `GwRecord` |
| reverse proxy | `z/ze/gtw/reverse.go`, `abright.go`, `forward.go` | header, latency writer, upgraded connection | ServeHTTP, Got1xxResponse, `delayedFlush`, copiers; rewriting | `Reverse`, `Forward` |
| route proxies | `app/kwdog2/kwdog.go`, `app/front2/handler.go` | gateways by route, a lock | GetProxy, NewProxy | `Routes` |
| certificates | `z/ze/tlsx` | certificates by name, a lock | GetCert | `Routes` |
| passthrough by SNI | `app/kwdog2/kwcat.go` | listener, semaphore, connections | RunServe, handle, Shutdown | `Kwcat`, and as a server of `Zgg` |
| supervised monitor | `app/kwdog2/kwbee.go` | a process controller | RunServe, Shutdown | as a server of `Zgg` |
| front end server | `app/front2` | routes by length, roots, files known at the start | ServeHTTP, actions, IndexWithTRY, IndexWithCHG | `Front` |
| routers | `z/ze/rdx`, `z/ze/rde` | a radix tree for each method | Handle (addRoute), ServeHTTP (getValue, redirects, 405) | `Rdx` |
| SQL mapping | `z/ze/sqlx` | a transaction, its cursors | WithTx, DscWithTx, Exec, Select; ksql templates, named and list arguments | `SqlTx`, `Ksql` |
| eBPF monitor in Go | `app/ebpfgo` | kernel: owners of sockets; user space: cache of `/proc`, table of flows, a buffer per flow; socket, probes | probes, handlePacket, rebuildSocketCache, processTCPFlow, parseHTTPMessage, flowGC; RunServe, Shutdown | `Monitor`, `HttpFlow`, `EbpfServer` |
| eBPF monitor | `app/ebpf` | the same, one thread | as above, without a server | the same modules |
| syslog writer | `z/ze/log/syslog` | connection | dial, write, close | not modelled |
| configuration | `z/zc` | none shared | parse, bind, tags | not modelled |
| gateway extensions | `z/ze/gte` | none | formatting, remote authorizers | not modelled |

### How the parts interact

* `Zgg` is the frame: every other part is started by an option that it runs, as
  a server (`Server.RunServe`, in a goroutine of its own) or as a module with a
  `Closed` function. The calls back into a part are `Shutdown(ctx)` and
  `Closed()`; both happen in the main goroutine, beside the goroutines of the
  servers and of their requests.
* The supervised monitor owns a process controller: its `RunServe` is
  `Process.Serve`, its `Shutdown` is `Process.Stop`.
* The log collector and the program's own log are the two users of
  `RollingFile`: the first through a `Writer` that keys one file per source, the
  second through a single `lAppLog` whose key is the date.
* A gateway request takes a record from the pool; its log is written by a
  goroutine that outlives the request and gives the record back.
* The monitor is a program of its own, which the supervisor starts. Its two halves
  meet in a BPF map that the probes write and user space reads when it comes to
  a packet, and in the packet socket, which loses what it has no room for.
* A WebSocket connection is two goroutines and a channel; the application sees
  it through a hook stored in the shared map `Clients`.

### What is hard here

Nothing of this shows in a sequential test: a timer callback that shares
fields with the writer but not its lock (`logger.go:215`); a lock that is given
up before a system call and a state that is restored after it
(`process.go:168`); a map entry that is deleted by key, whoever it belongs to
by now (`native.go:74`, `writer.go:45`); a pooled object that two goroutines
use (`record_fn.go:80`); one deadline for all servers, and modules that are
closed after it (`zgg.go:187`); a timer that flushes a response whose handler
may be over (`reverse.go:631`); a shutdown that closes a descriptor somebody
still reads from (`server.go:161`); the owner of a packet, looked up when the
socket it came from may belong to somebody else (`monitor.go:453`); and, without
any concurrency, trees, templates and header lists whose meaning must not
depend on the order they were built or written in. `PROJECT.json` lists each such place.

## 2. The modules

The modules of the core have a model-checking companion `MC<Module>` each, which
gives TLC its constants. The others are checked in three groups: `MCGateway`
(`Forward`, `Reverse`, `Routes`, `GwRecord`, `Registry`, `SqlTx`), `MCSockets` (`Handshake`, `WsCodec`,
`Kwcat`, `EbpfServer`, `HttpFlow`) and `MCServices` (`Rdx`, `Front`, `Service`, `Ksql`).
The components of a group share no state in the code, so interleaving them would only multiply states: the variable `part` says which one
a behaviour is about, and the others stay as they began. A group has
one instance of each module and one property for each question, a conjunction
of the named properties of the modules; these are where the meaning is. The instance of `HttpFlow` and its
property are in a module `FlowPart` of their own, which `MCSockets` extends, so that they can be proved about
without the rest of the group; those of `Front` and `Service` are in `HttpParts`, which `MCServices` extends.

**`Process`** - `z/ze/proc/process.go`, whole. A *generation* is one
successful `enforce()`: an `exec.Cmd`, a `done` channel and a waiting function.
`cmd` and `done` hold its number, 0 for nil. A critical section of `p.mu` is
one action (`StopBegins`, `MarkStopped`, `Launch`, ...); what happens between
two sections - `Getpgid`, `kill`, the `select` of Wait and that of the goroutine
Stop leaves behind - are actions of their own, so that callers, waiting
functions, goroutines and the kernel interleave freely. The kernel side: the
child is alive, a zombie or reaped; it may leave descendants in its process
group, which keep the output pipe open (`exec.Cmd.Wait` then waits for them too)
and which a signal to the group reaches. The Windows branch of Stop is left out.

**`Supervisor`** - what the controller promises: at most one generation runs,
the next one starts when the one before it is over, a stop under way gets
resolved. `Process` refines it (status, current, launched and over are state,
cmd, the number of generations and the closed channels).

**`LogStore`** - `z/ze/log/file/logger.go`, `writer.go` and their callers in
`app/kwlog2/record.go`. The variables are those of `Writer` and of each
`RollingFile`, the handles, the timers, and the files as sequences of what was
appended. A post is a goroutine writing a batch of records; `Writex` is split at
every point at which the recycler `_close`, which runs without the lock, can come
between: `Lock`, `Stat`, `Scan`, `Open`, `Write`, `Check`. The recycler is
split at each of its assignments. A record of the collector has two parts, the prefix and the
rest, each an `os.File.Write` of its own; one of the program's log is a single `Write` (`LastPart`),
on a file that is opened to append, so its lines are whole whatever the lock does. Seconds are reduced to one bit per file, "alive
is not after now", which time may set at any moment. `kind` says which of the
two users is at work.

**`Zgg`** - `z/zgg.go` and the registration in `z/zgc.go`: the main goroutine
(register, init, boot, wait, shut down, close), the goroutines of the servers
and the requests they serve. Servers come in three kinds, which differ in what
`Shutdown` does: "http" (`servez`: stops to accept and waits for the requests),
"cat" (closes the listener if there is one), "bee" (sends SIGTERM, does not
wait). Options may return a `Closed`, add a server, abort the start with
`ServeStop` or exit.

**`WsHandler`** - `z/ze/wsz/native.go`, `gorilla.go`, `core.go`, server side.
`Native` chooses between Handler0, which reads frames and joins fragments
itself, and Handler1, which leaves that to `wsg`. Per connection: where
`ServeHTTP`/`ServeConn` is, where the reader is, the context, the hook, and what was
read and delivered. Handler0 reads each frame through a new `bufio.Reader`, which takes along whatever the
client sent behind it in the same segment (`native.go:158`): `in` is what was read as a frame, which is what the
client sent only until bytes are first thrown away (`cut`); from there on it may be any frames. A write
waits while the client stays and reads nothing (`full`): none of the handler's has a deadline. Unbuffered `msgc` is a rendezvous: `Take` moves both
sides.

**`WsConn`** - `z/ze/wsg/conn.go`, server side, without compression and prepared
messages: the connection under Handler1. Three kinds of goroutines meet at the
lock `mu` and at `writeErr`: one writes messages (`NextMessage`, `Write`,
`CloseWriter`, and the flushes these lead to), one reads (`NextReader`, `Read`, with
`advanceFrame` as the actions `Read...`) and answers pings, close frames and
violations, and others call WriteControl. Taking the lock and writing are two
actions, because the write of a message may block for ever while a WriteControl
has a deadline. Payloads are counted in units; the history `wire` holds the frames
written, `in` those read, `got` what the application read.

**`GwRecord`** - `z/ze/gtw/gateway.go` as far as the record of the request
goes, `record.go` and `record_fn.go`: every way through and out of `ServeHTTP`,
the pool (which, like `sync.Pool`, may hand out any free record or a new one), and the
goroutines started by `Recycle` and, for a 101 response, by `LogResponse`. A
field of a record is reduced to who wrote it.

**`HttpFlow`** - `processTCPFlow` of `app/ebpfgo/monitor.go` and the parsers below
it: one direction of a TCP connection. The application sends messages, packets cut
them anywhere, and each may be lost, come once more, cut in another way or not, or come before its turn
(`Stray`): `bufferAppend` looks at no sequence number, and the socket, bound to no interface unless one is
configured, sees a packet on each it passes. The payload of a packet is cut at `capPayload`, the
buffer drops its oldest bytes at its limit, and the loop takes as many messages out
of it as there are. Bytes come in pieces that are never split (a start line with
its header fields, the empty line, a unit of a body, a chunk, the last chunk, a TLS
record); `HelloAt` and `Parse` are written over pieces as the code is over bytes.
`BodyLimit` is any of none, everything, a few units. Two histories say for which
runs more can be promised: `clean`, when every packet came once, in its turn and whole, and every message
can be understood from its headers; `aligned`, when no packet had a part of a message only, however it came.

**`Monitor`** - the other question of `monitor.go`, with the probes of
`ebpf_capture.c`: which process a packet belongs to. Sockets are opened, accepted,
used and closed; probes write `flow_owner_map`, which drops entries when it is full;
packets wait in a queue and may be missing, since what `capture_prog` lets through
and what the packet socket has room for is left open. `Handle` is `handlePacket`; when it finds
no owner and the cache is old, `ScanProcs` and `ScanTables` are the two passes of
`rebuildSocketCache` over `/proc`, between which anything may happen. Then come
the filter by process, the table of flows (`FlowGet`, with the oldest as victim), the owner
lent by the other direction and `flowGC`. TCP
only; filters by address and port are left out. Each of the two passes reads
everything at one moment.

**`EbpfServer`** - `app/ebpfgo/server.go` and the beginning and end of `monitor.go`: `RunServe`
loads the programs, opens the packet socket, attaches one probe after the other,
hands all of it to the Server under its lock, reads, and cleans up; `Shutdown` may
come at every point of this, and several of each at once. The kernel has a table of
descriptors in which a number that was closed may come back as another file: the
reader works with a number (`Number`), not with an object.

**`Reverse`** - one request through `ServeHTTP` of `reverse.go`. The handler, the
transport that calls `Got1xxResponse`, the timer of `maxLatencyWriter`, the two
copiers of a switched connection and the goroutine that closes the backend are the
actors; the backend answers in any way of `Answers` (an error, an answer that
ModifyResponse refuses, a body with or without a length that breaks off or comes whole,
trailers, a switch to the right protocol or another). A switch may fail before that goroutine is
started, on a body that cannot be written to or a ResponseWriter that cannot be hijacked (`Unswitched`), or after it, when
Hijack itself fails (`HijackFails`); the first leaves the body open. The client or the backend goes
away at any moment. `wire` is the history of what was written to the
ResponseWriter, with the header as it was then.

**`Forward`** - what the proxy changes, as functions: hop-by-hop fields with those that
Connection names, the ones that are put back, X-Forwarded-For and Te; the two ways
to join paths with what is escaped; `cleanQueryParams`; and the ResponseWriter of a
tunnel (`forward.go`). A job is picked among all small inputs and done in one step.

**`Routes`** - check, lock, check again: `GetProxy`/`NewProxy`, which read the map under
a read lock and make a gateway under the write lock without looking again, and
`GetCert`, which does look again but reads the map before it locks. `thrown` is the
runtime's "concurrent map read and map write", a permitted end here (section 6).

**`Kwcat`** - `kwcat.go`: accept, slot or refusal, the peek of the name with its
deadline, dial, greeting, two directions, and the deferred release, over connections of
which either side may close, half-close or stay silent.

**`Handshake`** - `DialContext` and `Upgrade` step by step with the connection each of them
holds. A dial is a stack of functions around each other: connect, TLS (`netDialWithTLSHandshake`), deadline
(`netDialWithDeadline`), proxy (`httpProxyDialer`), then request and answer in `DialContext`. A failure is an action
per function, `GreetFails`, `LimitFails`, `AskFails`, `Unproxied`, `DialFails`, each of which closes the connection, or
does not, as that function does: until `DialContext` has `netConn` its deferred function closes nothing. On the other
side `Refuse`, `HijackFails`, `UpgradeFails`. What each `Conn` is to use is settled twice: by
the server from the request and the Upgrader, by the client from the answer on the wire. The deadline of the
client may pass at any time, and a server or a proxy may fall silent.

**`WsCodec`** - three helpers of `wsg`: the scanners of header lists (`util.go`) over all
texts up to a length, `truncWriter` over any series of writes, and
`PreparedMessage.frame`, where several goroutines meet at the map, its lock and the `Once`
of a frame.

**`Service`** - requests through the engine "map" or "mux": `AddRouter` as it makes keys of
methods, roots and actions; the lists of merged functions with `Abort`; `TokenAuth`;
the answers and the encoder `X-Request-Rt` asks for; `Clear` at the end while a goroutine of the handler
goes on with a clone. Context and clone are the sets of their pointers that are not nil: `Clone` copies some and, as it is asked,
the context and the request with its writer; `Clear` drops those of the context. **`Registry`** - `Svc` with both maps, `RegKey`, `Set` and
`Inj` as two critical sections, and `Tvc` with the template that is loaded first.

**`Rdx`** - the radix tree, as the record of its nodes: `addRoute` and `insertChild` with
splitting, priorities and index characters, `getValue` with its hints for a
redirect, the search for other spellings, `CleanPath`, `Router.ServeHTTP`; and the
engines `dir` and `hst`, which put a name before it. Its properties compare every lookup with
a definition of matching that knows nothing of the tree.

**`Front`** - the front end server: which of the configured routes gets a request, what each kind of action
does with it, which root is taken off, and the two ways to serve a file or the index. A configuration is any
that `IsConfig` admits; a redirect with "~" gives the rest of the routes its value as the path, with or without
a slash before it, as the code does.

**`SqlTx`** - `WithTx` and `DscWithTx`, nested or not: functions run statements of
several kinds, ignore an error or pass it on, panic or return; `Commit` and `Rollback`
may fail. **`Ksql`** - the templates of `ksql.go` and what follows (`compileNamedQuery`, `In`,
`fixBound`, `Rebind`), over texts as sequences of characters; checked against
what a template means when it is read as a tree.

## 3. What the runs show

| Run | Instance | States | Shows |
|---|---|---|---|
| `MCProcess` | 2 callers, 2 generations, pipe, descendants | 136 thousand | never two generations; Wait and Restart mean what they say; a signalled child stays stopping; refinement; every stop and call ends |
| `MCLogStore` | 2 posts, 2 tagged records each, files of 2 parts | 1 million | records are stored in order (`PostOrder`) and within the size bound (`Bounded`) |
| `MCLogStore_ends` | both users, 1 record each, 2 days, failing opens, Close | STATES_ENDS | accepted records are stored even if opening fails, batches end |
| `MCLogStore_RecyclerGoesOn` | lAppLog over midnight | - | violated, see 6 |
| `MCZgg` | 2 options, 2 keys, a server of each kind | 49 thousand | order of start and end, aborts, each module closed once, no http request meets a closed module before the deadline, a signal ends the program |
| `MCWsHandler` | 1 connection of Handler0, 4 frames | STATES_WS | what is delivered is put together of the frames that were read (`Whole`), handlers end unless a write waits for ever |
| `MCWsHandler_shared` | 2 connections of Handler1 with one key | STATES_SHARED | nothing is left in `Clients` |
| `MCWsConn` | a writer, a reader, a pinger; 3 frames read or written; buffer of 1 unit, limit 2 | 636 thousand | the peer sees a legal stream (`Lawful`), messages sent and read are whole (`Faithful`), control calls return |
| `MCMonitor` | 2 processes, a server and a client, 4 sockets or packets | 3.6 million | nobody is named without a socket there, no earlier owner (`Accounted`), flows are kept |
| `MCGateway` | `Reverse`: 2 pieces, 1 hint. `Forward`: paths of 3, queries of 4, 2 writes. `Routes`: 3 requests, 3 routes, 2 hosts, one of each bad. `GwRecord`: 2 requests, any body, 101 possible. `Registry`: 2 threads, 3 changes. `SqlTx`: 3 statements, depth 2 | 603 thousand | `Forwarded`: fields end to end, joined paths, cleaned queries, status first. `Proxied`: the answer as it came, no late use of the ResponseWriter, nothing open. `Kept`: gateways and certificates, services and templates. `Recorded`: records have one owner and are saved whole. `Transacted`: what is returned is what became of the transaction. `CopiesEnd`: flushes come, goroutines end |
| `MCSockets` | `EbpfServer`: 2 callers each, 2 descriptors, 2 probes. `Handshake`: 2 subprotocols. `WsCodec`: headers of 5, 8 bytes, 2 users, 2 kinds. `Kwcat`: 2 connections, 1 slot. `HttpFlow`: 2 messages, 3 limits, 1 packet out of its turn | 568 thousand | `NothingHeld`: no probe, socket or slot is left. `Shaken`: both ends agree, or whichever function fails leaves nothing open. `Framed`: lists, compressed tails, prepared frames. `Unmixed`: one event per message from packets in their turn, no mixed one from whole messages in any. `AllReturn`: RunServe, Dial and handlers come back |
| `MCServices` | `Rdx`: 14 patterns, 3 routes (2 with dir and hst), paths of 5. `Front`: paths of 3, 3 roots. `Ksql`: 2 names, 2 pieces, 2 arguments, 4 characters. `Service`: 2 requests, 1 route | 1.5 million | `Found`, `Files`, `Bound`: see the modules. `Served`: one answer, nobody past `TokenAuth`, a clone has what was asked of it |

### Why the bounds are enough

* `Process`: every hazard is between two callers and two consecutive generations
  (a late step for the first while the second is current); the proofs cover all
  other sizes.
* `LogStore`: two posts contend for one lock, two records per batch need a second
  key, index or handle, `MaxSize = 1` makes rotation happen on the second
  record, two days change a key once while a timer is set.
* `Zgg`: two options give an order among equal and among different keys, and one
  of them may abort after the other; one server of each kind meets every branch of
  `Shutdown`.
* `WsHandler`: four frames are enough for a message of two fragments with a
  control frame between them and another message after it, and for a cut before or behind any of them. Sharing a key takes
  two connections.
* `WsConn`: `MaxWork` counts a message twice, so a run has one message and one
  frame of the peer or of WriteControl, or three of the latter. A buffer of one unit
  makes a write of three go past it and one of one or two fill and flush it; a
  frame of two units can be read in parts and two frames exceed the limit. A
  message left open and closed by the next one is the longest case.
* `GwRecord`: two requests are the owner of a record and the next one.
* `HttpFlow`: two messages are one that leaves something in the buffer and one that
  meets it. The buffer (`Cap`) of five pieces holds the longest message (headers, empty line, two
  chunks, the last chunk: `MaxLen`) and overflows when one of them comes again; a packet of five
  pieces (`MaxPacket`) exceeds `CapPayload`; a record is looked for at two places (`Scan`); five pieces
  (`MaxSent`) are two messages, one of them with a body. One packet out of its turn (`MaxStray`) is a
  retransmission, a packet seen on two interfaces or two packets that change places.
* `Monitor`: four events (`MaxEvents`) are two sockets that follow one another on the same ends and
  a packet of each, or a listener, a connection and two packets. The three `Times` are a
  step apart, and late enough for a flow to expire. The tables hold two entries so that a third drops one.
  Processes are symmetric: the filters contain all of them.
* `EbpfServer`: two callers of RunServe are the one that runs and the one that is refused, two of
  Shutdown the one that takes and the one that comes after. With two descriptors the number of the socket
  is free again, and taken by others; of two probes the second may fail.
* `Reverse`: with two pieces (`MaxUnits`) there is a write after a flush; one 1xx answer (`MaxHints`) is enough to
  be late. `Forward`: a path of three characters (`MaxPath`) is a slash, a letter or an escape, and a slash,
  queries of four (`MaxQuery`) hold two parameters and a broken escape, and two calls (`MaxWrites`) set a status twice. `Routes`: of three
  requests two make a gateway at once and a third one comes later.
* `Kwcat`: two connections contend for one slot. `Handshake`: two subprotocols give an order on each side. `WsCodec`:
  `MaxText` = 5 holds two elements of a list with a separator and a space or parameter; 8 bytes
  (`MaxBytes`) are written and held back twice over.
* `Service`: two requests share a route and an answer; `MaxRoutes` counts routes beside those the program has itself. Requests are symmetric.
  `Registry`: three changes (`MaxSets`) are two services of one type and a removal.
* `Rdx`: the patterns share beginnings in every way the tree tells apart; three of them are a node, the one
  that splits it and one that moves an index character. `Names` of `dir` and `hst` are two.
* `Front`: paths of three characters (`MaxPath`) tell roots of one and of two segments apart; two routes
  are tried in their order with one choice of the other settings (`MCConfigs`).
* `SqlTx`: three statements (`MaxStmts`) are one before, one that fails and one after; depth two (`MaxDepth`) nests
  once. `Ksql`: two items (`MaxItems`) at each level put a block within a block, after a text or another block; a list and a
  plain argument (`MaxArgs`) in either order; four characters (`MaxBound`) of a statement with bind variables hold two.

### Fairness

Safety needs none. `FairSpec` assumes weak fairness of a goroutine that can run
(the Go scheduler), of a timer that is set and of the kernel where the code
relies on it. In `WsConn` a write of WriteControl ends, because it sets a deadline; one of the
writer need not. Nobody is assumed to call a method, send a signal, close
the store or let a request, a child or a client go on. Two assumptions are stronger than
"it runs":

* `LogStore`: strong fairness of `Lock`, because a goroutine that has waited for
  1 ms for a `sync.Mutex` is handed the lock by `Unlock`;
* `WsHandler`: a read of a connection one side has closed fails at last, and a write that becomes possible again and
  again, because the client reads from time to time, returns (strong fairness of `Respond` and `Send`). A client that stays and reads nothing
  may block a write for ever: `HandlerEnds` excepts exactly that (`Stuck`).

In `MCGateway` and `MCSockets` each part has the fairness of its own module, written out
because of `part`: the handler and the other goroutines of `Reverse` (not its `Copy`: the backend need not send, and no
`Hint` or `Leave`), the callers of RunServe and Shutdown once they have called, the client's
steps and its deadline in `Handshake` (not the server's), the handlers of `Kwcat` (not the peers). `MCServices` and
`MCMonitor` state safety only.

`Process` does not assume that a child obeys SIGTERM: the goroutine that sends
SIGKILL after the time limit makes `StopCompletes` true.

## 4. What is proved

`ProcessProofs` proves, for any set of callers, any number of generations, with
and without a pipe and descendants: every invariant and action property of
`MCProcess`, two more (the fields never disagree, `Coherent`; a generation
that is over stays over, `OverIsFinal`), and that `Process` implements `Supervisor`.

The argument rests on the invariant

    IInv == TypeOK /\ Coherent /\ Fresh /\ Waited /\ OneStop /\ CallerOK

None of the stated properties is inductive alone. `restoreRunning` compares
`cmd` with the one its Stop captured: that this test is enough needs
*OneStop* - a generation has at most one stop under way, a caller in Stop or the
goroutine it left, and is "stopping" while it has one. *Waited* ties the waiting
function to the kernel (past `Reap` the child is reaped, past `Drain` nobody holds
the pipe), which turns "the channel is closed" into "nothing runs". *Fresh* says
that a generation not started has left no trace, and *CallerOK* where each method
can be and what it holds there. `Init => IInv` and `IInv /\ [Next]_vars => IInv'`
are split by conjunct (`TypeNext`, `LifeNext`, `OneStopNext`, `CallerNext`), each
with one step per action; the action properties follow from `IInv` and the action
that ends the call (`OwnStep`), the refinement from `StepMaps`.

`ZggProofs` proves, for any options, keys and servers, that http is at rest when the
first module is closed (`HttpBeforeModules`), that the Closeds are called in the
order opposite to that of the options (`LastInFirstOut`), and that none is called twice
or left out, and an aborted start boots nothing more (`ClosedOnce`, with the types), from

    IInv == Typed /\ MainAt /\ Follows /\ Servers0 /\ Told /\ HttpBeforeModules

*Follows* is about the sequences: an option is registered once, wherever `slices.Insert`
puts it (lemmas `Least`, `Inserted`, `RegisterOnce`), `closeds` follows the options until
it is turned around, and `ran` is a beginning of it. *Told* says how far
WaitFor has come: each http server before that place was told to shut down, and is drained
or out of time. *Servers0* says what such a server can still do - one that was booted
late finds `inShut` set and never listens - and *MainAt* where the main goroutine is.

It also proves `Files` of `Front`, for any configuration, files and characters, and paths of any length, from

    FrontInv == Configured /\ files \in Trees /\ Asking /\ Queued /\ Fits(answer, url)

*Queued*: the routes left to look at are in the order of their keys, and each of the others has
passed on the request, as long as no redirect has changed its path; so whoever answers has the longest key
(lemmas `WentOn`, `RouteFits`). *Fits* is the claim about the answer itself. `RootIs`: the first root that fits
of those sorted is the longest - there is one such, as two prefixes of one length of a path are the same. `LeftIs`:
what is left of the path begins with a slash. `Agree`: both ways to an index then give the same, as long as the
files are those of the start and no index is a directory. `FrontAssumption` says that a configuration is one
(`IsConfig`) and that no file of a file system is above another one.

And of `Service`, for any requests beside each other, any number of routes and the five kinds of request in `Asked`, `Served`: each request runs one
of the handlers, on the mux too, where one pattern of those that fit is the best (`MuxFinds`); the first function that
answers is the last that runs (*Unanswered*, *AnsweredAt*), a text is left to run only for who has passed
`TokenAuth`, and a clone has all that was asked of it, as it was made of a context that was whole (*AtWork*). Both theorems are about the parts' own
specifications, as a step of `MCServices` is a step of one part and leaves the others alone.

`GatewayProofs` proves all six parts of `MCGateway`; a step of one leaves the others
alone. Of `GwRecord`, for any finite set of requests, that a record has one owner and
the pool holds only clean ones (`OneOwner`), and that each request is logged whole and unmixed
(`SavedWhole`) unless some backend answers with 101: *Placed* says where a request and
its goroutines hold a record, *Clean0* that one never made is as clean as one given back, *Mine*
and *Unmarked* what the record of a request holds at each place. Of `Routes`, for any requests, keys and
hosts: what lies in a map was made for its key by a request that is through (*Known*), so a request
that came when something was there finds that and not its own (*Sought*); of those that ask
for a certificate only the holder of the lock looks again and stores (*Sort*). A step is treated once, in
`StepKeeps`, whatever it does. Of `Reverse`, for a body of any length: *Early* places the transport's 1xx
answers and the pending flush before the end of the handler, *Closes* says who will close a body
that is still open, or that nobody will, after a 101 that switched nothing, *Written* and *OnWire* what stands on the wire - nothing final before the answer, the pieces
1 to `answer.units - left` after it in order - and where the handler then is. Of `Registry`, for any
goroutines and number of changes (with `Routes` in `Kept`): both maps name the same services, each under its type (*Named*), since `Set`
forgets one in both; what was injected is judged by the names of its moment (*Injected*). Of `SqlTx`, for
any number of statements and nested functions, `Transacted`: the transaction is open exactly while a function runs (*RunsInside*),
so whoever began it is alone in ending it, and a failed statement leaves an error as long as every error is passed
on (*Remembered*). Of `Forward`, for any header and any length of path, query and tunnel, `Forwarded`: a job and its result
stay together (`FwdInv`), so everything is in what the functions compute, a lemma for each kind of job. `RequestIs` and `AnswerIs`: which
fields are taken, put back or added, for every value of Connection. `PathIs`: an escaped path decodes to the one that
was joined, and has one slash where the two meet. `QueryIs`: the parameters kept are those that parse. `TunnelIs`: the status is the last
one set before the data. The loops of the code are functions on the naturals, and what they have done after
i rounds is shown by the least round that has not (`Least`), which needs no induction theorem.

`SocketsProofs` proves the four other parts of `MCSockets`. `NothingLeft` and `NoFalseExit` of `EbpfServer`, for any number of goroutines that
call `RunServe` and `Shutdown`, of probes and of descriptors. *Alone*: one goroutine loads, one takes
away. *Placed*, *Counted*, *Owned*: what each holds where it is, and that every probe and every
packet socket in the kernel has a holder. *Quiet*: before `cancel` the socket that is read is open.
And `SlotsMatch` of `Kwcat`, for any finite set of connections and any number of slots:
the slots taken are counted as the cardinality of the set of running handlers, and *CatPlaced*
says what each of their steps has open.
Of `Handshake`, for any protocols and whatever step fails, `Shaken`: the answer is a function of the one request
(*Answered*), and what is open, limited and in the hands of a deferred function is what each function the dial has come to, and
each step of Upgrade, has made of it (*ClientAt*, *ServerAt*); so the function that fails closes what there is.
Of `WsCodec`, `Framed`: for a message of any length in pieces of any length, that the
last four bytes are held back and the others written in order - byte by byte, *Bytes*, carried over a
write that moves any part of the array (`BytesOn`) - and that a prepared frame is made before it is sent (`EndHeldBack`);
and that a header of any length is read as the property says by its separators (`HeadersAreRead`). There the invariant is nothing but
the result of two functions, and the work is in their lemmas: a part between separators that is a token is read
whole and the reader stops where the part ends (`PartRead`, `ParameterRead`, `ExtensionRead`), the places of the separators in their order
are a sequence without a gap (`EndsAre`, by counting), and the rounds of a loop that only goes forward exist and
begin where the parts do (`RoundsAre`, `GoesParts`). That a token that is found is an element (`ListSound`) needs no list that is well formed.

`LogStoreProofs` proves `PostOrder`, `Bounded` and `AcceptedStored` for any writers,
records, days and size limit, with and without the date in the key, tags, faults and Close. One fact
carries most of it: a file with something in it has only full files before it on its day (*Chain*), and
a writer opens a file that is not full, so nothing it wrote is behind the place it opens (*Placed*,
lemma `PlacedStays`). The recycler takes handles away and never gives another (*Handles*, `AsideStep`).
*Room* is `SizeBound` with what the writers at the file may still write, which makes it inductive;
*Begun* says where the first part of a record is when the second is due, *Accepted* that what is
not yet written is not accepted. That RollingFiles, handles and timers number at most one a record
(*Counted*), and that the indices end (`IndexBound`: full files hold two parts at least and no part is
in two places, an injection), shows that the bounds of the model's sets cut nothing off.

`WsHandlerProofs` proves `NothingLeft` for any connections with any keys from *Pending*: an open hook,
and an entry of `Clients`, belong to a handler that is yet to close and to delete them. When no two
connections share a key (`OwnKeys`; with a shared key a hook gets messages of another client) it proves `Whole`
with the types, for both handlers, any number of frames and cuts anywhere, from *Assembled*: the reader has gathered all
frames of messages behind the last one it handed over (*Gathered*), which is that of the message at hand,
or of the last one received; the first of its frames and no other begins a message (lemmas `DataGathered`, `ControlSkipped`, `MessageHanded`, `MessageReceived`).
*Steady* says that a message at hand goes to the hook of its own connection. That at most two
messages are on their way follows (`OnTheWay`).

`MonitorProofs` proves `Accounted` and the action property `FlowsKept` for any processes, ports, pairs
and sizes of the tables. *Kernel*: an entry of the map of owners is of the latest socket with its pair, and
a packet that waits is still owned, as long as the map drops nothing. *Reading*: what is in the
caches was once so. *Handling*: a packet that waits for `/proc` found no owner in the map. *Watching*: the
flows and what was shown name processes that had the port, which gives `Blamed` and `NotEarlier`.

It also proves the types, `Unmixed` and `NothingMissing` of `HttpFlow` (together `Unmixed` of `MCSockets`), for any number of
messages of any lengths and kinds, packets that end anywhere, are lost, come again or before their turn, any limit of a body and any size of the
buffer, of a packet and of the search for a TLS record. For packets that come once and in their turn (`clean`) they need
*FlowInv*, which says what `processTCPFlow` leaves behind when it stops. The buffer and what is still to come are
pieces without a gap, to the end of a message (*Stream*). What was reported is of messages in their order, each with a
beginning of its body, and their heads are gone (*Heads*). What is in the buffer is not all there, so nothing more could have been
taken (*Waits*). Once a message without a length is followed by others no head is left to read (*Shut*); TLS was seen only after a hello
(*Greeted*). As long as packets end with a message the rest begins with one (*AtEdge*), and as long as `InStep` holds every
message is reported with all of its body or still to come, and none is half read (*Complete*). For packets that have no part of a message
only they need less, *AnyPackets*: the buffer does not begin with a head when the loop stops, so each packet is read by itself, and
what `Parse` takes from whole messages (*WholeIn*) is of one of them, whatever was there before. The lemmas `ReadsFixed`, `ReadsOpen`,
`ReadsChunked` and `ReadsBare` say what `Parse` makes of a buffer that begins with a message of each kind;
`LoopEnds`, that the loop stops with nothing left to take, after as many rounds as there are pieces at most. The theorem is
about `HttpFlow`'s own specification; a step of `MCSockets` is a step of it or leaves its variables alone.

`WsConnProofs` proves `Lawful` and `Faithful` for any number of goroutines that call WriteControl and any
buffer, limits and sizes. Neither is inductive. *StreamInv*: as long as no write has failed, the open writer's next
frame is of the type the last fragment on the wire calls for. A control frame leaves that alone, whoever sends it and
whenever. *DeliveredInv*: what the application gave to the open message is on the wire, in the buffer or
still to be put there, so `SentWhole` holds when the last frame goes; a message that failed never gets an end.
Units are counted as the cardinality of a set of places, which one frame extends by a column (`Block`, `UnitsGrow`).
*ReplyInv* follows an answer of the reader: a close frame is in its hand, or sent, or out of time, before the
error becomes that of the reader. *ReadingInv*: of the message at hand the application has read all frames but the
rest of the last one, no other message has begun since, and its frames go on exactly while `readFinal` is unset.

Assumed are the constants' assumptions (`ProcessAssumption`, `ZggAssumption`, `WsAssumption`,
`LogStoreAssumption`, `MonitorAssumption`, `FlowAssumption`, `WsConnAssumption`, `FrontAssumption`: finite sets where the code has finitely many, a name for
nobody that is nobody's, pairs that are pairs, configurations and file systems as said) and what the theorems state themselves: that the sets of requests and connections are finite, that the numbers are natural,
that nobody's name is that of a caller, and that no host is called like a route (routes are paths); else nothing but the semantics of the language.

Only model-checked: the liveness properties (`StopCompletes`, `CallsReturn`,
`BatchesEnd`, `SignalEnds`, `HandlerEnds`, `ControlReturns`, `CopiesEnd`, `AllReturn`), as the prover does
not handle fairness or ENABLED; what `Rdx` and `Ksql` compute, which is induction over data and
uses recursive operators (`Found`, `Bound`), checked on all small inputs.

## 5. What is not modelled

* Formatting, payloads, cryptography and most of HTTP: data no property tells apart.
* Frames written into one another: a pong of the reader, an answer and a push each write a frame in two calls (section 6), and
  `WsHandler` follows what is read, not what is written.
* Data races within a single Go assignment. `_close` and a writer, or the two
  goroutines of a record, race without a lock; the models let their assignments
  interleave in every order, each being atomic, which is kinder than Go's memory model.
* In `WsConn`: several concurrent writers (the `isWriting` panic; the sender of
  Handler1 does not prevent them), the panic after a thousand reads of a failed
  connection, WriteControl without a deadline, and the client side.
* `Pdeathsig` (`sysproc_linux.go:7`): the exit of the parent is the end of both
  `Process` and `Zgg`.
* In the monitor: UDP and QUIC, the choice of packets in the kernel
  (`capture_prog`, tracked flows), filters by address and port, the lines printed, and the
  splitting of a piece by a packet.
* The reading of parameters, the rendering of bodies and the rewriting of html in the service
  kit and the front end server; the generation of SQL from structs (`reflect.go`).
* The syslog writer: one connection under one lock, sequential. The configuration (`z/zc`): parsers
  and reflection whose content is all there is to them. The gateway extensions: formatting.
* The composition of `Zgg` with `Process`, `Kwcat` or `EbpfServer` as its servers: `Zgg` has their
  `RunServe` and `Shutdown` as it needs them, each module has them in full.

## 6. Where code and comments disagree

Shown by the run `MCLogStore_RecyclerGoesOn`:

* `logger.go:218` - a recycler that finds the file alive calls `Reset` on a timer
  that a change of the key or Close has dropped, a panic (`RecyclerGoesOn`).

Met while modelling, without a run of their own; most are steps the models take, and the
properties are stated so that they allow for them:

* `native.go:74`: the end of a connection deletes the hook of a newer one with
  the same key, which receives nothing from then on (`NothingLeft` does not speak of a hook that is deleted too early); `native.go:66` says that the hook is
  deleted when its connection is closed.

* `process.go:174`: a leader that was reaped makes `Getpgid` fail, and Stop sends
  nothing although descendants of it run on in the group.
* `record_fn.go:127`: a websocket request is logged again, from a record that was
  cleaned.
* `process.go:146` says Stop waits for the end of the process; it returns when
  SIGTERM is sent, and `kwbee.go:91` relies on the comment.
* `process.go:188`: when `done` is closed as the timer fires, `select` may still
  send SIGKILL.
* `process.go:229`: Restart of a child that was reaped but not yet marked stopped
  returns ESRCH and starts nothing.
* `logger.go:224`: `_close` may close the handle a writer uses under the lock; the
  record is lost and the error dropped by `record` (`record.go:80`).
* `logger.go:226`: a handle opened between the last two assignments of `_close` gets
  no timer and stays open.
* `record.go:113`: the tag of the request grows by a slash for each record of the
  batch, so one file is written through several RollingFiles under different locks.
* `zgg.go:192`: `zgg.go:163` says that servers are stopped before modules; after the
  deadline modules are closed under running requests, and under the connections of
  a "cat", which its Shutdown leaves alone (`HttpBeforeModules` states what does hold).
* `zgg.go:154`: on an abort modules are closed first in, first out (`zgg.go:140`
  reverses the list later); `LastInFirstOut` is about a start that was completed.
* `zgg.go:228`: a listener that fails exits the program without closing modules.
* `native.go:158`: `ReadServerFrame` asks for a `*bufio.Reader`, is given a `*bufio.ReadWriter` (`native.go:89`) and makes a new reader for
  each frame; frames that came in one segment with it are lost, or read from their middle. `Whole` is about what was read.
* `native.go:53`: no write has a deadline; a client that stays and does not read keeps the handler in it, and cancel does not end
  that (`HandlerEnds` excepts it).
* `native.go:95`: the reader may stay for ever at `msgc <- nil`.
* `native.go:102`: a pong may be written into the middle of another frame.
* `record_fn.go:62`: a body above the limit is read and recorded all the same.
* `conn.go:926` (wsg): continuation frames of a message the application dropped
  count as parts of the next one, which may meet ErrReadLimit below the limit.
* `conn.go:888` (wsg): a length that overflows ends with ErrReadLimit, but no close
  frame is sent, which `conn.go:1120` promises of ErrReadLimit.
* `monitor.c:1744` says that nothing is taken before a message is complete; with a
  `body_limit` other than 0 the event is emitted before the body has arrived, and the
  rest of the body at the front of the buffer keeps later messages from being found
  (the reason for `InStep`). Without bodies, those in chunks are not taken at all.
* `monitor.go:704`: payloads are put together without their sequence numbers. A packet seen twice, as on two interfaces, is reported
  twice, and parts of messages that come again or out of order may be joined to the wrong head (`Unmixed` promises what is left: nothing
  mixed as long as packets come in their turn, or hold whole messages).
* `monitor.c:2524`: the answer to a HEAD has a length and no body, so the next answer
  counts as its body; a Content-Length in another spelling is not known, and the
  message takes all that has arrived.
* `monitor.c:2285`: `now - 120000` wraps around in the first two minutes after the machine
  starts, and every flow is removed each time; the Go monitor subtracts times and does not.
* `monitor.c:2268`: a packet that comes in before its connection is accepted, or after
  the ends were reused, may be named after the listener or another owner; what goes
  out is only ever named after a later one (`NotEarlier`). A socket found in `/proc`
  without a process counts as found, and `/proc` is not read again for it.
* `monitor.c:1095`: a missing `/proc/net/tcp6` leaves the packet that caused the
  reading without a name, though the other tables are kept; a `/proc` that cannot be
  opened is read for again with every packet.
* `record_fn.go:80`: the early goroutine of a 101 may save and clean the record of
  the request that has it next, which two goroutines then use (`SavedWhole` leaves runs with a 101 out).
* `monitor.c:695` says that an address must meet one of the rules that allow, if there are any; in
  `cidrSetAccepts` (`monitor.go:1897`) one that meets no rule is accepted all the same.
* `reverse.go:661`, `667`, `675`: an answer 101 with another protocol, with a body that cannot be written to, or to a ResponseWriter that cannot
  be hijacked is an error, and the backend's body stays open: the goroutine that closes it is only started behind (`Released`
  excepts these). `reverse.go`: clearing the header after a
  1xx answer also clears a cookie the authorizer has set; an upgrade type that cannot be printed calls the
  error handler twice; the buffers of `BufferPool0` have length 0, so `copyBuffer` makes its own.
* `forward.go`: the ResponseWriter of a tunnel sends nothing for an answer without a body. `abright.go`: "/-/" drops
  the escapes of the request's path if the target has none.
* `tls.go:43`: `GetCert` reads the map without the lock another request may write it under, which the runtime ends the
  program for (`thrown`).
* `kwdog.go:246`, `handler.go` of front2: two requests of one route may both make a gateway; the last one is kept.
* `kwcat.go`: the end of one direction is not passed on, so a peer that stays silent keeps its slot; a Shutdown before
  Listen is lost, and `hdl.listener` is written and read without a lock.
* `client.go`: the subprotocol follows the client's order though `Upgrader.Subprotocols` speaks of the server's
  preference; a subprotocol or compression nobody asked for is accepted; canceling the
  context does not end `ReadResponse` without a deadline; `", upgrade"` is not taken for a list with upgrade.
* `record.go:67`: `ParamBodyErr` is one value for all requests; JSON writes the trace id and the context into it, so
  answers may carry another request's id (`AnsweredOnce` leaves shared answers out).
* `zgg.go:338`: a name used again for another type leaves the entry of the old one in `typmap`; of two names of
  one type the removal of one removes the type (`Wired` asks for names by type).
* `handler.go` of front2: a route that rewrites the path gives the routes after it another one; `LongestFirst` and `AnswersAgree` are about
  requests whose path is as it came.
* `zgc.go`: `HTML0` sets Content-Type after the body was rendered; templates get their functions after parsing.
* `tree.go`: a redirect may lead to a 404 ("//" with only "/a" registered), though the comment says it is
  made if a handle exists; redirects of `dir` lose the directory; "/a/:p/*f" is not found in another spelling.
* `index.go`: an index that is a directory is a 404 in one way to serve and a 500 in the other.
* `kmod.go:20`: `WithTx` returns nil if Commit fails; a nested `DscWithTx` has no savepoint, so a nested
  failure that is ignored is committed in part.
* `ksql.go:143`: `Ksql_` shadows `rerr`: errors of INSERT, UPDATE and DELETE are returned as nil. `ksql.go:844`: a filter
  loses the error of its content. `ksql.go:682`: a single character before a block is lost. `krepo.go:153`:
  `InsertBy` calls itself. `sqlx_named.go:357`: a name that ends the statement with "_" or "." is cut.
  `fixBound`: names after the rows get an argument for each row, but one variable. `x::text` counts as a
  parameter that is missing.
* `syslog`: a failed dial is tried again with every Write, a line whose Info fails is lost, and Close takes no lock.

## 7. Plan

1. *Done*: all modules of section 2; the proofs about `Process`, `Zgg`, `GwRecord`, `Routes`, `Reverse`, `Kwcat`,
   `EbpfServer`, `WsHandler`, `WsConn`, `Monitor`, `HttpFlow`, `LogStore`, `Handshake`, `Service`, `Registry`, `SqlTx`,
   `Forward`, `Front` and `WsCodec`.
2. Extend: UDP and the tracked flows of the monitor, the client side of `wsg`, the composition of
   `Zgg` and `Process`, the caches of `sqlx` and its generated statements.
