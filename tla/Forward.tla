-------------------------------- MODULE Forward --------------------------------
(***************************************************************************)
(* What the reverse proxy does to a request and its answer on the way      *)
(* (z/ze/gtw/reverse.go, abright.go, forward.go): the header fields, the   *)
(* joint of two paths, the query, and the ResponseWriter of a tunnel.      *)
(* A job is one of these; it is chosen, done, and its result looked at.    *)
(***************************************************************************)
EXTENDS Naturals, SequencesExt

CONSTANTS
  MaxPath,   \* length of a path
  MaxQuery,  \* length of a query
  MaxWrites  \* calls of the ResponseWriter

VARIABLES
  job,       \* what is to be done, with its input
  out,       \* the result
  done

fwdVars == <<job, out, done>>

-----------------------------------------------------------------------------
(* Header fields: a function from the names that are there to their values; *)
(* that of Connection is the set of its tokens.                             *)

Has(h, name) == name \in DOMAIN h
Without(h, names) == [n \in DOMAIN h \ names |-> h[n]]
Put(h, name, value) == [n \in DOMAIN h \cup {name} |-> IF n = name THEN value ELSE h[n]]

hopHeaders == {"Connection", "Keep-Alive", "Te", "Transfer-Encoding", "Upgrade"}

\* The fields Connection names.
Named(h) == IF Has(h, "Connection") THEN h["Connection"] ELSE {}

\* Mutant: Connection is gone before it is read.
removeHopByHopHeaders_Late(h) == Without(h, hopHeaders)

removeHopByHopHeaders(h) == Without(Without(h, Named(h)), hopHeaders)

upgradeType(h) ==
  IF Has(h, "Connection") /\ "Upgrade" \in h["Connection"] /\ Has(h, "Upgrade") THEN h["Upgrade"] ELSE ""

\* IsPrint: one of the values is not printable.
IsPrint(type) == type # "unprintable"

\* The fields of a protocol switch and Te are put back once the others are gone.
Restored(h) ==
  LET stripped == removeHopByHopHeaders(h)
      te == IF Has(h, "Te") /\ h["Te"] = "trailers" THEN Put(stripped, "Te", "trailers") ELSE stripped
  IN IF upgradeType(h) = "" THEN te
     ELSE Put(Put(te, "Connection", {"Upgrade"}), "Upgrade", upgradeType(h))

\* SetXForwarded, which a Rewrite function may call.
SetXForwarded(h) == Put(Put(Put(h, "X-Forwarded-For",
  (IF Has(h, "X-Forwarded-For") THEN h["X-Forwarded-For"] ELSE <<>>) \o <<"client">>),
  "X-Forwarded-Host", "host"), "X-Forwarded-Proto", "http")

\* With Rewrite what the client says of other proxies is removed; with Director
\* its address is added to it, unless Director left the field there with nil.
Forwarding(h, mode) ==
  CASE mode = "rewrite" -> Without(h, {"Forwarded", "X-Forwarded-For"})
    [] mode = "rewriteSets" -> SetXForwarded(Without(h, {"Forwarded", "X-Forwarded-For"}))
    [] mode = "directorOmits" -> h
    [] mode = "director" ->
         Put(h, "X-Forwarded-For", (IF Has(h, "X-Forwarded-For") THEN h["X-Forwarded-For"] ELSE <<>>) \o <<"client">>)

\* No User-Agent means none, not that of Go.
Agent(h) == IF Has(h, "User-Agent") THEN h ELSE Put(h, "User-Agent", "")

Modes == {"rewrite", "rewriteSets", "director", "directorOmits"}
Outgoing(h, mode) == Agent(Forwarding(Restored(h), mode))

\* The answer's fields; a switch of protocols goes through as it is, if it is the
\* one that was asked for.
Answered(asked, switches, h) ==
  IF ~switches THEN removeHopByHopHeaders(h)
  ELSE IF upgradeType(asked) = upgradeType(h) THEN h ELSE << >>

Sent(names, tokens, upgrade, te) ==
  [n \in names \cup (IF tokens = {} THEN {} ELSE {"Connection"}) |->
     CASE n = "Connection" -> tokens [] n = "Upgrade" -> upgrade [] n = "Te" -> te
       [] n \in {"X-Forwarded-For", "Forwarded"} -> <<"other">> [] OTHER -> "value"]
Headers == {Sent(names, tokens, upgrade, te) :
  names \in SUBSET {"Upgrade", "Te", "Keep-Alive", "X-Custom", "X-Forwarded-For"},
  tokens \in SUBSET {"Upgrade", "X-Custom", "X-Forwarded-For"},
  upgrade \in {"websocket", "unprintable"}, te \in {"trailers", "gzip"}}

-----------------------------------------------------------------------------
(* Paths, as they are escaped: a sequence of "/", letters and "%", which    *)
(* stands for an escaped slash.                                             *)

Decoded(p) == [i \in DOMAIN p |-> IF p[i] = "%" THEN "/" ELSE p[i]]

\* url.Parse: RawPath is only there if it is not what Path is escaped to.
Url(p) == [path |-> Decoded(p), raw |-> IF \E i \in DOMAIN p : p[i] = "%" THEN p ELSE <<>>]

\* EscapedPath: RawPath, if it is one of Path.
Escaped(u) == IF u.raw # <<>> /\ Decoded(u.raw) = u.path THEN u.raw ELSE u.path

Cut(p, n) == SubSeq(p, n + 1, Len(p))
EndsSlash(p) == p # <<>> /\ Last(p) = "/"
StartsSlash(p) == p # <<>> /\ Head(p) = "/"

singleJoiningSlash(a, b) ==
  IF EndsSlash(a) /\ StartsSlash(b) THEN a \o Cut(b, 1)
  ELSE IF ~EndsSlash(a) /\ ~StartsSlash(b) THEN a \o <<"/">> \o b
  ELSE a \o b

\* Where a slash is looked for.
SlashOf(u) == Escaped(u)

joinURLPath(a, b) ==
  IF a.raw = <<>> /\ b.raw = <<>> THEN [path |-> singleJoiningSlash(a.path, b.path), raw |-> <<>>]
  ELSE LET x == SlashOf(a) y == SlashOf(b)
       IN IF EndsSlash(x) /\ StartsSlash(y)
          THEN [path |-> a.path \o Cut(b.path, 1), raw |-> Escaped(a) \o Cut(Escaped(b), 1)]
          ELSE IF ~EndsSlash(x) /\ ~StartsSlash(y)
          THEN [path |-> a.path \o <<"/">> \o b.path, raw |-> Escaped(a) \o <<"/">> \o Escaped(b)]
          ELSE [path |-> a.path \o b.path, raw |-> Escaped(a) \o Escaped(b)]

TrimPrefix(p, pre) == IF IsPrefix(pre, p) THEN Cut(p, Len(pre)) ELSE p

\* A target /~/x takes the place of the path, a target /-/x is cut off from it.
joinURLPath2(a, b) ==
  IF IsPrefix(<<"/", "~", "/">>, a.path)
  THEN [path |-> Cut(a.path, 2), raw |-> IF a.raw = <<>> THEN <<>> ELSE Cut(a.raw, 2)]
  ELSE IF IsPrefix(<<"/", "-", "/">>, a.path)
  THEN [path |-> TrimPrefix(b.path, Cut(a.path, 2)),
        raw |-> IF a.raw = <<>> THEN <<>> ELSE TrimPrefix(b.raw, Cut(a.raw, 2))]
  ELSE joinURLPath(a, b)

Paths == {<<"/">> \o p : p \in SeqOf({"/", "a", "%"}, MaxPath)}
Targets == Paths \cup {<<"/", "~">> \o p : p \in Paths} \cup {<<"/", "-">> \o p : p \in Paths}

-----------------------------------------------------------------------------
(* Queries: a sequence of hex digits, other letters, "%", ";" and "&".      *)

Chars == {"a", "z", "%", ";", "&"}
BadEscape(s, i) == s[i] = "%" /\ (i + 2 > Len(s) \/ s[i + 1] # "a" \/ s[i + 2] # "a")

\* ParseQuery leaves out the parameters it cannot parse, Encode writes the rest.
Parameters(s) ==
  LET ends == {i \in 1 .. Len(s) : s[i] = "&"} \cup {0, Len(s) + 1}
  IN {SubSeq(s, w[1] + 1, w[2] - 1) : w \in {w \in ends \X ends : w[1] < w[2] /\ \A k \in ends : k <= w[1] \/ k >= w[2]}}
Parses(p) == p # <<>> /\ \A i \in DOMAIN p : p[i] # ";" /\ ~BadEscape(p, i)

\* The index cleanQueryParams stops at, or 0.
Stops(s) == LET Hit == {i \in DOMAIN s : s[i] = ";" \/ BadEscape(s, i)}
            IN IF Hit = {} THEN 0 ELSE CHOOSE i \in Hit : \A j \in Hit : i <= j

Unclean(s) == Stops(s) # 0

cleanQueryParams(s) == IF Unclean(s) THEN {p \in Parameters(s) : Parses(p)} ELSE Parameters(s) \ {<<>>}

-----------------------------------------------------------------------------
(* The ResponseWriter of a tunnel: the status is written with the first     *)
(* bytes of the body.                                                       *)

Calls == {<<"103">> \o c : c \in {<<>>, <<"200">>}} \cup {<<"200">>, <<"500">>}
NoTw == [status |-> "200", wrote |-> FALSE, out |-> <<>>]

StatusAfter(w, s) == IF w.wrote THEN w.status ELSE s

TwCall(w, c) ==
  IF c = "data" THEN [w EXCEPT !.wrote = TRUE, !.out = (IF w.wrote THEN @ ELSE <<w.status>>) \o <<"data">>]
  ELSE [w EXCEPT !.status = StatusAfter(w, c)]

\* After all of the calls.
Tunnelled(calls) ==
  LET w[n \in 0 .. Len(calls)] == IF n = 0 THEN NoTw ELSE TwCall(w[n - 1], calls[n])
  IN w[Len(calls)]

-----------------------------------------------------------------------------

Init ==
  /\ done = FALSE /\ out = <<>>
  /\ \/ \E h \in Headers, mode \in Modes : job = [kind |-> "request", header |-> h, mode |-> mode]
     \/ \E h \in {Sent({"Upgrade"}, t, "websocket", "") : t \in {{}, {"Upgrade"}}}, b \in Headers, s \in BOOLEAN :
          job = [kind |-> "answer", asked |-> h, header |-> b, switches |-> s]
     \/ \E a \in Targets, b \in Paths, v \in {1, 2} : job = [kind |-> "path", a |-> a, b |-> b, v |-> v]
     \/ \E s \in SeqOf(Chars, MaxQuery) : job = [kind |-> "query", s |-> s]
     \/ \E c \in Calls, n \in 0 .. MaxWrites :
          job = [kind |-> "tunnel", calls |-> c \o [i \in 1 .. n |-> "data"]]

Do(kind) == ~done /\ job.kind = kind /\ done' = TRUE /\ UNCHANGED job

\* A protocol that cannot be printed is refused.
Request ==
  /\ Do("request")
  /\ out' = IF IsPrint(upgradeType(job.header)) THEN Outgoing(job.header, job.mode) ELSE <<>>
Answer == Do("answer") /\ out' = Answered(job.asked, job.switches, job.header)
Path == /\ Do("path")
        /\ out' = IF job.v = 1 THEN joinURLPath(Url(job.a), Url(job.b)) ELSE joinURLPath2(Url(job.a), Url(job.b))
Query == Do("query") /\ out' = cleanQueryParams(job.s)
Tunnel == Do("tunnel") /\ out' = Tunnelled(job.calls).out

Next == Request \/ Answer \/ Path \/ Query \/ Tunnel
Spec == Init /\ [][Next]_fwdVars

-----------------------------------------------------------------------------
(* Properties. *)

Ended(kind) == done /\ job.kind = kind

\* Fields between two hops end at the proxy, those it was told to remove
\* included; a switch of protocols is passed on if it was asked for; all other
\* fields reach the backend and the client as they were.
EndToEnd ==
  /\ Ended("request") /\ out # <<>> =>
       LET gone == hopHeaders \cup Named(job.header) \cup {"X-Forwarded-For", "Forwarded"}
       IN /\ \A n \in DOMAIN job.header \ gone : Has(out, n) /\ out[n] = job.header[n]
          /\ DOMAIN out \cap hopHeaders \subseteq {"Te"} \cup
               (IF upgradeType(job.header) # "" THEN {"Connection", "Upgrade"} ELSE {})
          /\ upgradeType(out) = upgradeType(job.header)
          /\ DOMAIN out \cap Named(job.header) \subseteq hopHeaders \cup {"X-Forwarded-For"}
          /\ Has(out, "X-Forwarded-For") /\ job.mode \in {"director", "rewriteSets"} => Last(out["X-Forwarded-For"]) = "client"
  /\ Ended("answer") =>
       IF job.switches
       THEN out = <<>> \/ (upgradeType(out) = upgradeType(job.asked) /\ out = job.header)
       ELSE DOMAIN out \cap (hopHeaders \cup Named(job.header)) = {}

\* Two paths are joined by one slash, and a slash that was escaped stays so; a
\* path that is cut off or replaced is that of its escaped form.
PathJoined ==
  Ended("path") =>
    LET a == Url(job.a) b == Url(job.b)
        special == job.v = 2 /\ Len(a.path) > 2 /\ a.path[2] \in {"~", "-"} /\ a.path[3] = "/"
        front == IF EndsSlash(job.a) THEN Front(job.a) ELSE job.a
    IN /\ Decoded(Escaped(out)) = out.path
       /\ ~special => Escaped(out) = front \o job.b

\* The parameters that arrive are those of the query that can be parsed.
QueryCleaned == Ended("query") => out = {p \in Parameters(job.s) : Parses(p)}

\* In a tunnel the status before the body is the last one that was set.
StatusFirst ==
  Ended("tunnel") /\ out # <<>> =>
    /\ \E i \in DOMAIN job.calls :
         /\ Head(out) = job.calls[i] /\ job.calls[i] # "data"
         /\ \A j \in DOMAIN job.calls : j > i => job.calls[j] = "data"
    /\ \A i \in 2 .. Len(out) : out[i] = "data"
=============================================================================
