------------------------------- MODULE HttpParts -------------------------------
(* The parts of MCServices that answer requests, the front end server (Front) and the
   requests of a service (Service), by themselves: what is proved of them need not know
   the other parts. *)
EXTENDS Naturals, Sequences

CONSTANTS Chars, MaxPath, Trees, Configs, Requests, NoRequest, MaxRoutes

VARIABLES part, conf, files, url, todo, answer, setup, routes, default, req, ctx, shared, resp, work

frontVars == <<conf, files, url, todo, answer>>
sVars == <<setup, routes, default, req, ctx, shared, resp, work>>

\* Requests of a service.
Ask(method, path, query, auth, reqType) ==
  [method |-> method, path |-> path, query |-> query, auth |-> auth, reqType |-> reqType]
Asked == {
  Ask("GET", <<"a">>, <<>>, TRUE, "3"), Ask("POST", <<"api", "a">>, <<>>, TRUE, ""),
  Ask("GET", <<"api", "a">>, <<>>, FALSE, "3"), Ask("GET", <<>>, <<"a">>, FALSE, ""),
  Ask("GET", <<"healthz">>, <<>>, FALSE, "")}

F == INSTANCE Front
Svc == INSTANCE Service WITH Nobody <- NoRequest

\* What a file system holds: no file is above another one.
IsTree(t) ==
  \A f \in t : /\ f \in F!Texts \ {F!Slash} /\ F!Rooted(f) = f /\ F!ValidPath(f)
              /\ \A g \in t : ~F!IsPrefix(f \o F!Slash, g)

FrontAssumed ==
  /\ MaxPath \in Nat
  /\ \A t \in Trees : IsTree(t)
  /\ \A c \in Configs : F!IsConfig(c)
ASSUME FrontAssumption == FrontAssumed

\* A path is answered from the longest root and the longest route that it is under, and
\* the two ways to look for an index agree (front2/handler.go, index.go).
Files == part = "front" => F!AnswersAgree /\ F!LongestFirst

\* A request is answered once, by a handler only with the token that is asked for, and a
\* clone of its context lives on (zgc.go, zgg.go).
Served == part = "service" => Svc!AnsweredOnce /\ Svc!Guarded /\ Svc!CloneLives
===============================================================================
