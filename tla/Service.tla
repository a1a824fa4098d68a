-------------------------------- MODULE Service --------------------------------
(***************************************************************************)
(* The service of a program (z/zgg.go, z/zgc.go): the two routers of the   *)
(* core, and the requests with their contexts, merged handlers, tokens and *)
(* encoders.  Requests run beside each other; an answer may be one value   *)
(* that several requests use (app/kwlog2/record.go), and JSON writes to it.*)
(***************************************************************************)
EXTENDS Naturals, SequencesExt

CONSTANTS
  Requests,  \* the requests
  Nobody,    \* not one of them
  Asked,     \* what is asked for: method, path, query's action, whether it has
             \* the token, and X-Request-Rt
  MaxRoutes  \* bound on the routes

VARIABLES
  setup,     \* engine, ApiRoot, token, and whether the server serves already
  routes,    \* Handles, or the patterns of the mux: keys to handlers
  default,   \* Handle_: the handler of whatever is not found, or <<>>
  req,       \* the request, as it came
  ctx,       \* Ctx
  shared,    \* the answer all requests use: its TraceID and its Ctx
  resp,      \* what was answered
  work       \* the goroutine a handler started, with its clone of the context

callVars == <<req, ctx, shared, resp, work>>
svcVars == <<setup, routes, default, callVars>>

With(f, x, v) == [y \in DOMAIN f \cup {x} |-> IF y = x THEN v ELSE f[y]]

-----------------------------------------------------------------------------
(* Routes.                                                                 *)

\* A handler is a list of functions (MergeFunc): one that notes something in the
\* Caches, one that answers, by a fresh value or the shared one, with a page or a
\* text, one that starts a goroutine, and one behind TokenAuth.
Fns == {"note", "json", "shared", "html", "text", "spawn", "secret"}
Handlers == {<<"secret", "text">>, <<"note", "json">>, <<"note">>, <<"spawn", "json">>,
             <<"shared">>, <<"html">>}

Keys == [method : {"", "GET", "post"}, action : {<<>>, <<"a">>}]
UpperOf(m) == IF m = "post" THEN "POST" ELSE m

\* Handle: without a method a route of the map is for GET.
MapPattern(method, action) == <<IF method = "" THEN "GET" ELSE method, action>>

\* Handle: without a method a route of the mux is for all of them.
MuxPattern(method, action) == <<method, action>>

\* AddRouter: the empty key is the handler for whatever is not found; any other
\* gets ApiRoot in front.
AddRouter(key, h) ==
  LET method == UpperOf(key.method)
      bare == key.method = "" /\ key.action = <<>>
      action == IF bare THEN <<>> ELSE setup.root \o key.action
      pattern == IF setup.engine = "map" THEN MapPattern(method, action) ELSE MuxPattern(method, action)
  IN /\ ~setup.serves /\ Cardinality(DOMAIN routes) < MaxRoutes
     /\ IF bare /\ setup.engine = "map"
        THEN default = <<>> /\ default' = h /\ UNCHANGED routes
        ELSE pattern \notin DOMAIN routes /\ routes' = With(routes, pattern, h) /\ UNCHANGED default
     /\ UNCHANGED <<setup, callVars>>

\* RegisterHttpServe adds healthz last, and the servers start.
Serve ==
  /\ ~setup.serves /\ setup' = [setup EXCEPT !.serves = TRUE]
  /\ routes' = With(routes, <<IF setup.engine = "map" THEN "GET" ELSE "", setup.root \o <<"healthz">> >>,
                    <<"json">>)
  /\ UNCHANGED <<default, callVars>>

\* GetAction: the query's action before the path.
Action(q) == IF q.query # <<>> THEN q.query ELSE q.path

MapRoute(q) ==
  IF Action(q) = <<"healthz">> THEN <<"json">>
  ELSE IF <<q.method, Action(q)>> \in DOMAIN routes THEN routes[<<q.method, Action(q)>>]
  ELSE IF default # <<>> THEN default ELSE <<"json">>

\* The mux goes by the path alone, the route with a method first, and a route
\* for "/" takes the rest; if there is none it answers itself.
MuxRoute(q) ==
  LET fits == {k \in DOMAIN routes : k[1] \in {"", q.method} /\ k[2] \in {q.path, <<>>}}
      better(k, l) == Len(k[2]) > Len(l[2]) \/ (k[2] = l[2] /\ k[1] # "")
  IN IF fits = {} THEN <<>>
     ELSE routes[CHOOSE k \in fits : \A l \in fits \ {k} : better(k, l)]

Route(q) == IF setup.engine = "map" THEN MapRoute(q) ELSE MuxRoute(q)

-----------------------------------------------------------------------------
(* Requests.                                                               *)

NoReq == [method |-> "none"]

\* What a context of a request points to.
Pointers == {"Ctx", "Cancel", "SvcKit", "Caches", "Request", "Writer"}

EmptyCtx == [stage |-> "none", todo |-> <<>>, holds |-> {}, canceled |-> FALSE, abort |-> FALSE,
             says |-> "fresh", panics |-> FALSE]
EmptyResp == [id |-> Nobody, bodies |-> 0, fns |-> <<>>]
NoWork == [stage |-> "none", wants |-> {}, holds |-> {}]

Init ==
  /\ setup \in [engine : {"map", "mux"}, root : {<<>>, <<"api">>}, token : BOOLEAN, serves : {FALSE}]
  /\ routes = <<>> /\ default = <<>>
  /\ req = [r \in Requests |-> NoReq] /\ ctx = [r \in Requests |-> EmptyCtx]
  /\ resp = [r \in Requests |-> EmptyResp] /\ work = [r \in Requests |-> NoWork]
  /\ shared = [id |-> Nobody, ctx |-> Nobody]

InCall == UNCHANGED <<setup, routes, default>>

\* ServeHTTP of the router: NewCtx, unless the mux answers itself.
NewCtx(r, q) ==
  /\ setup.serves /\ ctx[r].stage = "none"
  /\ req' = [req EXCEPT ![r] = q]
  /\ ctx' = [ctx EXCEPT ![r] =
       IF setup.engine = "mux" /\ Route(q) = <<>> THEN [EmptyCtx EXCEPT !.stage = "over"]
       ELSE [EmptyCtx EXCEPT !.stage = "run", !.todo = Route(q), !.holds = Pointers]]
  /\ UNCHANGED <<shared, resp, work>> /\ InCall

\* TokenAuth.
MayPass(r) == ~setup.token \/ req[r].auth

\* Mutant: an answer does not end the list.
AfterAnswer_Goes(c) == c

\* Abort.
AfterAnswer(c) == [c EXCEPT !.abort = TRUE]

\* An answer starts: JSON puts the id and the context into its value, a page and
\* a text are written at once.
Answers(r, f) ==
  LET json == f \in {"json", "shared"}
      c == AfterAnswer([ctx[r] EXCEPT !.todo = Tail(@), !.stage = IF json THEN "encode" ELSE "run",
                                      !.says = IF f = "shared" THEN "shared" ELSE "fresh"])
  IN /\ ctx' = [ctx EXCEPT ![r] = c]
     /\ shared' = IF f = "shared"
                  THEN [id |-> IF shared.id = Nobody THEN r ELSE shared.id, ctx |-> r] ELSE shared
     /\ resp' = [resp EXCEPT ![r].fns = Append(@, f),
                             ![r].bodies = IF json THEN @ ELSE @ + 1,
                             ![r].id = IF f = "shared" /\ shared.id # Nobody THEN shared.id ELSE r]
     /\ UNCHANGED work

\* What a clone is asked for, and what it gets.
Wants(hasContext, hasRequest) ==
  {"SvcKit", "Caches"} \cup (IF hasContext THEN {"Ctx", "Cancel"} ELSE {})
                      \cup (IF hasRequest THEN {"Request", "Writer"} ELSE {})
Clone(r, hasContext, hasRequest) == ctx[r].holds \cap Wants(hasContext, hasRequest)

\* The next function of the list, which ends when one aborted.
Handle(r) ==
  LET c == ctx[r]
      f == IF Head(c.todo) = "secret" /\ ~MayPass(r) THEN "json" ELSE Head(c.todo)
  IN /\ c.stage = "run" /\ c.todo # <<>> /\ ~c.abort
     /\ CASE f \in {"json", "shared", "html", "text"} -> Answers(r, f)
          [] f \in {"note", "secret"} ->
               /\ ctx' = [ctx EXCEPT ![r].todo = Tail(@)]
               /\ resp' = [resp EXCEPT ![r].fns = Append(@, f)]
               /\ UNCHANGED <<shared, work>>
          [] f = "spawn" ->
               /\ ctx' = [ctx EXCEPT ![r].todo = Tail(@)]
               /\ \E hasContext, hasRequest \in BOOLEAN :
                    work' = [work EXCEPT ![r] = [stage |-> "works", wants |-> Wants(hasContext, hasRequest),
                                                 holds |-> Clone(r, hasContext, hasRequest)]]
               /\ UNCHANGED <<shared, resp>>
     /\ UNCHANGED req /\ InCall

\* The encoder: a page is rendered with the context of the value.
Encode(r) ==
  LET c == ctx[r]
      owner == IF c.says = "shared" THEN shared.ctx ELSE r
      fails == req[r].reqType = "3" /\ "SvcKit" \notin ctx[owner].holds
  IN /\ c.stage = "encode"
     /\ ctx' = [ctx EXCEPT ![r].stage = "run", ![r].panics = fails]
     /\ resp' = [resp EXCEPT ![r].bodies = IF fails THEN @ ELSE @ + 1]
     /\ UNCHANGED <<req, shared, work>> /\ InCall

\* Clear, when the list is over.
Clear(r) ==
  LET c == ctx[r]
  IN /\ c.stage = "run" /\ (c.todo = <<>> \/ c.abort)
     /\ ctx' = [ctx EXCEPT ![r].stage = "over", ![r].holds = {}, ![r].canceled = TRUE]
     /\ UNCHANGED <<req, shared, resp, work>> /\ InCall

\* Mutant: the goroutine gets the context of the request and no copy.
Held_Same(r) == ctx[r].holds

\* What the goroutine finds: its clone is a value of its own, that Clear does not reach.
Held(r) == work[r].holds

\* The goroutine works, also after the request; one that asked for the context of the
\* request is canceled with it.  What it asked for and does not find is a nil pointer.
Work(r) ==
  /\ work[r].stage = "works"
  /\ work' = [work EXCEPT ![r].stage =
       IF ~(work[r].wants \subseteq Held(r)) THEN "crashed"
       ELSE IF "Ctx" \in Held(r) /\ ctx[r].canceled THEN "canceled" ELSE "done"]
  /\ UNCHANGED <<req, ctx, shared, resp>> /\ InCall

Next ==
  \/ \E key \in Keys, h \in Handlers : AddRouter(key, h)
  \/ Serve
  \/ \E r \in Requests, q \in Asked : NewCtx(r, q)
  \/ \E r \in Requests : Handle(r) \/ Encode(r) \/ Clear(r) \/ Work(r)

Spec == Init /\ [][Next]_svcVars

-----------------------------------------------------------------------------
(* Properties. *)

\* A request is answered once: when its handler is over there is one body, or
\* none if no function of the handler answers; it carries the id of its request,
\* and no encoder meets a cleared context, unless the answer is one that several
\* requests share.
AnsweredOnce ==
  \A r \in Requests :
    /\ resp[r].bodies <= 1
    /\ ctx[r].stage = "over" /\ resp[r].fns # <<>> /\ Last(resp[r].fns) # "note" => resp[r].bodies = 1 \/ ctx[r].panics
    /\ resp[r].id \notin {r, Nobody} \/ ctx[r].panics => "shared" \in Range(resp[r].fns)

\* What follows TokenAuth in a merged handler runs for nobody without the token.
Guarded ==
  \A r \in Requests :
    Range(resp[r].fns) \cap {"secret", "text"} # {} => ~setup.token \/ req[r].auth

\* A goroutine with a clone of the context finds all it asked for also after the request
\* was cleared, and is canceled only if it asked for the context, when the request is over.
CloneLives ==
  \A r \in Requests :
    /\ work[r].stage # "crashed"
    /\ work[r].stage = "canceled" => "Ctx" \in work[r].wants /\ ctx[r].stage = "over"
=============================================================================
