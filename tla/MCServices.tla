------------------------------- MODULE MCServices -------------------------------
(***************************************************************************)
(* A service: the route of a path (Rdx), the requests with their contexts  *)
(* (Service), the file of a front end (Front) and the statement of a       *)
(* template (Ksql).  They share no state, so a behaviour takes one of them *)
(* through its steps while the others stand as they began.                 *)
(***************************************************************************)
EXTENDS Naturals, Sequences, TLC, HttpParts

CONSTANTS
  Methods, Engines,
  Names, MaxItems, MaxArgs, MaxBound

VARIABLES
  engine, trees, maxParams, registered, dead,
  job, stmt, found, bound, args, at

rVars == <<engine, trees, maxParams, registered, dead>>
kVars == <<job, stmt, found, bound, args, at>>
serviceVars == <<part, rVars, frontVars, kVars, sVars>>

-----------------------------------------------------------------------------
(* Routes and paths for the routers. *)

a == "a"
A == "A"
b == "b"
sl == "/"
x == <<":", "x">>

\* Texts that share beginnings, that end with a slash or with another letter,
\* wildcards at the end, within and after a text, two of them, and catch-alls.
Patterns == {
  <<sl>>, <<sl, a>>, <<sl, a, sl>>, <<sl, A>>, <<sl, a, b>>, <<sl, b, sl, a>>,
  <<sl>> \o x, <<sl, a, sl>> \o x, <<sl, a, sl>> \o x \o <<sl>>,
  <<sl, a>> \o x \o <<sl, b, ":", "y">>, <<sl, a, sl>> \o x \o <<"y">>,
  <<sl, b, sl, "*", "x">>, <<sl, a, sl>> \o x \o <<sl, "*", "y">>, <<sl, "*", "x">>}

Paths ==
  {<<sl>> \o r : r \in UNION {[1 .. n -> {sl, a, b}] : n \in 0 .. 3}} \cup
  {<<sl, a>> \o r : r \in [1 .. 3 -> {sl, a, b}]} \cup
  {<<sl, b, sl>> \o r : r \in [1 .. 2 -> {sl, a, b}]} \cup
  {<<sl>> \o r : r \in UNION {[1 .. n -> {sl, a, A}] : n \in 1 .. 3}} \cup
  {<<sl, a>> \o r \o <<b>> : r \in {<<sl, ".", sl>>, <<sl, ".", ".", sl>>, <<sl, ".">>}}

PerEngine == [rdx |-> 3, dir |-> 2, hst |-> 2]

-----------------------------------------------------------------------------
(* Front ends. *)

Roots == {<<sl, a>>, <<sl, a, sl>>, <<sl, a, sl, a>>}
MCTrees == {{<<sl, a>>}, {<<sl, a, sl, a>>, <<sl, ".">>}, {<<sl, a, sl, a>>, <<sl, a, sl, a, ".">>}}
Keys == {<<>>, <<sl, a>>, <<sl, A>>}
Values == {<<a>>, <<sl, a, sl, a>>}
OneTree == CHOOSE t \in MCTrees : TRUE
OneRoot == {CHOOSE r \in Roots : TRUE}
OneValue == CHOOSE v \in Values : TRUE

\* Any roots and indexes without routes; any two routes with one choice of the rest.
Routes == {r \in [mark : {"", "@:", "@@", "@*", "@>", "@^"}, tilde : BOOLEAN, path : Keys, value : Values] :
             (r.tilde => r.mark \in {"@>", "@^"}) /\ (r.mark # "@>" => r.value = OneValue)}
Unrouted ==
  UNION {[known : MCTrees, roots : {s}, indexs : [s -> Values], index : {<<>>} \cup Values, change : BOOLEAN, routes : {{}}] :
           s \in SUBSET Roots}
Routed == [known : {OneTree}, roots : {OneRoot}, indexs : [OneRoot -> Values], index : {<<>>}, change : {FALSE},
           routes : {{p, q} : p, q \in Routes}]
MCConfigs == Unrouted \cup Routed

-----------------------------------------------------------------------------

R == INSTANCE Rdx WITH Routes <- Patterns, Requests <- Paths, Names <- {<<a>>, <<b>>}, MaxRoutes <- PerEngine
K == INSTANCE Ksql

Init ==
  /\ part \in {"rdx", "front", "ksql", "service"}
  /\ part = "rdx" \/ (part # "rdx" /\ engine = "rdx")
  /\ \/ part = "front"
     \/ /\ part # "front" /\ todo = <<>>
        /\ conf = [known |-> OneTree, roots |-> <<>>, indexs |-> <<>>, index |-> <<>>,
                   change |-> FALSE, routes |-> {}]
  /\ part = "ksql" \/ (part # "ksql" /\ job = [kind |-> "in", s |-> <<>>, args |-> <<>>])
  /\ \/ part = "service"
     \/ part # "service" /\ setup = [engine |-> "map", root |-> <<>>, token |-> FALSE, serves |-> FALSE]
  /\ R!Init /\ F!Init /\ K!Init /\ Svc!Init

Next ==
  /\ UNCHANGED part
  /\ \/ part = "rdx" /\ R!Next /\ UNCHANGED <<frontVars, kVars, sVars>>
     \/ part = "front" /\ F!Next /\ UNCHANGED <<rVars, kVars, sVars>>
     \/ part = "ksql" /\ K!Next /\ UNCHANGED <<rVars, frontVars, sVars>>
     \/ part = "service" /\ Svc!Next /\ UNCHANGED <<rVars, frontVars, kVars>>

Spec == Init /\ [][Next]_serviceVars

\* Methods are alike, and so are the requests of a service.
Alike == Permutations(Methods) \cup Permutations(Requests)

-----------------------------------------------------------------------------

\* Whatever the order of registration, a request finds the one route that matches it,
\* with its parameters, and redirects come to an end (rdx/tree.go, router.go).
Found == part = "rdx" => R!AnswersRight

\* A template is built as it is meant, with a bind variable for each argument
\* (sqlx/ksql.go, sqlx_named.go, sqlx_bind.go).
Bound == part = "ksql" => K!TemplateMeant /\ K!VarsMatchArgs
=============================================================================
