---------------------------------- MODULE Rdx ----------------------------------
(***************************************************************************)
(* The router rdx (z/ze/rdx): a radix tree of routes for each method, the  *)
(* lookup, the redirects to a path with or without a slash at its end or   *)
(* with other letters, and the answers 405 and 404; and the engines dir    *)
(* and hst (z/ze/rde), which keep one such router for each first directory *)
(* or for each host.  Strings are sequences of characters, each one byte.  *)
(* A handle is the route it was registered for.                            *)
(***************************************************************************)
EXTENDS Integers, FiniteSets, SequencesExt

CONSTANTS
  Routes,     \* patterns an application registers
  Methods,
  Requests,   \* paths of requests
  Engines,    \* of "rdx", "dir" and "hst"
  Names,      \* first directories or hosts
  MaxRoutes   \* for each engine

Letters == {<<"a", "A">>, <<"b", "B">>}
None == <<>>
NoPath == <<" ">>

VARIABLES
  engine,
  trees,      \* Router.trees: for each name and method
  maxParams,  \* Router.maxParams
  registered, \* history: <<name, method, route>>
  dead        \* a registration has panicked

vars == <<engine, trees, maxParams, registered, dead>>

\* Who has a router.
Keys == IF engine = "rdx" THEN {None} ELSE Names

-----------------------------------------------------------------------------
(* The tree. *)

Static == "static"
EmptyNode == [path |-> <<>>, indices |-> <<>>, wild |-> FALSE, type |-> Static,
              prio |-> 0, kids |-> <<>>, handle |-> None]

\* What a panic leaves.
Panic == [EmptyNode EXCEPT !.type = "panic"]

Init ==
  /\ engine \in Engines
  /\ trees = [k \in Keys |-> [m \in Methods |-> EmptyNode]]
  /\ maxParams = [k \in Keys |-> 0]
  /\ registered = {} /\ dead = FALSE

\* s[i:] and s[:i] of the source.
From(s, i) == SubSeq(s, i + 1, Len(s))
Upto(s, i) == SubSeq(s, 1, i)

longestCommonPrefix(a, b) ==
  LET n == IF Len(a) < Len(b) THEN Len(a) ELSE Len(b) IN
  CHOOSE i \in 0 .. n : SubSeq(a, 1, i) = SubSeq(b, 1, i) /\ (i = n \/ a[i + 1] # b[i + 1])

IsWild(c) == c \in {":", "*"}
SegmentEnd(s, i) == CHOOSE e \in i .. Len(s) + 1 :
  /\ e > Len(s) \/ s[e] = "/"
  /\ \A j \in i .. e - 1 : s[j] # "/"

\* The first wildcard, up to the end of its segment.
WildcardAt(at, text) ==
  [at |-> at, text |-> text, valid |-> \A i \in 2 .. Len(text) : ~IsWild(text[i])]

findWildcard(path) ==
  LET at == SelectInSeq(path, IsWild) IN
  WildcardAt(at, SubSeq(path, at, SegmentEnd(path, at) - 1))

countParams(path) == Cardinality({i \in DOMAIN path : IsWild(path[i])})

Bumped(n) == [n EXCEPT !.prio = @ + 1]
Moved(s, from, to) == InsertAt(RemoveAt(s, from), to, s[from])

IndicesMoved(s, from, to) == Moved(s, from, to)

\* Where a child goes that is asked for once more, before all of less priority.
NewPos(n, pos) ==
  LET stay == {i \in 1 .. pos - 1 : n.kids[i].prio > n.kids[pos].prio} IN
  IF stay = {} THEN 1 ELSE (CHOOSE i \in stay : \A j \in stay : j <= i) + 1

incrementChildPrio(n, pos) ==
  LET new == NewPos(n, pos) IN
  [n EXCEPT !.kids = Moved([@ EXCEPT ![pos] = Bumped(@)], pos, new),
            !.indices = IndicesMoved(@, pos, new)]

\* A child that panicked takes its parents along.
WithKid(n, i, kid) == IF kid = Panic THEN Panic ELSE [n EXCEPT !.kids[i] = kid]

\* A catch-all ends its path, after a slash.
insertAny(n, path, handle, w) ==
  LET leaf == [EmptyNode EXCEPT !.path = From(path, w.at - 2), !.type = "catchAll",
                                !.handle = handle, !.prio = 1]
      any  == [EmptyNode EXCEPT !.wild = TRUE, !.type = "catchAll", !.prio = 1,
                                !.kids = <<leaf>>] IN
  IF \/ w.at - 1 + Len(w.text) # Len(path)
     \/ n.path # <<>> /\ n.path[Len(n.path)] = "/"
     \/ w.at = 1 \/ path[w.at - 1] # "/"
  THEN Panic
  ELSE [n EXCEPT !.path = Upto(path, w.at - 2), !.kids = <<any>>, !.indices = <<"/">>]

RECURSIVE insertChild(_, _, _)

\* The first wildcard w of a path, for a node; rest is the path from it on.
insertWild(n, path, handle, w, rest) ==
  LET kid(deep) == [EmptyNode EXCEPT !.type = "param", !.path = w.text, !.prio = 1,
                                     !.kids = deep, !.handle = IF deep = <<>> THEN handle ELSE @]
      at(deep)  == [n EXCEPT !.path = IF w.at > 1 THEN Upto(path, w.at - 1) ELSE @,
                             !.wild = TRUE, !.kids = <<kid(deep)>>]
      under(k)  == IF k = Panic THEN Panic ELSE at(<<k>>) IN
  IF ~w.valid \/ Len(w.text) < 2 \/ n.kids # <<>>
  THEN Panic
  ELSE IF w.text[1] = "*"
  THEN insertAny(n, path, handle, w)
  ELSE IF w.text = rest
  THEN at(<<>>)
  ELSE under(insertChild(Bumped(EmptyNode), From(rest, Len(w.text)), handle))

insertChild(n, path, handle) ==
  IF \E i \in DOMAIN path : IsWild(path[i])
  THEN insertWild(n, path, handle, findWildcard(path), From(path, findWildcard(path).at - 1))
  ELSE [n EXCEPT !.path = path, !.handle = handle]

\* A node is split where its path and the new one part.
Split(n, i) ==
  LET kid == [n EXCEPT !.path = From(@, i), !.type = Static, !.prio = @ - 1] IN
  [n EXCEPT !.kids = <<kid>>, !.indices = <<n.path[i + 1]>>, !.path = Upto(@, i),
            !.handle = None, !.wild = FALSE]

\* The wildcard of a node is the one the path goes on with.
SameWildcard(n, path) ==
  /\ IsPrefix(n.path, path) /\ n.type # "catchAll"
  /\ Len(n.path) >= Len(path) \/ path[Len(n.path) + 1] = "/"

\* Into the child at a position, which comes forward for it.
Descend(n, pos, kid) == WithKid(incrementChildPrio(n, pos), NewPos(n, pos), kid)

RECURSIVE Walk(_, _, _)

\* What is left of a path under a node whose own text has been read.
Under(n, path, handle) ==
  LET pos   == SelectInSeq(n.indices, LAMBDA c : c = path[1])
      grown == [n EXCEPT !.indices = Append(@, path[1]), !.kids = Append(@, EmptyNode)]
      only  == n.wild \/ (n.type = "param" /\ path[1] = "/" /\ Len(n.kids) = 1)
  IN IF path = <<>>
     THEN IF n.handle # None THEN Panic ELSE [n EXCEPT !.handle = handle]
     ELSE IF n.wild /\ ~SameWildcard(n.kids[1], path)
     THEN Panic
     ELSE IF only
     THEN WithKid(n, 1, Walk(Bumped(n.kids[1]), path, handle))
     ELSE IF pos # 0
     THEN Descend(n, pos, Walk(Bumped(n.kids[pos]), path, handle))
     ELSE IF IsWild(path[1])
     THEN insertChild(n, path, handle)
     ELSE Descend(grown, Len(grown.kids), insertChild(Bumped(EmptyNode), path, handle))

WalkFrom(i, node, whole, handle) ==
  Under(IF i < Len(node.path) THEN Split(node, i) ELSE node, From(whole, i), handle)

Walk(node, whole, handle) ==
  WalkFrom(longestCommonPrefix(whole, node.path), node, whole, handle)

addRoute(root, path) ==
  LET n == Bumped(root)
      rooted(t) == IF t = Panic THEN Panic ELSE [t EXCEPT !.type = "root"] IN
  IF n.path = <<>> /\ n.indices = <<>>
  THEN rooted(insertChild(n, path, path))
  ELSE Walk(n, path, path)

-----------------------------------------------------------------------------
(* The lookup.                                                             *)

Nothing(tsr) == [handle |-> None, params |-> <<>>, tsr |-> tsr]
Child(n, c) == SelectInSeq(n.indices, LAMBDA i : i = c)

\* Mutant: the child need not have a handle.
SlashLeaf_Any(n) == Child(n, "/") # 0

\* With a slash more there is a handle: the child for the slash has one, or is
\* a catch-all with one.
SlashLeaf(n) ==
  LET k == Child(n, "/") IN
  /\ k # 0
  /\ \/ Len(n.kids[k].path) = 1 /\ n.kids[k].handle # None
     \/ n.kids[k].type = "catchAll" /\ n.kids[k].kids[1].handle # None

\* With a slash less or more there is a node for a path that falls off a node.
NearMiss(n, path) ==
  \/ path = <<"/">>
  \/ n.path = Append(path, "/") /\ n.handle # None

RECURSIVE getValue(_, _, _)
getValue(n, whole, params) ==
  LET path == From(whole, Len(n.path))
      next == Child(n, path[1])
      kid  == n.kids[1]
      end  == SegmentEnd(path, 1) - 1
      bound(name, value) == Append(params, [key |-> name, value |-> value])
      mine == bound(Tail(kid.path), Upto(path, end)) IN
  IF ~IsPrefix(n.path, whole)
  THEN Nothing(NearMiss(n, whole))
  ELSE IF path = <<>>
  THEN IF n.handle # None
       THEN [handle |-> n.handle, params |-> params, tsr |-> FALSE]
       ELSE Nothing(\/ whole = <<"/">> /\ (n.type = Static \/ (n.wild /\ n.type # "root"))
                    \/ SlashLeaf(n))
  ELSE IF ~n.wild
  THEN IF next # 0
       THEN getValue(n.kids[next], path, params)
       ELSE Nothing(path = <<"/">> /\ n.handle # None)
  ELSE IF kid.type = "catchAll"
  THEN [handle |-> kid.handle, params |-> bound(From(kid.path, 2), path), tsr |-> FALSE]
  ELSE IF end < Len(path)
  THEN IF kid.kids # <<>>
       THEN getValue(kid.kids[1], From(path, end), mine)
       ELSE Nothing(Len(path) = end + 1)
  ELSE IF kid.handle # None
  THEN [handle |-> kid.handle, params |-> mine, tsr |-> FALSE]
  ELSE Nothing(/\ Len(kid.kids) = 1
               /\ LET g == kid.kids[1] IN
                  \/ g.path = <<"/">> /\ g.handle # None
                  \/ g.path = <<>> /\ g.indices = <<"/">>)

-----------------------------------------------------------------------------
(* The lookup for other letters and other slashes.                         *)

Lower(c) == IF \E l \in Letters : l[2] = c THEN (CHOOSE l \in Letters : l[2] = c)[1] ELSE c
Upper(c) == IF \E l \in Letters : l[1] = c THEN (CHOOSE l \in Letters : l[1] = c)[2] ELSE c
Lowered(s) == [i \in DOMAIN s |-> Lower(s[i])]
EqualFold(a, b) == Lowered(a) = Lowered(b)

\* The first character of a node is the one its parent chose it by.
FoldPrefix(p, s) == Len(p) <= Len(s) /\ (p = <<>> \/ EqualFold(SubSeq(s, 2, Len(p)), Tail(p)))

RECURSIVE findCI(_, _, _)
\* What findCaseInsensitivePathRec appends to ciPath; NoPath if it finds nothing.
findCI(n, whole, ci) ==
  LET path  == From(whole, Len(n.path))
      done  == ci \o n.path
      kid   == n.kids[1]
      end   == SegmentEnd(path, 1) - 1
      below(c) == LET k == Child(n, c) IN
                  IF k = 0 \/ n.path = <<>> THEN NoPath ELSE findCI(n.kids[k], path, done)
      lower == below(Lower(path[1])) IN
  IF ~FoldPrefix(n.path, whole)
  THEN CASE whole = <<"/">> -> ci
         [] whole # <<"/">> ->
              IF /\ Len(whole) + 1 = Len(n.path) /\ n.path[Len(n.path)] = "/"
                 /\ EqualFold(Tail(whole), SubSeq(n.path, 2, Len(whole))) /\ n.handle # None
              THEN done ELSE NoPath
  ELSE IF path = <<>>
  THEN IF n.handle # None THEN done
       ELSE IF SlashLeaf(n) THEN Append(done, "/") ELSE NoPath
  ELSE IF ~n.wild
  THEN IF lower # NoPath THEN lower
       ELSE IF Upper(path[1]) # Lower(path[1]) /\ Child(n, Upper(path[1])) # 0 /\ n.path # <<>>
       THEN below(Upper(path[1]))
       ELSE IF path = <<"/">> /\ n.handle # None THEN done ELSE NoPath
  ELSE IF kid.type = "catchAll"
  THEN done \o path
  ELSE IF end < Len(path)
  THEN IF kid.kids # <<>>
       THEN findCI(kid.kids[1], From(path, end), done \o Upto(path, end))
       ELSE IF Len(path) = end + 1 THEN done \o Upto(path, end) ELSE NoPath
  ELSE IF kid.handle # None
  THEN done \o path
  ELSE IF Len(kid.kids) = 1 /\ kid.kids[1].path = <<"/">> /\ kid.kids[1].handle # None
  THEN done \o Append(path, "/") ELSE NoPath

-----------------------------------------------------------------------------
(* CleanPath: what is written so far and how far the path is read.         *)

\* The last element goes, with its slash.
Backtrack(out) == IF Len(out) = 1 THEN out
                  ELSE LET w == SelectLastInSubSeq(out, 1, Len(out), LAMBDA c : c = "/") IN
                       IF w = 1 THEN <<"/">> ELSE Upto(out, w - 1)

RECURSIVE Cleaned(_, _, _, _)
Cleaned(p, r, out, trailing) ==
  LET end  == SegmentEnd(p, r)
      elem == SubSeq(p, r, end - 1) IN
  CASE r > Len(p)        -> IF trailing /\ Len(out) > 1 THEN Append(out, "/") ELSE out
    [] r <= Len(p) /\ elem = <<>>       -> Cleaned(p, r + 1, out, trailing)
    [] r <= Len(p) /\ elem = <<".">>    -> Cleaned(p, end + 1, out, trailing \/ end > Len(p))
    [] r <= Len(p) /\ elem = <<".", ".">> -> Cleaned(p, end + 1, Backtrack(out), trailing)
    [] OTHER -> Cleaned(p, end, (IF Len(out) > 1 THEN Append(out, "/") ELSE out) \o elem, trailing)

CleanPath(p) ==
  IF p = <<>> THEN <<"/">>
  ELSE Cleaned(p, IF p[1] = "/" THEN 2 ELSE 1, <<"/">>, Len(p) > 1 /\ p[Len(p)] = "/")

-----------------------------------------------------------------------------
(* Answers.                                                                *)

Handled(route, params) == [kind |-> "handle", route |-> route, params |-> params]
Redirect(path) == [kind |-> "redirect", path |-> path]
Allowed(methods) == [kind |-> "allow", methods |-> methods]
NotFound == [kind |-> "notfound"]

\* With a slash more, or without the last one.
Toggled(path) ==
  IF Len(path) > 1 /\ path[Len(path)] = "/" THEN Front(path) ELSE Append(path, "/")

\* A path that is empty is written to Location as "/".
Located(path) == IF path = <<>> THEN <<"/">> ELSE path

allowed(k, path, method) ==
  {m \in Methods \ {method} :
     trees[k][m] # EmptyNode /\ getValue(trees[k][m], path, <<>>).handle # None}

\* No route of the method matches: the spelling that one would match, or else the
\* other methods that the path is known for.
Respelled(fixed, other) ==
  IF fixed # NoPath THEN Redirect(Located(fixed))
  ELSE IF other # {} THEN Allowed(other) ELSE NotFound

\* Router.ServeHTTP.
ServeFound(root, path, found, other) ==
  LET corrects == root # EmptyNode /\ path # <<"/">> IN
  IF root # EmptyNode /\ found.handle # None
  THEN Handled(found.handle, found.params)
  ELSE IF corrects /\ found.tsr
  THEN Redirect(Toggled(path))
  ELSE Respelled(IF corrects THEN findCI(root, CleanPath(path), <<>>) ELSE NoPath, other)

Serve(k, method, path) ==
  ServeFound(trees[k][method], path, getValue(trees[k][method], path, <<>>),
             allowed(k, path, method))

\* The name before the first slash of what is left of the path, and the path
\* its router gets.
DirSplit(path) ==
  LET action == IF path # <<>> /\ path[1] = "/" THEN Tail(path) ELSE path
      at     == SelectInSeq(action, LAMBDA c : c = "/") IN
  IF at > 1 THEN <<Upto(action, at - 1), From(action, at - 1)>> ELSE <<None, None>>

\* A name nothing was registered for has no router.
HasRouter(k) == \E m \in Methods : k \in Keys /\ trees[k][m] # EmptyNode

\* ServeHTTP of the engine: the router of the path's directory or of the host.
Target(host, path) ==
  CASE engine = "rdx" -> <<None, path>>
    [] engine = "dir" -> DirSplit(path)
    [] engine = "hst" -> <<host, path>>

AnswerAt(t, method) ==
  IF engine = "rdx" \/ HasRouter(t[1]) THEN Serve(t[1], method, t[2]) ELSE NotFound

Answer(host, method, path) == AnswerAt(Target(host, path), method)

-----------------------------------------------------------------------------
(* Registration.                                                           *)

\* Router.Handle: maxParams follows the tree.
Register(k, m, route) ==
  \E t \in {addRoute(trees[k][m], route)} :
  /\ ~dead /\ Cardinality(registered) < MaxRoutes[engine]
  /\ IF t = Panic
     THEN dead' = TRUE /\ UNCHANGED <<trees, maxParams, registered>>
     ELSE /\ trees' = [trees EXCEPT ![k][m] = t]
          /\ maxParams' = [maxParams EXCEPT ![k] =
               IF countParams(route) > @ THEN countParams(route) ELSE @]
          /\ registered' = registered \cup {<<k, m, route>>}
          /\ UNCHANGED dead
  /\ UNCHANGED engine

Next == \E k \in Keys, m \in Methods, route \in Routes : Register(k, m, route)

Spec == Init /\ [][Next]_vars

-----------------------------------------------------------------------------
(* Properties. *)

\* The segments of a path, which begins with a slash.
RECURSIVE Segments(_)
Segments(p) == IF p = <<>> THEN <<>>
               ELSE LET e == SegmentEnd(p, 2) IN <<SubSeq(p, 2, e - 1)>> \o Segments(From(p, e - 1))

\* What a route means: a segment after a text takes any text that is left (but
\* not nothing at the end), a catch-all all that is left.
ParamAt(seg) == SelectInSeq(seg, IsWild)

RECURSIVE Means(_, _)
Means(rs, ps) ==
  \/ rs = <<>> /\ ps = <<>>
  \/ /\ rs # <<>> /\ ps # <<>>
     /\ LET r == rs[1]
            p == ps[1]
            w == ParamAt(r) IN
        \/ w # 0 /\ r[w] = "*"
        \/ /\ IF w = 0 THEN r = p
              ELSE /\ IsPrefix(Upto(r, w - 1), p)
                   /\ Len(p) >= w \/ (Len(ps) > 1 /\ Len(p) = w - 1)
           /\ Means(Tail(rs), Tail(ps))

\* The pattern of a route as a whole.
Whole(k, route) == IF engine = "dir" THEN <<"/">> \o k \o route ELSE route

MatchingAll(host, m, segments) ==
  {x \in registered : /\ x[2] = m /\ Means(Segments(Whole(x[1], x[3])), segments)
                      /\ engine = "hst" => x[1] = host}
Matching(host, m, path) == MatchingAll(host, m, Segments(path))

Asked == {<<h, m, path>> : h \in (IF engine = "hst" THEN Names ELSE {None}), m \in Methods, path \in Requests}

\* The tree knows what was registered, in whatever order: a request is handled
\* by the route it matches, there is only one, and it is told about another
\* method exactly if a route of that one matches.
FindsRoute(a, s) ==
  \E mine \in {Matching(a[1], a[2], a[3])} :
    /\ Cardinality(mine) <= 1
    /\ mine # {} <=> s.kind = "handle"
    /\ s.kind = "handle" => \E x \in mine : x[3] = s.route
    /\ s.kind = "allow" =>
         s.methods = {m \in Methods : Matching(a[1], m, a[3]) # {}}

\* The path a route stands for with values for its parameters.
RECURSIVE Filled(_, _)
Filled(rs, values) ==
  IF rs = <<>> THEN <<>>
  ELSE LET w == ParamAt(rs[1]) IN
       IF w = 0 THEN <<"/">> \o rs[1] \o Filled(Tail(rs), values)
       ELSE IF rs[1][w] = "*" THEN values[1]
       ELSE <<"/">> \o Upto(rs[1], w - 1) \o values[1] \o Filled(Tail(rs), Tail(values))

\* What a request is told it asked for is what stood in its path, and there is
\* room for it in the slice the router took from its pool.
ParamsBound(a, s) ==
  s.kind = "handle" => \E x \in registered :
    /\ x[2] = a[2] /\ x[3] = s.route /\ (engine = "hst" => x[1] = a[1])
    /\ Len(s.params) <= maxParams[x[1]]
    /\ Filled(Segments(Whole(x[1], s.route)), [i \in DOMAIN s.params |-> s.params[i].value]) = a[3]

\* A client that follows redirects comes to an end.
RECURSIVE Hops(_, _, _, _)
Hops(host, m, s, n) ==
  IF s.kind # "redirect" THEN 0
  ELSE IF n = 0 THEN 1
  ELSE 1 + Hops(host, m, Answer(host, m, s.path), n - 1)

Settles(a, s) == Hops(a[1], a[2], s, 3) <= 3

\* As long as no registration has panicked, every request is answered that way
\* (rdx/tree.go, router.go).
AnswersRight ==
  ~dead => \A a \in Asked :
    \E s \in {Answer(a[1], a[2], a[3])} : FindsRoute(a, s) /\ ParamsBound(a, s) /\ Settles(a, s)
=============================================================================
