---------------------------------- MODULE Front ----------------------------------
(***************************************************************************)
(* The front end server (app/front2): a request goes through the routes,    *)
(* longest key first, that may answer it, mark it or give it another path;  *)
(* what is left is a file of the site, or the index of the root it is       *)
(* under. A path is a sequence of characters, "_" stands for _getbasepath.  *)
(***************************************************************************)
EXTENDS Naturals, SequencesExt, FiniteSetsExt

CONSTANTS
  Chars,    \* of a path, besides the slash
  MaxPath,  \* characters of a path
  Trees,    \* possible contents of the file system: sets of paths
  Configs   \* possible configurations

VARIABLES
  conf,    \* Config, and the files that were there when it was read
  files,   \* the files now
  url,     \* what was asked for, rr.URL.Path, and X-Req-RouteKey
  todo,    \* the routes not yet looked at, in the order of RouterKey
  answer   \* None, or what was answered

frontVars == <<conf, files, url, todo, answer>>

None == [kind |-> "none"]
Slash == <<"/">>
Paths(n) == {Slash \o p : p \in UNION {[1 .. k -> Chars \cup {"/"}] : k \in 0 .. n - 1}}

Letters == Chars \cup {"/", "_"}
Texts == Seq(Letters)

\* A key is the mark of its action, "~" if it has one, and a path.
Marks == {"", "@:", "@@", "@*", "@>", "@^"}
Routes == {r \in [mark : Marks, tilde : BOOLEAN, path : Texts, value : Texts \ {<<>>}] : r.tilde => r.mark \in {"@>", "@^"}}
KeyLen(r) == Len(r.path) + (IF r.mark = "" THEN 0 ELSE 2) + (IF r.tilde THEN 1 ELSE 0)

\* Routers and Indexs with its keys, Index, which of the two ways to an index is
\* taken, and the files that are there at the start.
IsConfig(c) ==
  /\ c.known \in Trees /\ c.index \in Texts /\ c.change \in BOOLEAN
  /\ IsFiniteSet(c.roots) /\ c.roots \subseteq Texts
  /\ DOMAIN c.indexs = c.roots /\ \A r \in c.roots : c.indexs[r] \in Texts
  /\ IsFiniteSet(c.routes) /\ c.routes \subseteq Routes

Orders(S) == {s \in [1 .. Cardinality(S) -> S] : Range(s) = S}

\* Longest first; keys of one length come as the map gives them.
Before(n, m) == n >= m
Sorted(S, length) == {s \in Orders(S) : \A i, j \in DOMAIN s : i < j => Before(length[s[i]], length[s[j]])}

-----------------------------------------------------------------------------
(* Paths. *)

EndsWith(p, c) == IsSuffix(<<c>>, p)

\* z.HasPathPrefix: a prefix that ends where a segment does.
HasPathPrefix(p, pre) ==
  IsPrefix(pre, p) /\ (pre = <<>> \/ p = pre \/ EndsWith(pre, "/") \/ IsPrefix(pre \o Slash, p))

\* filepath.Ext: a dot in the last segment.
HasExt(p) == \E i \in DOMAIN p : p[i] = "." /\ \A j \in i .. Len(p) : p[j] # "/"

Base(p) == IsSuffix(<<"/", "_">>, p)
From(p, n) == SubSeq(p, n + 1, Len(p))

\* The first of the roots in the order of IndexsKey that is in S.
FirstRoot(S) ==
  LET at == {i \in DOMAIN conf.roots : conf.roots[i] \in S} IN IF at = {} THEN <<>> ELSE conf.roots[Min(at)]

\* The path is under the root r.
Under(p, r) == r # <<>> /\ (IF EndsWith(r, "/") THEN IsPrefix(r, p) ELSE p = r \/ IsPrefix(r \o Slash, p))

\* _FixReqUrlPath: the first root the path is under is taken off, but for its last slash.
FixReqUrlPath(p) ==
  LET root == FirstRoot({r \in Range(conf.roots) : Under(p, r)})
  IN [root |-> root, path |-> From(p, IF EndsWith(root, "/") THEN Len(root) - 1 ELSE Len(root))]

Lower(p) == [i \in DOMAIN p |-> IF p[i] = "A" THEN "a" ELSE p[i]]
IndexOf(root) == IF root \in DOMAIN conf.indexs THEN conf.indexs[root] ELSE <<>>
Rooted(p) == IF p = <<>> \/ p[1] # "/" THEN Slash \o p ELSE p

\* GetRootPath: a file as it is; else the index of its root, that is found
\* whatever the case of its letters if the path was under none.
GetRootPath(p) ==
  LET fixed == FixReqUrlPath(p)
      folded == {r \in Range(conf.roots) : fixed.path = r \/ IsPrefix(Lower(r \o Slash), Lower(fixed.path))}
      index == IF fixed.root # <<>> THEN IndexOf(fixed.root)
               ELSE IF folded = {} THEN <<>> ELSE IndexOf(FirstRoot(folded))
  IN Rooted(IF HasExt(fixed.path) THEN fixed.path ELSE IF index = <<>> THEN conf.index ELSE index)

-----------------------------------------------------------------------------
(* Files. *)

\* fs.FS: no empty segment; what is above a file is a directory.
ValidPath(p) == p = Slash \/ (Rooted(p) # Slash /\ ~EndsWith(p, "/")
                              /\ \A i \in 1 .. Len(Rooted(p)) - 1 : ~(Rooted(p)[i] = "/" /\ Rooted(p)[i + 1] = "/"))
IsDir(p) == p = Slash \/ \E f \in files : IsPrefix(Rooted(p) \o Slash, f)
Opens(p) == p # <<>> /\ ValidPath(p) /\ (Rooted(p) \in files \/ IsDir(p))

\* ServeContent of a directory cannot seek.
Content(p, root) == IF Rooted(p) \in files THEN [kind |-> "file", path |-> Rooted(p), root |-> root] ELSE [kind |-> "500"]
NotFound == [kind |-> "404"]
FirstOf(p, q) == IF p = <<>> THEN q ELSE p

\* A path with an extension is a file or nothing; another one may be a page of the site.
IsPage(p) == ~HasExt(p)

\* A file that was there at the start; its first character is taken for a slash.
Known(p) == Slash \o Tail(p) \in conf.known

\* IndexWithTRY: what was there at the start decides, and must still open.
IndexWithTRY(p, root) ==
  LET at == IF Known(p) THEN p ELSE Rooted(FirstOf(IndexOf(root), conf.index))
  IN IF (~Known(p) /\ ~IsPage(p)) \/ ~Known(at) \/ ~Opens(at) THEN NotFound ELSE Content(at, root)

\* Mutant: a directory is served like a file.
Missing_Dir(p) == ~Opens(p)

Missing(p) == ~Opens(p) \/ IsDir(p)

\* IndexWithCHG: what is there now decides.
IndexWithCHG(p, root) ==
  LET index == FirstOf(IndexOf(root), conf.index)
  IN IF ~Missing(p) THEN Content(p, root)
     ELSE IF HasExt(p) \/ ~Opens(index) THEN NotFound ELSE Content(index, root)

-----------------------------------------------------------------------------
(* A request. *)

Init ==
  /\ \E c \in Configs : \E keys \in Sorted(c.roots, [r \in c.roots |-> Len(r)]) :
       conf = [known |-> c.known, roots |-> keys, indexs |-> c.indexs, index |-> c.index, change |-> c.change, routes |-> c.routes]
  /\ todo \in Sorted(conf.routes, [r \in conf.routes |-> KeyLen(r)])
  /\ files = conf.known
  /\ url = [asked |-> <<>>, path |-> <<>>, key |-> <<>>, moved |-> FALSE] /\ answer = None

Request ==
  /\ url.asked = <<>>
  /\ \E p \in Paths(IF conf.routes = {} THEN MaxPath ELSE MaxPath - 1) : \E q \in {p, p \o <<"/", "_">>} :
       url' = [asked |-> q, path |-> q, key |-> <<>>, moved |-> FALSE]
  /\ UNCHANGED <<conf, files, todo, answer>>

\* A file system that may change, and does.
Change ==
  /\ url.asked = <<>> /\ conf.change /\ files = conf.known
  /\ files' \in Trees
  /\ UNCHANGED <<conf, url, todo, answer>>

Asked == url.asked # <<>> /\ answer = None
Answers(a) == answer' = a /\ UNCHANGED <<conf, files, url, todo>>
GoesOn(u) == url' = u /\ todo' = Tail(todo) /\ UNCHANGED <<conf, files, answer>>
OnRoute(mark) == Asked /\ todo # <<>> /\ Head(todo).mark = mark /\ HasPathPrefix(url.path, Head(todo).path)

SkipRoute == Asked /\ todo # <<>> /\ ~HasPathPrefix(url.path, Head(todo).path) /\ GoesOn(url)

\* A plain route is a proxy, that another request may have made before.
Proxy == OnRoute("") /\ Answers([kind |-> "proxy", key |-> Head(todo), path |-> url.path])
Mark == OnRoute("@:") /\ GoesOn([url EXCEPT !.key = Head(todo).value])
Exact == OnRoute("@@") /\ Answers(IF Head(todo).path = url.path THEN [kind |-> "text", key |-> Head(todo)] ELSE NotFound)
Text == OnRoute("@*") /\ Answers([kind |-> "text", key |-> Head(todo)])

\* "~" gives the request another path, and the routes that are left look at that one.
Redirect ==
  /\ OnRoute("@>")
  /\ IF Base(url.path) THEN GoesOn(url)
     ELSE IF Head(todo).tilde THEN GoesOn([url EXCEPT !.path = Head(todo).value, !.moved = TRUE])
     ELSE Answers([kind |-> "303", key |-> Head(todo)])

\* The index, or the file, is fetched from the target, or asked of a proxy to it.
Fetch ==
  /\ OnRoute("@^")
  /\ IF Base(url.path) THEN GoesOn(url)
     ELSE Answers([kind |-> IF Head(todo).tilde THEN "fetch" ELSE "proxy", key |-> Head(todo), path |-> GetRootPath(url.path)])

\* _getbasepath: the root of the page that asks, or of the path itself.
BasePath ==
  /\ Asked /\ todo = <<>> /\ Base(url.path)
  /\ \E referer \in {url.path} \cup Paths(2) :
       Answers([kind |-> "base", of |-> referer, root |-> FixReqUrlPath(referer).root])

File ==
  /\ Asked /\ todo = <<>> /\ ~Base(url.path)
  /\ LET fixed == FixReqUrlPath(url.path)
         path == IF fixed.path = <<>> THEN Slash ELSE fixed.path
     IN Answers(IF conf.change THEN IndexWithCHG(fixed.path, fixed.root) ELSE IndexWithTRY(path, fixed.root))

Next ==
  \/ Request \/ Change \/ SkipRoute \/ Proxy \/ Mark \/ Exact \/ Text \/ Redirect \/ Fetch \/ BasePath \/ File

Spec == Init /\ [][Next]_frontVars

-----------------------------------------------------------------------------
(* Properties. *)

\* As long as the files are what they were at the start both ways to serve a
\* path give the same answer, unless the index is a directory (index.go).
AnswersAgree ==
  (url.asked # <<>> /\ url.path = url.asked /\ files = conf.known /\ ~IsDir(FirstOf(conf.index, <<"x">>))
    /\ \A r \in DOMAIN conf.indexs : ~IsDir(conf.indexs[r])) =>
    LET fixed == FixReqUrlPath(url.path)
    IN IndexWithTRY(FirstOf(fixed.path, Slash), fixed.root) = IndexWithCHG(fixed.path, fixed.root)

\* The root that is taken off is the longest one the path is under, and ends where
\* a segment does; whoever answers a request whose path was not changed has the
\* longest key of those that would (handler.go, ServeHTTP; common.go).
LongestFirst ==
  /\ answer.kind \in {"file", "base"} =>
       LET of == IF answer.kind = "base" THEN answer.of ELSE url.path
           under == {r \in Range(conf.roots) : HasPathPrefix(of, r)}
       IN answer.root = (IF under = {} THEN <<>> ELSE CHOOSE r \in under : \A s \in under : Len(s) <= Len(r))
  /\ (answer.kind \in {"proxy", "text", "303", "fetch"} /\ ~url.moved) =>
       \A r \in conf.routes : KeyLen(r) > KeyLen(answer.key) =>
         ~HasPathPrefix(url.path, r.path) \/ r.mark = "@:" \/ (r.mark \in {"@>", "@^"} /\ Base(url.path))
=============================================================================
