------------------------------- MODULE Registry --------------------------------
(***************************************************************************)
(* The registry of services with its two maps and the injection into the   *)
(* fields of an object (Svc in z/zgg.go), and the templates (Tvc).  Several *)
(* goroutines register and remove; Set and Inj take the lock apart.        *)
(***************************************************************************)
EXTENDS Naturals, Sequences

CONSTANTS
  Threads,   \* who registers
  MaxSets    \* bound on the changes

Types == {"Zgg", "Repo", "Hook"}
Services == [type : Types, n : {1, 2}]
None == [type |-> "none", n |-> 0]

VARIABLES
  svcmap,    \* names to services
  typmap,    \* types to services
  changes,   \* how often the maps were changed
  holds,     \* Inject: what a thread has Set and will inject into, or None
  fields,    \* what Inj found: by a name, by a type, by an interface of two types
  tpl,       \* Tvc.tpls of one key: its text, or "none"
  given      \* the texts Load returned, with what was loaded at that time

kitVars == <<svcmap, typmap, changes, holds>>
regVars == <<kitVars, fields, tpl, given>>

\* NewSvcKit: the program is a service itself.
Zgg == [type |-> "Zgg", n |-> 1]
NoFields == [name |-> None, type |-> None, face |-> None, names |-> <<>>]

Init ==
  /\ svcmap = [k \in {"Zgg"} |-> Zgg] /\ typmap = [t \in {"Zgg"} |-> Zgg]
  /\ changes = 0 /\ holds = [t \in Threads |-> None] /\ fields = NoFields
  /\ tpl = "none" /\ given = {}

Without(f, x) == [y \in DOMAIN f \ {x} |-> f[y]]
With(f, x, v) == [y \in DOMAIN f \cup {x} |-> IF y = x THEN v ELSE f[y]]
At(f, x) == IF x \in DOMAIN f THEN f[x] ELSE None

\* RegSvc and Inject name a service by its type.
NameOf(v) == v.type

\* Set a service.  RegSvc leaves it at that, Inject goes on with Inj.
Set(t, v) ==
  /\ holds[t] = None /\ changes < MaxSets
  /\ changes' = changes + 1
  /\ svcmap' = With(svcmap, NameOf(v), v)
  /\ typmap' = With(typmap, v.type, v)
  /\ \E h \in {None, v} : holds' = [holds EXCEPT ![t] = h]
  /\ UNCHANGED <<fields, tpl, given>>

\* The type with this very service is forgotten, if there is one.
Untyped(v) == LET T == {u \in DOMAIN typmap : typmap[u] = v}
              IN IF T = {} THEN typmap ELSE Without(typmap, CHOOSE u \in T : TRUE)

\* Set with nil.
Unset(t, name) ==
  /\ holds[t] = None /\ changes < MaxSets
  /\ changes' = changes + 1
  /\ IF name \in DOMAIN svcmap
     THEN svcmap' = Without(svcmap, name) /\ typmap' = Untyped(svcmap[name])
     ELSE UNCHANGED <<svcmap, typmap>>
  /\ UNCHANGED <<holds, fields, tpl, given>>

\* Repo and Hook have the method that the interface asks for.
Faces == {"Repo", "Hook"}

\* Inj: a field by the name Repo, one by the type Zgg, one by an interface.  What
\* is not found ends the program, or is left nil if it is debugged.
Inj(t) ==
  /\ holds[t] # None
  /\ holds' = [holds EXCEPT ![t] = None]
  /\ \E face \in IF DOMAIN typmap \cap Faces = {} THEN {None} ELSE {typmap[u] : u \in DOMAIN typmap \cap Faces} :
       fields' = [name |-> At(svcmap, "Repo"), type |-> At(typmap, "Zgg"), face |-> face,
                  names |-> svcmap]
  /\ UNCHANGED <<svcmap, typmap, changes, tpl, given>>

-----------------------------------------------------------------------------
\* A text parses or does not; one that calls a function of FuncMap does not
\* either, for Funcs comes after Parse.
Texts == {"page", "otherPage", "broken", "calls"}
Parses(text) == text \in {"page", "otherPage"}

\* Load keeps what there is.
Loaded(text) == IF tpl = "none" THEN text ELSE tpl

Load(text) ==
  /\ tpl' = Loaded(text)
  /\ given' = given \cup {Loaded(text)}
  /\ UNCHANGED <<kitVars, fields>>

\* Preload, at the start, puts what it reads in the place of what there is.
Preload(text) ==
  /\ given = {}
  /\ tpl' = text
  /\ UNCHANGED <<kitVars, fields, given>>

\* Render: an error, or the page.
Render == IF tpl = "none" THEN "notFound" ELSE IF Parses(tpl) THEN tpl ELSE "parseError"

Next ==
  \/ \E t \in Threads : \E v \in Services : Set(t, v)
  \/ \E t \in Threads : \E name \in Types : Unset(t, name)
  \/ \E t \in Threads : Inj(t)
  \/ \E text \in Texts : Load(text) \/ Preload(text)

Spec == Init /\ [][Next]_regVars

-----------------------------------------------------------------------------
(* Properties. *)

\* As long as services are named by their types, what is injected by a type or
\* an interface is a service that is registered under a name at that time, and a
\* registered service is found by its type.
Wired ==
  /\ \A t \in DOMAIN typmap : typmap[t] \in {svcmap[k] : k \in DOMAIN svcmap}
  /\ \A k \in DOMAIN svcmap : At(typmap, svcmap[k].type) = svcmap[k]
  /\ \A v \in {fields.type, fields.face} \ {None} : v \in {fields.names[k] : k \in DOMAIN fields.names}

\* Whoever loads a template gets the one that is rendered from then on.
OneTemplate == \A text \in given : Render = (IF Parses(text) THEN text ELSE "parseError")
=============================================================================
