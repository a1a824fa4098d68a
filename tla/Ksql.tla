---------------------------------- MODULE Ksql ----------------------------------
(***************************************************************************)
(* Statements of the sql mapping: templates with blocks that stand or fall  *)
(* with a parameter (z/ze/sqlx/ksql.go), names in them that become bind     *)
(* variables (sqlx_named.go), and lists and rows that multiply those        *)
(* (sqlx_bind.go). A text is a sequence of characters: "f" stands for       *)
(* filter-, "0" for null, "V" for VALUES.                                   *)
(***************************************************************************)
EXTENDS Integers, SequencesExt, FiniteSetsExt

CONSTANTS
  Names,    \* of parameters, one character each
  MaxItems, \* pieces of a template, and of a block
  MaxArgs,  \* arguments, rows
  MaxBound  \* characters of a statement with bind variables

VARIABLES
  job,   \* what is given
  stmt,  \* what Handle makes of a template
  found, \* the parameters it found
  bound, \* the statement that is sent
  args,  \* its arguments
  at     \* "new", then "built" for a template, then "bound" or "error"

ksqlVars == <<job, stmt, found, bound, args, at>>

-----------------------------------------------------------------------------
(* Templates, as they are meant: pieces of text, names, and blocks.        *)

Text(s) == [kind |-> "text", text |-> s, body |-> <<>>]
Name(n) == [kind |-> "name", text |-> <<n>>, body |-> <<>>]
Block(keyword, body) == [kind |-> "block", text |-> keyword, body |-> body]

SeqsOf(S, n) == UNION {[1 .. k -> S] : k \in 0 .. n}
Plain == {Text(<<"(">>), Text(<<"(", ")">>)} \cup {Name(n) : n \in Names}
Keywords == {<<"f">>} \cup UNION {{<<n>>, <<n, "!">>, <<n, "=", "0">>, <<n, "!", "=", "0">>} : n \in {CHOOSE n \in Names : TRUE}}
              \cup {<<n>> : n \in Names}
Blocks == {Block(k, b) : k \in Keywords, b \in SeqsOf(Plain, 1)}
Templates ==
  SeqsOf(Plain \cup Blocks, MaxItems) \cup {<<Block(k, b)>> : k \in Keywords, b \in SeqsOf(Plain, MaxItems)}
    \cup {<<Block(k, <<p, b>>)>> : k \in Keywords, p \in Plain, b \in Blocks}
    \cup {<<Block(k, <<b>>), p>> : k \in Keywords, p \in Plain, b \in Blocks}

RECURSIVE Written(_)
Written(items) ==
  IF items = <<>> THEN <<>>
  ELSE LET i == Head(items)
       IN (CASE i.kind = "text" -> i.text
             [] i.kind = "name" -> <<":">> \o i.text \o <<" ">>
             [] i.kind = "block" -> <<"{", ":">> \o i.text \o <<" ">> \o Written(i.body) \o <<"}">>)
          \o Written(Tail(items))

-----------------------------------------------------------------------------
(* Build: a text into bulks again. Positions are from 1, ends are exclusive. *)

Bulk(keyword, elements) == [string |-> FALSE, text |-> keyword, elements |-> elements]
StringBulk(s, from, to) == <<[string |-> TRUE, text |-> SubSeq(s, from, to - 1), elements |-> <<>>]>>
OpenAt(s, i) == i < Len(s) /\ s[i] = "{" /\ s[i + 1] = ":"
Least(S, otherwise) == IF S = {} THEN otherwise ELSE Min(S)
NextOpen(s, from) == Least({i \in from .. Len(s) : OpenAt(s, i)}, 0)
NextBlank(s, from) == Least({i \in from .. Len(s) : s[i] = " "}, Len(s) + 1)

\* Mutant: any brace opens a block, and that of a name's too.
Depth_Any(s, i) == IF s[i] \in {"{", ":"} THEN 1 ELSE IF s[i] = "}" THEN -1 ELSE 0

Depth(s, i) == IF OpenAt(s, i) THEN 1 ELSE IF s[i] = "}" THEN -1 ELSE 0

RECURSIVE EndOf(_, _, _)
EndOf(s, offset, count) ==
  IF count = 0 \/ offset > Len(s) THEN offset ELSE EndOf(s, offset + 1, count + Depth(s, offset))

\* The position after the brace that closes the block.
findEndOffset(s, start) == EndOf(s, start, 1)

\* Text before a block is kept if it is longer than one character.
Before(s, from, to) == IF from < to - 1 THEN StringBulk(s, from, to) ELSE <<>>

RECURSIVE BuildFrom(_, _, _)
BuildFrom(s, offset, end) ==
  LET open == NextOpen(s, offset)
      blank == NextBlank(s, open)
      close == findEndOffset(s, blank + 1)
  IN IF open = 0 \/ open >= end
     THEN IF offset < end THEN StringBulk(s, offset, end) ELSE <<>>
     ELSE Before(s, offset, open)
            \o <<Bulk(SubSeq(s, open + 2, blank - 1), BuildFrom(s, blank + 1, close - 1))>>
            \o BuildFrom(s, close, end)
Build(s) == BuildFrom(s, 1, Len(s) + 1)

-----------------------------------------------------------------------------
(* Handle: the text of the bulks that are not ignored, or an error, and the  *)
(* parameters found on the way. The filter lets everything pass.            *)

\* A nil, an empty list, or what the assertion refuses.
Ignored(keyword, inc) ==
  LET given == keyword[1] \in DOMAIN inc
  IN CASE keyword = <<"f">> -> FALSE
       [] "=" \in Range(keyword) -> given = ("!" \notin Range(keyword))
       [] OTHER -> ~given \/ inc[keyword[1]] = "empty"

Result(text, names, error) == [text |-> text, names |-> names, error |-> error]
\* Names of a text; those after the first without a parameter are looked at as well,
\* where the code stops: an error has no statement.
NameIn(s) == {n \in Names : \E i \in 1 .. Len(s) - 1 : s[i] = ":" /\ s[i + 1] = n}

RECURSIVE Handle(_, _)
Handle(bulks, inc) ==
  LET One(b) ==
        IF b.string
        THEN IF NameIn(b.text) \subseteq DOMAIN inc THEN Result(b.text \o <<" ">>, NameIn(b.text), FALSE)
             ELSE Result(<<>>, NameIn(b.text) \cap DOMAIN inc, TRUE)
        ELSE LET r == Handle(b.elements, inc)
             IN CASE Ignored(b.text, inc) -> Result(<<>>, {}, FALSE)
                  [] b.text = <<"f">> /\ r.error -> Result(<<>>, r.names, FALSE)
                  [] Last(b.text) = "!" -> Result(<<>>, r.names, TRUE)
                  [] OTHER -> r
      first == One(Head(bulks))
      rest == Handle(Tail(bulks), inc)
  IN IF bulks = <<>> THEN Result(<<>>, {}, FALSE)
     ELSE IF first.error THEN first
     ELSE Result(IF rest.error THEN <<>> ELSE first.text \o rest.text, first.names \cup rest.names, rest.error)

\* No blanks at either end; one counts like several elsewhere.
Trim(s) ==
  LET solid == {i \in DOMAIN s : s[i] # " "}
  IN IF solid = {} THEN <<>> ELSE SubSeq(s, Min(solid), Max(solid))

-----------------------------------------------------------------------------
(* compileNamedQuery: names to bind variables.                             *)

IsName(c) == c \in Names

\* The last byte may still belong to the name.
AtEnd(c, last) == last /\ IsName(c)

Digits == <<"1", "2", "3", "4", "5", "6", "7", "8", "9">>
BindVar(type, name, n) ==
  CASE type = "NAMED" -> <<":">> \o name [] type = "QUESTION" -> <<"?">>
    [] type = "DOLLAR" -> <<"$", Digits[n]>> [] type = "AT" -> <<"@p", Digits[n]>>

RECURSIVE Compile(_, _, _, _)
Compile(r, s, i, type) ==
  LET c == s[i]
      last == i = Len(s)
      name == IF AtEnd(c, last) THEN Append(r.name, c) ELSE r.name
      Go(q) == Compile(q, s, i + 1, type)
  IN IF i > Len(s) THEN r
     ELSE IF c = ":" THEN
       IF ~r.inName THEN Go([r EXCEPT !.inName = TRUE, !.name = <<>>])
       ELSE IF s[i - 1] = ":" THEN Go([r EXCEPT !.inName = FALSE, !.out = Append(@, ":")])
       ELSE [r EXCEPT !.error = TRUE]
     ELSE IF ~r.inName THEN Go([r EXCEPT !.out = Append(@, c)])
     ELSE IF c = "=" /\ r.name = <<>> THEN Go([r EXCEPT !.inName = FALSE, !.out = @ \o <<":", "=">>])
     ELSE IF IsName(c) /\ ~last THEN Go([r EXCEPT !.name = Append(@, c)])
     ELSE Go([r EXCEPT !.inName = FALSE, !.names = Append(@, name),
                       !.out = @ \o BindVar(type, name, Len(r.names) + 1) \o (IF last /\ IsName(c) THEN <<>> ELSE <<c>>)])

compileNamedQuery(s, type) ==
  Compile([inName |-> FALSE, name |-> <<>>, names |-> <<>>, out |-> <<>>, error |-> FALSE], s, 1, type)

\* Rebind: numbers for question marks.
Rebind(s, type) ==
  LET Step(r, c) == IF c # "?" THEN [r EXCEPT !.out = Append(@, c)]
                    ELSE [out |-> r.out \o BindVar(type, <<"arg", Digits[r.n + 1]>>, r.n + 1), n |-> r.n + 1]
  IN IF type = "QUESTION" THEN s ELSE FoldLeft(Step, [out |-> <<>>, n |-> 0], s).out

-----------------------------------------------------------------------------
(* In: a list takes as many bind variables as it has elements. An argument   *)
(* is a sequence of them, or one of its own.                                *)

IsList(a) == a.list
Flat(as) == FlattenSeq([i \in DOMAIN as |-> as[i].items])
Marks(s) == Len(SelectSeq(s, LAMBDA c : c = "?"))

\* The statement after the bind variable of a list.
Rest(s, i) == SubSeq(s, i + 1, Len(s))

More(n) == FlattenSeq([i \in 1 .. n - 1 |-> <<",", "?">>])

RECURSIVE Expanded(_, _, _)
Expanded(s, offset, as) ==
  LET i == Least({k \in offset + 1 .. Len(s) : s[k] = "?"}, 0)
  IN IF i = 0 THEN [out |-> s, error |-> as # <<>>]
     ELSE IF as = <<>> THEN [out |-> <<>>, error |-> TRUE]
     ELSE IF ~IsList(as[1]) THEN Expanded(s, i, Tail(as))
     ELSE LET r == Expanded(Rest(s, i), 0, Tail(as))
          IN [r EXCEPT !.out = SubSeq(s, 1, i) \o More(Len(as[1].items)) \o @]

In(s, as) ==
  IF \E i \in DOMAIN as : IsList(as[i]) /\ as[i].items = <<>> THEN [out |-> <<>>, error |-> TRUE]
  ELSE IF ~\E i \in DOMAIN as : IsList(as[i]) THEN [out |-> s, error |-> FALSE]
  ELSE Expanded(s, 0, as)

-----------------------------------------------------------------------------
(* bindArray: the brackets after VALUES are repeated for every row.        *)

\* findMatchingClosingBracketIndex: where as many have closed as opened, or 0.
ClosingBracket(s, open) ==
  LET Count(c, i) == Len(SelectSeq(SubSeq(s, open, i), LAMBDA d : d = c))
  IN Least({i \in open + 1 .. Len(s) : Count("(", i) = Count(")", i)}, 0)

fixBound(s, rows) ==
  LET at0 == Least({i \in 1 .. Len(s) - 2 : SubSeq(s, i, i + 2) = <<")", "V", "(">>}, 0)
      open == at0 + 2
      close == ClosingBracket(s, open)
      group == SubSeq(s, open, close)
  IN IF at0 = 0 \/ close = 0 THEN s
     ELSE SubSeq(s, 1, close) \o FlattenSeq([i \in 1 .. rows - 1 |-> <<",">> \o group]) \o SubSeq(s, close + 1, Len(s))

-----------------------------------------------------------------------------

Types == {"QUESTION", "DOLLAR", "NAMED", "AT"}
Incs == UNION {[S -> {"value"}] : S \in SUBSET Names} \cup {[n \in Names |-> "empty"]}
Arg(n) == [list |-> n # 1, items |-> [i \in 1 .. n |-> i]]
Groups == {<<"(">> \o g \o <<")">> : g \in SeqsOf({"?", "(", ")"}, MaxBound)}
Height(s, i) == Cardinality({k \in 1 .. i : s[k] = "("}) - Cardinality({k \in 1 .. i : s[k] = ")"})
Balanced(s) == {i \in DOMAIN s : Height(s, i) = 0} = {Len(s)}

Init ==
  /\ stmt = <<>> /\ found = {} /\ bound = <<>> /\ args = <<>> /\ at = "new"
  /\ \/ \E t \in Templates, inc \in Incs : job = [kind |-> "template", template |-> t, inc |-> inc]
     \/ \E s \in SeqsOf({"?", "("}, MaxBound), as \in SeqsOf({Arg(n) : n \in 0 .. 3}, MaxArgs) :
          job = [kind |-> "in", s |-> s, args |-> as]
     \/ \E g \in {g \in Groups : Balanced(g)}, after \in SeqsOf({"?", ")"}, 1), rows \in 1 .. MaxArgs, type \in Types :
          job = [kind |-> "rows", group |-> g, after |-> after, rows |-> rows, type |-> type]

KsqlBuild ==
  /\ at = "new" /\ job.kind = "template"
  /\ LET r == Handle(Build(Trim(Written(job.template))), job.inc)
     IN stmt' = Trim(r.text) /\ found' = r.names /\ at' = (IF r.error THEN "error" ELSE "built")
  /\ UNCHANGED <<job, bound, args>>

\* bindMap
Bind ==
  /\ at = "built"
  /\ \E type \in Types :
       LET q == compileNamedQuery(stmt, type)
           missing == \E i \in DOMAIN q.names : ~\E n \in found : q.names[i] = <<n>>
       IN IF q.error \/ missing THEN at' = "error" /\ UNCHANGED <<bound, args>>
          ELSE at' = "bound" /\ bound' = q.out /\ args' = q.names
  /\ UNCHANGED <<job, stmt, found>>

BindIn ==
  /\ at = "new" /\ job.kind = "in"
  /\ LET r == In(job.s, job.args)
     IN IF r.error THEN at' = "error" /\ UNCHANGED <<bound, args>>
        ELSE at' = "bound" /\ bound' = r.out /\ args' = Flat(job.args)
  /\ UNCHANGED <<job, stmt, found>>

\* Every row gives an argument for every name, wherever the name is.
BindRows ==
  LET s == <<"(", "c", ")", "V">> \o job.group \o job.after
  IN /\ at = "new" /\ job.kind = "rows" /\ at' = "bound"
     /\ bound' = Rebind(IF job.rows > 1 THEN fixBound(s, job.rows) ELSE s, job.type)
     /\ args' = FlattenSeq([r \in 1 .. job.rows |-> [i \in 1 .. Marks(s) |-> <<r, i>>]])
     /\ UNCHANGED <<job, stmt, found>>

Next == KsqlBuild \/ Bind \/ BindIn \/ BindRows

Spec == Init /\ [][Next]_ksqlVars

-----------------------------------------------------------------------------
(* Properties. *)

\* A character alone before a block is lost, see Before.
RECURSIVE Lost(_), Meant(_, _), Missing(_, _)
Lost(items) ==
  \E i \in DOMAIN items :
    \/ items[i].kind = "block" /\ Lost(items[i].body)
    \/ /\ items[i].kind = "text" /\ Len(items[i].text) = 1
       /\ i < Len(items) /\ items[i + 1].kind = "block"
       /\ i > 1 => items[i - 1].kind = "block"

\* A block stands for a parameter with a value, for one that is not null, or that is.
Shown(i, inc) ==
  LET n == i.text[1]
  IN CASE i.text = <<"f">> -> TRUE
       [] i.text = <<n, "=", "0">> -> n \notin DOMAIN inc
       [] i.text = <<n, "!", "=", "0">> -> n \in DOMAIN inc
       [] OTHER -> n \in DOMAIN inc /\ inc[n] # "empty"

\* A template as it is meant: its texts and names, and those of the blocks that are
\* shown.
Meant(items, inc) ==
  FlattenSeq([k \in DOMAIN items |->
    CASE items[k].kind = "text" -> items[k].text
      [] items[k].kind = "name" -> <<":">> \o items[k].text
      [] OTHER -> IF Shown(items[k], inc) THEN Meant(items[k].body, inc) ELSE <<>>])

\* A shown name without a parameter, or a shown block that is an error.
Missing(items, inc) ==
  \E k \in DOMAIN items :
    \/ items[k].kind = "name" /\ items[k].text[1] \notin DOMAIN inc
    \/ /\ items[k].kind = "block" /\ Shown(items[k], inc)
       /\ Last(items[k].text) = "!" \/ Missing(items[k].body, inc)

RECURSIVE InFilter(_, _)
InFilter(items, inc) ==
  \E k \in DOMAIN items : items[k].kind = "block" /\
    ((items[k].text = <<"f">> /\ Missing(items[k].body, inc)) \/ InFilter(items[k].body, inc))

Solid(s) == SelectSeq(s, LAMBDA c : c # " ")

\* What is built of a template is what its blocks mean, and a parameter that is
\* missing in it is an error (ksql.go); within a filter the error is lost.
TemplateMeant ==
  (job.kind = "template" /\ at # "new" /\ ~Lost(job.template) /\ ~InFilter(job.template, job.inc)) =>
    /\ at = "error" => Missing(job.template, job.inc)
    /\ at # "error" => ~Missing(job.template, job.inc) /\ Solid(stmt) = Meant(job.template, job.inc)

Vars(s) == Len(SelectSeq(s, LAMBDA c : c \in {"?", "$", "@p", ":"}))
NamesOf(s) == LET after == SelectSeq([i \in 1 .. Len(s) |-> IF i > 1 /\ s[i - 1] = ":" THEN s[i] ELSE " "], LAMBDA c : c # " ")
              IN [i \in DOMAIN after |-> <<after[i]>>]

\* A statement has as many bind variables as arguments, numbered from one; each name
\* in it gave one, in their order; a list takes one for each of its elements, and
\* rows of values one for each name and row (sqlx_named.go, sqlx_bind.go).
VarsMatchArgs ==
  at = "bound" =>
    /\ LET numbers == SelectSeq(bound, LAMBDA c : c \in Range(Digits)) IN numbers = SubSeq(Digits, 1, Len(numbers))
    /\ job.kind = "template" => args = NamesOf(stmt) /\ Vars(bound) = Len(args)
    /\ (job.kind = "in" /\ \E i \in DOMAIN job.args : job.args[i].list) => Vars(bound) = Len(args) /\ Vars(job.s) = Len(job.args)
    /\ (job.kind = "rows" /\ job.after # <<"?">>) => Vars(bound) = Len(args)
=============================================================================
