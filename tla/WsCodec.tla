-------------------------------- MODULE WsCodec --------------------------------
(***************************************************************************)
(* Three helpers of the WebSocket library (z/ze/wsg): the lists of tokens   *)
(* and of extensions in a header (util.go), the writer that holds back the  *)
(* end of a deflated message (compression.go), and the frames of a message  *)
(* that is prepared once for many connections (prepared.go).                *)
(***************************************************************************)
EXTENDS Naturals, SequencesExt, FiniteSetsExt

CONSTANTS
  MaxText,   \* length of a header
  MaxBytes,  \* bytes of a message
  Users,     \* who sends a prepared message
  Kinds      \* kinds of connections it is sent to

VARIABLES
  text,      \* a header
  parsed,    \* what was found in it, or Unread
  trunc,     \* truncWriter: what it wrote, what it holds, and how much it was given
  frames,    \* PreparedMessage.frames: kind to "new", "busy" or "made"
  user,      \* what each user does
  got        \* what each user got

codecVars == <<text, parsed, trunc, frames, user, got>>
Unread == [found |-> FALSE, extensions |-> <<>>, read |-> FALSE]

-----------------------------------------------------------------------------
(* Headers: "u" is a letter of the token that is looked for, "U" the same   *)
(* letter, large, "v" another one.  What is left of a header is the place   *)
(* where it begins.                                                         *)

Chars == {"u", "U", "v", "space", "comma", "semicolon", "equals", "quote", "backslash"}
isTokenOctet == {"u", "U", "v"}

\* The character at i.
At(s, i) == IF i > Len(s) THEN "end" ELSE s[i]

\* The first place from i on without a character of C.
Past(s, i, C) == CHOOSE j \in i .. Len(s) + 1 : At(s, j) \notin C /\ \A k \in i .. j - 1 : s[k] \in C

skipSpace(s, i) == Past(s, i, {"space"})

\* A token with the spaces around it, and the place behind them.
nextToken(s, i) ==
  LET first == skipSpace(s, i)
      end == Past(s, first, isTokenOctet)
  IN [token |-> SubSeq(s, first, end - 1), at |-> skipSpace(s, end)]

\* A quote after an odd number of backslashes does not close the string that begins at i.
Closes(s, i, p) ==
  s[p] = "quote" /\ Cardinality({j \in i + 1 .. p - 1 : \A k \in j .. p - 1 : s[k] = "backslash"}) % 2 = 0

\* nextTokenOrQuoted: without the closing quote all is taken and there is no value.
AfterValue(s, i) ==
  IF At(s, i) # "quote" THEN Past(s, i, isTokenOctet)
  ELSE LET ends == {p \in i + 1 .. Len(s) : Closes(s, i, p)} IN IF ends = {} THEN Len(s) + 1 ELSE Min(ends) + 1

Fold(t) == [i \in DOMAIN t |-> IF t[i] = "U" THEN "u" ELSE t[i]]

\* The places where the rounds of a loop begin that goes from i to next[i], until that is 0.
Rounds(next, i) ==
  LET rounds[k \in DOMAIN next] == <<k>> \o (IF next[k] = 0 THEN <<>> ELSE rounds[next[k]]) IN rounds[i]

\* tokenListContainsValue: what is no list of tokens ends the search.
IsElement(s, i) == nextToken(s, i).token # <<>> /\ At(s, nextToken(s, i).at) \in {"end", "comma"}
Equal(s, i, value) == Fold(nextToken(s, i).token) = value

tokenListContainsValue(s, value) ==
  LET goesOn(i) == IsElement(s, i) /\ ~Equal(s, i, value) /\ At(s, nextToken(s, i).at) = "comma"
      last == Last(Rounds([i \in 1 .. Len(s) + 1 |-> IF goesOn(i) THEN nextToken(s, i).at + 1 ELSE 0], 1))
  IN IsElement(s, last) /\ Equal(s, last, value)

\* Mutant: only another parameter may follow.
EndsWell_Only(s, i) == At(s, i) \in {"end", "semicolon"}

\* A parameter is followed by another one, the next extension or nothing.
EndsWell(s, i) == At(s, i) \in {"end", "comma", "semicolon"}

\* The parameter behind the semicolon at i.
Parameter(s, i) ==
  LET key == nextToken(s, i + 1)
  IN [name |-> key.token,
      at |-> IF At(s, key.at) = "equals" THEN skipSpace(s, AfterValue(s, skipSpace(s, key.at + 1))) ELSE key.at]

\* The places of the semicolons, and the one where the parameters end: at a
\* semicolon if what follows is none.
Parameters(s, i) ==
  LET good(p) == Parameter(s, p).name # <<>> /\ EndsWell(s, Parameter(s, p).at)
  IN Rounds([p \in 1 .. Len(s) + 1 |-> IF At(s, p) = "semicolon" /\ good(p) THEN Parameter(s, p).at ELSE 0], i)

\* An extension: the values of its parameters are left out.
ParsedAt(s, i) ==
  LET places == Parameters(s, nextToken(s, i).at)
  IN [token |-> nextToken(s, i).token, names |-> {Parameter(s, places[k]).name : k \in 1 .. Len(places) - 1}, at |-> Last(places)]
IsParsed(s, i) == ParsedAt(s, i).token # <<>> /\ At(s, ParsedAt(s, i).at) \in {"end", "comma"}

\* parseExtensions: an extension that is not well formed ends the list.
Extensions(s) ==
  LET goesOn(i) == IsParsed(s, i) /\ At(s, ParsedAt(s, i).at) = "comma"
      places == Rounds([i \in 1 .. Len(s) + 1 |-> IF goesOn(i) THEN ParsedAt(s, i).at + 1 ELSE 0], 1)
  IN [k \in 1 .. (IF IsParsed(s, Last(places)) THEN Len(places) ELSE Len(places) - 1) |->
        [token |-> ParsedAt(s, places[k]).token, names |-> ParsedAt(s, places[k]).names]]

Read ==
  /\ ~parsed.read
  /\ parsed' = [found |-> tokenListContainsValue(text, <<"u">>), extensions |-> Extensions(text), read |-> TRUE]
  /\ UNCHANGED <<text, trunc, frames, user, got>>

-----------------------------------------------------------------------------
(* truncWriter: bytes are the numbers of their places.                      *)

Size == 4
Cut(s, n) == SubSeq(s, n + 1, Len(s))
Least(a, b) == IF a < b THEN a ELSE b

\* copy(w.p[:], w.p[m:]).
Moved(held, m) == [i \in 1 .. Size |-> IF i + m <= Size THEN held[i + m] ELSE held[i]]

\* Write: fill what is held, then write m of it and all but the last m bytes.
TruncWrite(k) ==
  /\ k > 0 /\ trunc.given + k <= MaxBytes
  /\ LET p == [i \in 1 .. k |-> trunc.given + i]
         n == Least(Size - trunc.n, k)
         filled == [i \in 1 .. Size |-> IF i > trunc.n /\ i <= trunc.n + n THEN p[i - trunc.n] ELSE trunc.held[i]]
         rest == Cut(p, n)
         m == Least(Len(rest), Size)
         moved == Moved(filled, m)
     IN trunc' = [n |-> trunc.n + n, given |-> trunc.given + k,
                  held |-> [i \in 1 .. Size |-> IF i > Size - m THEN rest[Len(rest) - Size + i] ELSE moved[i]],
                  out |-> trunc.out \o SubSeq(filled, 1, m) \o SubSeq(rest, 1, Len(rest) - m)]
  /\ UNCHANGED <<text, parsed, frames, user, got>>

-----------------------------------------------------------------------------
(* PreparedMessage.                                                         *)

Init ==
  /\ \/ \E n \in 0 .. MaxText : text \in [1 .. n -> Chars] /\ trunc = [n |-> 0, given |-> MaxBytes, held |-> <<0, 0, 0, 0>>, out |-> <<>>]
     \/ text = <<>> /\ trunc = [n |-> 0, given |-> 0, held |-> <<0, 0, 0, 0>>, out |-> <<>>]
  /\ parsed = Unread
  /\ frames = [k \in {} |-> "new"] /\ user = [u \in Users |-> [at |-> "idle", kind |-> "none"]]
  /\ got = [u \in Users |-> <<>>]

\* frame: the entry is found or made with the lock held.
Ask(u, k) ==
  /\ trunc.given = 0 /\ user[u].at = "idle" /\ Len(got[u]) < 2
  /\ user' = [user EXCEPT ![u] = [at |-> "once", kind |-> k]]
  /\ frames' = IF k \in DOMAIN frames THEN frames
               ELSE [j \in DOMAIN frames \cup {k} |-> IF j = k THEN "new" ELSE frames[j]]
  /\ UNCHANGED <<text, parsed, trunc, got>>

\* once.Do lets one make the frame; the others wait for it.
Once(k) == frames[k] = "made"

Make(u) ==
  LET k == user[u].kind
  IN /\ user[u].at = "once" /\ frames[k] = "new"
     /\ frames' = [frames EXCEPT ![k] = "busy"]
     /\ user' = [user EXCEPT ![u].at = "makes"]
     /\ UNCHANGED <<text, parsed, trunc, got>>

Made(u) ==
  /\ user[u].at = "makes"
  /\ frames' = [frames EXCEPT ![user[u].kind] = "made"]
  /\ user' = [user EXCEPT ![u].at = "once"]
  /\ UNCHANGED <<text, parsed, trunc, got>>

Send(u) ==
  /\ user[u].at = "once" /\ Once(user[u].kind)
  /\ got' = [got EXCEPT ![u] = Append(@, [kind |-> user[u].kind, frame |-> frames[user[u].kind]])]
  /\ user' = [user EXCEPT ![u].at = "idle"]
  /\ UNCHANGED <<text, parsed, trunc, frames>>

Next ==
  \/ Read
  \/ \E k \in 1 .. MaxBytes : TruncWrite(k)
  \/ \E u \in Users : Make(u) \/ Made(u) \/ Send(u)
  \/ \E u \in Users, k \in Kinds : Ask(u, k)

Spec == Init /\ [][Next]_codecVars

-----------------------------------------------------------------------------
(* Properties. *)

\* What is between i and j, without the spaces around it.
Trim(s, i, j) == LET C == {k \in i .. j - 1 : s[k] # "space"} IN IF C = {} THEN <<>> ELSE SubSeq(s, Min(C), Max(C))

\* The places where the parts between i and j end that the character c separates, and
\* the one before them.
Ends(s, i, j, c) ==
  LET S == {i - 1, j} \cup {k \in i .. j - 1 : s[k] = c}
  IN [n \in 1 .. Cardinality(S) |-> CHOOSE k \in S : Cardinality({m \in S : m < k}) = n - 1]

Part(s, ends, n) == Trim(s, ends[n] + 1, ends[n + 1])

IsToken(t) == t # <<>> /\ \A i \in DOMAIN t : t[i] \in isTokenOctet
IsParameter(s, i, j) == LET e == Ends(s, i, j, "equals") IN Len(e) <= 3 /\ \A n \in 1 .. Len(e) - 1 : IsToken(Part(s, e, n))
IsExtension(s, i, j) ==
  LET e == Ends(s, i, j, "semicolon") IN IsToken(Part(s, e, 1)) /\ \A n \in 2 .. Len(e) - 1 : IsParameter(s, e[n] + 1, e[n + 1])
Extension(s, i, j) ==
  LET e == Ends(s, i, j, "semicolon")
  IN [token |-> Part(s, e, 1), names |-> {Part(s, Ends(s, e[n] + 1, e[n + 1], "equals"), 1) : n \in 2 .. Len(e) - 1}]

\* A token is only found where it is an element of the list, and always if the
\* list is one of tokens; a list of extensions by the grammar of RFC 6455 is read
\* as it stands (util.go, tokenListContainsValue and parseExtensions).
ListRead ==
  LET e == Ends(text, 1, Len(text) + 1, "comma")
      elements == 1 .. Len(e) - 1
      among == \E n \in elements : Fold(Part(text, e, n)) = <<"u">>
  IN parsed.read =>
       /\ parsed.found => among
       /\ (\A n \in elements : IsToken(Part(text, e, n))) => (among => parsed.found)
       /\ (\A n \in elements : IsExtension(text, e[n] + 1, e[n + 1])) =>
            parsed.extensions = [n \in elements |-> Extension(text, e[n] + 1, e[n + 1])]

\* The writer holds back the last four bytes of the message and has written all
\* the others in order, however they came in (compression.go, truncWriter).
HoldsBack ==
  trunc.n > 0 =>
    trunc.out \o SubSeq(trunc.held, 1, trunc.n) = [i \in 1 .. trunc.given |-> i] /\ trunc.n = Least(Size, trunc.given)

\* Every connection gets the whole frame of its kind, however many ask for it
\* at once (prepared.go, frame).
FrameWhole == \A u \in Users : \A i \in DOMAIN got[u] : got[u][i].frame = "made"
=============================================================================
