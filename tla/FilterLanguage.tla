---------------------------- MODULE FilterLanguage ----------------------------
(***************************************************************************)
(* The filter language: from what a person types to the expression that     *)
(* Listing evaluates (domain/filter.rs), and from a few of its conditions   *)
(* to what SQL makes of them (metadata/filter.rs, domain/media.rs).         *)
(*                                                                          *)
(* A text is a sequence of pieces: the characters that mean something to    *)
(* the language, and runs of others.  Letter case and the space around a    *)
(* value are left out.  The handler answers every error alike, so that an   *)
(* error has no kind here.                                                  *)
(***************************************************************************)
EXTENDS Listing

CONSTANTS
    MaxFilterLength,     \* in pieces
    MaxFilterPredicates,
    MaxFilterTake,
    Alphabets,           \* bounds, of which one holds: [letters: pieces, length: of letters]
    PlainNames,          \* names that terms are tried on
    Samples,             \* files that conditions are tried on
    LastDay              \* bound on the days named

ASSUME FilterAssumption ==
    /\ MaxFilterLength \in Nat /\ MaxFilterPredicates \in Nat /\ MaxFilterTake \in Nat
    /\ LastDay \in Nat /\ Samples # {}

VARIABLES
    alphabet, typed, \* what has been typed, and how many letters that took
    text,
    sample           \* the file that is looked at

filterVars == <<alphabet, typed, text, sample>>

-----------------------------------------------------------------------------
(* Words. *)

Blank == " "
Quotes == {"'", "\""}
Marks == {"(", ")", "or", "and", "not"}
Mark(k) == [kind |-> k, key |-> <<>>, value |-> <<>>]
TermOf(key, value) == [kind |-> "term", key |-> key, value |-> value]

\* The quote that is open after each piece of a word; the first piece of a word
\* opens none.
OpenQuote(w) ==
    LET open[k \in 1 .. Len(w)] ==
            IF k = 1 THEN ""
            ELSE IF open[k - 1] = "" THEN (IF w[k] \in Quotes THEN w[k] ELSE "")
            ELSE IF w[k] = open[k - 1] THEN "" ELSE open[k - 1]
    IN  open

\* A word ends before a space or a parenthesis that is not quoted; 0 when a
\* quote is never closed.
EndsWord(c) == c \in {Blank, "(", ")"}
WordLength(w) ==
    LET open == OpenQuote(w)
        ends == {k \in 1 .. Len(w) - 1 : open[k] = "" /\ EndsWord(w[k + 1])}
    IN  IF ends # {} THEN Min(ends) ELSE IF open[Len(w)] = "" THEN Len(w) ELSE 0

Unquote(v) ==
    IF Len(v) >= 2 /\ v[1] \in Quotes /\ v[Len(v)] = v[1] THEN SubSeq(v, 2, Len(v) - 1) ELSE v

WordToken(raw) ==
    LET colons == {k \in DOMAIN raw : raw[k] = ":"}
        colon == Min(colons)
    IN  IF Len(raw) = 1 /\ raw[1] \in {"or", "and", "not"} THEN Mark(raw[1])
        ELSE IF colons # {} /\ colon > 1
             THEN TermOf(SubSeq(raw, 1, colon - 1), Unquote(SubSeq(raw, colon + 1, Len(raw))))
             ELSE TermOf(<<>>, Unquote(raw))

Unterminated == Mark("unterminated")

RECURSIVE Tokenize(_)
Tokenize(s) ==
    IF s = <<>> THEN <<>>
    ELSE CASE s[1] = Blank -> Tokenize(Tail(s))
           [] s[1] \in {"(", ")"} -> <<Mark(s[1])>> \o Tokenize(Tail(s))
           [] s[1] = "-" -> <<Mark("not")>> \o Tokenize(Tail(s))
           [] OTHER -> LET n == WordLength(s)
                       IN  IF n = 0 THEN <<Unterminated>>
                           ELSE <<WordToken(SubSeq(s, 1, n))>> \o Tokenize(SubSeq(s, n + 1, Len(s)))

-----------------------------------------------------------------------------
(* Terms. *)

Globs == {<<"contains">>, <<"has">>, <<"name">>, <<"location">>}
Selects == {<<"from">>, <<"to">>, <<"for">>}
Rights == {"read", "write", "update", "delete", "manage_permissions"}
Renders == {"image", "video", "document", "spreadsheet", "presentation", "audio", "archive", "code"}
IsKinds == Renders \cup {"file", "folder", "unsupported", "expiring", "self-destruct"}
Numerals == [d \in {"0", "1", "2", "3"} |-> CASE d = "0" -> 0 [] d = "1" -> 1 [] d = "2" -> 2 [] OTHER -> 3]
IsNumber(v) == Len(v) = 1 /\ v[1] \in DOMAIN Numerals

GlobTerm(v) == \E k \in DOMAIN v : v[k] \notin {"*", Blank}
DateOf(v) == IsNumber(v) /\ Numerals[v[1]] \in 1 .. LastDay

\* Two days, in order.
BetweenOf(v) ==
    /\ Len(v) = 3 /\ v[2] = "="
    /\ DateOf(<<v[1]>>) /\ DateOf(<<v[3]>>)
    /\ Numerals[v[1]] <= Numerals[v[3]]

\* @{c:ada}: an id, with or without its kind.
ActorOf(v) ==
    LET id == IF v # <<>> /\ v[1] = "@" THEN Tail(v) ELSE v
    IN  id \notin {<<>>, <<"{", "}">>}
PermissionOf(v) == Len(v) = 1 /\ v[1] \in Rights

\* An entry kind, a renderer, a lifetime, or else any short extension.
IsPredicate(v) ==
    LET word == IF v # <<>> /\ v[1] = "." THEN Tail(v) ELSE v
    IN  Len(word) = 1 /\ word[1] \notin Quotes \cup {"*", "-", ":", Blank, "@"}

ModifierKeys == {<<"last">>, <<"first">>, <<"sort">>}
IsModifier(t) == t.kind = "term" /\ t.key \in ModifierKeys
ModifierOf(t) ==
    CASE t.key = <<"sort">> -> t.value \in {<<"newest">>, <<"oldest">>}
      [] OTHER -> IsNumber(t.value) /\ Numerals[t.value[1]] \in 1 .. MaxFilterTake

\* A key the language has, with a value that fits it.  No key is `contains`.
Fits(t) ==
    CASE t.key \in Globs \cup {<<>>} -> GlobTerm(t.value)
      [] t.key \in {<<"after">>, <<"before">>} -> DateOf(t.value)
      [] t.key = <<"between">> -> BetweenOf(t.value)
      [] t.key \in Selects -> ActorOf(t.value)
      [] t.key \in {<<"permission">>, <<"permissions">>} -> PermissionOf(t.value)
      [] t.key = <<"is">> -> IsPredicate(t.value)
      [] t.key \in ModifierKeys -> ModifierOf(t)
      [] OTHER -> FALSE

\* Permissions are policy's to decide, all else is SQL's.
PredicateOf(t) ==
    IF t.key \in {<<"permission">>, <<"permissions">>} THEN [op |-> "may", name |-> t.value[1]]
    ELSE [op |-> "is", name |-> <<IF t.key = <<>> THEN <<"contains">> ELSE t.key, t.value>>]

-----------------------------------------------------------------------------
(* The parser: where it is, how many conditions it has read, the modifiers,  *)
(* and what it has just read.                                                *)

NoTake == [end |-> "none", count |-> 0]
Start == [at |-> 1, read |-> 0, sort |-> "none", take |-> NoTake, failed |-> FALSE, got |-> Unfiltered]
Failed(p) == [p EXCEPT !.failed = TRUE]
Peek(ts, p) == IF p.at <= Len(ts) THEN ts[p.at].kind ELSE "end"
Skip(p) == [p EXCEPT !.at = @ + 1]
Group(op, xs) == IF xs = <<>> THEN Unfiltered ELSE IF Len(xs) = 1 THEN xs[1] ELSE [op |-> op, of |-> xs]
Collected(xs, x) == IF x.op = "none" THEN xs ELSE Append(xs, x)

\* The same modifier may be given again, another one may not.
Modifier(p, t, top) ==
    LET sort == t.value[1]
        take == [end |-> IF t.key = <<"last">> THEN "newest" ELSE "oldest", count |-> Numerals[t.value[1]]]
        none == [p EXCEPT !.got = Unfiltered]
    IN  CASE ~top -> Failed(p)
          [] t.key = <<"sort">> -> IF p.sort \in {"none", sort} THEN [none EXCEPT !.sort = sort] ELSE Failed(p)
          [] OTHER -> IF p.take \in {NoTake, take} THEN [none EXCEPT !.take = take] ELSE Failed(p)

ReadTerm(p, t, top) ==
    CASE ~Fits(t) -> Failed(p)
      [] IsModifier(t) -> Modifier(p, t, top)
      [] p.read >= MaxFilterPredicates -> Failed(p)
      [] OTHER -> [p EXCEPT !.read = @ + 1, !.got = PredicateOf(t)]

RECURSIVE ParseAny(_, _, _, _), ParseAll(_, _, _, _), ParseUnary(_, _, _)

ParseAny(ts, p, top, alternatives) ==
    LET q == ParseAll(ts, p, top, <<>>)
        found == Collected(alternatives, q.got)
    IN  CASE q.failed -> q
          [] Peek(ts, q) # "or" -> [q EXCEPT !.got = Group("any", found)]
          [] q.at = Len(ts) -> Failed(q)
          [] OTHER -> ParseAny(ts, Skip(q), top, found)

ParseAll(ts, p, top, conditions) ==
    CASE p.failed -> p
      [] Peek(ts, p) \in {"end", "or", ")"} -> [p EXCEPT !.got = Group("all", conditions)]
      [] Peek(ts, p) = "and" /\ p.at = Len(ts) -> Failed(p)
      [] Peek(ts, p) = "and" /\ p.at # Len(ts) -> ParseAll(ts, Skip(p), top, conditions)
      [] OTHER -> LET q == ParseUnary(ts, p, top)
                  IN  IF q.failed THEN q ELSE ParseAll(ts, q, top, Collected(conditions, q.got))

ParseUnary(ts, p, top) ==
    CASE Peek(ts, p) = "not" ->
            LET q == ParseUnary(ts, Skip(p), FALSE)
            IN  IF q.failed \/ q.got.op = "none" THEN Failed(q)
                ELSE [q EXCEPT !.got = [op |-> "not", of |-> q.got]]
      [] Peek(ts, p) = "(" ->
            LET q == ParseAny(ts, Skip(p), FALSE, <<>>)
            IN  IF q.failed \/ Peek(ts, q) # ")" THEN Failed(q) ELSE Skip(q)
      [] Peek(ts, p) = "term" -> ReadTerm(Skip(p), ts[p.at], top)
      [] OTHER -> Failed(p)

Invalid == [valid |-> FALSE]
ParseQuery(ts) ==
    LET q == ParseAny(ts, Start, TRUE, <<>>)
    IN  IF ts = <<>> \/ Unterminated \in ToSet(ts) \/ q.failed \/ q.at # Len(ts) + 1 THEN Invalid
        ELSE [valid |-> TRUE, expression |-> q.got, take |-> q.take,
              sort |-> IF q.sort = "none" THEN "newest" ELSE q.sort]

ParseFilter(s) == IF Len(s) > MaxFilterLength THEN Invalid ELSE ParseQuery(Tokenize(s))

-----------------------------------------------------------------------------
(* Conditions of names and places: LIKE patterns, in which "%" is any run and *)
(* a backslash makes the next piece an ordinary one.                          *)

EscapedStar(c) == IF c = "*" THEN <<"%">> ELSE <<c>>
Escaped(c) == IF c = "*" THEN <<"%">> ELSE IF c \in {"%", "_", "\\"} THEN <<"\\", c>> ELSE <<c>>
EscapedTerm(term) == FlattenSeq([k \in DOMAIN term |-> Escaped(term[k])])

\* A term may stand anywhere in a name.
LikePattern(term) ==
    (IF term[1] = "*" THEN <<>> ELSE <<"%">>) \o EscapedTerm(term)
    \o (IF Last(term) = "*" THEN <<>> ELSE <<"%">>)

\* A location is where a path begins.
TrimSlashes(term) ==
    LET inner == {k \in DOMAIN term : term[k] # "/"}
    IN  IF inner = {} THEN <<>> ELSE SubSeq(term, Min(inner), Max(inner))
PrefixPattern(term) ==
    LET pattern == EscapedTerm(TrimSlashes(term))
    IN  IF pattern # <<>> /\ Last(pattern) = "%" THEN pattern ELSE Append(pattern, "%")

\* PostgreSQL's LIKE.
RECURSIVE Like(_, _)
Like(pattern, s) ==
    CASE pattern = <<>> -> s = <<>>
      [] pattern # <<>> /\ pattern[1] = "%" ->
            Like(Tail(pattern), s) \/ (s # <<>> /\ Like(pattern, Tail(s)))
      [] pattern # <<>> /\ pattern[1] = "\\" ->
            s # <<>> /\ s[1] = pattern[2] /\ Like(Tail(Tail(pattern)), Tail(s))
      [] OTHER -> s # <<>> /\ pattern[1] \in {s[1], "_"} /\ Like(Tail(pattern), Tail(s))

-----------------------------------------------------------------------------
(* Conditions of a file: what renders it, and the day it changed.  Extensions *)
(* stand for the renderer that knows them, two instants for a day, and a       *)
(* media type is cut where the code looks at it.                               *)

MediaPrefixes ==
    [image |-> {<<"image", "/">>}, video |-> {<<"video", "/">>}, audio |-> {<<"audio", "/">>},
     document |-> {<<"text", "/", "plain">>, <<"application", "/", "pdf">>,
                   <<"application", "/", "vnd.openxmlformats-officedocument.", "wordprocessing">>},
     spreadsheet |-> {<<"text", "/", "csv">>, <<"application", "/", "vnd.", "ms-excel">>},
     presentation |-> {<<"application", "/", "vnd.", "ms-powerpoint">>},
     archive |-> {<<"application", "/", "zip">>, <<"application", "/", "x-", "tar">>},
     code |-> {<<"text", "/">>, <<"application", "/", "json">>, <<"application", "/", "xml">>}]

\* RenderKind::from_application_subtype, in its order.
OfApplication(subtype) ==
    LET has(words) == \E k \in DOMAIN subtype : subtype[k] \in words
        ends(words) == Last(subtype) \in words
    IN  CASE has({"spreadsheet"}) \/ ends({"ms-excel"}) -> "spreadsheet"
          [] has({"presentation"}) \/ ends({"ms-powerpoint"}) -> "presentation"
          [] has({"wordprocessing"}) \/ ends({"msword"}) \/ subtype = <<"pdf">> -> "document"
          [] has({"zip", "tar", "compressed"}) -> "archive"
          [] subtype \in {<<"json">>, <<"xml">>} \/ ends({"+json", "+xml"}) -> "code"
          [] OTHER -> "unsupported"

FromMediaType(type) ==
    LET subtype == SubSeq(type, 3, Len(type))
    IN  CASE type = <<>> -> "unsupported"
          [] type[1] \in {"image", "video", "audio"} -> type[1]
          [] type[1] = "text" -> CASE subtype = <<"csv">> -> "spreadsheet"
                                   [] subtype = <<"plain">> -> "document"
                                   [] OTHER -> "code"
          [] type[1] = "application" -> OfApplication(subtype)
          [] OTHER -> "unsupported"

\* The renderer that the answer names.
Classify(f) == IF f.extension \in Renders THEN f.extension ELSE FromMediaType(f.type)

\* The renderers that is: finds the file by.
HasPrefix(f, kind) == \E p \in MediaPrefixes[kind] : IsPrefix(p, f.type)
RenderMatch(kind, f) ==
    IF kind = "unsupported"
    THEN f.extension \notin Renders /\ \A k \in Renders : ~HasPrefix(f, k)
    ELSE f.extension = kind \/ (f.extension \notin Renders /\ HasPrefix(f, kind))

\* The first instant of a day.
DayStart(d) == 2 * d
ChangedAfter(f, d) == f.changed >= DayStart(d)
ChangedBefore(f, d) == f.changed < DayStart(d)
ChangedBetween(f, d, e) == f.changed >= DayStart(d) /\ f.changed < DayStart(e) + 2

-----------------------------------------------------------------------------
(* Typing. *)

FilterInit ==
    /\ alphabet \in DOMAIN Alphabets
    /\ typed = 0 /\ text = <<>>
    /\ sample \in Samples

Type(letter) ==
    /\ typed < Alphabets[alphabet].length
    /\ sample = CHOOSE f \in Samples : TRUE
    /\ typed' = typed + 1
    /\ text' = text \o letter
    /\ UNCHANGED <<alphabet, sample>>

FilterNext == \E letter \in Alphabets[alphabet].letters : Type(letter)
FilterSpec == FilterInit /\ [][FilterNext]_filterVars

-----------------------------------------------------------------------------
(* What the language is said to be.  Depth counts the parentheses around a    *)
(* token; a unit is a term, or a group with its parentheses; `or` divides a   *)
(* level into alternatives, and "not" binds to the unit behind it.            *)

Depth(ts, i) ==
    Cardinality({k \in 1 .. i - 1 : ts[k].kind = "("}) - Cardinality({k \in 1 .. i - 1 : ts[k].kind = ")"})
Balanced(ts) ==
    /\ \A i \in 1 .. Len(ts) + 1 : Depth(ts, i) >= 0
    /\ Depth(ts, Len(ts) + 1) = 0
IsCondition(t) == t.kind = "term" /\ ~IsModifier(t)
ConditionsIn(ts) == SelectSeq(ts, IsCondition)

\* The group that opens at i, without its parentheses.
GroupEnd(ts, i) == Min({j \in i + 1 .. Len(ts) : ts[j].kind = ")" /\ Depth(ts, j) = Depth(ts, i) + 1})
GroupAt(ts, i) == SubSeq(ts, i + 1, GroupEnd(ts, i) - 1)
UnitsIn(ts, i) == IF ts[i].kind = "(" THEN ConditionsIn(GroupAt(ts, i)) ELSE ConditionsIn(<<ts[i]>>)
Units(ts) == {i \in DOMAIN ts : Depth(ts, i) = 0 /\ ts[i].kind \in {"(", "term"} /\ UnitsIn(ts, i) # <<>>}
Negated(ts, i) ==
    LET last == {k \in 0 .. i - 1 : k = 0 \/ ts[k].kind # "not"}
    IN  (i - 1 - Max(last)) % 2 = 1
AlternativeOf(ts, i) == Cardinality({k \in 1 .. i : Depth(ts, k) = 0 /\ ts[k].kind = "or"})

\* Terms are ANDed, `or` introduces an alternative, `not` negates, parentheses
\* group; a text without conditions matches everything.
RECURSIVE Says(_, _)
Says(ts, true) ==
    LET value(i) == IF ts[i].kind = "(" THEN Says(GroupAt(ts, i), true) ELSE PredicateOf(ts[i]) \in true
        holds(i) == value(i) # Negated(ts, i)
    IN  \/ Units(ts) = {}
        \/ \E a \in {AlternativeOf(ts, i) : i \in Units(ts)} :
              \A i \in Units(ts) : AlternativeOf(ts, i) = a => holds(i)

\* A text is refused for a reason: something that is not closed or opened, a
\* "not" with nothing behind it, an operator at the end, values that do not
\* fit, too many conditions, or a modifier in a group, negated or contradicted.
WellFormed(ts) ==
    /\ ts # <<>> /\ Unterminated \notin ToSet(ts) /\ Balanced(ts)
    /\ Last(ts).kind \notin {"or", "and", "not"}
    /\ Len(ConditionsIn(ts)) <= MaxFilterPredicates
    /\ \A i \in DOMAIN ts :
        /\ ts[i].kind = "term" => Fits(ts[i])
        /\ ts[i].kind = "not" => /\ ts[i + 1].kind \in {"not", "(", "term"}
                                 /\ ts[i + 1].kind # "not" => UnitsIn(ts, i + 1) # <<>>
        /\ IsModifier(ts[i]) =>
              /\ Depth(ts, i) = 0
              /\ \A j \in DOMAIN ts : IsModifier(ts[j]) /\ (ts[i].key = <<"sort">> <=> ts[j].key = <<"sort">>)
                                      => ts[i] = ts[j]

\* A term as somebody would write it who quotes every value.
Spelled(t) ==
    LET q == IF "'" \in ToSet(t.value) THEN "\"" ELSE "'"
    IN  CASE t.kind # "term" -> <<t.kind>>
          [] t.key = <<>> -> t.value
          [] OTHER -> t.key \o <<":", q>> \o t.value \o <<q>>
SpelledText(ts) == FlattenSeq([k \in DOMAIN ts |-> Spelled(ts[k]) \o <<Blank>>])

\* The pieces between the stars of a term, as runs of its positions.
Parts(term) ==
    LET starts == {k \in DOMAIN term : term[k] # "*" /\ (k = 1 \/ term[k - 1] = "*")}
        ending(k) == Max({j \in k .. Len(term) : \A i \in k .. j : term[i] # "*"})
        sorted == SetToSortSeq(starts, LAMBDA a, b : a < b)
    IN  [n \in DOMAIN sorted |-> SubSeq(term, sorted[n], ending(sorted[n]))]

\* They occur in a name one after the other.
Finds(term, s, atStart) ==
    LET parts == Parts(term)
    IN  \E at \in [DOMAIN parts -> 1 .. Len(s) + 1] :
            /\ \A n \in DOMAIN parts :
                  /\ at[n] + Len(parts[n]) - 1 <= Len(s)
                  /\ SubSeq(s, at[n], at[n] + Len(parts[n]) - 1) = parts[n]
            /\ \A n \in DOMAIN parts : n > 1 => at[n] >= at[n - 1] + Len(parts[n - 1])
            /\ atStart /\ parts # <<>> /\ term[1] # "*" => at[1] = 1

-----------------------------------------------------------------------------
(* Properties. *)

FilterTypeOK ==
    /\ alphabet \in DOMAIN Alphabets /\ typed \in 0 .. Alphabets[alphabet].length
    /\ text \in Seq(STRING) /\ sample \in Samples

RECURSIVE Leaves(_)
Leaves(x) ==
    CASE x.op = "none" -> <<>>
      [] x.op \in {"is", "may"} -> <<x>>
      [] x.op = "not" -> Leaves(x.of)
      [] x.op \in {"all", "any"} -> FlattenSeq([k \in DOMAIN x.of |-> Leaves(x.of[k])])

\* How Listing decides an expression when these conditions hold.
Decides(x, true) ==
    LET names == {y.name : y \in {z \in ToSet(Leaves(x)) : z.op = "is"}}
        fact == [n \in names |-> IF [op |-> "is", name |-> n] \in true THEN "yes" ELSE "no"]
        access == {y.name : y \in {z \in true : z.op = "may"}}
    IN  CASE x.op = "none" -> TRUE
          [] x.op # "none" /\ RequiresPolicy(x) -> Matches(x, access, Projection(x, fact), fact)
          [] OTHER -> SqlValue(x, fact) = "yes"

\* A filter finds what its text says, whichever of its conditions hold: parsed,
\* compiled and, with permissions in it, divided between SQL and policy.
FiltersMeanTheirText ==
    LET ts == Tokenize(text)
        q == ParseFilter(text)
    IN  q.valid =>
          \A true \in SUBSET {PredicateOf(t) : t \in ToSet(ConditionsIn(ts))} :
             Decides(q.expression, true) <=> Says(ts, true)

\* Every text that is well formed is accepted, and no other.
RefusedForAReason ==
    ParseFilter(text).valid <=> Len(text) <= MaxFilterLength /\ WellFormed(Tokenize(text))

\* The conditions of the expression are those of the text in its order: the
\* order in which SQL's answers are handed to policy, and in which the
\* handler resolves the accounts that are named.
ConditionsInOrder ==
    LET q == ParseFilter(text)
        conditions == ConditionsIn(Tokenize(text))
    IN  q.valid => Leaves(q.expression) = [k \in DOMAIN conditions |-> PredicateOf(conditions[k])]

\* Any value of a key can be written in quotes, one kind or the other, and is
\* read as it is.  (A word without a key cannot: its first quote opens nothing.)
Quotable(t) == t.key # <<>> /\ ToSet(t.key) \intersect Quotes = {} /\ ~(Quotes \subseteq ToSet(t.value))
QuotingKeepsValues ==
    LET ts == Tokenize(text)
    IN  Unterminated \notin ToSet(ts) /\ (\A t \in ToSet(ts) : t.kind # "term" \/ Quotable(t))
        => Tokenize(SpelledText(ts)) = ts

\* A term finds the names in which it stands, with anything for its stars and
\* nothing special about the characters that LIKE knows; a location is anchored
\* where paths begin.  (One that ends in a percent sign, which is taken for the
\* wildcard at the end of a pattern, finds that path and nothing below it.)
TermsFindNames ==
    GlobTerm(text) /\ Alphabets[alphabet].letters \subseteq {<<c>> : c \in {"a", "b", "%", "_", "*"}} =>
        \A s \in PlainNames :
            /\ Like(LikePattern(text), s) <=> Finds(text, s, FALSE)
            /\ Last(text) # "%" => (Like(PrefixPattern(text), s) <=> Finds(text, s, TRUE))

\* `is:` with a renderer finds the files whose answer names it, if their
\* extension says so; a file without is found by one renderer at least, or as
\* unsupported.  The days of a text are whole ones, both ends included.
SamplesFound ==
    LET found == {k \in Renders \cup {"unsupported"} : RenderMatch(k, sample)}
        day == sample.changed \div 2
    IN  /\ sample.extension \in Renders => found = {Classify(sample)}
        /\ found # {} /\ ("unsupported" \in found => Cardinality(found) = 1)
        /\ \A d, e \in 1 .. LastDay :
              /\ ChangedAfter(sample, d) <=> day >= d
              /\ ChangedBefore(sample, d) <=> day < d
              /\ ChangedBetween(sample, d, e) <=> day \in d .. e

\* What a person types is what is looked for.
FiltersFindWhatTheySay ==
    /\ FiltersMeanTheirText /\ RefusedForAReason /\ ConditionsInOrder
    /\ QuotingKeepsValues /\ TermsFindNames /\ SamplesFound
==============================================================================
