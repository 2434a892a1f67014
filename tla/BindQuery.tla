----------------------------- MODULE BindQuery -----------------------------
(***************************************************************************)
(* Binding a named query (db/bind.go): colons that start no placeholder    *)
(* are protected, sqlx.Named turns :name into ?, slices are expanded, and  *)
(* every ? that is a placeholder gets the driver's syntax.                 *)
(*                                                                         *)
(* A query is a sequence of characters, each a string: "a", "E" and "_"    *)
(* stand for letters, "1" for digits, "nl" and "sp" for white space, "bs"  *)
(* for the backslash, "dq" and "bq" for the double and the back quote;     *)
(* "CAST" and "COLON" are the two sentinels.  Indexes begin at 1, so the   *)
(* end of a query is Len(query) + 1.  A placeholder of the driver is one   *)
(* string: "$1", "$2", ...  A driver is its dialect (mysql, postgres or    *)
(* generic) and its bind type (question, dollar, at or named).             *)
(*                                                                         *)
(* The caller's argument gives each name, told by its first letter, a      *)
(* value: how it is given, whether it is a slice, and what it holds.       *)
(***************************************************************************)
EXTENDS Integers, FiniteSetsExt, SequencesExt, TLC

isNameStart(c) == c \in {"a", "E", "_"}
isDollarTagChar(c) == c \in {"a", "E", "_", "1"}
isIdentChar(c) == c \in {"a", "E", "_", "1", "$"}
isSpaceByte(c) == c \in {"sp", "nl"}

\* The least index from start on whose character is c, or the end.
IndexFrom(q, start, c) == Min({i \in start..Len(q) : q[i] = c} \cup {Len(q) + 1})
\* There is a character c at i.
At(q, i, c) == i \in 1..Len(q) /\ q[i] = c

-----------------------------------------------------------------------------
(* The two loops of the file.                                              *)

\* A loop over states S that goes on with next until it is done, from x.
Until(S, done, next, x) ==
    LET last[y \in S] == IF y \in done THEN y ELSE last[next[y]] IN last[x]

\* for i < len(query): write item[i] and go on at next[i].
Walk(n, next, item) ==
    LET out[i \in 1..(n + 1)] == IF i = n + 1 THEN <<>> ELSE item[i] \o out[next[i]] IN out[1]

-----------------------------------------------------------------------------
(* The scanner: each operator gives the index past what begins at start.   *)

skipQuoted(q, start, quote, backslash) ==
    LET n == Len(q)
        twice == [i \in 1..n |-> (backslash /\ q[i] = "bs") \/ (q[i] = quote /\ At(q, i + 1, quote))]
        shut == {i \in 1..n : q[i] = quote /\ ~twice[i]}
        last == Until((start + 1)..(n + 2), shut \cup {n + 1, n + 2},
                      [i \in 1..n |-> IF twice[i] THEN i + 2 ELSE i + 1], start + 1)
    IN  IF last \in shut THEN last + 1 ELSE n + 1

skipLineComment(q, start) == Min({IndexFrom(q, start, "nl"), Len(q)}) + 1

\* Seeded bug: block comments never nest.
NestsNever(nested) == FALSE
Nests(nested) == nested

skipBlockComment(q, start, nested) ==
    LET n == Len(q)
        S == (start..(n + 1)) \X Nat
        opens(i) == Nests(nested) /\ q[i] = "/" /\ At(q, i + 1, "*")
        shuts(i) == q[i] = "*" /\ At(q, i + 1, "/")
        last == Until(S, {x \in S : x[1] = n + 1 \/ x[2] = 0},
                      [x \in S |-> IF shuts(x[1]) THEN <<x[1] + 2, x[2] - 1>>
                                   ELSE IF opens(x[1]) THEN <<x[1] + 2, x[2] + 1>>
                                   ELSE <<x[1] + 1, x[2]>>], <<start, 1>>)
    IN  last[1]

\* The index past the dollar-quoted string at start, or start if there is none.
skipDollarQuoted(q, start) ==
    LET j == Min({i \in (start + 1)..Len(q) : ~isDollarTagChar(q[i])} \cup {Len(q) + 1})
        delim == SubSeq(q, start, j)
        found == {k \in (j + 1)..(Len(q) - Len(delim) + 1) : SubSeq(q, k, k + Len(delim) - 1) = delim}
    IN  IF \/ start > 1 /\ isIdentChar(q[start - 1])
           \/ ~At(q, j, "$")
           \/ q[start + 1] = "1"
        THEN start
        ELSE IF found = {} THEN Len(q) + 1 ELSE Min(found) + Len(delim)

isEscapeString(q, i, d) ==
    /\ d = "postgres" /\ At(q, i - 1, "E")
    /\ i > 2 => ~isIdentChar(q[i - 2])

\* The whitespace rule of MySQL for a comment that begins with two dashes.
isLineComment(q, i, d) == d # "mysql" \/ i + 2 > Len(q) \/ isSpaceByte(q[i + 2])

literalEnd(q, i, d) ==
    CASE q[i] = "'"                  -> skipQuoted(q, i, "'", d = "mysql" \/ isEscapeString(q, i, d))
      [] q[i] = "dq"                 -> skipQuoted(q, i, "dq", d = "mysql")
      [] q[i] = "bq" /\ d = "mysql"   -> skipQuoted(q, i, "bq", FALSE)
      [] q[i] = "#" /\ d = "mysql"   -> skipLineComment(q, i + 1)
      [] q[i] = "-" /\ At(q, i + 1, "-") /\ isLineComment(q, i, d) -> skipLineComment(q, i + 2)
      [] q[i] = "/" /\ At(q, i + 1, "*") -> skipBlockComment(q, i + 2, d = "postgres")
      [] q[i] = "$" /\ d = "postgres" -> skipDollarQuoted(q, i)
      [] OTHER                       -> i

-----------------------------------------------------------------------------
(* Protecting colons, and what sqlx does.                                  *)

isCast(q, i) == q[i] = ":" /\ At(q, i + 1, ":")
protectCasts(q) ==
    Walk(Len(q), [i \in 1..Len(q) |-> IF isCast(q, i) THEN i + 2 ELSE i + 1],
                 [i \in 1..Len(q) |-> IF isCast(q, i) THEN <<"CAST">> ELSE <<q[i]>>])

\* Where the scanner goes on after i.
Past(q, d) == [i \in 1..Len(q) |-> IF literalEnd(q, i, d) > i THEN literalEnd(q, i, d) ELSE i + 1]

hide(c) == IF c = ":" THEN "COLON" ELSE c
protectColons(q, d) ==
    Walk(Len(q), Past(q, d),
         [i \in 1..Len(q) |-> [k \in 1..(Past(q, d)[i] - i) |->
                                  IF literalEnd(q, i, d) > i THEN hide(q[i + k - 1]) ELSE q[i]]])

protectStrayColons(q) ==
    [i \in 1..Len(q) |->
        IF q[i] = ":" /\ (i = Len(q) \/ ~isNameStart(q[i + 1])) THEN "COLON" ELSE q[i]]

plain(c) == CASE c = "CAST" -> <<":", ":">> [] c = "COLON" -> <<":">> [] OTHER -> <<c>>
restore(q) == Walk(Len(q), [i \in 1..Len(q) |-> i + 1], [i \in 1..Len(q) |-> plain(q[i])])

\* The first character of the name at a colon in place i, and the first past it.
NameEnd(q, i) == Min({j \in (i + 1)..Len(q) : ~isDollarTagChar(q[j])} \cup {Len(q) + 1})

\* What a step of the binding returns with an error, and without one.
Refused == [query |-> <<>>, args |-> <<>>, ok |-> FALSE]
Bound(q, args) == [query |-> q, args |-> args, ok |-> TRUE]

\* The parser of sqlx.Named: each :name becomes ? and goes to the list.  A colon
\* while it reads a name, that is right after one, is an error.
PastName(q) == [i \in 1..Len(q) |-> IF q[i] = ":" THEN NameEnd(q, i) ELSE i + 1]
compileNamedQuery(q) ==
    IF \E i \in 1..Len(q) : q[i] = ":" /\ At(q, NameEnd(q, i), ":") THEN Refused
    ELSE Bound(Walk(Len(q), PastName(q), [i \in 1..Len(q) |-> IF q[i] = ":" THEN <<"?">> ELSE <<q[i]>>]),
               Walk(Len(q), PastName(q), [i \in 1..Len(q) |-> IF q[i] = ":" THEN <<q[i + 1]>> ELSE <<>>]))

\* sqlx.Named: and every name has to be in the argument.
Named(q, arg) ==
    LET c == compileNamedQuery(q)
    IN  IF c.ok /\ ToSet(c.args) \subseteq DOMAIN arg
        THEN Bound(c.query, [k \in 1..Len(c.args) |-> arg[c.args[k]]])
        ELSE Refused

\* A value: plain, or a driver.Valuer that gives a value (valuer), that fails
\* (broken), or that is a nil pointer to a type with Value (nil).
Value(how, slice, items) == [how |-> how, slice |-> slice, items |-> items]
callValuer(v) ==
    IF v.how = "nil" THEN Value("plain", FALSE, <<"NULL">>)
    ELSE IF v.how = "valuer" THEN [v EXCEPT !.how = "plain"] ELSE v

-----------------------------------------------------------------------------
(* Slices and the driver's placeholders.                                   *)

placeholderIndexes(q, d) ==
    Walk(Len(q), Past(q, d),
         [i \in 1..Len(q) |-> IF q[i] = "?" /\ literalEnd(q, i, d) = i THEN <<i>> ELSE <<>>])

\* The query with the text new[k] in place of its k-th placeholder.
ReplacePlaceholders(q, idx, new) ==
    FlattenSeq([i \in 1..Len(q) |->
        IF i \in ToSet(idx) THEN new[SelectInSeq(idx, LAMBDA j : j = i)] ELSE <<q[i]>>])

\* One ? for a scalar, and as many as a slice is long.
MarksOf(v) == FlattenSeq([j \in 1..Len(v.items) |-> IF j = 1 THEN <<"?">> ELSE <<",", "sp", "?">>])

expandSlices(q, args, d) ==
    LET given == [k \in 1..Len(args) |-> callValuer(args[k])]
        idx   == placeholderIndexes(q, d)
        flat  == FlattenSeq([k \in 1..Len(args) |-> given[k].items])
    IN  IF \E v \in ToSet(given) : v.how = "broken" \/ v.items = <<>> THEN Refused
        ELSE IF \A v \in ToSet(given) : ~v.slice THEN Bound(q, flat)
        ELSE IF Len(idx) # Len(args) THEN Refused
        ELSE Bound(ReplacePlaceholders(q, idx, [k \in 1..Len(args) |-> MarksOf(given[k])]), flat)

\* The k-th placeholder in the syntax of a bind type.
Mark(bind, k) ==
    CASE bind = "dollar" -> "$" \o ToString(k)
      [] bind = "at"     -> "@p" \o ToString(k)
      [] bind = "named"  -> ":arg" \o ToString(k)
      [] OTHER           -> "?"

rebind(q, driver) ==
    IF driver.bind = "question" THEN q
    ELSE LET idx == placeholderIndexes(q, driver.dialect)
         IN  ReplacePlaceholders(q, idx, [k \in 1..Len(idx) |-> <<Mark(driver.bind, k)>>])

protect(q, d) == protectStrayColons(protectColons(protectCasts(q), d))

\* isNil: the caller gave no argument at all.
bindQuery(driver, q, arg, isNil) ==
    LET named == Named(protect(q, driver.dialect), arg)
        full  == expandSlices(restore(named.query), named.args, driver.dialect)
    IN  IF isNil THEN Bound(q, <<>>)
        ELSE IF ~named.ok \/ ~full.ok THEN Refused
        ELSE Bound(rebind(full.query, driver), full.args)

-----------------------------------------------------------------------------
(* What holds of every query.                                              *)

\* For each character, whether the scanner finds it in a literal, a quoted name
\* or a comment.
InLiteral(q, d) ==
    Walk(Len(q), Past(q, d), [i \in 1..Len(q) |-> [k \in 1..(Past(q, d)[i] - i) |-> literalEnd(q, i, d) > i]])

\* protect: the colons that are left begin a name, and they are exactly those of
\* the code that do; a colon in a literal is never one of them.
NamesAreCode(q, d) ==
    LET c == protectCasts(q)
        p == protect(q, d)
    IN  /\ Len(p) = Len(c)
        /\ \A k \in 1..Len(p) :
              p[k] = ":" <=> c[k] = ":" /\ ~InLiteral(c, d)[k] /\ k < Len(c) /\ isNameStart(c[k + 1])

\* bindQuery up to the slices: the query and what sqlx makes of it, restored, are
\* the same text but for the names, each of which is now one ?.  Only a colon
\* right after a name is refused.
OnlyNamesChange(q, d) ==
    LET p == protect(q, d)
        with(name) == Walk(Len(p), PastName(p), [i \in 1..Len(p) |-> IF p[i] = ":" THEN name[i] ELSE plain(p[i])])
    IN  /\ q = with([i \in 1..Len(p) |-> SubSeq(p, i, PastName(p)[i] - 1)])
        /\ LET c == compileNamedQuery(p)
           IN  IF \E i \in 1..Len(p) : p[i] = ":" /\ At(p, NameEnd(p, i), ":") THEN ~c.ok
               ELSE restore(c.query) = with([i \in 1..Len(p) |-> <<"?">>])

\* placeholderIndexes: all the ? of the code and nothing else, from left to right,
\* so that the k-th value goes to the k-th of them.
IndexesInOrder(q, d) ==
    LET idx == placeholderIndexes(q, d)
    IN  /\ \A j, k \in 1..Len(idx) : j < k => idx[j] < idx[k]
        /\ {idx[k] : k \in 1..Len(idx)} = {k \in 1..Len(q) : q[k] = "?" /\ ~InLiteral(q, d)[k]}

\* rebind: a ? outside of literals becomes the mark with its number among them,
\* in the driver's syntax, and nothing else is touched.
NumberedInOrder(q, driver) ==
    LET ph == {k \in 1..Len(q) : q[k] = "?" /\ ~InLiteral(q, driver.dialect)[k]}
        r  == rebind(q, driver)
    IN  /\ Len(r) = Len(q)
        /\ \A i \in 1..Len(q) :
              r[i] = IF i \in ph THEN Mark(driver.bind, Cardinality(ph \cap 1..i)) ELSE q[i]

-----------------------------------------------------------------------------
(* The reference: the lexical rules of the two dialects as an automaton    *)
(* that reads one character at a time.  A mode is                          *)
(*   code                      outside of everything                       *)
(*   str, esc, shut            in a string, after a backslash, after what  *)
(*                             may be its last quote                       *)
(*   line, block, dollar       in a comment or a dollar-quoted string      *)

Mode(m, q, b, n) == [mode |-> m, quote |-> q, bs |-> b, n |-> n]
Code == Mode("code", "", FALSE, 0)

\* The mode after the character at i was read in code; what came before it
\* decides whether it completes an opening mark.
FromCode(q, i, d, open) ==
    LET c == q[i]
        prev == i > open /\ i > 1     \* the one before is code too
        tag == Max({j \in open..(i - 1) : q[j] = "$" /\ \A k \in (j + 1)..(i - 1) : isDollarTagChar(q[k])} \cup {0})
        estring == d = "postgres" /\ At(q, i - 1, "E") /\ (i > 2 => q[i - 2] \notin {"a", "E", "_", "1", "$"})
    IN  CASE c = "'"  -> Mode("str", "'", d = "mysql" \/ estring, 0)
          [] c = "dq" -> Mode("str", "dq", d = "mysql", 0)
          [] c = "bq" /\ d = "mysql" -> Mode("str", "bq", FALSE, 0)
          [] c = "#" /\ d = "mysql" -> Mode("line", "", FALSE, 0)
          [] c = "-" /\ d # "mysql" /\ prev /\ q[i - 1] = "-" -> Mode("line", "", FALSE, 0)
          [] c = "sp" /\ d = "mysql" /\ i - 2 >= open /\ SubSeq(q, i - 2, i - 1) = <<"-", "-">> ->
                Mode("line", "", FALSE, 0)
          [] c = "*" /\ prev /\ q[i - 1] = "/" -> Mode("block", "", FALSE, 1)
          [] c = "$" /\ d = "postgres" /\ tag > 0 /\ (tag > 1 => ~isIdentChar(q[tag - 1])) /\ q[tag + 1] # "1" ->
                Mode("dollar", "", FALSE, tag)
          [] OTHER -> Code

\* modes[i] is the mode the character at i is read in; open is the index where
\* the code it is in, or the body of the comment or string, began.
Modes(q, d) ==
    LET at[i \in 1..(Len(q) + 1)] ==
            IF i = 1 THEN [m |-> Code, open |-> 1]
            ELSE LET p == at[i - 1]
                     c == q[i - 1]
                     code(o) == LET m == FromCode(q, i - 1, d, o)
                                IN  [m |-> m, open |-> IF m = Code THEN o ELSE i]
                     keep(m) == [m |-> m, open |-> p.open]
                     leave == [m |-> Code, open |-> i]
                 IN  CASE p.m.mode = "code" -> code(p.open)
                       [] p.m.mode = "str" ->
                            IF c = p.m.quote THEN keep([p.m EXCEPT !.mode = "shut"])
                            ELSE IF c = "bs" /\ p.m.bs THEN keep([p.m EXCEPT !.mode = "esc"])
                            ELSE keep(p.m)
                       [] p.m.mode = "esc" -> keep([p.m EXCEPT !.mode = "str"])
                       [] p.m.mode = "shut" ->
                            IF c = p.m.quote THEN keep([p.m EXCEPT !.mode = "str"]) ELSE code(i - 1)
                       [] p.m.mode = "line" -> IF c = "nl" THEN leave ELSE keep(p.m)
                       [] p.m.mode = "block" ->
                            LET pair == IF i - 2 >= p.open THEN SubSeq(q, i - 2, i - 1) ELSE <<>>
                            IN  IF pair = <<"*", "/">>
                                THEN IF p.m.n = 1 THEN leave
                                     ELSE [m |-> [p.m EXCEPT !.n = @ - 1], open |-> i]
                                ELSE IF pair = <<"/", "*">> /\ d = "postgres"
                                THEN [m |-> [p.m EXCEPT !.n = @ + 1], open |-> i]
                                ELSE keep(p.m)
                       [] p.m.mode = "dollar" ->
                            LET delim == SubSeq(q, p.m.n, p.open - 1)
                                from  == i - Len(delim)
                            IN  IF from >= p.open /\ SubSeq(q, from, i - 1) = delim
                                THEN leave ELSE keep(p.m)
    IN  at

\* The indexes of the code of a query; a quote that may be the last one of a
\* string was: what follows it is code.
CodeAt(q, d) ==
    LET at == Modes(q, d)
    IN  {i \in 1..Len(q) : \/ at[i].m.mode = "code"
                           \/ at[i].m.mode = "shut" /\ q[i] # at[i].m.quote}

\* The colons of a cast: the pairs of a run of colons from its left end.
CastAt(q) ==
    {i \in 1..Len(q) : q[i] = ":" /\
        LET b == Max({j \in 0..(i - 1) : j = 0 \/ q[j] # ":"})
        IN  IF (i - b) % 2 = 0 THEN TRUE ELSE At(q, i + 1, ":")}

\* The colons that begin a placeholder.
PlaceholderAt(q, d) ==
    {i \in CodeAt(q, d) \ CastAt(q) : q[i] = ":" /\ i < Len(q) /\ isNameStart(q[i + 1])}

\* What binding should give: the query with every placeholder replaced and
\* numbered, everything else as it was, and the values in order.
Ideal(q, driver, arg) ==
    LET ph == PlaceholderAt(q, driver.dialect)
        inName == UNION {(i + 1)..(NameEnd(q, i) - 1) : i \in ph}
        items(i) == IF arg[q[i + 1]].how = "nil" THEN <<"NULL">> ELSE arg[q[i + 1]].items
        before(i) == MapThenSumSet(LAMBDA j : Len(items(j)), {j \in ph : j < i})
        mark(i, k) == (IF k = 1 THEN <<>> ELSE <<",", "sp">>) \o <<Mark(driver.bind, before(i) + k)>>
        text(i) == IF i \in inName THEN <<>>
                   ELSE IF i \in ph THEN FlattenSeq([k \in 1..Len(items(i)) |-> mark(i, k)]) ELSE <<q[i]>>
    IN  Bound(FlattenSeq([i \in 1..Len(q) |-> text(i)]),
              FlattenSeq([i \in 1..Len(q) |-> IF i \in ph THEN items(i) ELSE <<>>]))

\* The queries the package promises to bind (db/README.md): no ? in the code,
\* and a name that does not touch a quote or a dollar sign, which would not be
\* SQL after a value.  A cast may follow it, and any colon.
Bindable(q, d) ==
    /\ \A i \in CodeAt(q, d) : q[i] # "?"
    /\ \A i \in PlaceholderAt(q, d) :
          LET j == NameEnd(q, i) IN j <= Len(q) => q[j] \notin {"'", "dq", "$"}

\* What has to be refused: a name that touches the next one, a name the argument
\* does not have, a Valuer that fails and an empty slice.
Faulty(q, d, arg) ==
    \E i \in PlaceholderAt(q, d) :
       \/ NameEnd(q, i) \in PlaceholderAt(q, d)
       \/ q[i + 1] \notin DOMAIN arg
       \/ arg[q[i + 1]].how = "broken"
       \/ arg[q[i + 1]].how # "nil" /\ arg[q[i + 1]].items = <<>>

\* bindQuery: every bindable query gets exactly the placeholders its code has,
\* numbered in order with their values; literals, quoted names, comments and
\* casts keep every character.  What cannot be bound is refused, and without an
\* argument the query is left as it is.
BindsExactly(q, driver, arg) ==
    /\ Bindable(q, driver.dialect) =>
          bindQuery(driver, q, arg, FALSE) =
              IF Faulty(q, driver.dialect, arg) THEN Refused ELSE Ideal(q, driver, arg)
    /\ bindQuery(driver, q, arg, TRUE) = Bound(q, <<>>)

\* All queries that begin with pre and go on with up to n of the characters cs.
Queries(pre, cs, n) == {pre \o s : s \in SeqOf(cs, n)}
=============================================================================
