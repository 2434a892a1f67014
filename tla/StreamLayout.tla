---------------------------- MODULE StreamLayout ----------------------------
(***************************************************************************)
(* The stream layout of a topic (nats/internal/wire): which subjects it    *)
(* has and how the producer's Start patches a stream that exists.  A       *)
(* subject is a sequence of tokens, a stream's subjects are a set: the     *)
(* server keeps them apart, and nothing here depends on their order.       *)
(* Everything here is a pure operator.                                     *)
(***************************************************************************)
EXTENDS Integers, Sequences

CONSTANTS
    Topic,
    Tokens,      \* literal tokens
    MaxTokens,   \* bound: the length of a literal subject
    Streams      \* the subjects of the streams that a Start may find

DataSubjects == <<<<Topic>>, <<Topic, ">">>>>
scheduleWildcard == <<"schedules", Topic, ">">>
Layout == Append(DataSubjects, scheduleWildcard)

-----------------------------------------------------------------------------
\* Seeded bug: > also matches no token at all.
TailMatchesEmpty(i, n) == i - 1 <= Len(n)
\* covers, at a > in place i of the wider subject.
TailMatches(i, n) == i <= Len(n)

\* covers, at any other token in place i.
TokenCovers(w, n, i) ==
    /\ i <= Len(n) /\ n[i] # ">"
    /\ w[i] # "*" => w[i] = n[i]

covers(w, n) ==
    LET Tails == {i \in 1..Len(w) : w[i] = ">"}
        tail  == CHOOSE i \in Tails : \A j \in Tails : i <= j
    IN  IF Tails # {}
        THEN TailMatches(tail, n) /\ \A j \in 1..(tail - 1) : TokenCovers(w, n, j)
        ELSE Len(w) = Len(n) /\ \A j \in 1..Len(w) : TokenCovers(w, n, j)

\* One subject of the layout goes into the subjects of a stream.
AddSubject(p, s) ==
    IF \E e \in p.subjects : covers(e, s) THEN p
    ELSE [subjects |-> {e \in p.subjects : ~covers(s, e)} \cup {s}, changed |-> TRUE]

AddLayout(p) == AddSubject(AddSubject(AddSubject(p, Layout[1]), Layout[2]), Layout[3])

\* PatchStream of a stream [subjects, schedules, incompatible].
PatchStream(cfg) ==
    IF cfg.incompatible THEN [cfg |-> cfg, changed |-> FALSE, failed |-> TRUE]
    ELSE LET p == AddLayout([subjects |-> cfg.subjects, changed |-> FALSE])
         IN  [cfg     |-> [subjects |-> p.subjects, schedules |-> TRUE, incompatible |-> FALSE],
              changed |-> p.changed \/ ~cfg.schedules,
              failed  |-> FALSE]

-----------------------------------------------------------------------------
(* The reference: what a subject matches.                                  *)

Literals == UNION {[1..k -> Tokens] : k \in 1..MaxTokens}

\* Subjects shorter than a literal may be: all of them without >, and with it.
Plain == UNION {[1..k -> Tokens \cup {"*"}] : k \in 0..(MaxTokens - 2)}
Subjects == (Plain \ {<<>>}) \cup {Append(p, ">") : p \in Plain}

\* NATS: * stands for one token, > for one or more at the end.
Matches ==
    [s \in Subjects |->
        {l \in Literals :
            IF s[Len(s)] = ">"
            THEN Len(l) >= Len(s) /\ \A i \in 1..(Len(s) - 1) : s[i] \in {"*", l[i]}
            ELSE Len(l) = Len(s) /\ \A i \in 1..Len(s) : s[i] \in {"*", l[i]}}]

MatchedBy(subjects) == UNION {Matches[s] : s \in subjects}

\* The server keeps the subjects of a stream apart.
Apart(subjects) == \A s, t \in subjects : s # t => Matches[s] \cap Matches[t] = {}

\* The layout's subjects are among the bounded ones, and no token stands alone,
\* so that a literal subject tells any two different subjects apart.
ASSUME LayoutAssumption ==
    /\ {"schedules", Topic} \subseteq Tokens /\ Tokens \cap {"*", ">"} = {}
    /\ \A t \in Tokens : \E u \in Tokens : u # t
    /\ MaxTokens \in Nat /\ MaxTokens >= 4
    /\ \A subjects \in Streams : subjects \subseteq Subjects /\ Apart(subjects)

StreamConfigs == [subjects : Streams, schedules : BOOLEAN, incompatible : {FALSE}]

\* PatchStream and covers: covers is inclusion of what two subjects match.  A
\* patched stream matches what it matched before and the whole layout and no
\* more, a second patch changes nothing, a patch that says so has changed
\* nothing, and in a patched stream no subject covers another.
PatchIsSound ==
    /\ \A w, n \in Subjects : covers(w, n) <=> Matches[n] \subseteq Matches[w]
    /\ \A cfg \in StreamConfigs :
          LET p == PatchStream(cfg)
              t == p.cfg.subjects
          IN  /\ MatchedBy(t) = MatchedBy(cfg.subjects)
                                \cup MatchedBy({Layout[1], Layout[2], Layout[3]})
              /\ PatchStream(p.cfg) = [cfg |-> p.cfg, changed |-> FALSE, failed |-> FALSE]
              /\ ~p.changed <=> p.cfg = cfg
              /\ \A a, b \in t : a # b => ~covers(a, b)
=============================================================================
