--------------------------- MODULE MCDataClients ---------------------------
EXTENDS DataClients, BindQuery

CONSTANTS opener, poller, c1, s1, x1

AllRecorders == {opener, poller, c1}
OnlyPoller  == {poller}
OneCaller   == {c1}
OneCloser   == {x1}
OneStopper  == {s1}
ValidNames  == {"count", "timeouts", "duration", "rpc"}
AllKinds    == {"updown", "counter", "histogram"}
PoolSeries  == {"idle", "used", "timeouts"}

\* The errors of a call: none, an absent value, answers of the server, and the
\* chains of the other facts.
FactSets == SUBSET {"deadline", "nettimeout", "natstimeout", "canceled", "pooltimeout", "refused", "dns",
                    "deadlineText", "plain"}
SomeErrors == {{}, {"absent"}, {"server", "prefix"}, {"server"}, {"deadline", "nettimeout"}, {"canceled"}, {"plain"}}
SomeInputs == [shape : {"listed", "unlisted"}, bucket : {"", "bucket"}]
              \cup {[shape |-> "nil", bucket |-> ""], [shape |-> "fieldless", bucket |-> ""]}

MySQL == [dialect |-> "mysql", bind |-> "question"]
Postgres == [dialect |-> "postgres", bind |-> "dollar"]
Generic == [dialect : {"generic"}, bind : {"question", "dollar", "at", "named"}]

\* Names that begin with a hold a scalar, names with E a slice of two.
ScalarAndSlice == [a |-> Value("plain", FALSE, <<"a">>), E |-> Value("plain", TRUE, <<"E1", "E2">>)]
\* The values the package treats by their kind: a slice of none, of one and of
\* two, also from a Valuer, an array a Valuer gives as one value, a nil pointer
\* and a Valuer that fails.
SomeValues == {Value("plain", TRUE, <<>>), Value("plain", TRUE, <<"E1">>), Value("valuer", TRUE, <<"E1", "E2">>),
               Value("valuer", FALSE, <<"array">>), Value("nil", FALSE, <<>>), Value("broken", FALSE, <<"E1">>)}
\* Each of them for the names with E, beside a scalar or with none for the others.
SomeArgs == [{"E"} -> SomeValues] \cup [{"a", "E"} -> SomeValues]

(* Every query of six families, short but with every mix of the characters *)
(* that the dialects give a meaning, and every short query with each of    *)
(* the arguments, is bound exactly or refused (bindQuery), its names and   *)
(* placeholders are found, and the rest of it is kept.                     *)
(* A constant formula, so it is evaluated in the initial states only.      *)
BindExact ==
    (ClientsInit /\ shutdown = "nil") =>
        /\ \A driver \in {MySQL, Postgres} : \A q \in
                  Queries(<<>>, {"'", "bs", "E", ":", "a", "?"}, 5)
             \cup Queries(<<>>, {"'", "dq", ":", "a", "bq", "#"}, 5)
             \cup Queries(<<>>, {"-", "sp", "nl", ":", "a", "'"}, 5)
             \cup Queries(<<"/", "*">>, {"/", "*", ":", "a"}, 6)
             \cup Queries(<<>>, {"$", "a", "1", ":", "E"}, 5)
             \cup Queries(<<"$", "a", "$">>, {"$", "a", "1", ":"}, 5) :
                 /\ BindsExactly(q, driver, ScalarAndSlice) /\ NamesAreCode(q, driver.dialect)
                 /\ OnlyNamesChange(q, driver.dialect) /\ IndexesInOrder(q, driver.dialect)
                 /\ NumberedInOrder(q, driver)
        /\ \A driver \in {MySQL, Postgres} \cup Generic : \A arg \in SomeArgs :
              \A q \in Queries(<<":", "E">>, {":", "a", "E", "-"}, 3) \cup Queries(<<>>, {"?", "'", "#", "-"}, 3) :
                  BindsExactly(q, driver, arg) /\ NumberedInOrder(q, driver)
=============================================================================
