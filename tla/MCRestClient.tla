---------------------------- MODULE MCRestClient ----------------------------
(* The client with durations of four bits and three requests.              *)
EXTENDS RestClient

Get    == [method |-> "GET", key |-> FALSE, once |-> FALSE]
Stream == [method |-> "PUT", key |-> TRUE, once |-> TRUE]
Post   == [method |-> "POST", key |-> FALSE, once |-> FALSE]

SomeRequests == {Get, Stream, Post}
Headers      == {NoHeader, [form |-> "secs", n |-> 2], [form |-> "secs", n |-> 9],
                 [form |-> "secs", n |-> -1], [form |-> "date", n |-> -1]}
SomeTimeouts == {0, 4}
SomeDeadlines == {0, 3}
=============================================================================
