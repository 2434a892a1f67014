---------------------------- MODULE MCRestServer ----------------------------
(* The server with two requests at a time.                                 *)
EXTENDS RestServer

CONSTANTS r1, r2

TwoReqs == {r1, r2}

Built == [Empty EXCEPT !.headers = {"cors", "other"}, !.id = "request"]
Stream == [Built EXCEPT !.writer = "stream", !.hijack = "set"]

\* A plain response, a stream that has sent nothing, and one under way.
SomeResponses == {[Built EXCEPT !.id = "other"], Stream, [Stream EXCEPT !.wire = 200]}
SomeStatuses == {0, 404, 600}
=============================================================================
