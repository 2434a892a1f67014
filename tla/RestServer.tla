----------------------------- MODULE RestServer -----------------------------
(***************************************************************************)
(* rest/server: Run with the engine it starts and shuts down, and requests *)
(* going through the middleware stack while it does.                       *)
(*                                                                         *)
(* Hertz is external.  Its engine is "starting", then "marked" (IsRunning  *)
(* holds but the event loop does not exist yet and Shutdown does nothing), *)
(* "serving", "stopping" and "ended"; it may fail until it is stopping.    *)
(* A handler, with the team's middleware around it, leaves one of the      *)
(* responses of Handled and then returns, calls Error, or panics.          *)
(***************************************************************************)
EXTENDS Integers, Sequences

CONSTANTS
    Reqs,       \* places for requests, used again
    Handled,    \* responses a handler may have built when it ends
    Statuses    \* statuses given to Error

Layers == {"requestID", "tracing", "measure", "logging", "recovery"}

\* A response: its status; the hijack writer and the hijack handler; the status
\* that a stream has already sent with its headers, 0 while none has gone out;
\* the headers of the handler, Access-Control-* ones and others; X-Request-ID;
\* the body, which is the handler's, a problem or a problem with a detail.
Responses == [status : 200..599, writer : {"none", "stream", "aborted"}, hijack : {"none", "set"},
              wire : {0} \cup 200..599, headers : SUBSET {"cors", "other"},
              id : {"none", "request", "other"}, body : {"handler", "problem", "detailed"}]

ASSUME ServerAssumption ==
    /\ Handled \subseteq Responses
    /\ \A p \in Handled : /\ p.writer # "aborted" /\ p.body = "handler" /\ p.id # "none"
                          /\ p.writer = "none" => p.wire = 0
    /\ Statuses \subseteq Int

VARIABLES
    run, result,     \* Run: "select", "await", "shutdown", "draining", "shut",
                     \* "done"; what it returned
    ctx, sctx,       \* Run's context; the shutdown's
    err,             \* of the shutdown: "nil", "deadline", "refused"
    engine, errc,    \* the engine; the serving goroutine's result, "none" before it
    at, panicking,   \* a request: 0 idle, 6 in the handler, 5..1 the layer that
                     \* it leaves next, 7 to be written
    resp, late,      \* its response; it came after Shutdown had returned
    log, metric, span, active,   \* its line, measurement, span; active_requests
    sent             \* what the client got: a complete response, a truncated one or a
                     \* closed connection; the status it saw, 0 when none

runVars == <<run, result, ctx, sctx, err, engine, errc>>
reqVars == <<at, panicking, resp, late, log, metric, span, active, sent>>
vars == <<runVars, reqVars>>

Empty == [status |-> 200, writer |-> "none", hijack |-> "none", wire |-> 0, headers |-> {},
          id |-> "none", body |-> "handler"]
Unsent == [how |-> "none", panic |-> "no", status |-> 0, resp |-> Empty]

\* The stack, the outermost layer first.
chain == <<"requestID", "tracing", "measure", "logging", "recovery">>

TypeOK ==
    /\ run \in {"select", "await", "shutdown", "draining", "shut", "done"}
    /\ result \in {"none", "nil", "error"}
    /\ ctx \in {"live", "canceled"} /\ sctx \in {"live", "expired"}
    /\ err \in {"nil", "deadline", "refused"}
    /\ engine \in {"starting", "marked", "serving", "stopping", "ended"}
    /\ errc \in {"none", "nil", "error"}
    /\ at \in [Reqs -> 0..7]
    /\ panicking \in [Reqs -> {"no", "yes", "recovered"}]
    /\ resp \in [Reqs -> Responses]
    /\ late \in [Reqs -> BOOLEAN]
    /\ {log, metric, span} \subseteq [Reqs -> {0} \cup 200..599]
    /\ active \in [Reqs -> 0..1]
    /\ sent \in [Reqs -> [how : {"none", "complete", "truncated", "closed"}, panic : {"no", "recovered"},
                          status : {0} \cup 200..599, resp : Responses]]

Init ==
    /\ run = "select" /\ result = "none" /\ ctx = "live" /\ sctx = "live" /\ err = "nil"
    /\ engine = "starting" /\ errc = "none"
    /\ at = [r \in Reqs |-> 0]
    /\ panicking = [r \in Reqs |-> "no"]
    /\ resp = [r \in Reqs |-> Empty]
    /\ late = [r \in Reqs |-> FALSE]
    /\ log = [r \in Reqs |-> 0] /\ metric = log /\ span = log
    /\ active = [r \in Reqs |-> 0]
    /\ sent = [r \in Reqs |-> Unsent]

-----------------------------------------------------------------------------
(* The engine.                                                             *)

EngineComesUp ==
    /\ \/ engine = "starting" /\ engine' = "marked"
       \/ engine = "marked" /\ engine' = "serving"
    /\ UNCHANGED <<run, result, ctx, sctx, err, errc, reqVars>>

\* hz.Run returns an error, or panics, which serve makes an error.
serveFails ==
    /\ engine \in {"starting", "marked", "serving"}
    /\ engine' = "ended" /\ errc' = "error"
    /\ UNCHANGED <<run, result, ctx, sctx, err, reqVars>>

IsRunning == engine \in {"marked", "serving"}
InFlight  == {r \in Reqs : at[r] # 0}

-----------------------------------------------------------------------------
(* Run.                                                                    *)

CtxCancel ==
    /\ ctx = "live"
    /\ ctx' = "canceled"
    /\ UNCHANGED <<run, result, sctx, err, engine, errc, reqVars>>

\* The serving goroutine ended by itself.
ReturnServeError ==
    /\ run = "select" \/ (run = "await" /\ ~IsRunning)
    /\ errc # "none"
    /\ run' = "done"
    /\ result' = errc
    /\ UNCHANGED <<ctx, sctx, err, engine, errc, reqVars>>

\* The context is done; Run waits for the listener before it shuts down.
AwaitListener ==
    /\ \/ run = "select" /\ ctx = "canceled" /\ run' = "await"
       \/ run = "await" /\ IsRunning /\ run' = "shutdown"
    /\ UNCHANGED <<result, ctx, sctx, err, engine, errc, reqVars>>

\* hz.Shutdown: no effect without an event loop, an error or nil when the
\* engine has ended, otherwise no new requests.
ShutdownCall ==
    /\ run = "shutdown"
    /\ \/ engine = "marked" /\ run' = "shut" /\ UNCHANGED <<err, engine>>
       \/ engine = "ended" /\ run' = "shut" /\ err' \in {"nil", "refused"} /\ UNCHANGED engine
       \/ engine = "serving" /\ run' = "draining" /\ engine' = "stopping" /\ UNCHANGED err
    /\ UNCHANGED <<result, ctx, sctx, errc, reqVars>>

\* ShutdownTimeout is over.
ShutdownExpires ==
    /\ run = "draining" /\ sctx = "live"
    /\ sctx' = "expired"
    /\ UNCHANGED <<run, result, ctx, err, engine, errc, reqVars>>

\* Seeded bug: the result of hz.Shutdown alone.
shutdownErrHertz == "nil"
\* Hertz returns nil in both cases; the context tells them apart.
shutdownErr == IF sctx = "expired" THEN "deadline" ELSE "nil"

\* hz.Shutdown returns, with every request done or its context expired.
ShutdownReturns ==
    /\ run = "draining"
    /\ InFlight = {} \/ sctx = "expired"
    /\ engine' = "ended" /\ errc' = "nil"
    /\ err' = shutdownErr
    /\ run' = "shut"
    /\ UNCHANGED <<result, ctx, sctx, reqVars>>

\* Seeded bug: Close is not called again.
closesNever == {}
\* The engines that hz.Close ends.
closes == {"serving"}

\* A tick of Run's last loop: Close, with no effect before the event loop.
CloseTick ==
    /\ run = "shut" /\ errc = "none"
    /\ engine \in closes
    /\ engine' = "ended" /\ errc' = "nil"
    /\ UNCHANGED <<run, result, ctx, sctx, err, reqVars>>

serveEnded == errc # "none"

ReturnAfterShutdown ==
    /\ run = "shut"
    /\ serveEnded
    /\ run' = "done"
    /\ result' = IF err # "nil" \/ errc = "error" THEN "error" ELSE "nil"
    /\ UNCHANGED <<ctx, sctx, err, engine, errc, reqVars>>

-----------------------------------------------------------------------------
(* One request.                                                            *)

\* The layers' first halves: the request ID, the span, active_requests + 1.
Enter(r) ==
    /\ at[r] = 0 /\ engine = "serving"
    /\ at' = [at EXCEPT ![r] = 6]
    /\ panicking' = [panicking EXCEPT ![r] = "no"]
    /\ resp' = [resp EXCEPT ![r] = [Empty EXCEPT !.id = "request"]]
    /\ late' = [late EXCEPT ![r] = run \in {"shut", "done"}]
    /\ log' = [log EXCEPT ![r] = 0]
    /\ metric' = [metric EXCEPT ![r] = 0]
    /\ span' = [span EXCEPT ![r] = 0]
    /\ active' = [active EXCEPT ![r] = 1]
    /\ sent' = [sent EXCEPT ![r] = Unsent]
    /\ UNCHANGED runVars

\* writeProblem on the response p; it sets X-Request-ID anew.
writeProblem(p, status, body) ==
    [p EXCEPT !.status = status, !.body = body, !.id = "request"]

inRange(status) == status >= 400 /\ status <= 599

\* Error with a status and an error that has a message for the client, or not.
Error(p, status, errs) ==
    LET used == IF inRange(status) THEN status ELSE 500
    IN writeProblem(p, used, IF errs /\ used < 500 THEN "detailed" ELSE "problem")

\* The handler ends: it returns or panics, without Error or after it, when it
\* may have overwritten X-Request-ID again.
HandlerEnds(r, p) ==
    /\ at[r] = 6
    /\ \/ resp' = [resp EXCEPT ![r] = p]
       \/ \E status \in Statuses, errs \in BOOLEAN, id \in {"request", "other"} :
             resp' = [resp EXCEPT ![r] = [Error(p, status, errs) EXCEPT !.id = id]]
    /\ \E b \in {"no", "yes"} : panicking' = [panicking EXCEPT ![r] = b]
    /\ at' = [at EXCEPT ![r] = 5]
    /\ UNCHANGED <<runVars, late, log, metric, span, active, sent>>

\* A fresh response with the Access-Control-* headers of p.
corsOnly(p) == [Empty EXCEPT !.headers = p.headers \cap {"cors"}]

\* Seeded bug: the stream's writer stays.
recoveredStream(p) ==
    IF p.writer # "none" THEN [p EXCEPT !.status = 500, !.hijack = "none"]
    ELSE writeProblem(corsOnly(p), 500, "problem")
\* recovery's response: a problem in place of the handler's response, but for
\* its CORS headers, or the aborted stream, whose headers may have gone out.
recovered(p) ==
    IF p.writer # "none" THEN [p EXCEPT !.status = 500, !.hijack = "none", !.writer = "aborted"]
    ELSE writeProblem(corsOnly(p), 500, "problem")

\* The layer's second half; a panic skips it, but for the deferred calls.
recovery(r) ==
    IF panicking[r] = "yes"
    THEN /\ panicking' = [panicking EXCEPT ![r] = "recovered"]
         /\ resp' = [resp EXCEPT ![r] = recovered(resp[r])]
    ELSE UNCHANGED <<panicking, resp>>

Unwind(r) ==
    /\ at[r] \in 1..5
    /\ at' = [at EXCEPT ![r] = IF @ = 1 THEN 7 ELSE @ - 1]
    /\ LET layer    == chain[at[r]]
           reported == IF panicking[r] = "yes" THEN 0 ELSE resp[r].status
       IN /\ IF layer = "recovery" THEN recovery(r) ELSE UNCHANGED <<panicking, resp>>
          /\ log' = IF layer = "logging" THEN [log EXCEPT ![r] = reported] ELSE log
          /\ metric' = IF layer = "measure" THEN [metric EXCEPT ![r] = reported] ELSE metric
          /\ span' = IF layer = "tracing" THEN [span EXCEPT ![r] = reported] ELSE span
          /\ active' = IF layer = "measure" THEN [active EXCEPT ![r] = 0] ELSE active
    /\ UNCHANGED <<runVars, late, sent>>

\* How the connection ends: Hertz writes the response, or ends the stream; an
\* aborted writer makes it close the connection instead.
outcome(p) ==
    IF p.writer # "aborted" THEN "complete" ELSE IF p.wire # 0 THEN "truncated" ELSE "closed"

\* The status the client sees: the one that went out with a stream's headers,
\* or the response's when none did, unless the connection is just closed.
clientStatus(p) ==
    IF p.wire # 0 THEN p.wire ELSE IF p.writer = "aborted" THEN 0 ELSE p.status

Write(r) ==
    /\ at[r] = 7
    /\ at' = [at EXCEPT ![r] = 0]
    /\ sent' = [sent EXCEPT ![r] =
                  [how |-> outcome(resp[r]), panic |-> panicking[r],
                   status |-> clientStatus(resp[r]), resp |-> resp[r]]]
    /\ UNCHANGED <<runVars, panicking, resp, late, log, metric, span, active>>

-----------------------------------------------------------------------------
RunStep ==
    \/ ReturnServeError \/ AwaitListener \/ ShutdownCall \/ ShutdownReturns
    \/ CloseTick \/ ReturnAfterShutdown

Next ==
    \/ EngineComesUp \/ serveFails
    \/ CtxCancel \/ RunStep \/ ShutdownExpires
    \/ \E r \in Reqs : \/ Enter(r) \/ Unwind(r) \/ Write(r)
                       \/ \E p \in Handled : HandlerEnds(r, p)

Spec == Init /\ [][Next]_vars

\* The engine comes up unless it fails, Run's goroutine runs, its timers fire.
\* Handlers may run for ever.
FairSpec ==
    Spec /\ WF_vars(EngineComesUp) /\ WF_vars(RunStep) /\ WF_vars(ShutdownExpires)

-----------------------------------------------------------------------------
(* Properties.                                                             *)

\* Run: when it returns nil, every request that came before the shutdown has
\* been answered.  A request that came after a Shutdown without effect may go on.
NilIsDrained == (run = "done" /\ result = "nil") => \A r \in InFlight : late[r]

\* Run returns only when nothing serves any more, also when the shutdown fell
\* into the time before the event loop existed.
RunEndsServing == run = "done" => (engine = "ended" /\ errc # "none")

\* Run: once its context is done it returns, although handlers may never do.
RunReturns == (ctx = "canceled") ~> (run = "done")

\* registerMiddleware: the access log, the metric and the span of a request
\* agree with each other, and say 500 after a panic although the client of a
\* stream may have seen the handler's status or none.  They agree with what the
\* client saw whenever the response was not streamed, after a panic too, and
\* when a stream ended properly that had not sent its headers early.
TelemetryAgrees ==
    \A r \in Reqs : sent[r].how # "none" =>
        /\ metric[r] = log[r] /\ span[r] = log[r]
        /\ sent[r].panic # "no" => log[r] = 500
        /\ sent[r].resp.writer = "none" => sent[r].status = log[r]
        /\ (sent[r].how = "complete" /\ sent[r].resp.wire = 0) => sent[r].status = log[r]

\* recovery: a response that was streaming when its handler panicked does not
\* look complete to the client, any other is a problem with the request's ID in
\* its header and none of the handler's headers but the Access-Control-* ones,
\* and no hijack handler takes the connection afterwards.
PanicNotCompleted ==
    \A r \in Reqs : sent[r].panic # "no" =>
        /\ sent[r].how = "complete" => (/\ sent[r].resp.body = "problem"
                                        /\ sent[r].resp.headers \subseteq {"cors"}
                                        /\ sent[r].resp.id = "request"
                                        /\ sent[r].resp.writer = "none")
        /\ sent[r].resp.hijack = "none"
=============================================================================
