----------------------------- MODULE RestClient -----------------------------
(***************************************************************************)
(* A call of rest/client through its chain logging -> retry -> tracing ->  *)
(* metrics -> deadline -> Hertz, and the calls that follow it with the     *)
(* same request and the same idle connection.                              *)
(*                                                                         *)
(* Time is in ticks; durations are signed integers of Width bits, as       *)
(* time.Duration is one of 64.  An error is the set of the sentinels that  *)
(* errors.Is finds in it, so nil is the empty set.  Hertz is external: it  *)
(* ends an attempt within its request timeout, keeps the connection of a   *)
(* response for the next attempt, and takes a 1xx response for the final   *)
(* one, which leaves the real one on the connection.                       *)
(***************************************************************************)
EXTENDS Integers

CONSTANTS
    Timeout, AttemptTimeout, MaxAttempts,
    BackoffBase, BackoffMax, MaxRetryAfter,    \* Config
    Width,            \* bits of a duration
    CallerTimeouts,   \* request timeouts a caller sets; 0 is none
    CtxDeadlines,     \* deadlines of the callers' contexts; 0 is none
    Requests,         \* the requests: [method, key, once]
    RetryAfters       \* Retry-After headers: [form, n]

\* The powers of two.
Pow2[n \in Nat] == IF n = 0 THEN 1 ELSE 2 * Pow2[n - 1]

Half == Pow2[Width - 1]
\* An integer as a duration of Width bits.
Wrap(x) == ((x + Half) % (2 * Half)) - Half
\* Go's shifts of a positive duration.
Shl(x, n) == IF n >= Width THEN 0 ELSE Wrap(x * Pow2[n])
Shr(x, n) == IF n >= Width THEN 0 ELSE x \div Pow2[n]

Least(a, b) == IF a <= b THEN a ELSE b
Most(a, b)  == IF a >= b THEN a ELSE b

Durations == 1..(Half - 1)
Methods   == {"GET", "HEAD", "OPTIONS", "PUT", "DELETE", "TRACE", "POST", "PATCH"}
Statuses  == {103, 200, 404, 429, 500, 502, 503, 504}
NoHeader  == [form |-> "none", n |-> 0]

\* What Config.Validate leaves after SetDefaults.
ValidConfig ==
    /\ {Timeout, AttemptTimeout, BackoffBase, BackoffMax, MaxRetryAfter} \subseteq Durations
    /\ BackoffBase <= BackoffMax
    /\ MaxAttempts \in Nat \ {0}

ASSUME RestAssumption ==
    /\ Width \in Nat /\ Width > 1
    /\ ValidConfig
    /\ CallerTimeouts \subseteq Durations \cup {0}
    /\ CtxDeadlines \subseteq Durations \cup {0}
    /\ Requests \subseteq [method : Methods, key : BOOLEAN, once : BOOLEAN]
    /\ RetryAfters \subseteq [form : {"none", "secs", "date"}, n : Int]
    /\ NoHeader \in RetryAfters

VARIABLES
    pc,              \* "idle", "next", "flight", "back", "waiting", "done"
    req, skip,       \* the request; the caller's SkipBody
    opt, owned,      \* the request's timeout option; what the caller set it to
    saved,           \* deadline's copy of the option
    bound, age,      \* the call's time limit; ticks since it began
    ctx, left,       \* the context: "live", "deadline", "canceled"; ticks to its deadline
    attempt, sent,   \* retry's loop counter; attempts sent (call.attempts)
    flight,          \* ticks left of the attempt in flight
    err,             \* what next returned
    resp,            \* the response: [status, after, own, skip]
    delay, paused,   \* ticks left of the wait; ticks since the last answer
    measured,        \* the last attempt's span and measurement: [status, type]
    records,         \* spans and measurements of the call
    conn,            \* the idle connection: "none", "clean", "poisoned"
    used             \* some call has been made

reqVars  == <<req, skip, opt, owned, saved>>
ctxVars  == <<bound, age, ctx, left>>
callVars == <<attempt, sent, flight, err, resp, delay, paused, measured, records>>
vars == <<pc, reqVars, ctxVars, callVars, conn, used>>

Sentinels == {"deadline", "canceled", "timeout", "dropped", "permanent", "info", "url"}
NoOutcome == [status |-> 0, type |-> ""]
Blank(s)  == [status |-> 0, after |-> NoHeader, own |-> TRUE, skip |-> s]

TypeOK ==
    /\ pc \in {"idle", "next", "flight", "back", "waiting", "done"}
    /\ req \in Requests /\ skip \in BOOLEAN
    /\ opt \in 0..(Half - 1) /\ owned \in 0..(Half - 1) /\ saved \in 0..(Half - 1)
    /\ bound \in 0..(Half - 1) /\ age \in Nat
    /\ ctx \in {"live", "deadline", "canceled"} /\ left \in 0..(Half - 1)
    /\ attempt \in 1..MaxAttempts /\ sent \in 0..MaxAttempts
    /\ flight \in 0..AttemptTimeout
    /\ err \subseteq Sentinels
    /\ resp \in [status : Statuses \cup {0}, after : RetryAfters, own : BOOLEAN, skip : BOOLEAN]
    /\ delay \in Nat /\ paused \in Nat
    /\ measured \in [status : Statuses \cup {0}, type : {"", "timeout", "canceled", "_OTHER", "status"}]
    /\ records \in 0..MaxAttempts
    /\ conn \in {"none", "clean", "poisoned"}
    /\ used \in BOOLEAN

Init ==
    /\ pc = "idle" /\ conn = "none" /\ used = FALSE
    /\ req \in Requests /\ skip = FALSE /\ saved = 0
    /\ opt \in CallerTimeouts /\ owned = opt
    /\ bound = 0 /\ age = 0 /\ ctx = "live" /\ left = 0
    /\ attempt = 1 /\ sent = 0 /\ flight = 0 /\ err = {}
    /\ resp = Blank(FALSE) /\ delay = 0 /\ paused = 0 /\ measured = NoOutcome /\ records = 0

-----------------------------------------------------------------------------
(* logging.                                                                *)

\* The limit of a call whose request has the timeout o, under a context with
\* the deadline dl: the earlier of the two, or Config.Timeout.
callLimit(o, dl) ==
    IF o > 0 THEN IF dl > 0 THEN Least(o, dl) ELSE o
    ELSE IF dl > 0 THEN dl ELSE Timeout

\* A caller makes a call, with a request of its own or with the one of its
\* last call.  logging bounds it and checks the URL.
Call(r, o, dl, s) ==
    /\ pc = "idle"
    /\ used' = TRUE
    /\ \/ req' = r /\ opt' = o /\ owned' = o
       \/ used /\ UNCHANGED <<req, opt, owned>>
    /\ skip' = s
    /\ left' = callLimit(opt', dl)
    /\ bound' = callLimit(owned', dl)
    /\ age' = 0 /\ ctx' = "live"
    /\ \/ pc' = "next" /\ err' = {}
       \/ pc' = "done" /\ err' = {"url"}
    /\ attempt' = 1 /\ sent' = 0
    /\ resp' = Blank(s)
    /\ paused' = 0 /\ measured' = NoOutcome /\ records' = 0
    /\ UNCHANGED <<saved, flight, delay, conn>>

\* The caller has its result; logCall has written the line.
Return ==
    /\ pc = "done"
    /\ pc' = "idle"
    /\ UNCHANGED <<reqVars, ctxVars, callVars, conn, used>>

-----------------------------------------------------------------------------
(* tracing, measure and deadline.                                          *)

\* ctx.Err.
ctxErr == IF ctx = "live" THEN {} ELSE {ctx}

ClientErrorType(status, e) ==
    CASE e = {} -> IF status >= 400 THEN "status" ELSE ""
      [] "deadline" \in e -> "timeout"
      [] "deadline" \notin e /\ "canceled" \in e -> "canceled"
      [] OTHER -> "_OTHER"

attemptOutcome(status, e) ==
    [status |-> IF e = {} THEN status ELSE 0, type |-> ClientErrorType(status, e)]

\* One span and one measurement for each attempt, with its outcome.
tracing == records' = records + 1
measure(status, e) == measured' = attemptOutcome(status, e)

\* Seeded bug: an attempt may use the whole AttemptTimeout.
attemptTimeoutWhole == AttemptTimeout
attemptTimeout == Least(AttemptTimeout, left)

\* An attempt: refused by deadline, or sent.
Attempt ==
    /\ pc = "next"
    /\ tracing
    /\ \/ /\ ctx # "live" \/ attemptTimeout <= 0
          /\ err' = IF ctx # "live" THEN ctxErr ELSE {"deadline"}
          /\ measure(resp.status, err')
          /\ pc' = "back"
          /\ UNCHANGED <<sent, flight, opt, saved>>
       \/ /\ ctx = "live" /\ attemptTimeout > 0
          /\ sent' = sent + 1
          /\ saved' = opt
          /\ opt' = attemptTimeout
          /\ flight' = attemptTimeout
          /\ pc' = "flight"
          /\ UNCHANGED <<err, measured>>
    /\ UNCHANGED <<req, skip, owned, ctxVars, attempt, resp, delay, paused, conn, used>>

\* Seeded bug: deadline leaves its timeout in the request.
timeoutAfterKept == opt
\* The request's timeout once the attempt is over.
timeoutAfter == saved

informational(status) == status >= 100 /\ status < 200 /\ status # 100

\* The connection a response leaves idle in Hertz's pool.
keptConn(status) == IF informational(status) THEN "poisoned"
                    ELSE IF conn = "none" THEN "clean" ELSE conn

\* Seeded bug: deadline does not close the idle connections.
connAfterKept(status) == keptConn(status)
\* The idle connection after deadline.
connAfter(status) == IF informational(status) THEN "none" ELSE keptConn(status)

\* Hertz returns a response: the one to this request, or, on a poisoned
\* connection, the one left there.
Respond(status, h) ==
    /\ pc = "flight"
    /\ h # NoHeader => status \in {429, 503}
    /\ resp' = [resp EXCEPT !.status = status, !.after = h, !.own = conn # "poisoned"]
    /\ conn' = connAfter(status)
    /\ opt' = timeoutAfter
    /\ err' = IF informational(status) THEN {"info"} ELSE ctxErr
    /\ measure(status, err')
    /\ flight' = 0 /\ paused' = 0
    /\ pc' = "back"
    /\ UNCHANGED <<req, skip, owned, saved, ctxVars, attempt, sent, delay, records, used>>

\* Hertz returns an error: its timeout, a dropped connection, or an error of
\* retryErr's list.  The connection is gone.
Fail(e) ==
    /\ pc = "flight"
    /\ conn' = "none"
    /\ opt' = timeoutAfter
    /\ err' = {e} \cup ctxErr \cup (IF ctx = "live" /\ e = "timeout" THEN {"deadline"} ELSE {})
    /\ measure(resp.status, err')
    /\ flight' = 0 /\ paused' = 0
    /\ pc' = "back"
    /\ UNCHANGED <<req, skip, owned, saved, ctxVars, attempt, sent, resp, delay, records, used>>

-----------------------------------------------------------------------------
(* retry.                                                                  *)

\* Seeded bug: an Idempotency-Key is enough.
retryableKey == req.key \/ (~req.once /\ req.method \in (Methods \ {"POST", "PATCH"}))
retryable ==
    /\ ~req.once
    /\ req.method \in {"GET", "HEAD", "OPTIONS", "PUT", "DELETE", "TRACE"} \/ req.key

retryErr == {"permanent", "info"} \cap err = {}

\* Seeded bug: the shift is done first and compared after it.
backoffCapShifted == Least(BackoffMax, Shl(BackoffBase, attempt - 1))
\* The bound of the jitter before retry number attempt; rand.N panics at zero.
backoffCap == IF BackoffBase <= Shr(BackoffMax, attempt - 1)
              THEN Shl(BackoffBase, attempt - 1) ELSE BackoffMax

\* Seeded bug: seconds are not clamped before the conversion.
parseRetryAfterWraps(h) ==
    CASE h.form = "secs" -> IF h.n < 0 THEN {} ELSE {Wrap(h.n)}
      [] h.form = "date" -> {Most(h.n, 0)}
      [] OTHER -> {}
\* The delay a header asks for; none when it cannot be read.
parseRetryAfter(h) ==
    CASE h.form = "secs" -> IF h.n < 0 THEN {} ELSE {Wrap(Least(h.n, Half - 1))}
      [] h.form = "date" -> {Most(h.n, 0)}
      [] OTHER -> {}

\* The delays retryDelay may return; none when the call is over.
retryDelays ==
    LET jitter == 0..(backoffCap - 1)
        asked  == IF resp.status \in {429, 503} THEN parseRetryAfter(resp.after) ELSE {}
        wanted == IF err # {} THEN IF retryErr THEN jitter ELSE {}
                  ELSE IF resp.status \notin {429, 502, 503, 504} THEN {}
                  ELSE IF asked = {} THEN jitter
                  ELSE {d \in asked : d <= MaxRetryAfter}
    IN {d \in wanted : d <= left}

attemptsLeft == attempt < MaxAttempts

goesOn == retryable /\ attemptsLeft /\ ctx = "live"

\* The result of an attempt is returned, or retry waits for its turn.
Decide ==
    /\ pc = "back"
    /\ \/ /\ ~goesOn \/ retryDelays = {}
          /\ pc' = "done"
          /\ UNCHANGED delay
       \/ /\ goesOn
          /\ \E d \in retryDelays : delay' = d
          /\ pc' = "waiting"
    /\ UNCHANGED <<reqVars, ctxVars, attempt, sent, flight, err, resp, paused, measured, records, conn, used>>

\* The response before a retry.
respBeforeRetry == Blank(resp.skip)

\* wait: the timer fires, or the context ends; either when both are ready.
WaitFires ==
    /\ pc = "waiting" /\ delay <= 0
    /\ resp' = respBeforeRetry
    /\ attempt' = attempt + 1
    /\ err' = {}
    /\ pc' = "next"
    /\ UNCHANGED <<reqVars, ctxVars, sent, flight, delay, paused, measured, records, conn, used>>

WaitCanceled ==
    /\ pc = "waiting" /\ ctx # "live"
    /\ err' = ctxErr
    /\ pc' = "done"
    /\ UNCHANGED <<reqVars, ctxVars, attempt, sent, flight, resp, delay, paused, measured, records, conn, used>>

-----------------------------------------------------------------------------
(* Contexts and time.                                                      *)

InCall == pc \in {"next", "flight", "back", "waiting"}

\* The caller cancels, or the context's timer fires.
CtxEnds ==
    /\ InCall /\ ctx = "live"
    /\ \/ ctx' = "canceled"
       \/ left = 0 /\ ctx' = "deadline"
    /\ UNCHANGED <<pc, reqVars, bound, age, left, callVars, conn, used>>

\* The client's own steps, Hertz's timeout and the timers take no time.
Urgent ==
    \/ pc \in {"next", "back"}
    \/ pc = "flight" /\ flight = 0
    \/ pc = "waiting" /\ (delay <= 0 \/ ctx # "live" \/ left = 0)

Less(n) == IF n > 0 THEN n - 1 ELSE 0

Tick ==
    /\ InCall /\ ~Urgent
    /\ age' = age + 1 /\ paused' = paused + 1
    /\ left' = Less(left) /\ flight' = Less(flight) /\ delay' = Less(delay)
    /\ UNCHANGED <<pc, reqVars, bound, ctx, attempt, sent, err, resp, measured, records, conn, used>>

Next ==
    \/ \E r \in Requests, o \in CallerTimeouts, dl \in CtxDeadlines, s \in BOOLEAN : Call(r, o, dl, s)
    \/ Return \/ Attempt
    \/ \E status \in Statuses, h \in RetryAfters : Respond(status, h)
    \/ \E e \in {"dropped", "permanent", "timeout"} : Fail(e)
    \/ Decide \/ WaitFires \/ WaitCanceled
    \/ CtxEnds \/ Tick

Spec == Init /\ [][Next]_vars

-----------------------------------------------------------------------------
(* Properties.                                                             *)

\* logging, deadline and wait: a call, retries and waits included, is over by
\* the limit its caller gave it, although Hertz ignores the context.
DeadlineHolds == InCall => age <= bound

\* deadline and retry: what the caller set stays.  The request's own timeout is
\* back in place after a call, so that the next call with the same request has
\* the caller's limit, and every attempt writes into a response with the
\* caller's SkipBody.
CallerSettingsKept ==
    /\ pc \in {"idle", "done"} => opt = owned
    /\ InCall => resp.skip = skip

\* retry and retryable: a request whose body can be read only once, or which
\* is neither idempotent nor has a key, reaches the vendor at most once.
NoUnsafeResend ==
    sent > 1 => (~req.once /\ (req.key \/ req.method \notin {"POST", "PATCH"}))

\* retryDelay and parseRetryAfter: a vendor that asked for time is not asked
\* again before that time is over, and not at all when it asked for too long.
RetryAfterHonoured ==
    [][(pc = "waiting" /\ pc' = "next" /\ err = {} /\ resp.status \in {429, 503}
           /\ resp.after.form = "secs" /\ resp.after.n >= 0)
       => (paused >= resp.after.n /\ resp.after.n <= MaxRetryAfter)]_vars

\* backoff: the jitter's bound is min(BackoffMax, BackoffBase * 2^(n-1)) for
\* every n, past the width of a duration too; rand.N never sees zero.
BackoffExact ==
    pc = "back" => (backoffCap = Least(BackoffMax, BackoffBase * Pow2[attempt - 1]) /\ backoffCap > 0)

\* deadline and ErrInformationalResponse: while calls follow one another, a
\* call that succeeds has the response to its own request.
OwnResponse == (pc = "done" /\ err = {}) => resp.own

\* attemptOutcome, deadline and logCall: a response that arrived but is not
\* returned, because the context ended or it was informational, is recorded as a
\* failure; a call with more records than the attempts it logs, because deadline
\* refused to send one, ends with a timeout or a cancellation.
TelemetryAgrees ==
    /\ pc = "back" => ((measured.status # 0) = (err = {}) /\ (measured.type = "timeout") = ("deadline" \in err))
    /\ (pc = "done" /\ records # sent) =>
           (records > sent /\ measured.status = 0 /\ {"deadline", "canceled"} \cap err # {})
=============================================================================
