----------------------------- MODULE CronEngine -----------------------------
(***************************************************************************)
(* One cron engine (cron/engine/engine.go, cron/engine/middleware.go): job *)
(* registration, scheduled and manual runs going through the middleware    *)
(* chain, and the two-phase Stop.                                          *)
(*                                                                         *)
(* A run slot r \in Runs is one call of Trigger or one goroutine started   *)
(* by robfig/cron; a slot whose call returned may be used for a new call.  *)
(* The critical sections of Engine.mu contain no blocking call, so each is *)
(* one action; steps that touch only data of the run itself are folded     *)
(* into the shared step they follow.  A slot is at                         *)
(*   idle      no call yet                                                 *)
(*   called    in runJob, before the shutdown guard                        *)
(*   overlap   counted in activeWg; span and log opened; at overlapMW      *)
(*   toggler, locker, handler, unlock   inside the overlap guard           *)
(*   unguard   leaving overlapMW (the deferred inFlight.Delete)            *)
(*   report    leaving loggerMW, tracerMW and runJob                       *)
(*   returned  the call has returned err[r]                                *)
(***************************************************************************)
EXTENDS Integers, FiniteSets

CONSTANTS
    Jobs,        \* job names
    NoJob,       \* the job of a slot that was never used
    Runs,        \* run slots
    Stoppers,    \* calls of Engine.Stop
    HasToggler,  \* a Toggler was injected
    HasLocker    \* a Locker was injected

ASSUME CronAssumption ==
    /\ NoJob \notin Jobs
    /\ IsFiniteSet(Runs)
    /\ HasToggler \in BOOLEAN
    /\ HasLocker \in BOOLEAN

VARIABLES
    jobs,       \* Engine.jobs, also the entries of the robfig scheduler
    running,    \* Engine.running, also whether the robfig scheduler runs
    stopping,   \* Engine.stopping
    stopCtx,    \* TRUE once stopCtx is canceled
    inFlight,   \* Engine.inFlight
    activeWg,   \* the counter of Engine.activeWg
    pc, jobOf, trig, \* where a run is, its job, "manual" or "scheduled"
    ctx,        \* the run's context: "live", "timeout" or "canceled"
    err,        \* what the run's call returns
    unwinding,  \* a panic that is not the handler's is unwinding the chain
    token,      \* the run holds a LockToken it has not unlocked
    metric,     \* error.type recorded by metricsMW, "ok", or "none"
    log,        \* last line logged for the run, by loggerMW or runJob
    span,       \* tracerMW's span: "none", "open", or its outcome once ended
    stopPc,     \* a Stop call: "idle", "waiting", "nil" or "error"
    timer,      \* the deadline of a Stop call's context
    waiter      \* the goroutine Stop starts: "none", "cron", "wg", "closed"

engineVars == <<jobs, running, stopping>>
stopVars   == <<stopCtx, stopPc, timer, waiter>>
callVars   == <<jobOf, trig>>
telVars    == <<metric, log, span>>
chainVars  == <<err, unwinding, token>>
vars == <<engineVars, stopVars, callVars, telVars, chainVars,
          inFlight, activeWg, pc, ctx>>

Free    == {"idle", "returned"}
Guarded == {"toggler", "locker", "handler", "unlock", "unguard"}
Counted == Guarded \cup {"overlap", "report"}
Labels  == Free \cup Counted \cup {"called"}

\* What HandlerFunc may return whatever its context says; "running" is a skip
\* sentinel that the handler got from a nested Trigger and passes on.
HandlerResults == {"nil", "failed", "panic", "running"}
Errors == HandlerResults \cup {"timeout", "canceled", "disabled", "lockHeld",
                               "lockFailed", "stopped", "notFound"}
Metrics == {"none", "ok", "panic", "timeout", "canceled", "_OTHER"}

TypeOK ==
    /\ jobs \subseteq Jobs
    /\ running \in BOOLEAN /\ stopping \in BOOLEAN /\ stopCtx \in BOOLEAN
    /\ inFlight \subseteq Jobs
    /\ activeWg \in Nat
    /\ pc \in [Runs -> Labels]
    /\ jobOf \in [Runs -> Jobs \cup {NoJob}]
    /\ trig \in [Runs -> {"none", "manual", "scheduled"}]
    /\ ctx \in [Runs -> {"live", "timeout", "canceled"}]
    /\ err \in [Runs -> Errors]
    /\ unwinding \in [Runs -> BOOLEAN]
    /\ token \in [Runs -> BOOLEAN]
    /\ metric \in [Runs -> Metrics]
    /\ log \in [Runs -> {"none", "started", "completed", "skipped", "failed", "panicked"}]
    /\ span \in [Runs -> {"none", "open", "unset", "skipped", "error"}]
    /\ stopPc \in [Stoppers -> {"idle", "waiting", "nil", "error"}]
    /\ timer \in [Stoppers -> {"none", "caller", "config", "expired"}]
    /\ waiter \in {"none", "cron", "wg", "closed"}

\* New: nothing registered, nothing started, stopCtx live.
Init ==
    /\ jobs = {} /\ running = FALSE /\ stopping = FALSE /\ stopCtx = FALSE
    /\ inFlight = {} /\ activeWg = 0
    /\ pc = [r \in Runs |-> "idle"]
    /\ jobOf = [r \in Runs |-> NoJob]
    /\ trig = [r \in Runs |-> "none"]
    /\ ctx = [r \in Runs |-> "live"]
    /\ err = [r \in Runs |-> "nil"]
    /\ unwinding = [r \in Runs |-> FALSE]
    /\ token = [r \in Runs |-> FALSE]
    /\ metric = [r \in Runs |-> "none"]
    /\ log = [r \in Runs |-> "none"]
    /\ span = [r \in Runs |-> "none"]
    /\ stopPc = [s \in Stoppers |-> "idle"]
    /\ timer = [s \in Stoppers |-> "none"]
    /\ waiter = "none"

-----------------------------------------------------------------------------
(* Registration and start.                                                 *)

\* Register succeeds; its refusals (started, invalid, duplicate) change nothing.
Register(j) ==
    /\ ~running /\ ~stopping
    /\ j \notin jobs
    /\ jobs' = jobs \cup {j}
    /\ UNCHANGED <<running, stopping, stopVars, callVars, telVars, chainVars,
                   inFlight, activeWg, pc, ctx>>

Start ==
    /\ ~stopping /\ ~running
    /\ running' = TRUE
    /\ UNCHANGED <<jobs, stopping, stopVars, callVars, telVars, chainVars,
                   inFlight, activeWg, pc, ctx>>

-----------------------------------------------------------------------------
(* The calls that begin a run.                                             *)

\* A slot begins a new call for job j.
Call(r, j, how) ==
    /\ pc[r] \in Free
    /\ jobOf' = [jobOf EXCEPT ![r] = j]
    /\ trig' = [trig EXCEPT ![r] = how]
    /\ ctx' = [ctx EXCEPT ![r] = "live"]
    /\ metric' = [metric EXCEPT ![r] = "none"]
    /\ log' = [log EXCEPT ![r] = "none"]
    /\ span' = [span EXCEPT ![r] = "none"]
    /\ unwinding' = [unwinding EXCEPT ![r] = FALSE]
    /\ UNCHANGED <<engineVars, stopVars, token, inFlight, activeWg>>

\* Trigger: the lookup is a critical section of its own, before runJob's guard.
Trigger(r, j) ==
    /\ Call(r, j, "manual")
    /\ \/ /\ j \in jobs
          /\ pc' = [pc EXCEPT ![r] = "called"]
          /\ err' = [err EXCEPT ![r] = "nil"]
       \/ /\ j \notin jobs
          /\ pc' = [pc EXCEPT ![r] = "returned"]
          /\ err' = [err EXCEPT ![r] = "notFound"]

\* robfig/cron starts the goroutine of an entry that is due.
Fire(r, j) ==
    /\ running
    /\ j \in jobs
    /\ Call(r, j, "scheduled")
    /\ pc' = [pc EXCEPT ![r] = "called"]
    /\ err' = [err EXCEPT ![r] = "nil"]

-----------------------------------------------------------------------------
(* runJob and the middleware chain.                                        *)

skipReason(e) == e \in {"disabled", "lockHeld", "running"}

errorType(e) == IF e \in {"panic", "timeout", "canceled"} THEN e ELSE "_OTHER"

\* The metric metricsMW records for a run that comes back with e.
Measured(e) == IF skipReason(e) THEN "none" ELSE IF e = "nil" THEN "ok" ELSE errorType(e)

\* The shutdown guard of runJob.
Admitted == ~stopping

\* runJob up to the overlap guard: the check of stopping and activeWg.Add(1)
\* under mu, the run's context (a Trigger may pass a canceled one), the start
\* of the span and of the log.
RunGuard(r) ==
    /\ pc[r] = "called"
    /\ \/ /\ ~Admitted
          /\ pc' = [pc EXCEPT ![r] = "returned"]
          /\ err' = [err EXCEPT ![r] = "stopped"]
          /\ UNCHANGED <<activeWg, ctx, log, span>>
       \/ /\ Admitted
          /\ activeWg' = activeWg + 1
          /\ pc' = [pc EXCEPT ![r] = "overlap"]
          /\ ctx' \in {[ctx EXCEPT ![r] = c] :
                         c \in {"live"} \cup (IF trig[r] = "manual" THEN {"canceled"} ELSE {})}
          /\ log' = [log EXCEPT ![r] = "started"]
          /\ span' = [span EXCEPT ![r] = "open"]
          /\ UNCHANGED err
    /\ UNCHANGED <<engineVars, stopVars, callVars, metric, unwinding, token, inFlight>>

\* Seeded bug: the deferred Delete is registered before the check, so a
\* skipped run removes the marker of the run it collided with.
FlightAfterSkipDeleted(r) == inFlight \ {jobOf[r]}
\* inFlight after overlapMW skipped r.
FlightAfterSkip(r) == inFlight

overlapMW(r) ==
    /\ pc[r] = "overlap"
    /\ \/ /\ jobOf[r] \in inFlight
          /\ inFlight' = FlightAfterSkip(r)
          /\ err' = [err EXCEPT ![r] = "running"]
          /\ pc' = [pc EXCEPT ![r] = "report"]
       \/ /\ jobOf[r] \notin inFlight
          /\ inFlight' = inFlight \cup {jobOf[r]}
          /\ pc' = [pc EXCEPT ![r] = "toggler"]
          /\ UNCHANGED err
    /\ UNCHANGED <<engineVars, stopVars, callVars, telVars, unwinding, token, activeWg, ctx>>

\* The chain is left from inside the overlap guard: normally with error e and
\* metric m, or by a panic that only runJob recovers.
Leave(r, e, m) ==
    /\ pc' = [pc EXCEPT ![r] = "unguard"]
    /\ err' = [err EXCEPT ![r] = e]
    /\ metric' = [metric EXCEPT ![r] = m]
    /\ UNCHANGED unwinding

Crash(r) ==
    /\ pc' = [pc EXCEPT ![r] = "unguard"]
    /\ err' = [err EXCEPT ![r] = "panic"]
    /\ unwinding' = [unwinding EXCEPT ![r] = TRUE]
    /\ UNCHANGED metric

\* The toggler says enabled or fails (fail open), says disabled, or panics.
togglerMW(r) ==
    /\ pc[r] = "toggler"
    /\ \/ /\ pc' = [pc EXCEPT ![r] = "locker"]
          /\ UNCHANGED <<err, metric, unwinding>>
       \/ HasToggler /\ Leave(r, "disabled", "none")
       \/ HasToggler /\ Crash(r)
    /\ UNCHANGED <<engineVars, stopVars, callVars, log, span, token, inFlight, activeWg, ctx>>

\* The lock is granted; held; its backend fails or returns no token (fail
\* closed); or the locker panics.  metricsMW sits outside.
lockerMW(r) ==
    /\ pc[r] = "locker"
    /\ \/ /\ pc' = [pc EXCEPT ![r] = "handler"]
          /\ token' = [token EXCEPT ![r] = HasLocker]
          /\ UNCHANGED <<err, metric, unwinding>>
       \/ /\ HasLocker
          /\ \/ \E e \in {"lockHeld", "lockFailed"} : Leave(r, e, Measured(e))
             \/ Crash(r)
          /\ UNCHANGED token
    /\ UNCHANGED <<engineVars, stopVars, callVars, log, span, inFlight, activeWg, ctx>>

\* The handler returns; panicRecovery turns its panic into an error.  It may
\* return its context's error only once the context has ended.
handler(r) ==
    /\ pc[r] = "handler"
    /\ \E e \in HandlerResults \cup ({ctx[r]} \ {"live"}) :
          err' = [err EXCEPT ![r] = e]
    /\ pc' = [pc EXCEPT ![r] = "unlock"]
    /\ UNCHANGED <<engineVars, stopVars, callVars, telVars, unwinding, token,
                   inFlight, activeWg, ctx>>

\* The deferred Unlock: its error is ignored, its panic unwinds the chain past
\* metricsMW, loggerMW and tracerMW.
unlock(r) ==
    /\ pc[r] = "unlock"
    /\ token' = [token EXCEPT ![r] = FALSE]
    /\ \/ Leave(r, err[r], Measured(err[r]))
       \/ HasLocker /\ Crash(r)
    /\ UNCHANGED <<engineVars, stopVars, callVars, log, span, inFlight, activeWg, ctx>>

\* inFlight after the deferred Delete of overlapMW.
FlightAfterRun(r) == inFlight \ {jobOf[r]}

unguard(r) ==
    /\ pc[r] = "unguard"
    /\ inFlight' = FlightAfterRun(r)
    /\ pc' = [pc EXCEPT ![r] = "report"]
    /\ UNCHANGED <<engineVars, stopVars, callVars, telVars, chainVars, activeWg, ctx>>

logOutcome(e)  == IF e = "nil" THEN "completed" ELSE IF skipReason(e) THEN "skipped" ELSE "failed"
spanOutcome(e) == IF e = "nil" THEN "unset" ELSE IF skipReason(e) THEN "skipped" ELSE "error"

\* loggerMW and tracerMW see the error unless a panic passes them by (the span
\* is ended by a defer either way); then cancel, activeWg.Done and, for such a
\* panic, runJob's own recovery with its log line.
finish(r) ==
    /\ pc[r] = "report"
    /\ log' = [log EXCEPT ![r] = IF unwinding[r] THEN "panicked" ELSE logOutcome(err[r])]
    /\ span' = [span EXCEPT ![r] = IF unwinding[r] THEN "unset" ELSE spanOutcome(err[r])]
    /\ activeWg' = activeWg - 1
    /\ pc' = [pc EXCEPT ![r] = "returned"]
    /\ ctx' = [ctx EXCEPT ![r] = "canceled"]
    /\ UNCHANGED <<engineVars, stopVars, callVars, chainVars, metric, inFlight>>

-----------------------------------------------------------------------------
(* What ends a run's context.                                              *)

EndCtx(r, why) ==
    /\ pc[r] \in Counted
    /\ ctx[r] = "live"
    /\ ctx' = [ctx EXCEPT ![r] = why]
    /\ UNCHANGED <<engineVars, stopVars, callVars, telVars, chainVars, inFlight, activeWg, pc>>

\* The run's timeout, or the cancellation by the caller of Trigger.
RunTimeout(r) == EndCtx(r, "timeout")
CallerCancel(r) == trig[r] = "manual" /\ EndCtx(r, "canceled")

\* Seeded bug: no watcher; only a child of stopCtx is canceled with it.
WatchStopMissing(r) == stopCtx /\ trig[r] = "scheduled" /\ EndCtx(r, "canceled")
\* The watcher goroutine of runJob.
WatchStop(r) == stopCtx /\ EndCtx(r, "canceled")

-----------------------------------------------------------------------------
(* Stop.                                                                   *)

\* Seeded bug: Stop keeps a context without a deadline as it is.
StopTimerUnbounded(hasDeadline) == IF hasDeadline THEN "caller" ELSE "none"
\* Stop applies Config.ShutdownTimeout to a context without a deadline.
StopTimer(hasDeadline) == IF hasDeadline THEN "caller" ELSE "config"

Stop(s, hasDeadline) ==
    /\ stopPc[s] = "idle"
    /\ \/ /\ stopping
          /\ stopPc' = [stopPc EXCEPT ![s] = "nil"]
          /\ UNCHANGED <<running, stopping, timer, waiter>>
       \/ /\ ~stopping
          /\ stopping' = TRUE
          /\ running' = FALSE
          /\ stopPc' = [stopPc EXCEPT ![s] = "waiting"]
          /\ timer' = [timer EXCEPT ![s] = StopTimer(hasDeadline)]
          /\ waiter' = "cron"
    /\ UNCHANGED <<jobs, stopCtx, callVars, telVars, chainVars, inFlight, activeWg, pc, ctx>>

StopExpire(s) ==
    /\ stopPc[s] = "waiting"
    /\ timer[s] \in {"caller", "config"}
    /\ timer' = [timer EXCEPT ![s] = "expired"]
    /\ UNCHANGED <<engineVars, stopCtx, stopPc, waiter, callVars, telVars, chainVars,
                   inFlight, activeWg, pc, ctx>>

\* <-cronDone: every goroutine robfig/cron started has returned.
AwaitCron ==
    /\ waiter = "cron"
    /\ \A r \in Runs : trig[r] = "scheduled" => pc[r] \in Free
    /\ waiter' = "wg"
    /\ UNCHANGED <<engineVars, stopCtx, stopPc, timer, callVars, telVars, chainVars,
                   inFlight, activeWg, pc, ctx>>

\* Seeded bug: done is closed without activeWg.Wait.
WgDrainedNoWait == TRUE
\* activeWg.Wait returns.
WgDrained == activeWg = 0

AwaitRuns ==
    /\ waiter = "wg"
    /\ WgDrained
    /\ waiter' = "closed"
    /\ UNCHANGED <<engineVars, stopCtx, stopPc, timer, callVars, telVars, chainVars,
                   inFlight, activeWg, pc, ctx>>

\* stopCancel: the context of a scheduled run is a child of stopCtx and ends
\* with it; that of a manual run ends when its watcher runs.
StopReturn(s, result) ==
    /\ stopPc[s] = "waiting"
    /\ stopCtx' = TRUE
    /\ ctx' = [r \in Runs |->
                 IF pc[r] \in Counted /\ trig[r] = "scheduled" /\ ctx[r] = "live"
                 THEN "canceled" ELSE ctx[r]]
    /\ stopPc' = [stopPc EXCEPT ![s] = result]
    /\ UNCHANGED <<engineVars, timer, waiter, callVars, telVars, chainVars,
                   inFlight, activeWg, pc>>

StopDone(s) == waiter = "closed" /\ StopReturn(s, "nil")
StopGiveUp(s) == timer[s] = "expired" /\ StopReturn(s, "error")

-----------------------------------------------------------------------------
RunStep(r) == RunGuard(r) \/ overlapMW(r) \/ togglerMW(r) \/ lockerMW(r)
              \/ handler(r) \/ unlock(r) \/ unguard(r) \/ finish(r)

CtxStep(r) == RunTimeout(r) \/ CallerCancel(r) \/ WatchStop(r)

StopStep(s) == StopExpire(s) \/ StopDone(s) \/ StopGiveUp(s)
               \/ \E hasDeadline \in BOOLEAN : Stop(s, hasDeadline)

Next ==
    \/ \E j \in Jobs : Register(j)
    \/ Start
    \/ \E r \in Runs, j \in Jobs : Trigger(r, j) \/ Fire(r, j)
    \/ \E r \in Runs : RunStep(r) \/ CtxStep(r)
    \/ \E s \in Stoppers : StopStep(s)
    \/ AwaitCron
    \/ AwaitRuns

Spec == Init /\ [][Next]_vars

\* The Go scheduler runs every goroutine that can run and a timer fires.  No
\* fairness for what the engine does not own: the toggler, the locker, the
\* handler and Unlock may block for ever, nobody has to call anything, and a
\* job's timeout may be too long to count on.
Fairness ==
    /\ \A r \in Runs : /\ WF_vars(RunGuard(r)) /\ WF_vars(overlapMW(r))
                       /\ WF_vars(unguard(r)) /\ WF_vars(finish(r))
                       /\ WF_vars(WatchStop(r))
    /\ \A s \in Stoppers : /\ WF_vars(StopExpire(s)) /\ WF_vars(StopDone(s))
                           /\ WF_vars(StopGiveUp(s))
    /\ WF_vars(AwaitCron) /\ WF_vars(AwaitRuns)

FairSpec == Spec /\ Fairness

-----------------------------------------------------------------------------
(* Properties.                                                             *)

\* overlapMW: at most one run of a job is inside the guard on this engine,
\* whatever mix of scheduled and manual runs, skips and panics came before.
NoLocalOverlap ==
    \A r1, r2 \in Runs :
        (r1 # r2 /\ pc[r1] \in Guarded /\ pc[r2] \in Guarded) => jobOf[r1] # jobOf[r2]

\* overlapMW: the marker of a job is set exactly while a run of it is inside
\* the guard.  A marker left behind (by a panicking toggler, locker or unlock)
\* would keep the job from ever running again; a missing one lets two runs in.
InFlightExact ==
    \A j \in Jobs :
        (j \in inFlight) <=> (\E r \in Runs : pc[r] \in Guarded /\ jobOf[r] = j)

\* Stop: a call that waited and returned nil left no run behind, and none can
\* start afterwards, not even a Trigger that had passed its lookup before.
StopNilIsQuiet ==
    (\E s \in Stoppers : stopPc[s] = "nil" /\ timer[s] # "none")
        => \A r \in Runs : pc[r] \notin Counted

\* runJob and Stop: activeWg.Add never runs concurrently with activeWg.Wait,
\* which sync.WaitGroup forbids when the counter may be zero.
NoAddDuringWait ==
    [][(waiter \in {"wg", "closed"}) => (activeWg' <= activeWg)]_vars

\* metricsMW, loggerMW, tracerMW and runJob classify a run that has returned
\* alike, and as its caller sees it: logged as completed and measured as ok
\* exactly when it returned nil, logged and traced as a skip exactly when it
\* returned a skip sentinel.  A panic of the toggler, the locker or Unlock, which
\* the chain does not recover, is logged by runJob and returned as a panic, but
\* not measured and not an error on the span; every other failure is both.
TelemetryAgrees ==
    \A r \in Runs :
        (pc[r] = "returned" /\ span[r] # "none") =>
            /\ (log[r] = "completed") <=> (err[r] = "nil")
            /\ (metric[r] = "ok") <=> (err[r] = "nil")
            /\ (log[r] = "skipped") <=> skipReason(err[r])
            /\ (span[r] = "skipped") <=> skipReason(err[r])
            /\ (log[r] = "panicked") => (err[r] = "panic" /\ metric[r] = "none" /\ span[r] = "unset")
            /\ (log[r] = "failed") => (metric[r] \notin {"none", "ok"} /\ span[r] = "error")
            /\ log[r] # "started"

\* Stop: every call returns, even when a handler, toggler or locker never does
\* and the caller's context has no deadline.
StopReturns ==
    \A s \in Stoppers : stopPc[s] = "waiting" ~> stopPc[s] \in {"nil", "error"}

\* Stop: once it gave up, the context of every run still going is canceled, a
\* manual one included, whose parent context the engine does not own.
StopCancelsRuns ==
    \A r \in Runs : (stopCtx /\ pc[r] \in Counted) ~> (ctx[r] # "live" \/ pc[r] \notin Counted)
=============================================================================
