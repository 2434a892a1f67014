# A TLA+ verification of go-servicekit

go-servicekit is a set of Go packages a service is built from: a cron engine, a
NATS JetStream producer and consumer, a hot config loader, HTTP client and
server, clients for Redis, SQL and S3, and telemetry. This directory models the
packages with state and concurrency of their own, checks them with TLC on small
instances, and proves the main results for every instance with TLAPS.

`PROJECT.json` maps every definition to the lines it models and lists runs,
mutants, findings, hazards and theorems. To repeat a check:

    tlc -workers 2 -config cron_engine.cfg MCCronEngine
    tlapm CronEngineProofs.tla

## Inventory

| component | state | operations | what is hard | status |
|---|---|---|---|---|
| cron engine (`cron/engine`) | jobs, running, stopping, stopCtx, inFlight, activeWg | Register, Start, Trigger, scheduled runs, Stop | Stop racing runs, WaitGroup rules, panics of injected parts, contexts nobody honours | modelled, proved |
| cron across replicas (`lockerMW`, `Locker`) | the lock, its TTL, tokens | Lock, handler, Unlock | TTL against overrunning handlers, lost unlocks, crashes | modelled, proved |
| config loader (`confloader`) | a cache entry per field, fetchMu, the poller | Get, poll round, Stop | fetches that overtake each other, panics, waiting on locks | modelled, proved |
| NATS consumer (`nats/consumer`) | semaphore, handlers, heartbeats | delivery, HandleMsg, settle | redelivery against running handlers, lost acks | modelled, proved |
| consumer lifecycle (`nats/consumer`) | mu, started, a context and a connection per consumer of a run | Register, Start with its rollback, Shutdown | a Start that fails halfway, consumers that pull while others drain, a handler that calls Shutdown | modelled, proved |
| NATS producer (`nats/producer`) | run, pending, connections | Register, Start, publish, Shutdown | async callbacks across cycles, rollback | modelled, proved |
| wire helpers (`nats/internal/wire`) | none | Connect, Drain, PatchStream, covers, ErrorType | subject wildcards | modelled but for addresses and redaction, layout proved |
| errgroup | limit, cancel cause | New, SubGroup, Go, TryGo, Wait | panics, nested limits, whose error is returned | modelled, proved |
| REST client (`rest/client`) | one call, its request and response, the idle connection | logging, retry, tracing, measure, deadline | retries against deadlines, overflow of delays, state left in a request that is used again | modelled, proved |
| REST server (`rest/server`) | Run, the engine, each response | Run, requests through the stack, Error, recovery | shutdown while the engine comes up, panics of a stream | modelled, proved |
| Redis client (`redis`) | the pool poller, its last counts, the stop channel | New, commands, pipelines, poll, Close | Close racing a poll, counters that wrap, a metrics client that was stopped | modelled, proved |
| SQL client (`db`) | none; `bind.go` is pure | Named operations, bindQuery | quotes, comments, casts, slices, two dialects | binding and Named operations modelled, their telemetry and what binding keeps proved |
| object storage client (`s3`) | none | operations with their telemetry | which error class is reported | operations modelled, their telemetry proved |
| metrics client (`observability/metrics`) | instruments, stopMu, stopped | Record, Add, Stop | two creators of one instrument, Stop beside measurements, readers behind a waiting writer | modelled, proved |
| logs, tracer, attributes, errs, identity | set up once | delegation | nothing concurrent of their own | not modelled |

Interactions: the cron engine calls the Toggler, Locker and handler a service
injects and is called by robfig/cron's goroutines; the loader, the producer and
the consumer each own goroutines and connections and are shut down by the
service. They share no state with one another, so each is a module of its own. There are
two compositions: several cron engines meet at a lock (`CronCluster`), and the data
clients meet at one metrics client, whose Stop and whose read-write lock reach into
the redis client's Close through the pool's poller (`DataClients`).

## Modules

| module | models |
|---|---|
| `CronEngine` | one engine |
| `CronEngineProofs` | its inductive invariant and theorems |
| `CronCluster` | one job on several engines that share a lock |
| `ExclusiveJob` | abstract: one run at a time, increasing tokens |
| `CronClusterProofs` | fencing, exclusion, refinement of `ExclusiveJob` |
| `ConfLoader`, `ConfLoaderProofs` | cache entries, getters, poller, Stop |
| `NatsConsumer`, `NatsConsumerProofs` | one durable consumer and its shutdown |
| `Delivery` | abstract: a message is attempted one at a time, a bounded number of times, and leaves by its own result; refined by `NatsConsumer` |
| `NatsProducer`, `NatsProducerProofs` | start/shutdown cycles and publishes; extends `StreamLayout` |
| `RestClient`, `RestClientProofs` | calls with retries, deadlines and Retry-After |
| `RestServer`, `RestServerProofs` | Run and its shutdown, requests through the stack |
| `NatsLifecycle` | Start, its rollback and Shutdown over several consumers and runs |
| `StreamLayout` | pure: the subjects of a topic and the patch of a stream that exists |
| `MetricsClient` | measurements, the instrument cache, Stop |
| `DataClients` | extends `MetricsClient` and `CallTelemetry`: the redis client's life and measured calls |
| `CallTelemetry` | pure: what the redis, SQL, S3 and NATS clients report of an error |
| `BindQuery` | pure: the scanner and the rewriting of `db/bind.go` |
| `ErrGroup` | groups, their tasks and child groups |
| `LifetimeProofs` | the theorems about `NatsLifecycle`, `ErrGroup`, `DataClients`, `CallTelemetry` and `BindQuery` |
| `MC*` | values for TLC |

Each module also has a few operators marked *Seeded bug*: a variant of the
operator that follows it, as a plausible mistake would leave it. No specification
uses them; a mutant replaces the operator by its variant and TLC must find the
named property violated.

### CronEngine

A run slot is a call of `Trigger` or a goroutine of robfig/cron; slots are used
again. `pc` follows `runJob` and the middleware chain. Each critical section of
`Engine.mu`, each `sync.Map` call and each WaitGroup call is one step; the calls
of the Toggler, Locker, handler and Unlock are steps of their own, which may
succeed, fail or panic. A panic that is not the handler's sets `unwinding`: it
passes metrics, logger and tracer by and only the deferred calls see it. A
context is `live`, timed out or canceled; a scheduled run's is a child of
`stopCtx`, a manual one's ends through the watcher goroutine. `Stop` is the guard,
the waiter goroutine (`cron`, then `wg`, then `closed`) and the select. Refused
calls of Register change nothing and are no actions. Schedules, log texts and
attribute values other than `error.type` are left out.

### CronCluster

`CronEngine` shows that one engine has at most one run of a job inside its guard,
so a worker is one process here. Time is in ticks of one clock. The lock backend
is external and assumed to expire the lock with its TTL, to hand out increasing
tokens, to release only the lock of the token given, and to refuse Lock after its
context has ended. After Lock has returned, `lockerMW` looks at no context before it calls
the handler, so a run may start as late as a process may be paused. `Grace` is how long
after the end of its context a run may start or go on; the code guarantees nothing about
it, so it is a parameter, and exclusion is claimed only for `Grace < Buffer`.

### ConfLoader

Values are versions of the source, `at` remembers the source's version when the
value was read. Getters and the poller are the same kind of actor once they are in
`refreshOne`. The critical sections of `cacheEntry.mu` are single steps, `fetchMu`
is held over several. The source changes, fails, panics and holds values that do
not parse. The user's error handler has no effect in the model.

### NatsConsumer

The server is external. A message is pulled into `queue`, whose head is in the
callback; a slot of the semaphore runs it. The heartbeat goroutine is `beat` and
`hb`. Time is in ticks; what the consumer can do at once happens before the next
tick, so a tick is long against scheduling and network delays. A settle call may
get lost at any time, a heartbeat only if `BeatsLost`. The delay of
`NakWithDelay` is covered because a message that is ready may be delivered at any
later time. A second Start after Shutdown makes a new instance; handlers left from
the old one can only settle on a closed connection, so they change nothing in it.
The other replicas of a service are not in the model.

`Promise` maps a state to `Delivery`: the fate of a message is the server's final state of
it, its attempt is read off the slot that has it or off the queue, and the attempts so far
are the server's deliveries.

### NatsLifecycle

Start and Shutdown hold `mu` for their whole run, so the work of the call that
holds it is one set of variables: dialing in name order, the rollback that starts
where dialing failed, or the shutdown, each through the same drain. Whatever that
call does is interleaved with the handlers of the consumers that are started
already. A consumer has one slot and one message, since `NatsConsumer` has the rest. A
handler may call Shutdown of its own Consumer and then waits for itself. A context
of a call ends at any time.

### NatsProducer

A cycle is one dialing Start. Start holds the write lock while it dials. Async
publishes are counted in their cycle's `pending`, synchronous ones are not
counted. An ack, its error or `WithPublishAsyncTimeout` ends the wait for the ack.

### RestClient

One call at a time, and the calls after it with the same request and the same
idle connection; concurrent calls share nothing but the pool of Hertz, where the
code documents a race this model leaves out. A duration has `Width` bits, so that
the shift of `backoff` and the conversion of `parseRetryAfter` can overflow; an
error is the set of the sentinels `errors.Is` finds in it. A tick is long against
the client's own steps, so at `left = 0` the deadline is reached and the context's
timer may or may not have fired. Retry-After is a number of seconds or a date
relative to now. URLs, attributes and the caller's body are left out.

### RestServer

`run` follows `Run`, `engine` is Hertz with the window between IsRunning and the
event loop. A request enters all layers in one step and leaves them one by one in
the order of `chain`; a panic skips the second half of a layer until `recovery`.
A handler's own steps are one step that leaves some response of `Handled`; it may
overwrite the request's ID, also after Error. `wire` is the status that a stream has sent
with its headers already, which a later panic cannot change: the log says 500, the
client has what it has. The headers of a response are the `Access-Control-*` ones, which
recovery keeps, and all others, which it drops. Titles and attributes are left out.

### StreamLayout

A subject is a sequence of tokens; the subjects of a stream are a set, since the server
keeps them apart and nothing depends on their order. `covers` and `PatchStream` are
compared with what the wildcards of NATS match among all literal subjects of up to
`MaxTokens` tokens. That JetStream also refuses subjects which overlap in part is left to
the server, as in the code (`wire.go` line 78). `changed` is set where the code sets it, so that it agrees with what
happened to the subjects is part of the claim. The producer's run evaluates that formula
in its initial state.

### MetricsClient and DataClients

A measurement is followed through `prepare` (which takes `stopMu` for reading), the
load of the instrument, `LoadOrStore` and the write; a waiting Stop keeps new readers
out, as Go's RWMutex does. Names and kinds are small sets that conflict and fail
validation. `total` is what the provider was given per series. `DataClients` adds
New with its ping, the poller (which polls, diffs the counts with go-redis's 32-bit
counter of timeouts, and withdraws at the end), Close, and calls of the application
that measure at their end. Command names, addresses and the SDK's export are left out.

### CallTelemetry

An error is the set of what `errors.Is` and `errors.As` find in it. The operators are
the classification of the four clients, the choice of a pipeline's error and the
extraction of a bucket. Which errors and inputs there are, and how long a pipeline is, are
constants. An error that is a cancellation and at once a timeout of the network or of
NATS, and no deadline, has no class the four clients agree on.

### BindQuery

A query is a sequence of characters, of which the module keeps those that have a
meaning for a dialect. The scanner's functions are index functions as in the code; its two
kinds of loop are `Until`, which goes on from state to state until it is done, and `Walk`,
which writes something at each position it stops at, both recursive functions. `InLiteral`
says which characters the scanner passes over as part of a literal, a quoted name or a
comment. A driver is a dialect with a bind type; the mark of a placeholder, such as `$12`,
counts as one character. The argument gives names, told by their first letter, scalars,
slices or driver.Valuers (that give a value or a slice, fail, or are nil pointers); a
pointer to a slice is the slice, and bytes are a scalar. sqlx.Named is external: it
refuses a name that touches the next one and a name that the argument lacks. The reference is a lexer written the other way round: the mode of every position, from
left to right, without any skipping.

### ErrGroup

Upstream's errgroup is external. The wrapper's preflight, panic recovery, limits and
causes are steps of each task. The owner of a child group is a task of its parent. A task is
given to a group by the owner's side, which may be many goroutines, until the owner waits, or
by a task of the group, also while it is waited for: `giver` is the task whose Go waits for a
slot. A context is canceled with that of any group above. When all who hold a slot of a
group wait in Go for one of its slots, none will ever be free (`SelfBlocked`); the code
does not prevent that, as upstream does not, and the two progress properties except it.

## Runs

| run | what it shows | instance |
|---|---|---|
| `cron_engine` | no local overlap; nil from Stop means quiet; Stop returns; a Stop that gave up cancels what still runs | 2 run slots, 1 job, 2 Stops, toggler and locker |
| `cron_cluster` | exclusion, refinement and lock recovery with cooperative handlers | 3 workers, timeout 2, buffer 2, grace 1, 3 grants |
| `conf_loader` | cache never goes back; failures flagged; Stop means closed; Get and Stop return; polling heals | 1 entry outside the default folder, 1 getter, the poller, 2 Stops, 2 versions, 1 retry |
| `nats_consumer` | no concurrent handling of one message; no late heartbeat; what happens to a message is what `Delivery` allows | 3 messages, 2 slots, AckWait 4, handler timeout 3, 2 deliveries, grace 1 |
| `nats_consumer_live` | every message settles | 2 messages, one without metadata, 1 slot, lossy heartbeats |
| `nats_lifecycle` | only a started run is open, whatever failed; nil from Shutdown means quiet; every call returns once its context ends | 2 consumers, 2 Starts, 1 Shutdown, 2 deliveries |
| `nats_doc_shutdown` | violated: "Delivery is at least once" | as above |
| `nats_producer` | pending exact per cycle; nil from Shutdown means flushed; no leaked connection; Shutdown returns; streams are patched soundly | 2 cycles, 2 topics, 2 publishes, 2 Shutdowns; subjects of up to 4 tokens |
| `rest_client` | a call ends within its caller's limit; the request's timeout is put back and SkipBody kept; nothing unsafe is sent twice; backoff and Retry-After at the width's edge; own response | any number of calls, 4-bit durations, 5 attempts of 2 ticks, limits 3, 4 and 6, five kinds of Retry-After |
| `rest_server` | nil from Run means drained; Run returns; panics never look complete | 2 requests at a time; a plain handler, a stream that has sent nothing and one that has sent its headers; statuses in and out of range |
| `data_clients` | the pool's metrics settle; nothing is recorded after Stop; every call returns; every call is reported as it ended; every query is bound exactly or refused, and the four statements about the text that are proved for every query hold | 1 caller, a stopper and a closer with two calls each, one connection, 2 pool timeouts of a counter with 2 values; pipelines of up to 3; six families of queries with up to 5 or 6 free characters, and short ones with every kind of argument and of driver |
| `errgroup` | Wait tells what happened; every group ends unless one is blocked by its own tasks | a chain of 3 groups, of 2, 1 and 1 tasks, each owned by a task of the one above; limits 0, 1 and the default |

Disagreements with the documents. `nats_doc_shutdown` is a finding of
`PROJECT.json`: the run's context is canceled before the consumers are drained one
after the other, and a consumer that waits for its turn pulls its message and naks it
unhandled until the deliveries are used up. Others were met while modelling and are
not runs:
 - a second `Stop` of the cron engine returns nil at once, beside "waits for in-flight
   jobs" (`engine.go` line 243, `cron/README.md` line 14);
 - a handler that ignores its context still runs when the lock's TTL has passed, beside
   another replica's (`middleware.go` line 259, `cron/README.md` line 9);
 - a panic of the toggler, the locker or Unlock passes `metricsMW` by, so that run is
   not measured (`cron/README.md` line 107);
 - a cold entry whose first fetch failed is not fetched by Get until the poller has run
   (`confloader.go` line 397, and the package comment);
 - a Get of a cold entry waits for the poller's fetch of it (`confloader/README.md`
   line 16);
 - a handler that overruns lets a message that waits behind it be redelivered
   (`nats/consumer/config.go` line 206, `nats/README.md` line 206).

Bounds. Overlap needs two runs of a job, and a slot is used again, so that a run
that leaves, one that is skipped and one that comes later all meet; jobs share
nothing but `activeWg`, and what the run shows for two slots the proofs show for
any number. A getter and the poller are enough to queue on `fetchMu` behind each
other. Two cycles of the producer are enough for a callback that is left from an
earlier one. Ticks are chosen so that timeouts, heartbeats and TTLs end at
different times. `MaxFence`, `MaxVersion`, `MaxDeliver` and `MaxCycles` bound what
grows. Symmetry is used only in `nats_consumer`, which has no liveness property.
Two consumers are enough for one that waits while the other drains, and for a Start
that fails after its first; two Starts with a Shutdown between or within them are
enough for handlers left from an earlier run. The counter of pool timeouts has two
values, so that it wraps within two timeouts. Four tokens are one more than the
longest subject of the layout, and five characters are enough for a literal, a comment
or a cast to touch a placeholder on either side. The default limit of a group is larger than the tasks there
are, so it never blocks; one always does. The runs of `NatsConsumer`,
`NatsLifecycle`, `RestServer`, `DataClients` and `ErrGroup` switch off the deadlock
check: a consumer that has been shut down, or whose messages are all settled, a server
whose Run has returned, clients whose calls were all made and groups that were waited
for have nothing left to do. `rest_client` keeps it: a call that
got stuck would be a deadlock, and nothing in it needs a bound on the calls. Five
attempts shift the backoff past four bits.

Fairness. Goroutines that can run do run, timers fire, and the Go runtime lets a
goroutine waiting for a mutex have it in the end (strong fairness of `Lock`), and
a select with a ready case take it in the end (strong fairness of `PollExit`,
`BeatEnds` and `withdraw`). Nothing is assumed of what the packages do not own, except where the
code bounds it: client calls and acks end by their timeouts. In `cron_engine`
handlers, togglers and lockers may block for ever; in `cron_cluster`,
`nats_consumer_live` and `nats_producer` handlers and callbacks return, and in
`cron_cluster` Lock does too, so that a handler starts: the conditions of what these runs
claim. In `rest_server` the engine comes up unless
it fails, and handlers may run for ever. In `nats_lifecycle` the contexts given to
Start and Shutdown end, and handlers need not return. In `errgroup` tasks return and
owners wait, as the package asks of them; `data_clients` assumes nothing of the
application or of the ticker.

## Proofs

`CronEngineProofs`, for any sets of jobs, runs (finite) and Stop calls: the
invariant `IInv` is TypeOK with
 - `WgExact`: activeWg is the number of runs that passed the guard and have not
   called Done. It gives `activeWg >= 0`, and that zero means none is left;
 - `JobKnown`: a run inside the chain has a job;
 - `StopOrder`: the waiter goroutine exists only once `stopping` is set, which is
   what closes the guard before Wait begins, and a Stop that returned nil after
   waiting had its waiter at `closed`;
 - `InFlightExact` and `NoLocalOverlap`, each needed for the other: without exact
   markers a second run could enter, without exclusion the marker deleted by one
   run could be another's.

One lemma per action group shows that it keeps `IInv`; cardinality lemmas
(`CountUp`, `CountDown`, `CountKept`, `CountZero`) carry `WgExact`. `Telemetry` rests on
an invariant of its own, `ReportsFit`: the layers that a run has left so far have all
recorded the class of the result that it still carries, or the run unwinds and none has. It
also says what becomes of the latter: runJob's log and a returned panic, no measurement.

`CronClusterProofs`, for any workers and any timeout, buffer and bound: `FInv`
(tokens are unique and never above `fence`, and the lock that stands is the last granted)
gives `Fenced` without any condition on when handlers start or end: a handler that starts
after its lock is gone may follow one with a larger token, but whose lock stands has the
largest. `CInv` adds the timing argument: the remaining time of a run that was granted the
lock, or runs, plus its grace is below the lock's TTL, so its lock is still the current one. It is inductive under
`Grace < Buffer` and gives `ClusterExclusion` and, step by step, the refinement
`ClusterRefinement` of `ExclusiveJob`.

`ConfLoaderProofs`, for any entries, getters and Stop calls: `MuExact` (an entry's
`fetchMu` is held exactly by the actor that fetches it) is what makes `InTime`
inductive: what an actor is about to write is no older than the cache, because
nobody else can have written in between. `InTime` gives `GoesForward`. `StopOrder`
gives `Stopped`; `Flagged` is inductive as it stands, `markAllStale` included,
which writes without `fetchMu`. `SleepLeft` is for the type of `attempt` only.
`CallsNeverStuck` is the half of `CallsReturn` that needs no fairness: whoever waits waits
for somebody who can go on. `MuExact` gives it for `fetchMu`, and `StopCarried` for Stop (a
call that found the channel closed has a first one before it that is still there or has
closed the client).

`NatsConsumerProofs`, for any messages, slots and times, lost heartbeats included:
`HasMsg`, `Deliveries` (what is ready may still be delivered), `ShutdownOrder` and
`NoBeatAfterSettle`. `NoConcurrentRedelivery` and `WaitingNotRedelivered` are about time
and need a second invariant, `CInv`, which is inductive under `Timely`: heartbeats get
through, and `Grace + HeartbeatEvery < AckWait`. Its parts are
 - `WaitingFresh`: a message in the queue or just taken has its whole AckWait left. A tick
   would break that, so no tick may come while one waits. That is so because a slot is
   free whenever the queue is not empty: `FewOut` (no more messages are out than slots) and
   `OneCopy` make it a pigeonhole, `QueueHasSlot`, proved with an injection;
 - `BusyCovered`: what is left of the AckWait of a message in a handler covers the time to
   its next heartbeat, or what is left of the grace once the heartbeats have stopped.

`CallbackRuns` follows from the pigeonhole: the callback never waits for the semaphore.
`DeliveryRefinement` is under the same condition. Its mapping chooses the slot that has a
message, so `OneCopy` is needed for a step of one slot to be a step of one message. Each
step is compared in a pair of states that both satisfy the invariants (`Inv2`): `StaysWork`
says that a message whose copies stay where they are keeps its attempt, and `OneMoves` that
the mapped functions then change at one message only. `HandPending` bounds the messages in
hand by those the server counts as pending, and shows that a settle call finds the message
open, which `Delivery` requires of the end of an attempt. A tick may end the AckWait of any
number of messages, so it maps to giving up a set of them, none of which is in hand.

The condition is the one the instance of the run meets. The configuration does not enforce
it, since nothing in the code bounds how long a handler goes on.

`NatsProducerProofs`, for any topics, cycles, Shutdown calls and finite set of
publishes: `LifeOrder` says that a cycle a Shutdown took is neither started nor
dialed again, so its count can only go down; `Placed`, `DialingNow` and `Drained`
carry that over to connections and results. `PendingExact` is counted with
cardinality lemmas like those of the engine. `StreamsSound` is about the layout, for any
topic, tokens, length of subjects and streams. That `covers` implies inclusion is by
tokens; for the converse, `Told` builds a literal that the narrow subject matches and that
differs from the wide one at every place the narrow one leaves open, and a second one a
token longer when it ends in `>`. Then `covers` is transitive, so that a subject that is
removed leaves what it covered covered by the one that replaced it.

`RestClientProofs`, for any valid configuration and any width: `TimeLeft` (the age
of a call and what is left make up its limit, and the attempt in flight ends within
what is left) needs `Settings`, because a limit that is left over from an earlier
call would be the wrong one. `Attempts` gives `SentOnce`, `CleanPool` gives
`OwnAnswer`, and `AskedTime` with the lemma that the clamp keeps the conversion from
wrapping gives `Honoured`, for a `MaxRetryAfter` below the longest duration.
`BackoffIsExact` is proved for every width: the powers of two are a recursive function
`Pow2`, and `SetInduction` (a set of naturals with 0 and with every successor is Nat, by
its least counterexample) gives what the prover does not know about them. `BackoffCap`
then shows that the code's test, base <= max >> (n-1), is exactly the test whether the
shifted base is at most max, so that the shift cannot wrap where it is used.
`Telemetry` rests on `OutcomeFits` and `Refused`: an attempt is recorded and not sent
only when no time was left or the context had ended, and both are final, so the call
ends with that error.

`RestServerProofs`, for any requests at a time: `EngineInv` and `DrainInv` follow the
serving goroutine and the shutdown and give `NilDrained` and `EndsServing`;
`Recorded` (each layer a request has left recorded the response as it still is) and
`Delivered` give the two theorems about what client and telemetry see.

`LifetimeProofs` is about what is left once something has ended, for any number of calls
and goroutines. It extends several components, so that those of `ErrGroup` and
`DataClients` have names of their own for their specifications (`GroupsSpec`,
`ClientsSpec`).
 - `NatsLifecycle`: `MuExact` (the call that is at work holds `mu`), `OtherRuns` (all runs
   before the last are over), `LastRun` (what each consumer of the last run is, by what the
   call at work has done) and `RunsBegun` (there are as many runs as calls of Start that
   got so far, which bounds `run`) give `OnlyStartedRunIsOpen`. `Taken` and `QuietSoFar`
   give `ShutdownNilIsQuiet`; `HandlerCalls` is needed for them, because a handler that
   waits for its own Shutdown comes back when the call returns and must not be mistaken
   for one that was joined. `OnlyHandlersHoldUp` needs one more part, `LeftOpen`: what
   shutdownAll has left to close is still open, so that its next step is never refused.
 - `ErrGroup`: `CancelTold` (a group's own cancellation has an error that Wait tells),
   `Results` and `ErrorsTold` need one another: a task skipped while its group has no error
   can only have been canceled from outside, which is what Wait then says.
   `GroupsNeverStuck` is for any finite nesting, given as a height that falls from a task's
   group to the groups it owns. It takes the lowest group that is not waited for yet: its
   owner runs (`OwnersRun`), and a full limit, or a task that Wait waits for, means a task
   that is under way and waits for no group below it, or that all who hold its slots wait
   for one (`GivenWithin`: who waits in Go is a running task of the same group). The run evaluates the hypothesis on
   its instance.
 - `MetricsClient` with `DataClients`: `Locked` (who is between the check and the release
   holds `stopMu`) gives `NothingAfterStop`. For `PoolSettles`, `Balance` is a bookkeeping
   invariant: what the provider was given of a series, with the measurement under way and
   the one in the queue, makes the poller's last snapshot. It holds only while the client
   served every measurement of the poller and has the pool's entries, which `Entries`
   follows, and for the timeouts rests on `WrapDelta`: a difference taken modulo the width of
   the counter is the true one while fewer timeouts than that lie between two polls.
   `NoOneIsStuck` rests on `Waits`: `stopMu` is held by a recorder or a Stop that goes on
   whatever others do, and Close has closed the poller's channel before it waits for it.
 - `CallTelemetry`: `CallsReported`, for any errors, inputs and lengths of a pipeline. The
   first own error of a pipeline is the least of a set of positions, so that no induction
   over sequences is needed. An earlier form of `ClassesAgree` was refuted by this proof:
   it did not set apart errors that are canceled and a timeout only NATS knows, which the
   instance of the run lacked then and has now.
 - `BindQuery`, for every text (without a sentinel, where one would be restored) and either
   dialect. `ScannerAdvances`: each skip goes forward
   and stays within the text, so `Until` and `Walk`, being defined by a rank that falls, are
   the functions that their recursive definitions describe (the definition alone is a
   CHOOSE; existence is shown rank by rank with `SetInduction`). `ProtectRestored`: each of
   the three protections writes one character or a sentinel per step, restoring distributes
   over concatenation, and so gives the text back. `NamesFound`: the two later protections
   keep the length and turn exactly the colons in literals, and those that begin no name,
   into sentinels. `TextKept`: the query, and what sqlx makes of it, are then walks of the
   same text that differ only in what they write for a name. `PlaceholdersFound` and
   `PlaceholdersNumbered`: a ? outside of literals becomes the mark with its number among
   them, which a bijection counts (`RisingCount`), for every bind type. Texts are sequences
   over `Chars`, all strings; four strings that the functions write are named in it because
   the provers do not take a literal for a member of STRING. The theorems say what the
   rewriting does relative to the code's own scanner; that the scanner is right about the
   dialects is what `BindExact` compares.

The TypeOK of every component with a state is proved and not repeated in a run. Some safety properties are proved and need no run any more: `InFlightExact`,
`NoAddDuringWait` and `TelemetryAgrees` of the engine, `HolderOutranks`, `NotLost`,
`NilQuiet` and `NotRedelivered` of the consumer, `EndsServing` and the telemetry of the server,
`TelemetryAgrees` of the REST client.

Four properties say that whoever waits, somebody can go on: `NoCallStuck`,
`WaitsOnlyForHandlers`, `NoGroupStuck` and `NoOneStuck`. They are the part of `CallsReturn`,
`GroupsEnd` and `EverythingReturns` that needs no fairness, proved for every instance, and
name the guards of the fair actions, since the prover does not reason about ENABLED.

Only model-checked: all liveness properties, which need fairness, and two parts of
`BindExact`: that the scanner agrees with the reference lexer, and the expansion of slices,
for which the rewritten text is scanned again. Both need an induction along two different
readings of one text, with a state of the automaton at each place, for every shape of
literal; the texts of the run have every mix of the characters that matter.

## Not modelled

Logs, tracer, attributes, errs, identity, the config clients, struct-tag reflection
and value parsing: they keep no state that changes or delegate to a library. The REST
round tripper converts between net/http and Hertz messages and keeps no state. Of the
modelled packages: Connect and the transactions of `db` (delegation to database/sql),
the construction of the S3 client, addresses, TLS settings, data source names, log
texts and their redaction. The scripts under `.agents` are development tools and no
part of the library.

## Possible further work

The proofs cover every safety property of the runs but `BindExact`. What would add most:
 - the agreement of the scanner with the reference lexer, one shape of literal at a time
   (line comments and quoted names first, nested comments and dollar quotes last);
 - a model of the error handler of the config loader, which runs with the entry's mutex
   held, as a caller that may call back (the hazard that has no property yet);
 - transactions of the SQL client, if they get state of their own.
