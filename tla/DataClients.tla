---------------------------- MODULE DataClients ----------------------------
(***************************************************************************)
(* The redis, database and object storage clients around one metrics       *)
(* client: the life of the redis client with the poller of its connection  *)
(* pool, and the measured calls that the application makes.                *)
(***************************************************************************)
EXTENDS MetricsClient, CallTelemetry, Sequences

CONSTANTS Opener,       \* the goroutine that calls redis.New
          Poller,       \* the goroutine of the pool's poller
          Callers,      \* goroutines of the application that make a call each
          Closers,      \* goroutines that call Close of the redis client
          MaxCloses,    \* bound: calls of Close of each
          Uint32,       \* the number of values of a uint32
          PoolSize,     \* the connections of the pool
          MaxTimeouts   \* bound: timeouts of the pool

\* The goroutines are apart, and the instruments of the pool have valid names.
ClientsWellFormed ==
    /\ {Opener, Poller} \cup Callers \subseteq Recorders
    /\ Poller \notin Callers \cup {Opener} /\ Poller \in Watched
    /\ {"count", "timeouts"} \subseteq MetricNames
    /\ {"updown", "counter", "histogram"} \subseteq Kinds
    /\ {"idle", "used", "timeouts"} \subseteq Summed
    /\ NoEntry \notin MetricNames \cup Kinds \cup Summed /\ Nobody \notin Stoppers
    /\ Uint32 \in Nat \ {0} /\ {PoolSize, MaxTimeouts, MaxStops, MaxCloses} \subseteq Nat

ASSUME ClientsAssumption == ClientsWellFormed

VARIABLES
    client,        \* what New returned: "none", "opening", "failed" or "open"
    ping,          \* the error of New's ping, while New runs
    pool,          \* the pool of connections: "none", "open" or "closed"
    stopChan,      \* stopPoolMetrics: "none", "open" or "closed"
    ppc,           \* the poller: "none", "start", "select", "withdraw", "gone"
    queue,         \* the measurements that it has still to make
    prev,          \* prevIdle, prevUsed and prevTimeouts
    timeouts,      \* the timeouts up to the last poll, without a width
    cpc,           \* where each closer is
    closes,        \* and what its calls of Close returned
    call           \* whether each goroutine of the application made its call

rvars == <<client, ping, pool, stopChan, ppc, queue, prev, timeouts, cpc, closes>>
cvars  == <<mvars, rvars, call>>

\* What a measurement in progress may change, apart from the recorder's steps.
notRecorder == <<shutdown, provider, total, instruments, readers, waiting, writer,
                 stopped, lost, spc, stops>>

Point(name, kind, series, v) == [name |-> name, kind |-> kind, series |-> series, value |-> v]
Duration(name) == Point(name, "histogram", "calls", 1)

ClientsInit ==
    /\ MInit
    /\ client = "none" /\ ping = "nil" /\ pool = "none" /\ stopChan = "none"
    /\ ppc = "none" /\ queue = <<>>
    /\ prev = [idle |-> 0, used |-> 0, timeouts |-> 0]
    /\ timeouts = 0
    /\ cpc = [x \in Closers |-> "idle"] /\ closes = [x \in Closers |-> <<>>]
    /\ call = [c \in Callers |-> "idle"]

-----------------------------------------------------------------------------
(* redis.New and Close.                                                    *)

\* The configuration or its certificates are refused.
NewRefused ==
    /\ client = "none" /\ client' = "failed"
    /\ UNCHANGED <<mvars, call, ping, pool, stopChan, ppc, queue, prev, timeouts, cpc, closes>>

\* The pool is made, the hook attached and the ping sent: a command like any
\* other, which is measured.
NewPing ==
    /\ client = "none" /\ client' = "opening" /\ pool' = "open"
    /\ ping' \in {"nil", "error"}
    /\ Measure(Opener, Duration("duration"))
    /\ UNCHANGED <<notRecorder, call, stopChan, ppc, queue, prev, timeouts, cpc, closes>>

\* A ping that failed closes the pool; else the poller starts, if there is one.
NewReturn ==
    /\ client = "opening" /\ mpc[Opener] = "idle"
    /\ IF ping # "nil"
       THEN /\ client' = "failed" /\ pool' = "closed" /\ ping' = "nil"
            /\ UNCHANGED <<stopChan, ppc>>
       ELSE /\ client' = "open" /\ UNCHANGED <<pool, ping>>
            /\ \/ stopChan' = "open" /\ ppc' = "start"
               \/ UNCHANGED <<stopChan, ppc>>
    /\ UNCHANGED <<mvars, call, queue, prev, timeouts, cpc, closes>>

\* stopOnce closes the channel, if there is one.
Close(x) ==
    /\ client = "open" /\ cpc[x] = "idle" /\ Len(closes[x]) < MaxCloses
    /\ stopChan' = IF stopChan = "open" THEN "closed" ELSE stopChan
    /\ cpc' = [cpc EXCEPT ![x] = "wait"]
    /\ UNCHANGED <<mvars, call, client, ping, pool, ppc, queue, prev, timeouts, closes>>

\* Seeded bug: Close does not wait for the poller.
PollersUnawaited == TRUE
\* pollers.Wait returns.
PollersDone == ppc \in {"none", "gone"}

\* The pool is closed; a second close of it is an error of go-redis.
ClosePool(x) ==
    /\ cpc[x] = "wait" /\ PollersDone
    /\ pool' = "closed"
    /\ closes' = [closes EXCEPT ![x] = Append(@, IF pool = "open" THEN "nil" ELSE "closed")]
    /\ cpc' = [cpc EXCEPT ![x] = "idle"]
    /\ UNCHANGED <<mvars, call, client, ping, stopChan, ppc, queue, prev, timeouts>>

-----------------------------------------------------------------------------
(* The poller.                                                             *)

\* Only a change is recorded.
addCount(idleDelta, usedDelta) ==
    (IF idleDelta # 0 THEN <<Point("count", "updown", "idle", idleDelta)>> ELSE <<>>)
        \o (IF usedDelta # 0 THEN <<Point("count", "updown", "used", usedDelta)>> ELSE <<>>)

\* What a poll with these deltas has to record.
Pending(idle, used, d) ==
    addCount(idle, used) \o (IF d # 0 THEN <<Point("timeouts", "counter", "timeouts", d)>> ELSE <<>>)

\* s.Timeouts - p.prevTimeouts, of type uint32.
Since(new, old) == (new - old) % Uint32

PollerIdle == queue = <<>> /\ mpc[Poller] = "idle"

\* A snapshot of the pool; the deltas are queued, and prev is this snapshot
\* whatever becomes of them.  stats may return nil.
poll ==
    /\ ppc \in {"start", "select"} /\ PollerIdle
    /\ ppc' = "select"
    /\ \/ \E idle, used \in 0..PoolSize, d \in 0..(Uint32 - 1) :
            LET new == (timeouts + d) % Uint32 IN
            /\ idle + used <= PoolSize /\ timeouts + d <= MaxTimeouts
            /\ timeouts' = timeouts + d
            /\ queue' = Pending(idle - prev.idle, used - prev.used, Since(new, prev.timeouts))
            /\ prev' = [idle |-> idle, used |-> used, timeouts |-> new]
       \/ UNCHANGED <<timeouts, queue, prev>>
    /\ UNCHANGED <<mvars, call, client, ping, pool, stopChan, cpc, closes>>

\* run leaves its loop and withdraws what it reported last.
withdraw ==
    /\ ppc = "select" /\ PollerIdle /\ stopChan = "closed"
    /\ ppc' = "withdraw"
    /\ queue' = Pending(-prev.idle, -prev.used, 0)
    /\ prev' = [prev EXCEPT !.idle = 0, !.used = 0]
    /\ UNCHANGED <<mvars, call, client, ping, pool, stopChan, timeouts, cpc, closes>>

\* The next measurement.
PollerMeasures ==
    /\ queue # <<>> /\ Measure(Poller, Head(queue))
    /\ queue' = Tail(queue)
    /\ UNCHANGED <<notRecorder, call, client, ping, pool, stopChan, ppc, prev, timeouts, cpc, closes>>

\* The errors of its measurements are ignored.
PollerRecords ==
    /\ RecorderStep(Poller)
    /\ UNCHANGED <<call, client, ping, pool, stopChan, ppc, queue, prev, timeouts, cpc, closes>>

PollerExits ==
    /\ ppc = "withdraw" /\ PollerIdle /\ ppc' = "gone"
    /\ UNCHANGED <<mvars, call, client, ping, pool, stopChan, queue, prev, timeouts, cpc, closes>>

-----------------------------------------------------------------------------
(* The calls.  instrument, instrumentPipeline and HandleInitialize run the *)
(* operation and record one duration, as do the Presign operations; what   *)
(* the telemetry says is in CallTelemetry.  A call returns when its        *)
(* recorder is idle again, whatever the metrics client returned.           *)

\* A goroutine of the application makes a call that is measured under name.
Instrumented(c, name) ==
    /\ call[c] = "idle"
    /\ Measure(c, Duration(name))
    /\ call' = [call EXCEPT ![c] = "made"]
    /\ UNCHANGED <<notRecorder, rvars>>

\* ProcessHook and ProcessPipelineHook: a command or a pipeline.
RedisCall(c) == client = "open" /\ Instrumented(c, "duration")
\* The six Named operations, of the connection and of a transaction.
NamedCall(c) == Instrumented(c, "duration")
\* The thirteen operations that the middleware of the S3 client measures.
S3Call(c) == Instrumented(c, "rpc")
\* The Presign operations measure themselves: their client has no middleware.
PresignCall(c) == Instrumented(c, "rpc")

\* execute: a query that cannot be bound is never instrumented.
BindFails(c) ==
    /\ call[c] = "idle"
    /\ call' = [call EXCEPT ![c] = "made"]
    /\ UNCHANGED <<mvars, rvars>>

\* The application records a measurement of its own: under a name that is not
\* valid, or under the name of the pool's count with another kind.
AppMeasures(c) ==
    /\ call[c] = "idle"
    /\ \E name \in {"Bad", "count"} : Measure(c, Point(name, "counter", "app", 1))
    /\ call' = [call EXCEPT ![c] = "made"]
    /\ UNCHANGED <<notRecorder, rvars>>

-----------------------------------------------------------------------------
RedisNext == NewRefused \/ NewPing \/ NewReturn \/ \E x \in Closers : Close(x) \/ ClosePool(x)
PollNext  == poll \/ withdraw \/ PollerMeasures \/ PollerRecords \/ PollerExits
CallNext  ==
    \E c \in Callers : \/ RedisCall(c) \/ NamedCall(c) \/ S3Call(c) \/ PresignCall(c)
                      \/ BindFails(c) \/ AppMeasures(c)
MetricsNext ==
    \/ \E c \in Callers \cup {Opener} : RecorderStep(c) /\ UNCHANGED <<rvars, call>>
    \/ \E s \in Stoppers : StopperStep(s) /\ UNCHANGED <<rvars, call>>

ClientsNext == RedisNext \/ PollNext \/ CallNext \/ MetricsNext

ClientsSpec == ClientsInit /\ [][ClientsNext]_cvars

\* Every goroutine that can go on does.  A select with two cases ready takes
\* either, so a poller that comes back to its select takes the stop in time.
\* The application need not call anything, and the ticker need not fire.
Fairness ==
    /\ WF_cvars(NewReturn) /\ WF_cvars(\E x \in Closers : ClosePool(x))
    /\ WF_cvars(ppc = "start" /\ poll) /\ SF_cvars(withdraw)
    /\ WF_cvars(PollerMeasures) /\ WF_cvars(PollerRecords) /\ WF_cvars(PollerExits)
    /\ \A c \in Callers \cup {Opener} : WF_cvars(RecorderStep(c) /\ UNCHANGED <<rvars, call>>)
    /\ \A s \in Stoppers :
         WF_cvars((StopLocked(s) \/ StopShutdown(s)) /\ UNCHANGED <<rvars, call>>)

ClientsFairSpec == ClientsInit /\ [][ClientsNext]_cvars /\ Fairness

ClientsTypeOK ==
    /\ MTypeOK
    /\ client \in {"none", "opening", "failed", "open"}
    /\ ping \in {"nil", "error"}
    /\ pool \in {"none", "open", "closed"} /\ stopChan \in {"none", "open", "closed"}
    /\ ppc \in {"none", "start", "select", "withdraw", "gone"}
    /\ timeouts \in 0..MaxTimeouts /\ prev.timeouts \in 0..(Uint32 - 1)
    /\ cpc \in [Closers -> {"idle", "wait"}]
    /\ closes \in [Closers -> Seq({"nil", "closed"})]
    /\ call \in [Callers -> {"idle", "made"}]

-----------------------------------------------------------------------------
(* The pool's metrics are true.  Once a Close has returned, the poller has *)
(* withdrawn its connections and the pool counts zero, however Close, the  *)
(* ticker, other Close calls and the recorders interleave; and between two *)
(* polls the counter of timeouts holds every timeout, across the wrap of   *)
(* go-redis's uint32.  Only a measurement that the metrics client could    *)
(* not take, because it was stopped or could not create the instrument,    *)
(* leaves the sums off: the poller counts it as made (Close, poll,         *)
(* withdraw, addCount).                                                    *)
PoolSettles ==
    \/ Poller \in lost
    \/ /\ (\E x \in Closers : closes[x] # <<>>) =>
                (total["idle"] = 0 /\ total["used"] = 0 /\ pool = "closed")
       /\ PollerIdle => (total["timeouts"] = timeouts)

\* The goroutines that record, whether a call is under way, and whether a
\* goroutine that is under way can take its next step.
Active == {Opener, Poller} \cup Callers
UnderWay ==
    \/ client = "opening"
    \/ \E x \in Closers : cpc[x] = "wait"
    \/ \E s \in Stoppers : spc[s] # "idle"
    \/ \E c \in Active : mpc[c] # "idle"
CanGoOn ==
    \/ client = "opening" /\ mpc[Opener] = "idle"
    \/ \E c \in Active : mpc[c] \in {"load", "store", "write"} \/ (mpc[c] = "rlock" /\ Readable)
    \/ \E s \in Stoppers : spc[s] = "shutdown" \/ (spc[s] = "lock" /\ writer = Nobody /\ readers = {})
    \/ mpc[Poller] = "idle" /\ queue # <<>>
    \/ PollerIdle /\ (ppc \in {"start", "withdraw"} \/ (ppc = "select" /\ stopChan = "closed"))
    \/ PollersDone /\ \E x \in Closers : cpc[x] = "wait"

(* Nobody waits in a circle: while a call of New, Close, Stop or of the    *)
(* application is under way, some goroutine can take its next step, though *)
(* recorders hold stopMu while Stop waits for it, Stop keeps later         *)
(* recorders out, and Close waits for a poller that is such a recorder     *)
(* (Close, Stop, prepare).                                                 *)
NoOneStuck == UnderWay => CanGoOn

(* Every call returns: New, Close, Stop and the instrumented calls never   *)
(* wait for one another for ever, though recorders hold stopMu while Stop  *)
(* waits for it, Stop keeps later recorders out, and Close waits for a     *)
(* poller that is such a recorder (Close, Stop, prepare).  There are       *)
(* finitely many calls, so it is enough that again and again none is under *)
(* way.                                                                    *)
EverythingReturns ==
    []<>(/\ client # "opening"
         /\ \A x \in Closers : cpc[x] # "wait"
         /\ \A s \in Stoppers : spc[s] = "idle"
         /\ \A c \in Callers : mpc[c] = "idle")

(* Every call and every pipeline, with every mix of results, is reported   *)
(* as it ended, and the four clients agree on the class of every error     *)
(* (instrument, instrumentPipeline, finish, errorType).  A constant        *)
(* formula, so it is enough to look at it in the initial states.           *)
CallsReported == ClientsInit => CallsTold
=============================================================================
