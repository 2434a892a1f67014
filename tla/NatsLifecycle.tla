--------------------------- MODULE NatsLifecycle ---------------------------
(***************************************************************************)
(* A Consumer with several registered consumers (nats/consumer): Register, *)
(* Start with its rollback, and Shutdown, beside the handlers that run on  *)
(* every consumer already started.  NatsConsumer has the details of one    *)
(* consumer; here it has one slot, one message, and acks reach the server  *)
(* unless the connection is closed.                                        *)
(*                                                                         *)
(* Consumers are numbered in the order of their names.  A call of Start    *)
(* that dials begins a run with its own context and connections.  Start    *)
(* and Shutdown hold mu for their whole run, so the work of the call that  *)
(* holds it is in one set of variables.  A streamConsumer is               *)
(*   none        not dialed              dialed    connected, no delivery  *)
(*   consuming   pulls messages          draining  quiesce stopped intake  *)
(*   flushing    its handlers are done   closed    its connection is       *)
(* A handler is idle, taken (before HandleMsg's checks), running, or       *)
(* calling: it waits in a call of Shutdown of its own Consumer.            *)
(***************************************************************************)
EXTENDS Integers, FiniteSets

CONSTANTS
    N,            \* consumers that may be registered
    Starts,       \* calls of Start
    Shutdowns,    \* calls of Shutdown
    NoCall,
    MaxDeliver    \* Config.MaxRetryAttempts

ASSUME LifecycleAssumption ==
    /\ N \in Nat
    /\ IsFiniteSet(Starts) /\ Starts \cap Shutdowns = {}
    /\ NoCall \notin Starts \cup Shutdowns
    /\ MaxDeliver \in Nat \ {0}

Names == 1..N
Calls == Starts \cup Shutdowns
Runs  == 1..Cardinality(Starts)
NoHandler == <<0, 0>>

VARIABLES
    regs, started, run,   \* Consumer.regs, started; the last run begun
    canceled,             \* runs whose context is canceled
    sc,                   \* the streamConsumer of a run and a name
    mu,                   \* the call that holds Consumer.mu
    job, list, ctx, err,  \* its work: "dial", "undo" or "shut"; the names left;
                          \* its context; an error of shutdownAll
    pc, by, took,         \* a call, the handler that made it, the run whose
                          \* consumers it shuts down
    h,                    \* the handler of a run and a name
    st, count, called     \* a name's message on the server, its deliveries,
                          \* and whether a handler was ever called for it

regVars  == <<regs, started, run>>
workVars == <<mu, job, list, ctx, err>>
callVars == <<pc, by, took>>
msgVars  == <<st, count, called>>
vars == <<regVars, canceled, sc, workVars, callVars, h, msgVars>>

TypeOK ==
    /\ regs \subseteq Names /\ started \in BOOLEAN /\ run \in {0} \cup Runs
    /\ canceled \subseteq Runs
    /\ sc \in [Runs -> [Names -> {"none", "dialed", "consuming", "draining", "flushing", "closed"}]]
    /\ mu \in Calls \cup {NoCall}
    /\ job \in {"none", "dial", "undo", "shut"} /\ list \subseteq Names
    /\ ctx \in {"live", "ended"} /\ err \in {"nil", "error"}
    /\ pc \in [Calls -> {"idle", "waiting", "busy", "nil", "error"}]
    /\ by \in [Shutdowns -> (Runs \X Names) \cup {NoHandler}]
    /\ took \in [Shutdowns -> {0} \cup Runs]
    /\ h \in [Runs -> [Names -> {"idle", "taken", "running", "calling"}]]
    /\ st \in [Names -> {"ready", "pending", "settled", "exhausted"}]
    /\ count \in [Names -> 0..MaxDeliver]
    /\ called \subseteq Names

Init ==
    /\ regs = {} /\ started = FALSE /\ run = 0 /\ canceled = {}
    /\ sc = [r \in Runs |-> [n \in Names |-> "none"]]
    /\ mu = NoCall /\ job = "none" /\ list = {} /\ ctx = "live" /\ err = "nil"
    /\ pc = [c \in Calls |-> "idle"]
    /\ by = [c \in Shutdowns |-> NoHandler]
    /\ took = [c \in Shutdowns |-> 0]
    /\ h = [r \in Runs |-> [n \in Names |-> "idle"]]
    /\ st = [n \in Names |-> "ready"]
    /\ count = [n \in Names |-> 0]
    /\ called = {}

-----------------------------------------------------------------------------
(* Register, and calls of Start and Shutdown.                              *)

\* Register refuses after Start and a name it has.
Register(n) ==
    /\ mu = NoCall
    /\ ~started
    /\ n \notin regs
    /\ regs' = regs \cup {n}
    /\ UNCHANGED <<started, run, canceled, sc, workVars, callVars, h, msgVars>>

\* A goroutine of the service calls Start or Shutdown.
Call(c) ==
    /\ pc[c] = "idle"
    /\ pc' = [pc EXCEPT ![c] = "waiting"]
    /\ UNCHANGED <<regVars, canceled, sc, workVars, by, took, h, msgVars>>

\* A handler calls Shutdown.
CallFromHandler(c, r, n) ==
    /\ pc[c] = "idle"
    /\ h[r][n] = "running"
    /\ pc' = [pc EXCEPT ![c] = "waiting"]
    /\ by' = [by EXCEPT ![c] = <<r, n>>]
    /\ h' = [h EXCEPT ![r][n] = "calling"]
    /\ UNCHANGED <<regVars, canceled, sc, workVars, took, msgVars>>

\* The handlers once call c has returned.
Resumed(c) ==
    IF c \in Starts \/ by[c] = NoHandler THEN h
    ELSE [h EXCEPT ![by[c][1]][by[c][2]] = "running"]

\* The call gives mu back and returns res.
Return(c, res) ==
    /\ mu' = NoCall /\ job' = "none" /\ list' = {} /\ ctx' = "live" /\ err' = "nil"
    /\ pc' = [pc EXCEPT ![c] = res]
    /\ h' = Resumed(c)
    /\ UNCHANGED by

Work(c, j, names) ==
    /\ mu' = c /\ job' = j /\ list' = names /\ ctx' = "live" /\ err' = "nil"
    /\ pc' = [pc EXCEPT ![c] = "busy"]
    /\ UNCHANGED <<by, h>>

\* The consumers of run r that deliver.
Running(r) == {n \in Names : sc[r][n] = "consuming"}

\* Start does nothing once it has succeeded; else it begins a run.
Start(c) ==
    /\ mu = NoCall /\ pc[c] = "waiting"
    /\ \/ started /\ Return(c, "nil") /\ UNCHANGED run
       \/ ~started /\ run' = run + 1 /\ Work(c, "dial", regs)
    /\ UNCHANGED <<regs, started, canceled, sc, took, msgVars>>

\* Shutdown does nothing unless Start has succeeded; else it cancels the run's
\* context and shuts the consumers down.
Shutdown(c) ==
    /\ mu = NoCall /\ pc[c] = "waiting"
    /\ \/ ~started /\ Return(c, "nil") /\ UNCHANGED <<started, canceled, took>>
       \/ /\ started
          /\ started' = FALSE
          /\ canceled' = canceled \cup {run}
          /\ took' = [took EXCEPT ![c] = run]
          /\ Work(c, "shut", Running(run))
    /\ UNCHANGED <<regs, run, sc, msgVars>>

-----------------------------------------------------------------------------
(* Start's loop over the names.                                            *)

First(S) == CHOOSE n \in S : \A k \in S : n <= k

\* Seeded bug: a failed Start shuts down only the consumer that failed.
ToRollBackNone == {}
\* The consumers a failed Start has to shut down.
ToRollBack == Running(run)

\* The rest of a failed Start: cancelRun and shutdownAll.
RollBack ==
    /\ job' = "shut" /\ list' = ToRollBack /\ err' = "error"
    /\ canceled' = canceled \cup {run}

\* startOne connects and subscribes, or dialConsumer fails and has closed what
\* it opened, or the subscription fails and the connection has to be drained.
startOne(c) ==
    /\ mu = c /\ job = "dial" /\ list # {}
    /\ LET n == First(list) IN
       \/ /\ ctx = "live"
          /\ sc' = [sc EXCEPT ![run][n] = "consuming"]
          /\ list' = list \ {n}
          /\ UNCHANGED <<job, err, canceled>>
       \/ /\ sc' = [sc EXCEPT ![run][n] = "closed"]
          /\ RollBack
       \/ /\ ctx = "live"
          /\ sc' = [sc EXCEPT ![run][n] = "dialed"]
          /\ job' = "undo" /\ list' = {n} /\ UNCHANGED <<err, canceled>>
    /\ UNCHANGED <<regVars, mu, ctx, callVars, h, msgVars>>

\* Every consumer runs.
StartDone(c) ==
    /\ mu = c /\ job = "dial" /\ list = {}
    /\ started' = TRUE
    /\ Return(c, "nil")
    /\ UNCHANGED <<regs, run, canceled, sc, took, msgVars>>

\* The consumer that could not subscribe is closed.
UndoDone(c) ==
    /\ mu = c /\ job = "undo" /\ list = {}
    /\ RollBack
    /\ UNCHANGED <<regVars, sc, mu, ctx, callVars, h, msgVars>>

-----------------------------------------------------------------------------
(* shutdownAll: one consumer after the other.                              *)

\* The consumer being shut down; its run is the last one.
Current == First(list)

\* The call is in the shutdown of its first consumer, which is in one of S.
Closing(c, S) == mu = c /\ job \in {"undo", "shut"} /\ list # {} /\ sc[run][Current] \in S

\* quiesce: consumeCtx.Drain ends the intake.
Drain(c) ==
    /\ Closing(c, {"consuming"})
    /\ sc' = [sc EXCEPT ![run][Current] = "draining"]
    /\ UNCHANGED <<regVars, canceled, workVars, callVars, h, msgVars>>

\* quiesce: no handler of the consumer is left.
Quiesced(c) ==
    /\ Closing(c, {"draining", "dialed"})
    /\ h[run][Current] = "idle"
    /\ sc' = [sc EXCEPT ![run][Current] = "flushing"]
    /\ UNCHANGED <<regVars, canceled, workVars, callVars, h, msgVars>>

CloseCurrent ==
    /\ sc' = [sc EXCEPT ![run][Current] = "closed"]
    /\ list' = list \ {Current}
    /\ UNCHANGED <<regVars, canceled, mu, job, ctx, callVars, h, msgVars>>

\* wire.Drain: the connection is flushed and closed, or its drain fails and it
\* is closed.
Flushed(c) ==
    /\ Closing(c, {"flushing"})
    /\ CloseCurrent
    /\ err' \in {err, "error"}

\* Seeded bug: quiesce waits for the handlers whatever its context does.
BoundedFlush == {"flushing"}
\* The waits of shutdown that the context ends.
Bounded == {"draining", "dialed", "flushing"}

\* Seeded bug: shutdownAll drops the error of a shutdown that was cut short.
JoinedLost == err
Joined == "error"

\* The call's context has ended: the connection is closed at once.
CutShort(c) ==
    /\ ctx = "ended"
    /\ Closing(c, Bounded)
    /\ CloseCurrent
    /\ err' = Joined

ShutDone(c) ==
    /\ mu = c /\ job = "shut" /\ list = {}
    /\ Return(c, err)
    /\ UNCHANGED <<regVars, canceled, sc, took, msgVars>>

\* The context of the call that holds mu ends.
CtxEnds ==
    /\ mu # NoCall /\ ctx = "live"
    /\ ctx' = "ended"
    /\ UNCHANGED <<regVars, canceled, sc, mu, job, list, err, callVars, h, msgVars>>

-----------------------------------------------------------------------------
(* The server, and the handlers of a run.                                  *)

Again(n) == IF count[n] < MaxDeliver THEN "ready" ELSE "exhausted"

Deliver(r, n) ==
    /\ sc[r][n] = "consuming"
    /\ h[r][n] = "idle"
    /\ st[n] = "ready"
    /\ st' = [st EXCEPT ![n] = "pending"]
    /\ count' = [count EXCEPT ![n] = @ + 1]
    /\ h' = [h EXCEPT ![r][n] = "taken"]
    /\ UNCHANGED <<regVars, canceled, sc, workVars, callVars, called>>

\* A settle call reaches the server while the connection is open.
settle(r, n, s) == st' = [st EXCEPT ![n] = IF sc[r][n] = "closed" \/ st[n] # "pending" THEN @ ELSE s]

\* HandleMsg: nak at once when the run's context is canceled, else the handler.
HandleMsg(r, n) ==
    /\ h[r][n] = "taken"
    /\ \/ /\ r \in canceled
          /\ settle(r, n, Again(n))
          /\ h' = [h EXCEPT ![r][n] = "idle"]
          /\ UNCHANGED called
       \/ /\ r \notin canceled
          /\ h' = [h EXCEPT ![r][n] = "running"]
          /\ called' = called \cup {n}
          /\ UNCHANGED st
    /\ UNCHANGED <<regVars, canceled, sc, workVars, callVars, count>>

HandlerReturns(r, n) ==
    /\ h[r][n] = "running"
    /\ \E s \in {"settled", Again(n)} : settle(r, n, s)
    /\ h' = [h EXCEPT ![r][n] = "idle"]
    /\ UNCHANGED <<regVars, canceled, sc, workVars, callVars, count, called>>

\* AckWait passes: nothing renews or settles the delivery any more.
Expires(n) ==
    /\ st[n] = "pending"
    /\ \A r \in Runs : h[r][n] = "idle" \/ sc[r][n] = "closed"
    /\ st' = [st EXCEPT ![n] = Again(n)]
    /\ UNCHANGED <<regVars, canceled, sc, workVars, callVars, h, count, called>>

-----------------------------------------------------------------------------
Acquire(c) == (c \in Starts /\ Start(c)) \/ (c \in Shutdowns /\ Shutdown(c))
Step(c) == startOne(c) \/ StartDone(c) \/ UndoDone(c) \/ Drain(c) \/ Quiesced(c)
               \/ Flushed(c) \/ CutShort(c) \/ ShutDone(c)

Next ==
    \/ \E n \in Names : Register(n) \/ Expires(n)
    \/ \E c \in Calls : Call(c)
    \/ \E c \in Shutdowns, r \in Runs, n \in Names : CallFromHandler(c, r, n)
    \/ \E c \in Calls : Acquire(c) \/ Step(c)
    \/ CtxEnds
    \/ \E r \in Runs, n \in Names : Deliver(r, n) \/ HandleMsg(r, n) \/ HandlerReturns(r, n)

Spec == Init /\ [][Next]_vars

\* Goroutines that can run do, and every context passed to Start and Shutdown
\* ends some time.  Handlers need not return.
FairSpec ==
    /\ Spec
    /\ \A c \in Calls : WF_vars(Acquire(c)) /\ WF_vars(Step(c))
    /\ WF_vars(CtxEnds)

-----------------------------------------------------------------------------
(* Properties.                                                             *)

\* Start and Shutdown: whenever no call is at work, the started run delivers on
\* every registered consumer with a live context, and every other run, a failed
\* Start's included, has all its connections closed and its context canceled.
OnlyStartedRunIsOpen ==
    mu = NoCall =>
        \A r \in 1..run :
            IF started /\ r = run
            THEN r \notin canceled /\ \A n \in Names : (n \in regs) = (sc[r][n] = "consuming")
            ELSE r \in canceled /\ \A n \in Names : sc[r][n] \in {"none", "closed"}

\* Shutdown: when the call that shut a run down returned nil, no handler of any
\* consumer of that run is at work, and none can start.
ShutdownNilIsQuiet ==
    \A c \in Shutdowns : (pc[c] = "nil" /\ took[c] # 0) =>
        \A n \in Names : h[took[c]][n] = "idle" /\ sc[took[c]][n] \in {"none", "closed"}

\* The call that holds mu can take its next step.
CanStep ==
    \/ job = "dial" \/ list = {}
    \/ sc[run][Current] \in {"consuming", "flushing"}
    \/ sc[run][Current] \in {"draining", "dialed"} /\ h[run][Current] = "idle"
    \/ ctx = "ended" /\ sc[run][Current] \in Bounded

\* Start and Shutdown wait for nothing but the handlers of the consumer that they
\* close, and that only while their context lives: a handler that never returns,
\* or that called Shutdown itself, holds nobody up once the context has ended.
WaitsOnlyForHandlers ==
    mu # NoCall =>
        \/ CanStep
        \/ ctx = "live" /\ sc[run][Current] = "draining" /\ h[run][Current] # "idle"

\* Start and Shutdown return, although a handler may call Shutdown and wait for
\* itself, or never return, as long as the contexts they were given end.
CallsReturn ==
    \A c \in Calls : (pc[c] = "waiting") ~> (pc[c] \in {"nil", "error"})

\* nats/README.md: "Delivery is at least once": the server gives a message up
\* only after some handler was called for it.
HandledBeforeExhausted == \A n \in Names : st[n] = "exhausted" => n \in called
=============================================================================
