---------------------------- MODULE NatsConsumer ----------------------------
(***************************************************************************)
(* One durable JetStream consumer (nats/consumer): the pull callback with  *)
(* its semaphore, a handler goroutine per message with its heartbeat, the  *)
(* settlement of the outcome, and the shutdown of the consumer.            *)
(*                                                                         *)
(* The server is external: it delivers a message up to MaxDeliver times,   *)
(* again when AckWait passes without an ack or a heartbeat or when the     *)
(* message is nak'd, and keeps at most MaxAckPending messages delivered    *)
(* and not settled.  A message is                                          *)
(*   stored     not delivered yet          pending  delivered, AckWait runs*)
(*   ready      to be delivered again      acked, termed   settled         *)
(*   exhausted  delivered MaxDeliver times without success                 *)
(* A slot s \in Slots is a place of the semaphore; its goroutine is        *)
(*   taken      before HandleMsg's checks  running  in the handler         *)
(*   stopping   the handler has returned, stop waits for the heartbeat     *)
(* Time is counted in ticks; what the consumer can do at once takes no     *)
(* tick, and neither does the way of a message or an ack over the network. *)
(* An ack, nak or term may get lost; a heartbeat only if BeatsLost.        *)
(***************************************************************************)
EXTENDS Integers, FiniteSets, Sequences

CONSTANTS
    Msgs,
    NoMsg,
    NoMetadata,      \* messages whose JetStream metadata cannot be read
    Slots,           \* the MaxConcurrent places of the semaphore
    AckWait,         \* Config.Timeout
    HandlerTimeout,  \* Config.HandlerTimeout
    MaxDeliver,      \* Config.MaxRetryAttempts
    Grace,           \* how long a handler may run on after its context has ended
    BeatsLost        \* heartbeats may get lost

MaxConcurrent == Cardinality(Slots)

ASSUME ConsumerAssumption ==
    /\ NoMsg \notin Msgs /\ NoMetadata \subseteq Msgs
    /\ IsFiniteSet(Msgs) /\ IsFiniteSet(Slots)
    /\ AckWait \in Nat /\ AckWait > 1
    /\ HandlerTimeout \in Nat \ {0}
    /\ MaxDeliver \in Nat \ {0}
    /\ Grace \in Nat
    /\ BeatsLost \in BOOLEAN

VARIABLES
    st, wait, count,  \* the server: a message's state, the ticks left of its
                      \* AckWait, its deliveries
    queue,            \* messages the client has pulled, the first in the callback
    pc, msg, res,     \* a slot's goroutine, its message, what its handler returned
    left, over,       \* ticks until the handler's deadline; since its context ended
    beat, hb,         \* the heartbeat goroutine: "off", "on", "sending"; ticks
                      \* until its ticker fires
    phase             \* of shutdown: "up", "draining", "waiting", then its result

serverVars == <<st, wait, count>>
slotVars   == <<pc, msg, res, left, over, beat, hb>>
vars == <<serverVars, queue, slotVars, phase>>

\* Seeded bug: the heartbeat runs every HandlerTimeout.
HeartbeatEveryHandler == HandlerTimeout
HeartbeatEvery == AckWait \div 2

MaxAckPending == MaxConcurrent

TypeOK ==
    /\ st \in [Msgs -> {"stored", "pending", "ready", "acked", "termed", "exhausted"}]
    /\ wait \in [Msgs -> 0..AckWait]
    /\ count \in [Msgs -> 0..MaxDeliver]
    /\ queue \in Seq(Msgs)
    /\ pc \in [Slots -> {"idle", "taken", "running", "stopping"}]
    /\ msg \in [Slots -> Msgs \cup {NoMsg}]
    /\ res \in [Slots -> {"nil", "noRetry", "failed"}]
    /\ left \in [Slots -> 0..HandlerTimeout]
    /\ over \in [Slots -> 0..Grace]
    /\ beat \in [Slots -> {"off", "on", "sending"}]
    /\ hb \in [Slots -> 0..HeartbeatEvery]
    /\ phase \in {"up", "draining", "waiting", "nil", "error"}

Init ==
    /\ st = [m \in Msgs |-> "stored"]
    /\ wait = [m \in Msgs |-> 0]
    /\ count = [m \in Msgs |-> 0]
    /\ queue = <<>>
    /\ pc = [s \in Slots |-> "idle"]
    /\ msg = [s \in Slots |-> NoMsg]
    /\ res = [s \in Slots |-> "nil"]
    /\ left = [s \in Slots |-> 0]
    /\ over = [s \in Slots |-> 0]
    /\ beat = [s \in Slots |-> "off"]
    /\ hb = [s \in Slots |-> 0]
    /\ phase = "up"

-----------------------------------------------------------------------------
(* The server.                                                             *)

AckPending == {m \in Msgs : st[m] \in {"pending", "ready"}}

Deliver(m) ==
    /\ phase = "up"
    /\ \/ st[m] = "stored" /\ Cardinality(AckPending) < MaxAckPending
       \/ st[m] = "ready"
    /\ Len(queue) < MaxConcurrent
    /\ st' = [st EXCEPT ![m] = "pending"]
    /\ wait' = [wait EXCEPT ![m] = AckWait]
    /\ count' = [count EXCEPT ![m] = @ + 1]
    /\ queue' = Append(queue, m)
    /\ UNCHANGED <<slotVars, phase>>

\* A message that is to be delivered again, or not any more.
Again(m) == IF count[m] < MaxDeliver THEN "ready" ELSE "exhausted"

\* The state of m once the server has handled op.
After(m, op) ==
    IF op = "nak" THEN IF st[m] = "pending" THEN Again(m) ELSE st[m]
    ELSE IF st[m] \in {"pending", "ready", "exhausted"}
         THEN IF op = "ack" THEN "acked" ELSE "termed"
         ELSE st[m]

\* settle: the server handles op, or the call fails and is only logged; on a
\* closed connection it always fails.
settle(m, op) ==
    \/ phase # "error" /\ st' = [st EXCEPT ![m] = After(m, op)]
    \/ UNCHANGED st

-----------------------------------------------------------------------------
(* The callback, HandleMsg and the heartbeat.                              *)

\* The callback gets a place of the semaphore and starts the goroutine.
Dispatch(s) ==
    /\ queue # <<>>
    /\ pc[s] = "idle"
    /\ pc' = [pc EXCEPT ![s] = "taken"]
    /\ msg' = [msg EXCEPT ![s] = Head(queue)]
    /\ queue' = Tail(queue)
    /\ UNCHANGED <<serverVars, res, left, over, beat, hb, phase>>

canceled == phase # "up"

\* Seeded bug: the goroutine keeps its place of the semaphore.
SlotAfterLeak == "leaked"
SlotAfter == "idle"

\* The goroutine ends and gives its place back.
Free(s) ==
    /\ pc' = [pc EXCEPT ![s] = SlotAfter]
    /\ msg' = [msg EXCEPT ![s] = NoMsg]
    /\ res' = [res EXCEPT ![s] = "nil"]
    /\ left' = [left EXCEPT ![s] = 0]
    /\ over' = [over EXCEPT ![s] = 0]
    /\ hb' = [hb EXCEPT ![s] = 0]
    /\ UNCHANGED beat

\* HandleMsg: nak at once without metadata or after the run's context was
\* canceled, or call the handler under its timeout with a heartbeat beside it.
HandleMsg(s) ==
    /\ pc[s] = "taken"
    /\ \/ /\ msg[s] \in NoMetadata \/ canceled
          /\ settle(msg[s], "nak")
          /\ Free(s)
       \/ /\ msg[s] \notin NoMetadata /\ ~canceled
          /\ pc' = [pc EXCEPT ![s] = "running"]
          /\ left' = [left EXCEPT ![s] = HandlerTimeout]
          /\ over' = [over EXCEPT ![s] = 0]
          /\ beat' = [beat EXCEPT ![s] = "on"]
          /\ hb' = [hb EXCEPT ![s] = HeartbeatEvery]
          /\ UNCHANGED <<st, msg, res>>
    /\ UNCHANGED <<wait, count, queue, phase>>

ctxEnded(s) == left[s] = 0 \/ canceled

\* The heartbeat's select: the ticker, or done or the end of the context.
BeatFires(s) ==
    /\ beat[s] = "on" /\ hb[s] = 0
    /\ beat' = [beat EXCEPT ![s] = "sending"]
    /\ hb' = [hb EXCEPT ![s] = HeartbeatEvery]
    /\ UNCHANGED <<serverVars, queue, pc, msg, res, left, over, phase>>

BeatEnds(s) ==
    /\ beat[s] = "on"
    /\ ctxEnded(s) \/ pc[s] = "stopping"
    /\ beat' = [beat EXCEPT ![s] = "off"]
    /\ UNCHANGED <<serverVars, queue, pc, msg, res, left, over, hb, phase>>

\* InProgress starts the server's AckWait anew.
InProgress(s) ==
    /\ beat[s] = "sending"
    /\ beat' = [beat EXCEPT ![s] = "on"]
    /\ \/ phase # "error" /\ wait' = [wait EXCEPT ![msg[s]] = IF st[msg[s]] = "pending"
                                                             THEN AckWait ELSE @]
       \/ (BeatsLost \/ phase = "error") /\ UNCHANGED wait
    /\ UNCHANGED <<st, count, queue, pc, msg, res, left, over, hb, phase>>

\* The handler returns, or panics, which panicRecovery makes a failure.
HandlerReturns(s) ==
    /\ pc[s] = "running"
    /\ pc' = [pc EXCEPT ![s] = "stopping"]
    /\ \E r \in {"nil", "noRetry", "failed"} : res' = [res EXCEPT ![s] = r]
    /\ UNCHANGED <<serverVars, queue, msg, left, over, beat, hb, phase>>

\* Seeded bug: stop does not wait for the heartbeat.
BeatStoppedNoWait(s) == TRUE
BeatStopped(s) == beat[s] = "off"

\* Seeded bug: a message whose handler failed is acked.
settleOpAcks(r) == IF r = "noRetry" THEN "term" ELSE "ack"
settleOp(r) == CASE r = "nil" -> "ack" [] r = "noRetry" -> "term" [] OTHER -> "nak"

\* settleOutcome, then the goroutine ends.
Settle(s) ==
    /\ pc[s] = "stopping"
    /\ BeatStopped(s)
    /\ settle(msg[s], settleOp(res[s]))
    /\ Free(s)
    /\ UNCHANGED <<wait, count, queue, phase>>

-----------------------------------------------------------------------------
(* Shutdown.                                                               *)

\* Shutdown cancels the handlers' context and drains the consume context.
Shutdown ==
    /\ phase = "up"
    /\ phase' = "draining"
    /\ UNCHANGED <<serverVars, queue, slotVars>>

\* The consume context is closed once every pulled message went to the callback.
ConsumeClosed == queue = <<>>

Quiesce ==
    /\ \/ phase = "draining" /\ ConsumeClosed /\ phase' = "waiting"
       \/ phase = "waiting" /\ (\A s \in Slots : pc[s] = "idle") /\ phase' = "nil"
    /\ UNCHANGED <<serverVars, queue, slotVars>>

\* The caller's context ends first: the connection is closed.
GiveUp ==
    /\ phase \in {"draining", "waiting"}
    /\ phase' = "error"
    /\ UNCHANGED <<serverVars, queue, slotVars>>

-----------------------------------------------------------------------------
(* Time.                                                                   *)

\* The consumer has something to do before the clock goes on.
Urgent ==
    \/ queue # <<>> /\ \E s \in Slots : pc[s] = "idle"
    \/ \E s \in Slots : \/ pc[s] \in {"taken", "stopping"}
                        \/ beat[s] = "sending"
                        \/ beat[s] = "on" /\ (hb[s] = 0 \/ ctxEnded(s))
                        \/ pc[s] = "running" /\ ctxEnded(s) /\ over[s] = Grace

Less(n) == IF n > 0 THEN n - 1 ELSE 0

\* AckWait of m ends with this tick.
Expires(m) == st[m] = "pending" /\ wait[m] <= 1

Tick ==
    /\ ~Urgent
    /\ \/ \E s \in Slots : pc[s] = "running"
       \/ \E m \in Msgs : st[m] = "pending"
    /\ left' = [s \in Slots |-> Less(left[s])]
    /\ hb' = [s \in Slots |-> Less(hb[s])]
    /\ over' = [s \in Slots |-> IF pc[s] = "running" /\ ctxEnded(s) THEN over[s] + 1 ELSE over[s]]
    /\ wait' = [m \in Msgs |-> Less(wait[m])]
    /\ st' = [m \in Msgs |-> IF Expires(m) THEN Again(m) ELSE st[m]]
    /\ UNCHANGED <<count, queue, pc, msg, res, beat, phase>>

-----------------------------------------------------------------------------
SlotStep(s) == Dispatch(s) \/ HandleMsg(s) \/ Settle(s)
BeatStep(s) == BeatFires(s) \/ BeatEnds(s) \/ InProgress(s)

Next ==
    \/ \E m \in Msgs : Deliver(m)
    \/ \E s \in Slots : SlotStep(s) \/ BeatStep(s) \/ HandlerReturns(s)
    \/ Shutdown \/ Quiesce \/ GiveUp
    \/ Tick

Spec == Init /\ [][Next]_vars

\* Goroutines that can run do, time goes on, the server delivers what it may,
\* a select with several ready cases does not pick the ticker for ever, and a
\* handler returns within its grace.
FairSpec ==
    /\ Spec
    /\ WF_vars(Tick) /\ WF_vars(Quiesce)
    /\ \A m \in Msgs : SF_vars(Deliver(m))
    /\ \A s \in Slots : /\ WF_vars(SlotStep(s)) /\ WF_vars(BeatStep(s))
                        /\ SF_vars(BeatEnds(s)) /\ WF_vars(HandlerReturns(s))

-----------------------------------------------------------------------------
(* Properties.                                                             *)

\* The handler has been called for the slot's message and is not settled yet.
Busy(s) == pc[s] \in {"running", "stopping"}

\* startHeartbeat and buildConsumerConfig: no message is handled twice at the
\* same time.  It holds when heartbeats get through and a handler returns
\* early enough after the end of its context (Grace + HeartbeatEvery < AckWait).
NoConcurrentRedelivery ==
    \A s, t \in Slots : (s # t /\ Busy(s) /\ Busy(t)) => msg[s] # msg[t]

\* buildConsumerConfig and nats/README.md: MaxAckPending is MaxConcurrent, so
\* that a message waiting for a free slot is not redelivered after AckWait.
WaitingNotRedelivered ==
    \A i \in DOMAIN queue : st[queue[i]] = "pending"

\* The pull callback has a place of the semaphore for every message at once.
CallbackNeverWaits == queue # <<>> => \E s \in Slots : pc[s] = "idle"

\* startHeartbeat: a heartbeat is under way only between the call of the
\* handler and the settlement, never after a nak it would take back.
NoBeatAfterSettle == \A s \in Slots : beat[s] # "off" => Busy(s)

\* shutdown: when it returns nil no handler runs and nothing is left that
\* could still start one.
ShutdownNilIsQuiet ==
    phase = "nil" => (queue = <<>> /\ \A s \in Slots : pc[s] = "idle" /\ beat[s] = "off")

\* settleOutcome: a message leaves the stream's hands for good only through an
\* ack of a success, a term the handler asked for, or MaxDeliver deliveries.
NotLost ==
    [][\A m \in Msgs : (st'[m] # st[m]) =>
          /\ st'[m] = "acked" => (\E s \in Slots : msg[s] = m /\ Busy(s) /\ res[s] = "nil")
          /\ st'[m] = "termed" => (\E s \in Slots : msg[s] = m /\ Busy(s) /\ res[s] = "noRetry")
          /\ st'[m] = "exhausted" => count[m] = MaxDeliver]_vars

\* Every message is settled in the end or has had its MaxDeliver deliveries,
\* although acks may get lost, unless the consumer is shut down.
EveryMessageSettles ==
    \A m \in Msgs : <>(st[m] \in {"acked", "termed", "exhausted"} \/ phase # "up")

\* What the consumer does with a message, from the slot that has it.
Has(s, m) == pc[s] # "idle" /\ msg[s] = m
Stage(s) == CASE pc[s] = "taken" -> "pulled" [] pc[s] = "running" -> "handled" [] OTHER -> res[s]
WorkOn(m) ==
    IF \E s \in Slots : Has(s, m) THEN Stage(CHOOSE s \in Slots : Has(s, m))
    ELSE IF \E i \in DOMAIN queue : queue[i] = m THEN "pulled" ELSE "none"
FateOf(m) == IF st[m] \in {"acked", "termed", "exhausted"} THEN st[m] ELSE "open"

Fate == [m \in Msgs |-> FateOf(m)]
Work == [m \in Msgs |-> WorkOn(m)]

Promise == INSTANCE Delivery WITH Room <- MaxConcurrent, fate <- Fate, tries <- count, work <- Work

\* HandleMsg with the server: each message is attempted at most MaxDeliver times,
\* one attempt at a time, with at most MaxConcurrent messages in hand, and leaves
\* only by the result of its own attempt or after the last one.  It holds under
\* the conditions of NoConcurrentRedelivery.
ImplementsDelivery == Promise!Spec
=============================================================================
