---------------------------- MODULE NatsProducer ----------------------------
(***************************************************************************)
(* The JetStream producer (nats/producer/producer.go): Start and Shutdown  *)
(* cycles, each with its own connections and its own WaitGroup of pending  *)
(* async publishes, and the publishes that run beside them.                *)
(*                                                                         *)
(* A cycle is a number; cycle is the last one begun.  Start holds the      *)
(* write lock while it dials; every other critical section of mu is one    *)
(* step.  A publish call is at                                             *)
(*   idle      no call              called    has its span, not a producer *)
(*   acquired  counted in pending, before PublishMsgAsync                  *)
(*   sent      waits for the ack    callback  in the caller's callback     *)
(*   sending   a synchronous publish, which nothing counts                 *)
(***************************************************************************)
EXTENDS Integers, FiniteSets, StreamLayout

CONSTANTS
    Topics,
    NoTopic,
    Publishers,   \* calls of PublishSync and PublishAsync
    Stoppers,     \* calls of Shutdown
    MaxCycles     \* bound: calls of Start that dial

Cycles == 1..MaxCycles

ASSUME ProducerAssumption ==
    /\ NoTopic \notin Topics
    /\ IsFiniteSet(Publishers)
    /\ MaxCycles \in Nat

VARIABLES
    configs,           \* Producer.configs
    run,               \* Producer.run: the started cycle, or 0
    cycle, dialing,    \* the last cycle begun; Start is dialing it
    conn,              \* a cycle's connection to a topic
    pending,           \* run.pending of each cycle
    pc, topic, cyc,    \* a publish call, its topic, the cycle it acquired
    stopPc, stopCyc    \* a Shutdown call and the cycle it took

lifeVars == <<configs, run, cycle, dialing>>
pubVars  == <<pc, topic, cyc>>
stopVars == <<stopPc, stopCyc>>
vars == <<lifeVars, conn, pending, pubVars, stopVars>>

Outstanding == {"acquired", "sent", "callback"}
Stopping == {"waiting", "draining", "failing"}

TypeOK ==
    /\ configs \subseteq Topics
    /\ run \in 0..MaxCycles /\ cycle \in 0..MaxCycles
    /\ dialing \in BOOLEAN
    /\ conn \in [Cycles -> [Topics -> {"none", "dialing", "open", "closed"}]]
    /\ pending \in [Cycles -> Nat]
    /\ pc \in [Publishers -> {"idle", "called", "sending"} \cup Outstanding]
    /\ topic \in [Publishers -> Topics \cup {NoTopic}]
    /\ cyc \in [Publishers -> 0..MaxCycles]
    /\ stopPc \in [Stoppers -> {"idle", "nil", "error"} \cup Stopping]
    /\ stopCyc \in [Stoppers -> 0..MaxCycles]

Init ==
    /\ configs = {} /\ run = 0 /\ cycle = 0 /\ dialing = FALSE
    /\ conn = [g \in Cycles |-> [t \in Topics |-> "none"]]
    /\ pending = [g \in Cycles |-> 0]
    /\ pc = [p \in Publishers |-> "idle"]
    /\ topic = [p \in Publishers |-> NoTopic]
    /\ cyc = [p \in Publishers |-> 0]
    /\ stopPc = [s \in Stoppers |-> "idle"]
    /\ stopCyc = [s \in Stoppers |-> 0]

-----------------------------------------------------------------------------
(* Register and Start.                                                     *)

Register(t) ==
    /\ ~dialing
    /\ run = 0
    /\ t \notin configs
    /\ configs' = configs \cup {t}
    /\ UNCHANGED <<run, cycle, dialing, conn, pending, pubVars, stopVars>>

\* Start takes the lock and dials every topic at once.
Start ==
    /\ ~dialing
    /\ run = 0
    /\ cycle < MaxCycles
    /\ cycle' = cycle + 1
    /\ dialing' = TRUE
    /\ conn' = [conn EXCEPT ![cycle + 1] =
                  [t \in Topics |-> IF t \in configs THEN "dialing" ELSE "none"]]
    /\ UNCHANGED <<configs, run, pending, pubVars, stopVars>>

\* dialProducer connects and ensures the stream, or closes what it opened.
dialProducer(t) ==
    /\ dialing
    /\ conn[cycle][t] = "dialing"
    /\ \E c \in {"open", "closed"} : conn' = [conn EXCEPT ![cycle][t] = c]
    /\ UNCHANGED <<lifeVars, pending, pubVars, stopVars>>

\* Every connection of cycle g is closed.
AllClosed(g) ==
    [conn EXCEPT ![g] = [t \in Topics |-> IF @[t] = "open" THEN "closed" ELSE @[t]]]

\* Seeded bug: a failed Start leaves the connections it opened.
AfterFailedStartKept == conn
AfterFailedStart == AllClosed(cycle)

\* g.Wait returns: one failure undoes the whole Start.
StartEnds ==
    /\ dialing
    /\ \A t \in Topics : conn[cycle][t] # "dialing"
    /\ dialing' = FALSE
    /\ \/ /\ \E t \in Topics : conn[cycle][t] = "closed"
          /\ conn' = AfterFailedStart
          /\ UNCHANGED run
       \/ /\ \A t \in Topics : conn[cycle][t] # "closed"
          /\ run' = cycle
          /\ UNCHANGED conn
    /\ UNCHANGED <<configs, cycle, pending, pubVars, stopVars>>

-----------------------------------------------------------------------------
(* Publishing.                                                             *)

\* metaFor takes the read lock and the span is opened.
Publish(p, t) ==
    /\ ~dialing
    /\ pc[p] = "idle"
    /\ pc' = [pc EXCEPT ![p] = "called"]
    /\ topic' = [topic EXCEPT ![p] = t]
    /\ UNCHANGED <<lifeVars, conn, pending, cyc, stopVars>>

\* The cycle acquire and producerFor see.
Current == run

\* The topic has a producer in that cycle.
Found(t) == Current # 0 /\ conn[Current][t] # "none"

Return(p) ==
    /\ pc' = [pc EXCEPT ![p] = "idle"]
    /\ topic' = [topic EXCEPT ![p] = NoTopic]
    /\ cyc' = [cyc EXCEPT ![p] = 0]

\* acquire: the lookup and pending.Add under one read lock.
acquire(p) ==
    /\ ~dialing
    /\ pc[p] = "called"
    /\ \/ /\ Found(topic[p])
          /\ pending' = [pending EXCEPT ![Current] = @ + 1]
          /\ cyc' = [cyc EXCEPT ![p] = Current]
          /\ pc' = [pc EXCEPT ![p] = "acquired"]
          /\ UNCHANGED topic
       \/ /\ ~Found(topic[p])
          /\ Return(p)
          /\ UNCHANGED pending
    /\ UNCHANGED <<lifeVars, conn, stopVars>>

\* Seeded bug: a publish that fails at once stays counted.
PendingAfterFailureKept(p) == pending
PendingAfterFailure(p) == [pending EXCEPT ![cyc[p]] = @ - 1]

\* PublishMsgAsync takes the message or fails.
publishAsync(p) ==
    /\ pc[p] = "acquired"
    /\ \/ /\ conn[cyc[p]][topic[p]] = "open"
          /\ pc' = [pc EXCEPT ![p] = "sent"]
          /\ UNCHANGED <<pending, topic, cyc>>
       \/ /\ pending' = PendingAfterFailure(p)
          /\ Return(p)
    /\ UNCHANGED <<lifeVars, conn, stopVars>>

\* The ack arrives, or its error, or the async timeout passes.
AckOrErr(p) ==
    /\ pc[p] = "sent"
    /\ pc' = [pc EXCEPT ![p] = "callback"]
    /\ UNCHANGED <<lifeVars, conn, pending, topic, cyc, stopVars>>

\* Seeded bug: one WaitGroup for all cycles, as a later cycle sees it.
DoneCycleCurrent(p) == IF run # 0 THEN run ELSE cyc[p]
\* The cycle whose WaitGroup the callback counts down.
DoneCycle(p) == cyc[p]

CallbackReturns(p) ==
    /\ pc[p] = "callback"
    /\ pending' = [pending EXCEPT ![DoneCycle(p)] = @ - 1]
    /\ Return(p)
    /\ UNCHANGED <<lifeVars, conn, stopVars>>

\* sendSync: the lookup, then the publish, which is acked or fails.
sendSync(p) ==
    /\ \/ /\ ~dialing /\ pc[p] = "called" /\ Found(topic[p])
          /\ pc' = [pc EXCEPT ![p] = "sending"]
          /\ cyc' = [cyc EXCEPT ![p] = Current]
          /\ UNCHANGED topic
       \/ /\ ~dialing /\ pc[p] = "called" /\ ~Found(topic[p])
          /\ Return(p)
       \/ /\ pc[p] = "sending"
          /\ Return(p)
    /\ UNCHANGED <<lifeVars, conn, pending, stopVars>>

-----------------------------------------------------------------------------
(* Shutdown.                                                               *)

Shutdown(s) ==
    /\ ~dialing
    /\ stopPc[s] = "idle"
    /\ run' = 0
    /\ stopPc' = [stopPc EXCEPT ![s] = IF run = 0 THEN "nil" ELSE "waiting"]
    /\ stopCyc' = [stopCyc EXCEPT ![s] = run]
    /\ UNCHANGED <<configs, cycle, dialing, conn, pending, pubVars>>

\* Seeded bug: Shutdown drains without waiting for the callbacks.
CallbacksDoneNoWait(g) == TRUE
CallbacksDone(g) == pending[g] = 0

AwaitPending(s) ==
    /\ stopPc[s] = "waiting"
    /\ CallbacksDone(stopCyc[s])
    /\ stopPc' = [stopPc EXCEPT ![s] = "draining"]
    /\ UNCHANGED <<lifeVars, conn, pending, pubVars, stopCyc>>

\* drain closes the connection whether or not it could flush it.
drain(s, t) ==
    /\ stopPc[s] \in {"draining", "failing"}
    /\ conn[stopCyc[s]][t] = "open"
    /\ conn' = [conn EXCEPT ![stopCyc[s]][t] = "closed"]
    /\ \E r \in {stopPc[s], "failing"} : stopPc' = [stopPc EXCEPT ![s] = r]
    /\ UNCHANGED <<lifeVars, pending, pubVars, stopCyc>>

ShutdownReturn(s) ==
    /\ stopPc[s] \in {"draining", "failing"}
    /\ \A t \in Topics : conn[stopCyc[s]][t] # "open"
    /\ stopPc' = [stopPc EXCEPT ![s] = IF @ = "draining" THEN "nil" ELSE "error"]
    /\ UNCHANGED <<lifeVars, conn, pending, pubVars, stopCyc>>

\* The caller's context ends first.
GiveUp(s) ==
    /\ stopPc[s] = "waiting"
    /\ conn' = AllClosed(stopCyc[s])
    /\ stopPc' = [stopPc EXCEPT ![s] = "error"]
    /\ UNCHANGED <<lifeVars, pending, pubVars, stopCyc>>

-----------------------------------------------------------------------------
StartStep == StartEnds \/ \E t \in Topics : dialProducer(t)
PublishStep(p) == acquire(p) \/ publishAsync(p) \/ AckOrErr(p) \/ CallbackReturns(p) \/ sendSync(p)
StopStep(s) == AwaitPending(s) \/ ShutdownReturn(s) \/ \E t \in Topics : drain(s, t)

Next ==
    \/ \E t \in Topics : Register(t)
    \/ Start \/ StartStep
    \/ \E p \in Publishers : PublishStep(p) \/ \E t \in Topics : Publish(p, t)
    \/ \E s \in Stoppers : Shutdown(s) \/ StopStep(s) \/ GiveUp(s)

Spec == Init /\ [][Next]_vars

\* Goroutines that can run do, dials end, PublishAsyncTimeout bounds the wait
\* for an ack, and callbacks return.  Nobody has to end Shutdown's context.
FairSpec ==
    /\ Spec
    /\ WF_vars(StartStep)
    /\ \A p \in Publishers : WF_vars(PublishStep(p))
    /\ \A s \in Stoppers : WF_vars(StopStep(s))

-----------------------------------------------------------------------------
(* Properties.                                                             *)

\* acquire and PublishAsync: a cycle's WaitGroup counts exactly its publishes
\* whose callback has not returned, also when callbacks of an earlier cycle are
\* still running beside a later one.
PendingExact ==
    \A g \in Cycles :
        pending[g] = Cardinality({p \in Publishers : pc[p] \in Outstanding /\ cyc[p] = g})

\* Shutdown: a nil result of the call that took a cycle means that the
\* callbacks of all its async publishes have returned and its connections are
\* closed.
ShutdownNilIsFlushed ==
    \A s \in Stoppers : (stopPc[s] = "nil" /\ stopCyc[s] # 0) =>
        /\ \A p \in Publishers : pc[p] \in Outstanding => cyc[p] # stopCyc[s]
        /\ \A t \in Topics : conn[stopCyc[s]][t] # "open"

\* Shutdown: pending.Add never runs on a WaitGroup that Shutdown waits for.
NoAddDuringWait ==
    [][\A s \in Stoppers : stopPc[s] # "idle" /\ stopCyc[s] # 0 =>
          pending'[stopCyc[s]] <= pending[stopCyc[s]]]_vars

\* Start and Shutdown: an open connection belongs to the started cycle, to a
\* Start that is still dialing or to a Shutdown that is not done; neither a
\* failed Start nor a Shutdown that gave up leaves one behind.
NoLeakedConn ==
    \A g \in Cycles, t \in Topics : conn[g][t] = "open" =>
        \/ g = run
        \/ dialing /\ g = cycle
        \/ \E s \in Stoppers : stopCyc[s] = g /\ stopPc[s] \in Stopping

\* Shutdown returns once the callbacks have, whatever its context.
ShutdownReturns ==
    \A s \in Stoppers : stopPc[s] \in Stopping ~> stopPc[s] \in {"nil", "error"}

\* PatchIsSound (PatchStream, covers), which ensureStream of Start relies on: a
\* constant formula, evaluated in the initial state only.
StreamsPatched == Init => PatchIsSound
=============================================================================
