------------------------- MODULE NatsProducerProofs -------------------------
(***************************************************************************)
(* Proofs about NatsProducer for any topics, any finite set of publishes,  *)
(* any Shutdown calls and any number of cycles, and about the stream       *)
(* layout of any topic (StreamLayout).                                     *)
(*                                                                         *)
(* What makes the count of a cycle safe to wait for is that a cycle that a *)
(* Shutdown took is never the started one again: acquire only adds to the  *)
(* started cycle, and Start only opens connections of a cycle that no call *)
(* has seen yet.  LifeOrder says that; the other invariants rest on it.    *)
(***************************************************************************)
EXTENDS NatsProducer, FiniteSetTheorems, TLAPS

\* A cycle that a Shutdown took is neither started nor dialed again.
LifeOrder ==
    /\ run <= cycle
    /\ dialing => (run = 0 /\ cycle # 0)
    /\ \A s \in Stoppers :
          /\ stopCyc[s] <= cycle
          /\ stopCyc[s] # 0 => (stopCyc[s] # run /\ (dialing => stopCyc[s] # cycle))
          /\ stopPc[s] \in Stopping => stopCyc[s] # 0
          /\ stopPc[s] = "idle" => stopCyc[s] = 0

\* A counted publish has a cycle and a topic.
Placed ==
    \A p \in Publishers :
        /\ pc[p] \in Outstanding => (cyc[p] # 0 /\ topic[p] \in Topics)
        /\ pc[p] = "called" => topic[p] \in Topics

\* Past pending.Wait nothing is counted, and after a nil result nothing is open.
Drained ==
    \A s \in Stoppers :
        /\ stopPc[s] = "draining" => pending[stopCyc[s]] = 0
        /\ (stopPc[s] = "nil" /\ stopCyc[s] # 0) =>
              (pending[stopCyc[s]] = 0 /\ \A t \in Topics : conn[stopCyc[s]][t] # "open")

\* A connection is dialed only by the Start that is going on.
DialingNow == \A g \in Cycles, t \in Topics : conn[g][t] = "dialing" => (dialing /\ g = cycle)

IInv == TypeOK /\ LifeOrder /\ Placed /\ Drained /\ DialingNow /\ PendingExact /\ NoLeakedConn

-----------------------------------------------------------------------------
(* Counting.                                                               *)

Counted(g) == {p \in Publishers : pc[p] \in Outstanding /\ cyc[p] = g}

LEMMA CountedFinite ==
    ASSUME NEW g
    PROVE  IsFiniteSet(Counted(g)) /\ Cardinality(Counted(g)) \in Nat
  <1>1. IsFiniteSet(Counted(g))
    BY ProducerAssumption, FS_Subset DEF Counted
  <1> QED
    BY <1>1, FS_CardinalityType

\* The count is that of Counted.
LEMMA ExactCounted == PendingExact <=> \A g \in Cycles : pending[g] = Cardinality(Counted(g))
  BY DEF PendingExact, Counted

\* A step that neither takes nor leaves a count keeps it.
LEMMA CountKept ==
    ASSUME PendingExact, UNCHANGED pending,
           \A g \in Cycles : Counted(g)' = Counted(g)
    PROVE  PendingExact'
  BY DEF PendingExact, Counted

\* acquire counts one more publish in cycle c.
LEMMA CountUp ==
    ASSUME TypeOK, PendingExact, NEW p \in Publishers, NEW c \in Cycles,
           pc[p] = "called",
           pc' = [pc EXCEPT ![p] = "acquired"], cyc' = [cyc EXCEPT ![p] = c],
           pending' = [pending EXCEPT ![c] = @ + 1]
    PROVE  PendingExact'
  <1>1. \A g \in Cycles : g # c => Counted(g)' = Counted(g)
    BY DEF TypeOK, Counted, Outstanding
  <1>2. Counted(c)' = Counted(c) \cup {p} /\ p \notin Counted(c)
    BY DEF TypeOK, Counted, Outstanding
  <1>3. Cardinality(Counted(c) \cup {p}) = Cardinality(Counted(c)) + 1
    BY <1>2, CountedFinite, FS_AddElement
  <1>4. \A g \in Cycles : pending'[g] = Cardinality(Counted(g)')
    BY <1>1, <1>2, <1>3 DEF TypeOK, PendingExact, Counted
  <1> QED
    BY <1>4 DEF PendingExact, Counted

\* A publish that returns is no longer counted; the count was positive.
LEMMA CountDown ==
    ASSUME TypeOK, PendingExact, NEW p \in Publishers, NEW c \in Cycles, cyc[p] = c,
           pc[p] \in Outstanding, Return(p), pending' = [pending EXCEPT ![c] = @ - 1]
    PROVE  PendingExact' /\ pending' \in [Cycles -> Nat]
  <1>1. \A g \in Cycles : g # c => Counted(g)' = Counted(g)
    BY DEF TypeOK, Counted, Outstanding, Return
  <1>2. Counted(c)' = Counted(c) \ {p} /\ p \in Counted(c)
    BY DEF TypeOK, Counted, Outstanding, Return
  <1>3. /\ Cardinality(Counted(c) \ {p}) = Cardinality(Counted(c)) - 1
        /\ Cardinality(Counted(c) \ {p}) \in Nat
    <2>1. IsFiniteSet(Counted(c) \ {p})
      BY CountedFinite, FS_Subset
    <2> QED
      BY <1>2, <2>1, CountedFinite, FS_RemoveElement, FS_CardinalityType
  <1>4. pending[c] = Cardinality(Counted(c))
    BY DEF PendingExact, Counted
  <1>5. pending' \in [Cycles -> Nat]
    BY <1>3, <1>4 DEF TypeOK
  <1>6. \A g \in Cycles : pending'[g] = Cardinality(Counted(g)')
    BY <1>1, <1>2, <1>3 DEF TypeOK, PendingExact, Counted
  <1> QED
    BY <1>5, <1>6 DEF PendingExact, Counted

\* A count of zero means that no publish of the cycle is outstanding.
LEMMA CountZero ==
    ASSUME PendingExact, NEW g \in Cycles, pending[g] = 0
    PROVE  \A p \in Publishers : pc[p] \in Outstanding => cyc[p] # g
  <1>1. Counted(g) = {}
    BY CountedFinite, FS_EmptySet DEF PendingExact, Counted
  <1> QED
    BY <1>1 DEF Counted

-----------------------------------------------------------------------------
(* The invariant.                                                          *)

LEMMA InitInv == Init => IInv
  <1> SUFFICES ASSUME Init PROVE IInv
    OBVIOUS
  <1> USE ProducerAssumption DEF Init
  <1>1. TypeOK
    <2>1. conn \in [Cycles -> [Topics -> {"none", "dialing", "open", "closed"}]]
      OBVIOUS
    <2>2. 0 \in 0..MaxCycles
      OBVIOUS
    <2> QED
      BY <2>1, <2>2 DEF TypeOK, Outstanding, Stopping
  <1>2. LifeOrder /\ Placed /\ Drained /\ DialingNow /\ NoLeakedConn
    BY DEF LifeOrder, Placed, Drained, DialingNow, NoLeakedConn, Outstanding, Stopping, Cycles
  <1>3. PendingExact
    <2>1. \A g \in Cycles : Counted(g) = {}
      BY DEF Counted, Outstanding
    <2> QED
      BY <2>1, FS_EmptySet DEF PendingExact, Counted
  <1> QED
    BY <1>1, <1>2, <1>3 DEF IInv

\* Register and the steps of Start leave publishes and Shutdown calls alone.
LEMMA StartSteps == IInv /\ ((\E t \in Topics : Register(t)) \/ Start \/ StartStep) => IInv'
  <1> SUFFICES ASSUME IInv, (\E t \in Topics : Register(t)) \/ Start \/ StartStep
               PROVE  IInv'
    OBVIOUS
  <1> USE ProducerAssumption DEF IInv
  <1>1. UNCHANGED <<pending, pubVars, stopVars>>
    BY DEF Register, Start, StartStep, StartEnds, dialProducer
  <1>2. Placed'
    BY <1>1 DEF Placed, pubVars, Outstanding
  <1>3. PendingExact'
    BY <1>1, CountKept DEF Counted, pubVars
  <1>4. CASE \E t \in Topics : Register(t)
    BY <1>1, <1>2, <1>3, <1>4 DEF Register, TypeOK, LifeOrder, Drained, DialingNow, NoLeakedConn,
                            pubVars, stopVars
  <1>5. CASE Start
    <2>1. cycle + 1 \in Cycles /\ cycle + 1 \in 0..MaxCycles
      BY <1>5 DEF Start, TypeOK, Cycles
    <2>2. TypeOK'
      BY <1>1, <1>5, <2>1 DEF Start, TypeOK, pubVars, stopVars
    <2>3. LifeOrder'
      BY <1>1, <1>5, <2>1 DEF Start, TypeOK, LifeOrder, stopVars
    <2>4. \A g \in Cycles : g # cycle + 1 => conn'[g] = conn[g]
      BY <1>5 DEF Start, TypeOK
    <2>5. \A t \in Topics : conn'[cycle + 1][t] \in {"dialing", "none"}
      BY <1>5, <2>1 DEF Start, TypeOK
    <2>6. \A s \in Stoppers : stopCyc[s] # 0 => (stopCyc[s] \in Cycles /\ stopCyc[s] # cycle + 1)
      BY DEF LifeOrder, TypeOK, Cycles
    <2>7. Drained'
      BY <1>1, <2>4, <2>6 DEF Drained, stopVars, LifeOrder, TypeOK, Stopping
    <2>8. DialingNow' /\ NoLeakedConn'
      BY <1>1, <1>5, <2>4, <2>5 DEF Start, DialingNow, NoLeakedConn, stopVars, LifeOrder
    <2> QED
      BY <1>2, <1>3, <2>2, <2>3, <2>7, <2>8
  <1>6. ASSUME NEW t \in Topics, dialProducer(t) PROVE IInv'
    <2>1. PICK c \in {"open", "closed"} : conn' = [conn EXCEPT ![cycle][t] = c]
      BY <1>6 DEF dialProducer
    <2>2. UNCHANGED lifeVars /\ dialing /\ cycle \in Cycles
      BY <1>6 DEF dialProducer, LifeOrder, TypeOK, Cycles
    <2>3. TypeOK'
      BY <1>1, <2>1, <2>2 DEF TypeOK, lifeVars, pubVars, stopVars
    <2>4. LifeOrder'
      BY <1>1, <2>2 DEF LifeOrder, lifeVars, stopVars
    <2>5. \A g \in Cycles : g # cycle => conn'[g] = conn[g]
      BY <2>1 DEF TypeOK
    <2>6. \A u \in Topics : conn'[cycle][u] = IF u = t THEN c ELSE conn[cycle][u]
      BY <2>1, <2>2 DEF TypeOK
    <2>7. \A s \in Stoppers : stopCyc[s] # 0 => (stopCyc[s] \in Cycles /\ stopCyc[s] # cycle)
      BY <2>2 DEF LifeOrder, TypeOK, Cycles
    <2>8. Drained'
      BY <1>1, <2>5, <2>7 DEF Drained, stopVars, LifeOrder, TypeOK, Stopping
    <2>9. DialingNow' /\ NoLeakedConn'
      BY <1>1, <2>2, <2>5, <2>6 DEF DialingNow, NoLeakedConn, lifeVars, stopVars
    <2> QED
      BY <1>2, <1>3, <2>3, <2>4, <2>8, <2>9
  <1>7. CASE StartEnds
    <2>1. UNCHANGED <<configs, cycle>> /\ dialing /\ dialing' = FALSE /\ cycle \in Cycles /\ run = 0
      BY <1>7 DEF StartEnds, LifeOrder, TypeOK, Cycles
    <2>2. \A g \in Cycles : g # cycle => conn'[g] = conn[g]
      BY <1>7 DEF StartEnds, AfterFailedStart, AllClosed, TypeOK
    <2>3. \/ run' = cycle /\ conn' = conn
          \/ /\ run' = run
             /\ conn' \in [Cycles -> [Topics -> {"none", "dialing", "open", "closed"}]]
             /\ \A t \in Topics : conn'[cycle][t] = IF conn[cycle][t] = "open" THEN "closed"
                                                   ELSE conn[cycle][t]
      BY <1>7, <2>1 DEF StartEnds, AfterFailedStart, AllClosed, TypeOK
    <2>4. TypeOK'
      BY <1>1, <2>1, <2>3 DEF TypeOK, pubVars, stopVars
    <2>5. LifeOrder'
      BY <1>1, <2>1, <2>3 DEF LifeOrder, TypeOK, stopVars
    <2>6. \A s \in Stoppers : stopCyc[s] # 0 => (stopCyc[s] \in Cycles /\ stopCyc[s] # cycle)
      BY <2>1 DEF LifeOrder, TypeOK, Cycles
    <2>7. Drained'
      BY <1>1, <2>2, <2>6 DEF Drained, stopVars, LifeOrder, TypeOK, Stopping
    <2>8. DialingNow'
      <3>1. \A t \in Topics : conn[cycle][t] # "dialing"
        BY <1>7 DEF StartEnds
      <3> QED
        BY <2>1, <2>2, <2>3, <3>1 DEF DialingNow
    <2>9. NoLeakedConn'
      <3> SUFFICES ASSUME NEW g \in Cycles, NEW t \in Topics, conn'[g][t] = "open"
                   PROVE  g = run' \/ \E s \in Stoppers : stopCyc[s] = g /\ stopPc[s] \in Stopping
        BY <1>1 DEF NoLeakedConn, stopVars
      <3>1. CASE g = cycle
        BY <2>1, <2>3, <3>1
      <3>2. CASE g # cycle
        BY <2>1, <2>2, <3>2 DEF NoLeakedConn, Cycles
      <3> QED
        BY <3>1, <3>2
    <2> QED
      BY <1>2, <1>3, <2>4, <2>5, <2>7, <2>8, <2>9
  <1> QED
    BY <1>4, <1>5, <1>6, <1>7 DEF StartStep

\* The steps of a publish leave Start, Shutdown and the connections alone.
LEMMA PublishSteps ==
    ASSUME NEW p \in Publishers, IInv, PublishStep(p) \/ \E t \in Topics : Publish(p, t)
    PROVE  IInv'
  <1> USE ProducerAssumption DEF IInv
  <1>1. UNCHANGED <<lifeVars, conn, stopVars>>
    BY DEF PublishStep, Publish, acquire, publishAsync, AckOrErr, CallbackReturns, sendSync
  <1>2. LifeOrder' /\ DialingNow' /\ NoLeakedConn'
    BY <1>1 DEF LifeOrder, DialingNow, NoLeakedConn, lifeVars, stopVars
  \* Nothing else is needed once these three are shown.
  <1>3. ASSUME TypeOK', Placed', PendingExact',
               \A g \in Cycles : (pending[g] = 0 /\ g # run) => pending'[g] = 0
        PROVE  IInv'
    <2>1. \A s \in Stoppers : stopCyc[s] # 0 => (stopCyc[s] \in Cycles /\ stopCyc[s] # run)
      BY DEF LifeOrder, TypeOK, Cycles
    <2>2. \A s \in Stoppers : stopPc[s] = "draining" => stopCyc[s] # 0
      BY DEF LifeOrder, Stopping
    <2>3. Drained'
      BY <1>1, <1>3, <2>1, <2>2 DEF Drained, stopVars
    <2> QED
      BY <1>2, <1>3, <2>3
  <1>4. ASSUME NEW t \in Topics, Publish(p, t) PROVE IInv'
    <2>1. TypeOK' /\ Placed'
      BY <1>4 DEF Publish, TypeOK, Placed, Outstanding, lifeVars, stopVars
    <2>2. PendingExact'
      BY <1>4, CountKept DEF Publish, Counted, TypeOK, Outstanding
    <2> QED
      BY <1>3, <1>4, <2>1, <2>2 DEF Publish
  <1>5. CASE acquire(p)
    <2>1. CASE Found(topic[p])
      <3>1. run \in Cycles
        BY <2>1 DEF Found, Current, TypeOK, Cycles
      <3>2. /\ pending' = [pending EXCEPT ![run] = @ + 1]
            /\ cyc' = [cyc EXCEPT ![p] = run]
            /\ pc' = [pc EXCEPT ![p] = "acquired"]
            /\ topic' = topic /\ pc[p] = "called"
        BY <1>5, <2>1 DEF acquire, Current
      <3>3. TypeOK'
        BY <1>1, <3>1, <3>2 DEF TypeOK, Outstanding, lifeVars, stopVars
      <3>4. Placed'
        BY <3>1, <3>2 DEF TypeOK, Placed, Outstanding, Cycles
      <3>5. PendingExact'
        BY <3>1, <3>2, CountUp
      <3> QED
        BY <1>3, <3>2, <3>3, <3>4, <3>5 DEF TypeOK
    <2>2. CASE ~Found(topic[p])
      <3>1. Return(p) /\ UNCHANGED pending /\ pc[p] = "called"
        BY <1>5, <2>2 DEF acquire
      <3>2. TypeOK' /\ Placed'
        BY <1>1, <3>1 DEF TypeOK, Placed, Return, Outstanding, lifeVars, stopVars
      <3>3. PendingExact'
        BY <3>1, CountKept DEF Counted, Return, TypeOK, Outstanding
      <3> QED
        BY <1>3, <3>1, <3>2, <3>3
    <2> QED
      BY <2>1, <2>2
  \* The two ways a counted publish ends.
  <1>6. ASSUME pc[p] \in Outstanding, Return(p), pending' = [pending EXCEPT ![cyc[p]] = @ - 1]
        PROVE  IInv'
    <2>1. cyc[p] \in Cycles
      BY <1>6 DEF TypeOK, Placed, Cycles
    <2>2. PendingExact' /\ pending' \in [Cycles -> Nat]
      BY <1>6, <2>1, CountDown
    <2>3. TypeOK' /\ Placed'
      BY <1>1, <1>6, <2>2 DEF TypeOK, Placed, Return, Outstanding, lifeVars, stopVars
    <2>4. \A g \in Cycles : pending[g] = 0 => pending'[g] = 0
      BY <1>6, <2>1, <2>2 DEF TypeOK
    <2> QED
      BY <1>3, <2>2, <2>3, <2>4
  <1>7. CASE publishAsync(p)
    <2>1. CASE pc' = [pc EXCEPT ![p] = "sent"] /\ UNCHANGED <<pending, topic, cyc>>
      <3>1. pc[p] = "acquired"
        BY <1>7 DEF publishAsync
      <3>2. TypeOK' /\ Placed'
        BY <1>1, <2>1, <3>1 DEF TypeOK, Placed, Outstanding, lifeVars, stopVars
      <3>3. PendingExact'
        BY <2>1, <3>1, CountKept DEF Counted, TypeOK, Outstanding
      <3> QED
        BY <1>3, <2>1, <3>2, <3>3
    <2>2. CASE pending' = PendingAfterFailure(p) /\ Return(p)
      BY <1>6, <1>7, <2>2 DEF publishAsync, PendingAfterFailure, Outstanding
    <2> QED
      BY <1>7, <2>1, <2>2 DEF publishAsync
  <1>8. CASE AckOrErr(p)
    <2>1. TypeOK' /\ Placed'
      BY <1>1, <1>8 DEF AckOrErr, TypeOK, Placed, Outstanding, lifeVars, stopVars
    <2>2. PendingExact'
      BY <1>8, CountKept DEF AckOrErr, Counted, TypeOK, Outstanding
    <2> QED
      BY <1>3, <1>8, <2>1, <2>2 DEF AckOrErr
  <1>9. CASE CallbackReturns(p)
    BY <1>6, <1>9 DEF CallbackReturns, DoneCycle, Outstanding
  <1>10. CASE sendSync(p)
    <2>1. pc[p] \notin Outstanding /\ pc'[p] \notin Outstanding /\ UNCHANGED pending
      BY <1>10 DEF sendSync, Return, TypeOK, Outstanding
    <2>2. TypeOK'
      BY <1>1, <1>10 DEF sendSync, Return, Found, Current, TypeOK, lifeVars, stopVars
    <2>3. Placed'
      BY <1>10 DEF sendSync, Return, TypeOK, Placed, Outstanding
    <2>4. PendingExact'
      <3>1. \A q \in Publishers : q # p => (pc'[q] = pc[q] /\ cyc'[q] = cyc[q])
        BY <1>10 DEF sendSync, Return, TypeOK
      <3> QED
        BY <2>1, <3>1, CountKept DEF Counted
    <2> QED
      BY <1>3, <2>1, <2>2, <2>3, <2>4
  <1> QED
    BY <1>4, <1>5, <1>7, <1>8, <1>9, <1>10 DEF PublishStep

\* The steps of a Shutdown call.
LEMMA StopSteps ==
    ASSUME NEW s \in Stoppers, IInv, Shutdown(s) \/ StopStep(s) \/ GiveUp(s)
    PROVE  IInv'
  <1> USE ProducerAssumption DEF IInv
  <1>1. UNCHANGED <<configs, cycle, dialing, pending, pubVars>>
    BY DEF Shutdown, StopStep, AwaitPending, ShutdownReturn, drain, GiveUp, lifeVars
  <1>2. Placed'
    BY <1>1 DEF Placed, pubVars
  <1>3. PendingExact'
    BY <1>1, CountKept DEF Counted, pubVars
  <1>4. CASE Shutdown(s)
    <2>1. TypeOK'
      BY <1>1, <1>4 DEF Shutdown, TypeOK, Stopping, pubVars
    <2>2. LifeOrder'
      BY <1>1, <1>4 DEF Shutdown, TypeOK, LifeOrder, Stopping
    <2>3. Drained'
      BY <1>1, <1>4 DEF Shutdown, TypeOK, Drained
    <2>4. DialingNow'
      BY <1>1, <1>4 DEF Shutdown, DialingNow
    <2>5. NoLeakedConn'
      BY <1>1, <1>4 DEF Shutdown, TypeOK, LifeOrder, NoLeakedConn, Stopping, Cycles
    <2> QED
      BY <1>2, <1>3, <2>1, <2>2, <2>3, <2>4, <2>5
  <1>5. stopPc[s] \in Stopping => stopCyc[s] \in Cycles
    BY DEF LifeOrder, TypeOK, Cycles
  <1>6. CASE AwaitPending(s)
    <2>1. TypeOK'
      BY <1>1, <1>6 DEF AwaitPending, TypeOK, Stopping, lifeVars, pubVars
    <2>2. LifeOrder'
      BY <1>1, <1>6 DEF AwaitPending, TypeOK, LifeOrder, Stopping, lifeVars
    <2>3. Drained'
      BY <1>1, <1>6 DEF AwaitPending, CallbacksDone, TypeOK, Drained
    <2>4. DialingNow' /\ NoLeakedConn'
      BY <1>1, <1>6 DEF AwaitPending, TypeOK, DialingNow, NoLeakedConn, Stopping, lifeVars
    <2> QED
      BY <1>2, <1>3, <2>1, <2>2, <2>3, <2>4
  <1>7. CASE ShutdownReturn(s)
    <2>1. TypeOK'
      BY <1>1, <1>7 DEF ShutdownReturn, TypeOK, Stopping, lifeVars, pubVars
    <2>2. LifeOrder'
      BY <1>1, <1>7 DEF ShutdownReturn, TypeOK, LifeOrder, Stopping, lifeVars
    <2>3. Drained'
      BY <1>1, <1>7 DEF ShutdownReturn, TypeOK, Drained
    <2>4. DialingNow'
      BY <1>1, <1>7 DEF ShutdownReturn, DialingNow, lifeVars
    <2>5. NoLeakedConn'
      BY <1>1, <1>7 DEF ShutdownReturn, TypeOK, NoLeakedConn, Stopping, lifeVars
    <2> QED
      BY <1>2, <1>3, <2>1, <2>2, <2>3, <2>4, <2>5
  \* drain and GiveUp close connections of the cycle s took, and nothing else.
  <1>8. ASSUME NEW r \in {"draining", "failing", "error"},
               stopPc[s] \in {"waiting", "draining", "failing"},
               r = "draining" => stopPc[s] = "draining",
               stopPc' = [stopPc EXCEPT ![s] = r], UNCHANGED <<lifeVars, stopCyc>>,
               TypeOK',
               \A g \in Cycles, t \in Topics :
                  conn'[g][t] = conn[g][t] \/ (g = stopCyc[s] /\ conn'[g][t] = "closed"),
               r = "error" => \A t \in Topics : conn'[stopCyc[s]][t] # "open"
        PROVE  IInv'
    <2>1. LifeOrder'
      BY <1>1, <1>8 DEF TypeOK, LifeOrder, Stopping, lifeVars
    <2>2. Drained'
      BY <1>1, <1>8 DEF TypeOK, Drained, LifeOrder, Cycles
    <2>3. DialingNow'
      BY <1>1, <1>8 DEF DialingNow, lifeVars
    <2>4. NoLeakedConn'
      BY <1>1, <1>8 DEF TypeOK, NoLeakedConn, Stopping, lifeVars
    <2> QED
      BY <1>2, <1>3, <1>8, <2>1, <2>2, <2>3, <2>4
  <1>9. ASSUME NEW t \in Topics, drain(s, t) PROVE IInv'
    <2>1. PICK r \in {stopPc[s], "failing"} : stopPc' = [stopPc EXCEPT ![s] = r]
      BY <1>9 DEF drain
    <2>2. stopCyc[s] \in Cycles /\ conn' = [conn EXCEPT ![stopCyc[s]][t] = "closed"]
      BY <1>5, <1>9 DEF drain, Stopping
    <2>3. TypeOK'
      BY <1>1, <1>9, <2>1, <2>2 DEF drain, TypeOK, Stopping, lifeVars, pubVars
    <2>4. \A g \in Cycles, u \in Topics :
             conn'[g][u] = conn[g][u] \/ (g = stopCyc[s] /\ conn'[g][u] = "closed")
      BY <2>2 DEF TypeOK
    <2>5. /\ stopPc[s] \in {"draining", "failing"} /\ r \in {"draining", "failing"}
          /\ r = "draining" => stopPc[s] = "draining"
          /\ UNCHANGED <<lifeVars, stopCyc>>
      BY <1>9, <2>1 DEF drain
    <2> QED
      BY <1>8, <2>1, <2>3, <2>4, <2>5
  <1>10. CASE GiveUp(s)
    <2>1. stopCyc[s] \in Cycles
      BY <1>5, <1>10 DEF GiveUp, Stopping
    <2>2. /\ conn' \in [Cycles -> [Topics -> {"none", "dialing", "open", "closed"}]]
          /\ \A g \in Cycles : g # stopCyc[s] => conn'[g] = conn[g]
          /\ \A t \in Topics : conn'[stopCyc[s]][t] =
                IF conn[stopCyc[s]][t] = "open" THEN "closed" ELSE conn[stopCyc[s]][t]
      BY <1>10, <2>1 DEF GiveUp, AllClosed, TypeOK
    <2>3. TypeOK'
      BY <1>1, <1>10, <2>2 DEF GiveUp, TypeOK, Stopping, lifeVars, pubVars
    <2> QED
      BY <1>8, <1>10, <2>1, <2>2, <2>3 DEF GiveUp
  <1> QED
    BY <1>4, <1>6, <1>7, <1>9, <1>10 DEF StopStep

\* IInv is an invariant of the producer.
THEOREM Invariance == Spec => []IInv
  <1>1. Init => IInv
    BY InitInv
  <1>2. IInv /\ [Next]_vars => IInv'
    <2> SUFFICES ASSUME IInv, [Next]_vars PROVE IInv'
      OBVIOUS
    <2>1. CASE UNCHANGED vars
      BY <2>1 DEF vars, lifeVars, pubVars, stopVars, IInv, TypeOK, LifeOrder, Placed, Drained,
                  DialingNow, PendingExact, NoLeakedConn
    <2>2. CASE Next
      BY <2>2, StartSteps, PublishSteps, StopSteps DEF Next
    <2> QED
      BY <2>1, <2>2
  <1> QED
    BY <1>1, <1>2, PTL DEF Spec

-----------------------------------------------------------------------------
(* The theorems.                                                           *)

\* Every variable stays in its type; no count of a cycle goes below zero.
THEOREM TypeCorrect == Spec => []TypeOK
  <1>1. IInv => TypeOK
    BY DEF IInv
  <1> QED
    BY <1>1, Invariance, PTL

\* pending of a cycle is the number of its publishes whose callback has not
\* returned, over any number of cycles.
THEOREM CountsExact == Spec => []PendingExact
  <1>1. IInv => PendingExact
    BY DEF IInv
  <1> QED
    BY <1>1, Invariance, PTL

\* No connection outlives its Start or its Shutdown.
THEOREM NothingLeaks == Spec => []NoLeakedConn
  <1>1. IInv => NoLeakedConn
    BY DEF IInv
  <1> QED
    BY <1>1, Invariance, PTL

\* A nil result of the Shutdown that took a cycle means that all its callbacks
\* have returned and its connections are closed.
THEOREM NilFlushed == Spec => []ShutdownNilIsFlushed
  <1>1. IInv => ShutdownNilIsFlushed
    <2> SUFFICES ASSUME IInv, NEW s \in Stoppers, stopPc[s] = "nil", stopCyc[s] # 0
                 PROVE  /\ \A p \in Publishers : pc[p] \in Outstanding => cyc[p] # stopCyc[s]
                        /\ \A t \in Topics : conn[stopCyc[s]][t] # "open"
      BY DEF ShutdownNilIsFlushed
    <2>1. stopCyc[s] \in Cycles
      BY ProducerAssumption DEF IInv, TypeOK, Cycles
    <2>2. pending[stopCyc[s]] = 0 /\ \A t \in Topics : conn[stopCyc[s]][t] # "open"
      BY DEF IInv, Drained
    <2> QED
      BY <2>1, <2>2, CountZero DEF IInv
  <1> QED
    BY <1>1, Invariance, PTL

\* pending.Add never runs on a WaitGroup that a Shutdown took.
THEOREM AddBeforeWait == Spec => NoAddDuringWait
  <1> DEFINE A == \A s \in Stoppers : stopPc[s] # "idle" /\ stopCyc[s] # 0 =>
                      pending'[stopCyc[s]] <= pending[stopCyc[s]]
  <1>1. IInv /\ [Next]_vars => [A]_vars
    <2> SUFFICES ASSUME IInv, Next, NEW s \in Stoppers, stopCyc[s] # 0
                 PROVE  pending'[stopCyc[s]] <= pending[stopCyc[s]]
      OBVIOUS
    <2>1. stopCyc[s] \in Cycles /\ stopCyc[s] # run /\ pending \in [Cycles -> Nat]
      BY ProducerAssumption DEF IInv, TypeOK, Cycles, LifeOrder
    <2>2. CASE UNCHANGED pending
      BY <2>1, <2>2
    <2>3. ASSUME NEW p \in Publishers, PublishStep(p) PROVE pending'[stopCyc[s]] <= pending[stopCyc[s]]
      <3>1. \/ UNCHANGED pending
            \/ run # 0 /\ pending' = [pending EXCEPT ![run] = @ + 1]
            \/ pc[p] \in Outstanding /\ pending' = [pending EXCEPT ![cyc[p]] = @ - 1]
        BY <2>3 DEF PublishStep, acquire, publishAsync, AckOrErr, CallbackReturns, sendSync,
                    PendingAfterFailure, DoneCycle, Found, Current, Outstanding
      <3> QED
        BY <2>1, <3>1
    <2> QED
      BY <2>2, <2>3 DEF Next, Register, Start, StartStep, StartEnds, dialProducer, Publish,
                        Shutdown, StopStep, AwaitPending, ShutdownReturn, drain, GiveUp
  <1> QED
    BY <1>1, Invariance, PTL DEF Spec, NoAddDuringWait

-----------------------------------------------------------------------------
(* The stream layout.  A subject is told from one that does not cover it   *)
(* by a literal that the wider one would have to match.                    *)

LEMMA SubjectShape ==
    ASSUME NEW s \in Subjects
    PROVE  /\ s \in Seq(Tokens \cup {"*", ">"})
           /\ Len(s) \in 1..(MaxTokens - 1)
           /\ \A i \in 1..(Len(s) - 1) : s[i] \in Tokens \cup {"*"}
           /\ s[Len(s)] \in Tokens \cup {"*", ">"}
  <1>1. ASSUME NEW p \in Plain
        PROVE  /\ p \in Seq(Tokens \cup {"*", ">"}) /\ Len(p) \in 0..(MaxTokens - 2)
               /\ \A i \in 1..Len(p) : p[i] \in Tokens \cup {"*"}
    <2>1. PICK k \in 0..(MaxTokens - 2) : p \in [1..k -> Tokens \cup {"*"}]
      BY DEF Plain
    <2>2. k \in Nat
      OBVIOUS
    <2> QED
      BY <2>1, <2>2
  <1>2. CASE s \in Plain /\ s # <<>>
    <2>1. Len(s) # 0
      BY <1>1, <1>2
    <2> QED
      BY <1>1, <1>2, <2>1, LayoutAssumption DEF LayoutAssumption
  <1>3. ASSUME NEW p \in Plain, s = Append(p, ">") PROVE
           /\ s \in Seq(Tokens \cup {"*", ">"})
           /\ Len(s) \in 1..(MaxTokens - 1)
           /\ \A i \in 1..(Len(s) - 1) : s[i] \in Tokens \cup {"*"}
           /\ s[Len(s)] \in Tokens \cup {"*", ">"}
    <2>1. Len(s) = Len(p) + 1 /\ s \in Seq(Tokens \cup {"*", ">"})
      BY <1>1, <1>3
    <2>2. s[Len(s)] = ">" /\ \A i \in 1..Len(p) : s[i] = p[i]
      BY <1>1, <1>3
    <2> QED
      BY <1>1, <2>1, <2>2, LayoutAssumption DEF LayoutAssumption
  <1> QED
    BY <1>2, <1>3 DEF Subjects

LEMMA LayoutSubjects ==
    /\ Layout[1] \in Subjects /\ Layout[2] \in Subjects /\ Layout[3] \in Subjects
  <1>1. /\ Layout[1] = <<Topic>> /\ Layout[2] = <<Topic, ">">>
        /\ Layout[3] = <<"schedules", Topic, ">">>
    BY DEF Layout, DataSubjects, scheduleWildcard
  <1>2. <<Topic>> \in Plain
    <2>1. <<Topic>> \in [1..1 -> Tokens \cup {"*"}] /\ 1 \in 0..(MaxTokens - 2)
      BY LayoutAssumption DEF LayoutAssumption
    <2> QED
      BY <2>1 DEF Plain
  <1>3. <<"schedules", Topic>> \in Plain
    <2>1. <<"schedules", Topic>> \in [1..2 -> Tokens \cup {"*"}] /\ 2 \in 0..(MaxTokens - 2)
      BY LayoutAssumption DEF LayoutAssumption
    <2> QED
      BY <2>1 DEF Plain
  <1>4. <<Topic>> # <<>>
    OBVIOUS
  <1>5. <<Topic, ">">> = Append(<<Topic>>, ">")
        /\ <<"schedules", Topic, ">">> = Append(<<"schedules", Topic>>, ">")
    OBVIOUS
  <1> QED
    BY <1>1, <1>2, <1>3, <1>4, <1>5 DEF Subjects

\* A > stands only at the end of a subject, so covers compares up to there.
LEMMA CoversByToken ==
    ASSUME NEW w \in Subjects, NEW n \in Subjects
    PROVE  covers(w, n) <=>
              IF w[Len(w)] = ">"
              THEN Len(w) <= Len(n) /\ \A j \in 1..(Len(w) - 1) : TokenCovers(w, n, j)
              ELSE Len(w) = Len(n) /\ \A j \in 1..Len(w) : TokenCovers(w, n, j)
  <1> DEFINE Tails == {i \in 1..Len(w) : w[i] = ">"}
             tail == CHOOSE i \in Tails : \A j \in Tails : i <= j
  <1>1. /\ Len(w) \in Nat /\ Len(w) >= 1
        /\ \A i \in 1..(Len(w) - 1) : w[i] # ">"
    BY SubjectShape, LayoutAssumption DEF LayoutAssumption
  <1>2. CASE w[Len(w)] = ">"
    <2>1. Tails = {Len(w)}
      BY <1>1, <1>2
    <2>2. tail = Len(w)
      <3> HIDE DEF Tails
      <3> QED
        BY <1>1, <2>1
    <2> QED
      BY <1>2, <2>1, <2>2 DEF covers, TailMatches
  <1>3. CASE w[Len(w)] # ">"
    <2>1. Tails = {}
      BY <1>1, <1>3
    <2> QED
      BY <1>3, <2>1 DEF covers
  <1> QED
    BY <1>2, <1>3

LEMMA LiteralShape ==
    ASSUME NEW l \in Literals
    PROVE  Len(l) \in 1..MaxTokens /\ \A i \in 1..Len(l) : l[i] \in Tokens
  <1>1. PICK k \in 1..MaxTokens : l \in [1..k -> Tokens]
    BY DEF Literals
  <1>2. k \in Nat
    BY LayoutAssumption DEF LayoutAssumption
  <1> QED
    BY <1>1, <1>2

LEMMA CoversIncludes ==
    ASSUME NEW w \in Subjects, NEW n \in Subjects, covers(w, n)
    PROVE  Matches[n] \subseteq Matches[w]
  <1> SUFFICES ASSUME NEW l \in Matches[n] PROVE l \in Matches[w]
    OBVIOUS
  <1>1. l \in Literals
    BY DEF Matches
  <1>2. Len(l) \in Nat /\ \A i \in 1..Len(l) : l[i] \in Tokens
    BY <1>1, LiteralShape
  <1>3. /\ Len(w) \in Nat /\ Len(w) >= 1 /\ Len(n) \in Nat /\ Len(n) >= 1
        /\ \A i \in 1..(Len(w) - 1) : w[i] # ">"
        /\ \A i \in 1..(Len(n) - 1) : n[i] # ">"
    BY SubjectShape, LayoutAssumption DEF LayoutAssumption
  <1>4. IF n[Len(n)] = ">"
        THEN Len(l) >= Len(n) /\ \A i \in 1..(Len(n) - 1) : n[i] \in {"*", l[i]}
        ELSE Len(l) = Len(n) /\ \A i \in 1..Len(n) : n[i] \in {"*", l[i]}
    BY DEF Matches
  <1>5. ASSUME NEW i \in 1..Len(w), TokenCovers(w, n, i) PROVE w[i] \in {"*", l[i]}
    <2>1. i \in 1..Len(n) /\ n[i] # ">" /\ (w[i] # "*" => w[i] = n[i])
      BY <1>3, <1>5 DEF TokenCovers
    <2>2. n[i] \in {"*", l[i]}
      BY <1>3, <1>4, <2>1
    <2> QED
      BY <2>1, <2>2
  <1>6. CASE w[Len(w)] = ">"
    <2>1. Len(w) <= Len(n) /\ \A j \in 1..(Len(w) - 1) : w[j] \in {"*", l[j]}
      BY <1>3, <1>5, <1>6, CoversByToken
    <2>2. Len(l) >= Len(w)
      BY <1>2, <1>3, <1>4, <2>1
    <2> QED
      BY <1>1, <1>6, <2>1, <2>2 DEF Matches
  <1>7. CASE w[Len(w)] # ">"
    <2>1. Len(w) = Len(n) /\ \A j \in 1..Len(w) : TokenCovers(w, n, j)
      BY <1>7, CoversByToken
    <2>2. n[Len(n)] # ">"
      BY <1>3, <2>1 DEF TokenCovers
    <2>3. \A j \in 1..Len(w) : w[j] \in {"*", l[j]}
      BY <1>5, <2>1
    <2> QED
      BY <1>1, <1>4, <1>7, <2>1, <2>2, <2>3 DEF Matches
  <1> QED
    BY <1>6, <1>7

\* A literal of k tokens that n matches and that differs from w where n leaves it open.
Told(w, n, k) ==
    [i \in 1..k |-> IF i <= Len(n) /\ n[i] \in Tokens THEN n[i]
                    ELSE CHOOSE t \in Tokens : i <= Len(w) => t # w[i]]

LEMMA ToldMatched ==
    ASSUME NEW w \in Subjects, NEW n \in Subjects, NEW k \in {Len(n), Len(n) + 1},
           k # Len(n) => n[Len(n)] = ">"
    PROVE  LET l == Told(w, n, k)
           IN  /\ l \in Matches[n] /\ Len(l) = k
               /\ \A i \in 1..Len(n) : n[i] \in Tokens => l[i] = n[i]
               /\ \A i \in 1..Len(n) : (n[i] \notin Tokens /\ i <= Len(w)) => l[i] # w[i]
  <1> DEFINE l == Told(w, n, k)
  <1>1. /\ Len(n) \in Nat /\ Len(n) >= 1 /\ Len(n) < MaxTokens
        /\ \A i \in 1..(Len(n) - 1) : n[i] \in Tokens \cup {"*"}
        /\ n[Len(n)] \in Tokens \cup {"*", ">"}
        /\ Len(w) \in Nat
    BY SubjectShape, LayoutAssumption DEF LayoutAssumption
  <1>2. k \in Nat /\ k \in 1..MaxTokens /\ k >= Len(n)
    BY <1>1, LayoutAssumption DEF LayoutAssumption
  <1>3. ASSUME NEW i \in 1..k
        PROVE  /\ l[i] \in Tokens
               /\ (i <= Len(n) /\ n[i] \in Tokens) => l[i] = n[i]
               /\ (~(i <= Len(n) /\ n[i] \in Tokens) /\ i <= Len(w)) => l[i] # w[i]
    <2>1. \E t \in Tokens : i <= Len(w) => t # w[i]
      <3>1. PICK t \in Tokens : t # w[i]
        <4>1. Topic \in Tokens /\ (w[i] \in Tokens => \E t \in Tokens : t # w[i])
          BY LayoutAssumption DEF LayoutAssumption
        <4> QED
          BY <4>1
      <3> QED
        BY <3>1
    <2>2. CASE i <= Len(n) /\ n[i] \in Tokens
      BY <2>2 DEF Told
    <2>3. CASE ~(i <= Len(n) /\ n[i] \in Tokens)
      <3> DEFINE c == CHOOSE t \in Tokens : i <= Len(w) => t # w[i]
      <3>1. c \in Tokens /\ (i <= Len(w) => c # w[i])
        BY <2>1
      <3>2. l[i] = c
        BY <2>3 DEF Told
      <3> HIDE DEF c, l
      <3> QED
        BY <2>3, <3>1, <3>2
    <2> QED
      BY <2>2, <2>3
  <1>4. l \in [1..k -> Tokens]
    <2>1. l = [i \in 1..k |-> l[i]]
      BY DEF Told
    <2> HIDE DEF l
    <2> QED
      BY <1>3, <2>1
  <1>5. l \in Literals
    <2> HIDE DEF l
    <2> QED
      BY <1>2, <1>4 DEF Literals
  <1>6. Len(l) = k
    <2> HIDE DEF l
    <2> QED
      BY <1>2, <1>4
  <1>7. \A i \in 1..Len(n) : i \in 1..k
    BY <1>1, <1>2
  <1>8. ASSUME NEW i \in 1..Len(n), n[i] # ">" PROVE n[i] \in {"*", l[i]}
    <2>1. n[i] \in Tokens \cup {"*"}
      BY <1>1, <1>8
    <2> HIDE DEF l
    <2> QED
      BY <1>1, <1>3, <1>7, <2>1
  <1>9. \A i \in 1..(Len(n) - 1) : n[i] # ">" /\ i \in 1..Len(n)
    BY <1>1, LayoutAssumption DEF LayoutAssumption
  <1>10. l \in Matches[n]
    <2>1. CASE n[Len(n)] = ">"
      <3>1. Len(l) >= Len(n)
        BY <1>2, <1>6
      <3>2. \A i \in 1..(Len(n) - 1) : n[i] \in {"*", l[i]}
        BY <1>8, <1>9
      <3> HIDE DEF l
      <3> QED
        BY <1>5, <2>1, <3>1, <3>2 DEF Matches
    <2>2. CASE n[Len(n)] # ">"
      <3>1. Len(l) = Len(n)
        BY <1>6, <2>2
      <3>2. \A i \in 1..Len(n) : n[i] # ">"
        BY <1>1, <1>9, <2>2
      <3>3. \A i \in 1..Len(n) : n[i] \in {"*", l[i]}
        BY <1>8, <3>2
      <3> HIDE DEF l
      <3> QED
        BY <1>5, <2>2, <3>1, <3>3 DEF Matches
    <2> QED
      BY <2>1, <2>2
  <1> HIDE DEF l
  <1>11. \A i \in 1..Len(n) : n[i] \in Tokens => l[i] = n[i]
    BY <1>1, <1>3, <1>7
  <1>12. \A i \in 1..Len(n) : (n[i] \notin Tokens /\ i <= Len(w)) => l[i] # w[i]
    BY <1>1, <1>3, <1>7
  <1> QED
    BY <1>6, <1>10, <1>11, <1>12 DEF l

\* Every literal that a subject matches has its length or is longer.
LEMMA MatchLength ==
    ASSUME NEW s \in Subjects, NEW l \in Matches[s]
    PROVE  /\ Len(l) >= Len(s) /\ (s[Len(s)] # ">" => Len(l) = Len(s))
           /\ \A i \in 1..Len(s) : s[i] # ">" => s[i] \in {"*", l[i]}
  <1>1. /\ Len(s) \in Nat /\ Len(s) >= 1
    BY SubjectShape, LayoutAssumption DEF LayoutAssumption
  <1>2. IF s[Len(s)] = ">"
        THEN Len(l) >= Len(s) /\ \A i \in 1..(Len(s) - 1) : s[i] \in {"*", l[i]}
        ELSE Len(l) = Len(s) /\ \A i \in 1..Len(s) : s[i] \in {"*", l[i]}
    BY DEF Matches
  <1>3. CASE s[Len(s)] = ">"
    <2>1. \A i \in 1..Len(s) : s[i] # ">" => i \in 1..(Len(s) - 1)
      BY <1>1, <1>3
    <2> QED
      BY <1>2, <1>3, <2>1
  <1>4. CASE s[Len(s)] # ">"
    BY <1>1, <1>2, <1>4
  <1> QED
    BY <1>3, <1>4

LEMMA IncludedCovers ==
    ASSUME NEW w \in Subjects, NEW n \in Subjects, Matches[n] \subseteq Matches[w]
    PROVE  covers(w, n)
  <1>1. /\ Len(w) \in Nat /\ Len(w) >= 1 /\ Len(n) \in Nat /\ Len(n) >= 1
        /\ \A i \in 1..(Len(w) - 1) : w[i] # ">"
        /\ \A i \in 1..(Len(n) - 1) : n[i] # ">"
    BY SubjectShape, LayoutAssumption DEF LayoutAssumption
  <1>2. PICK l \in Matches[n] :
           /\ Len(l) = Len(n)
           /\ \A i \in 1..Len(n) : n[i] \in Tokens => l[i] = n[i]
           /\ \A i \in 1..Len(n) : (n[i] \notin Tokens /\ i <= Len(w)) => l[i] # w[i]
    BY ToldMatched
  <1>3. /\ Len(n) >= Len(w) /\ (w[Len(w)] # ">" => Len(n) = Len(w))
        /\ \A i \in 1..Len(w) : w[i] # ">" => w[i] \in {"*", l[i]}
    BY <1>2, MatchLength
  <1>4. ASSUME NEW i \in 1..Len(w), w[i] # ">", n[i] # ">" PROVE TokenCovers(w, n, i)
    <2>1. i \in 1..Len(n) /\ i <= Len(w) /\ i <= Len(n)
      BY <1>1, <1>3
    <2>2. w[i] # "*" => w[i] = n[i]
      BY <1>2, <1>3, <1>4, <2>1
    <2> QED
      BY <1>4, <2>1, <2>2 DEF TokenCovers
  <1>5. CASE w[Len(w)] = ">"
    <2>1. \A j \in 1..(Len(w) - 1) : j \in 1..Len(w) /\ w[j] # ">" /\ j \in 1..(Len(n) - 1)
      BY <1>1, <1>3
    <2>2. \A j \in 1..(Len(w) - 1) : TokenCovers(w, n, j)
      BY <1>1, <1>4, <2>1
    <2> QED
      BY <1>1, <1>3, <1>5, <2>2, CoversByToken
  <1>6. CASE w[Len(w)] # ">"
    <2>1. n[Len(n)] # ">"
      <3>1. SUFFICES ASSUME n[Len(n)] = ">" PROVE FALSE
        OBVIOUS
      <3>2. PICK m \in Matches[n] : Len(m) = Len(n) + 1
        BY <3>1, ToldMatched
      <3>3. Len(m) = Len(w)
        BY <1>6, <3>2, MatchLength
      <3> QED
        BY <1>1, <1>3, <1>6, <3>2, <3>3
    <2>2. \A j \in 1..Len(w) : w[j] # ">" /\ n[j] # ">"
      BY <1>1, <1>3, <1>6, <2>1
    <2>3. \A j \in 1..Len(w) : TokenCovers(w, n, j)
      BY <1>4, <2>2
    <2> QED
      BY <1>3, <1>6, <2>3, CoversByToken
  <1> QED
    BY <1>5, <1>6

\* covers is inclusion of what two subjects match; every subject matches something.
LEMMA CoversExact ==
    ASSUME NEW w \in Subjects, NEW n \in Subjects
    PROVE  (covers(w, n) <=> Matches[n] \subseteq Matches[w]) /\ Matches[n] # {}
  <1>1. Matches[n] # {}
    BY ToldMatched
  <1> QED
    BY <1>1, CoversIncludes, IncludedCovers

\* A subject of a stream covers s.
Covered(subjects, s) == \E e \in subjects : covers(e, s)
\* No subject of a stream covers another.
Uncovered(subjects) == \A a, b \in subjects : a # b => ~covers(a, b)

LEMMA CoversTransitive ==
    ASSUME NEW a \in Subjects, NEW b \in Subjects, NEW c \in Subjects, covers(a, b), covers(b, c)
    PROVE  covers(a, c)
  <1>1. Matches[b] \subseteq Matches[a] /\ Matches[c] \subseteq Matches[b]
    BY CoversExact
  <1> QED
    BY <1>1, CoversExact

\* AddSubject: what was covered stays so, s is covered, and it is appended only
\* when it was not.
LEMMA AddSubjectKeeps ==
    ASSUME NEW p, p = [subjects |-> p.subjects, changed |-> p.changed],
           p.subjects \subseteq Subjects, p.changed \in BOOLEAN, NEW s \in Subjects
    PROVE  LET q == AddSubject(p, s)
           IN  /\ q = [subjects |-> q.subjects, changed |-> q.changed]
               /\ q.subjects \subseteq Subjects /\ q.changed \in BOOLEAN
               /\ MatchedBy(q.subjects) = MatchedBy(p.subjects) \cup Matches[s]
               /\ \A u \in Subjects : Covered(p.subjects, u) => Covered(q.subjects, u)
               /\ Covered(q.subjects, s)
               /\ Uncovered(p.subjects) => Uncovered(q.subjects)
               /\ IF Covered(p.subjects, s) THEN q = p ELSE q.changed
  <1> DEFINE q == AddSubject(p, s)
  <1>1. CASE Covered(p.subjects, s)
    <2>1. q = p
      BY <1>1 DEF AddSubject, Covered
    <2>2. PICK e \in p.subjects : covers(e, s)
      BY <1>1 DEF Covered
    <2>3. Matches[s] \subseteq Matches[e]
      BY <2>2, CoversExact
    <2>4. MatchedBy(p.subjects) = MatchedBy(p.subjects) \cup Matches[s]
      BY <2>2, <2>3 DEF MatchedBy
    <2> HIDE DEF q
    <2> QED
      BY <1>1, <2>1, <2>4 DEF q
  <1>2. CASE ~Covered(p.subjects, s)
    <2> DEFINE kept == {e \in p.subjects : ~covers(s, e)}
    <2>1. q = [subjects |-> kept \cup {s}, changed |-> TRUE]
      BY <1>2 DEF AddSubject, Covered
    <2>2. q.subjects = kept \cup {s} /\ q.changed = TRUE
      <3> HIDE DEF q, kept
      <3> QED
        BY <2>1
    <2>3. q.subjects \subseteq Subjects
      <3> HIDE DEF q
      <3> QED
        BY <2>2
    <2>4. covers(s, s)
      BY CoversExact
    <2>5. \A e \in p.subjects : e \notin kept => covers(s, e)
      OBVIOUS
    <2>6. MatchedBy(q.subjects) = MatchedBy(p.subjects) \cup Matches[s]
      <3>1. \A e \in p.subjects : e \notin kept => Matches[e] \subseteq Matches[s]
        BY <2>5, CoversExact
      <3>2. kept \subseteq p.subjects
        OBVIOUS
      <3> HIDE DEF q, kept
      <3> QED
        BY <2>2, <3>1, <3>2 DEF MatchedBy
    <2>7. ASSUME NEW u \in Subjects, Covered(p.subjects, u) PROVE Covered(q.subjects, u)
      <3>1. PICK e \in p.subjects : covers(e, u)
        BY <2>7 DEF Covered
      <3>2. CASE e \in kept
        <4> HIDE DEF q, kept
        <4> QED
          BY <2>2, <3>1, <3>2 DEF Covered
      <3>3. CASE e \notin kept
        <4>1. covers(s, u)
          BY <2>5, <3>1, <3>3, CoversTransitive
        <4> HIDE DEF q, kept
        <4> QED
          BY <2>2, <4>1 DEF Covered
      <3> QED
        BY <3>2, <3>3
    <2>8. Covered(q.subjects, s)
      <3> HIDE DEF q, kept
      <3> QED
        BY <2>2, <2>4 DEF Covered
    <2>9. ASSUME Uncovered(p.subjects) PROVE Uncovered(q.subjects)
      <3>1. \A e \in kept : e \in p.subjects /\ ~covers(s, e) /\ ~covers(e, s)
        BY <1>2 DEF Covered
      <3> HIDE DEF q, kept
      <3> QED
        BY <2>2, <2>9, <3>1 DEF Uncovered
    <2>10. q = [subjects |-> q.subjects, changed |-> q.changed] /\ q.changed \in BOOLEAN
      <3> HIDE DEF kept
      <3> QED
        BY <2>1
    <2> HIDE DEF q, kept
    <2> QED
      BY <1>2, <2>2, <2>3, <2>6, <2>7, <2>8, <2>9, <2>10 DEF q
  <1> QED
    BY <1>1, <1>2

\* The three subjects of the layout, one after the other.
LEMMA AddLayoutKeeps ==
    ASSUME NEW S, S \subseteq Subjects
    PROVE  LET q == AddLayout([subjects |-> S, changed |-> FALSE])
           IN  /\ q = [subjects |-> q.subjects, changed |-> q.changed]
               /\ q.subjects \subseteq Subjects /\ q.changed \in BOOLEAN
               /\ MatchedBy(q.subjects) = MatchedBy(S) \cup MatchedBy({Layout[1], Layout[2], Layout[3]})
               /\ \A i \in 1..3 : Covered(q.subjects, Layout[i])
               /\ Uncovered(S) => Uncovered(q.subjects)
               /\ q.changed <=> q.subjects # S
               /\ (\A i \in 1..3 : Covered(S, Layout[i])) => q.subjects = S
  <1> DEFINE p0 == [subjects |-> S, changed |-> FALSE]
             p1 == AddSubject(p0, Layout[1])
             p2 == AddSubject(p1, Layout[2])
             p3 == AddSubject(p2, Layout[3])
  <1> DEFINE Step(p, q, s) ==
               /\ q = [subjects |-> q.subjects, changed |-> q.changed]
               /\ q.subjects \subseteq Subjects /\ q.changed \in BOOLEAN
               /\ MatchedBy(q.subjects) = MatchedBy(p.subjects) \cup Matches[s]
               /\ \A u \in Subjects : Covered(p.subjects, u) => Covered(q.subjects, u)
               /\ Covered(q.subjects, s)
               /\ Uncovered(p.subjects) => Uncovered(q.subjects)
               /\ IF Covered(p.subjects, s) THEN q = p ELSE q.changed
  <1>0. /\ p0 = [subjects |-> p0.subjects, changed |-> p0.changed]
        /\ p0.subjects = S /\ p0.changed = FALSE
    OBVIOUS
  <1> HIDE DEF p0
  <1>1. Step(p0, p1, Layout[1])
    BY <1>0, LayoutSubjects, AddSubjectKeeps
  <1> HIDE DEF p1
  <1>2. Step(p1, p2, Layout[2])
    BY <1>1, LayoutSubjects, AddSubjectKeeps
  <1> HIDE DEF p2
  <1>3. Step(p2, p3, Layout[3])
    BY <1>2, LayoutSubjects, AddSubjectKeeps
  <1> HIDE DEF p3
  <1>4. AddLayout([subjects |-> S, changed |-> FALSE]) = p3
    BY DEF AddLayout, p0, p1, p2, p3
  <1>5. MatchedBy(p3.subjects) = MatchedBy(S) \cup MatchedBy({Layout[1], Layout[2], Layout[3]})
    <2>1. MatchedBy({Layout[1], Layout[2], Layout[3]}) = Matches[Layout[1]] \cup Matches[Layout[2]] \cup Matches[Layout[3]]
      BY DEF MatchedBy
    <2> QED
      BY <1>0, <1>1, <1>2, <1>3, <2>1
  <1>6. \A i \in 1..3 : Covered(p3.subjects, Layout[i])
    <2>1. Covered(p3.subjects, Layout[1]) /\ Covered(p3.subjects, Layout[2]) /\ Covered(p3.subjects, Layout[3])
      BY <1>1, <1>2, <1>3, LayoutSubjects
    <2> QED
      BY <2>1
  <1>7. Uncovered(S) => Uncovered(p3.subjects)
    BY <1>0, <1>1, <1>2, <1>3
  <1>8. (\A i \in 1..3 : Covered(S, Layout[i])) => p3 = p0
    <2>1. ASSUME \A i \in 1..3 : Covered(S, Layout[i]) PROVE p3 = p0
      <3>1. Covered(S, Layout[1]) /\ Covered(S, Layout[2]) /\ Covered(S, Layout[3])
        BY <2>1
      <3>2. p1 = p0
        BY <1>0, <1>1, <3>1
      <3>3. p2 = p1
        BY <1>0, <1>2, <3>1, <3>2
      <3> QED
        BY <1>0, <1>3, <3>1, <3>2, <3>3
    <2> QED
      BY <2>1
  <1>9. p3.changed => \E i \in 1..3 : ~Covered(S, Layout[i])
    BY <1>0, <1>8
  <1>10. (\E i \in 1..3 : ~Covered(S, Layout[i])) => p3.subjects # S
    BY <1>6
  <1>11. p3.subjects # S => p3.changed
    <2>1. ~p3.changed => p3 = p0
      <3>1. ~p3.changed => (p3 = p2 /\ ~p2.changed)
        BY <1>3
      <3>2. ~p2.changed => (p2 = p1 /\ ~p1.changed)
        BY <1>2
      <3>3. ~p1.changed => p1 = p0
        BY <1>1
      <3> QED
        BY <3>1, <3>2, <3>3
    <2> QED
      BY <1>0, <2>1
  <1> QED
    BY <1>0, <1>3, <1>4, <1>5, <1>6, <1>7, <1>8, <1>9, <1>10, <1>11

LEMMA PatchSound == PatchIsSound
  <1>1. \A w, n \in Subjects : covers(w, n) <=> Matches[n] \subseteq Matches[w]
    BY CoversExact
  <1>2. ASSUME NEW cfg \in StreamConfigs
        PROVE  LET p == PatchStream(cfg)
                   t == p.cfg.subjects
               IN  /\ MatchedBy(t) = MatchedBy(cfg.subjects) \cup MatchedBy({Layout[1], Layout[2], Layout[3]})
                   /\ PatchStream(p.cfg) = [cfg |-> p.cfg, changed |-> FALSE, failed |-> FALSE]
                   /\ ~p.changed <=> p.cfg = cfg
                   /\ \A a, b \in t : a # b => ~covers(a, b)
    <2> DEFINE S == cfg.subjects
               q == AddLayout([subjects |-> S, changed |-> FALSE])
               r == AddLayout([subjects |-> q.subjects, changed |-> FALSE])
               new == [subjects |-> q.subjects, schedules |-> TRUE, incompatible |-> FALSE]
    <2>1. /\ S \in Streams /\ cfg.schedules \in BOOLEAN
          /\ cfg = [subjects |-> S, schedules |-> cfg.schedules, incompatible |-> FALSE]
      BY DEF StreamConfigs
    <2>2. S \subseteq Subjects /\ Apart(S)
      BY <2>1, LayoutAssumption DEF LayoutAssumption
    <2>3. Uncovered(S)
      <3> SUFFICES ASSUME NEW a \in S, NEW b \in S, a # b, covers(a, b) PROVE FALSE
        BY DEF Uncovered
      <3>1. Matches[b] \subseteq Matches[a] /\ Matches[b] # {}
        BY <2>2, CoversExact
      <3> QED
        BY <2>2, <3>1 DEF Apart
    <2>4. /\ q.subjects \subseteq Subjects /\ q.changed \in BOOLEAN
          /\ MatchedBy(q.subjects) = MatchedBy(S) \cup MatchedBy({Layout[1], Layout[2], Layout[3]})
          /\ \A i \in 1..3 : Covered(q.subjects, Layout[i])
          /\ Uncovered(q.subjects)
          /\ q.changed <=> q.subjects # S
      BY <2>2, <2>3, AddLayoutKeeps
    <2>5. r.subjects = q.subjects /\ r.changed = FALSE
      <3> HIDE DEF q
      <3> QED
        BY <2>4, AddLayoutKeeps
    <2>6. PatchStream(cfg) = [cfg |-> new, changed |-> q.changed \/ ~cfg.schedules, failed |-> FALSE]
      <3>1. cfg.incompatible = FALSE
        BY <2>1
      <3> QED
        BY <3>1 DEF PatchStream
    <2>7. PatchStream(new) = [cfg |-> new, changed |-> FALSE, failed |-> FALSE]
      <3>1. new.subjects = q.subjects /\ new.schedules = TRUE /\ new.incompatible = FALSE
        OBVIOUS
      <3>2. PatchStream(new) = [cfg |-> [subjects |-> r.subjects, schedules |-> TRUE, incompatible |-> FALSE],
                                changed |-> r.changed \/ ~new.schedules, failed |-> FALSE]
        <4> HIDE DEF new, q
        <4> QED
          BY <3>1 DEF PatchStream
      <3> HIDE DEF q, r
      <3> QED
        BY <2>5, <3>1, <3>2
    <2>8. (q.changed \/ ~cfg.schedules) <=> new # cfg
      <3> HIDE DEF q, S
      <3> QED
        BY <2>1, <2>4
    <2>9. PatchStream(cfg).cfg = new /\ PatchStream(cfg).cfg.subjects = q.subjects
      <3> HIDE DEF q, S
      <3> QED
        BY <2>6
    <2>10. PatchStream(cfg).changed = (q.changed \/ ~cfg.schedules)
      <3> HIDE DEF q, S, new
      <3> QED
        BY <2>6
    <2> HIDE DEF q, new
    <2> QED
      BY <2>4, <2>7, <2>8, <2>9, <2>10 DEF Uncovered
  <1> QED
    BY <1>1, <1>2 DEF PatchIsSound

\* PatchStream and covers, for any topic, tokens, lengths and streams: covers is
\* inclusion of what two subjects match, and a patched stream matches exactly
\* what it matched and the layout, has no subject that another covers, says
\* whether it changed, and is not changed by a second patch.
THEOREM StreamsSound == StreamsPatched
  BY PatchSound DEF StreamsPatched
=============================================================================
