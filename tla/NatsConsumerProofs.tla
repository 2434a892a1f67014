------------------------- MODULE NatsConsumerProofs -------------------------
(***************************************************************************)
(* Proofs about NatsConsumer for any messages, slots and times.  Acks may  *)
(* get lost throughout, heartbeats except in the last part, which is about *)
(* messages that are not handled twice at once.                            *)
(***************************************************************************)
EXTENDS NatsConsumer, FiniteSetTheorems, TLAPS

\* A goroutine that holds a place has a message.
HasMsg == \A s \in Slots : pc[s] # "idle" => msg[s] \in Msgs

\* The server never counts more than MaxDeliver deliveries.
Deliveries ==
    \A m \in Msgs : /\ st[m] = "stored" => count[m] = 0
                    /\ st[m] = "ready" => count[m] < MaxDeliver

\* Past the close of the consume context nothing is queued, and after a nil
\* result every slot is idle.
ShutdownOrder ==
    /\ phase \in {"waiting", "nil"} => queue = <<>>
    /\ phase = "nil" => \A s \in Slots : pc[s] = "idle"

IInv == TypeOK /\ HasMsg /\ Deliveries /\ ShutdownOrder /\ NoBeatAfterSettle

LEMMA Numbers ==
    /\ HeartbeatEvery \in Nat /\ 0 \in 0..HeartbeatEvery /\ HeartbeatEvery \in 0..HeartbeatEvery
    /\ 0 \in 0..AckWait /\ AckWait \in 0..AckWait
    /\ 0 \in 0..HandlerTimeout /\ HandlerTimeout \in 0..HandlerTimeout
    /\ 0 \in 0..Grace /\ 0 \in 0..MaxDeliver
  BY ConsumerAssumption DEF ConsumerAssumption, HeartbeatEvery

\* Counting a timer down keeps it in its range.
LEMMA LessType == ASSUME NEW k \in Nat, NEW n \in 0..k PROVE Less(n) \in 0..k
  BY DEF Less

\* What the server makes of an ack, a nak or a term, or of the end of AckWait.
LEMMA AgainType ==
    ASSUME TypeOK, NEW m \in Msgs
    PROVE  /\ Again(m) \in {"ready", "exhausted"}
           /\ Again(m) = "ready" => count[m] < MaxDeliver
           /\ Again(m) = "exhausted" => count[m] = MaxDeliver
  BY ConsumerAssumption DEF ConsumerAssumption, TypeOK, Again

LEMMA AfterType ==
    ASSUME TypeOK, Deliveries, NEW m \in Msgs, NEW op \in {"ack", "nak", "term"}
    PROVE  /\ After(m, op) \in {"stored", "pending", "ready", "acked", "termed", "exhausted"}
           /\ After(m, op) = "stored" => st[m] = "stored"
           /\ After(m, op) = "ready" => count[m] < MaxDeliver
           /\ (After(m, op) = "exhausted" /\ st[m] # "exhausted") => count[m] = MaxDeliver
           /\ (After(m, op) = "acked" /\ st[m] # "acked") => op = "ack"
           /\ (After(m, op) = "termed" /\ st[m] # "termed") => op = "term"
  BY AgainType DEF TypeOK, Deliveries, After

\* settle changes the state of its message only, as After says.
LEMMA SettleKeeps ==
    ASSUME TypeOK, Deliveries, NEW m \in Msgs, NEW op \in {"ack", "nak", "term"},
           settle(m, op), UNCHANGED count
    PROVE  /\ st' \in [Msgs -> {"stored", "pending", "ready", "acked", "termed", "exhausted"}]
           /\ Deliveries'
  <1>1. CASE UNCHANGED st
    BY <1>1 DEF TypeOK, Deliveries
  <1>2. CASE st' = [st EXCEPT ![m] = After(m, op)]
    BY <1>2, AfterType DEF TypeOK, Deliveries
  <1> QED
    BY <1>1, <1>2 DEF settle

\* A goroutine that ends leaves its slot as it was at first.
LEMMA FreeKeeps ==
    ASSUME TypeOK, HasMsg, ShutdownOrder, NoBeatAfterSettle, NEW s \in Slots, Free(s),
           UNCHANGED <<queue, phase>>, beat[s] = "off"
    PROVE  /\ pc' \in [Slots -> {"idle", "taken", "running", "stopping"}]
           /\ msg' \in [Slots -> Msgs \cup {NoMsg}]
           /\ res' \in [Slots -> {"nil", "noRetry", "failed"}]
           /\ left' \in [Slots -> 0..HandlerTimeout]
           /\ over' \in [Slots -> 0..Grace]
           /\ beat' \in [Slots -> {"off", "on", "sending"}]
           /\ hb' \in [Slots -> 0..HeartbeatEvery]
           /\ HasMsg' /\ ShutdownOrder' /\ NoBeatAfterSettle'
  <1> USE DEF Free, SlotAfter
  <1>1. /\ pc' \in [Slots -> {"idle", "taken", "running", "stopping"}]
        /\ msg' \in [Slots -> Msgs \cup {NoMsg}]
        /\ res' \in [Slots -> {"nil", "noRetry", "failed"}]
        /\ beat' \in [Slots -> {"off", "on", "sending"}]
    BY DEF TypeOK
  <1>2. /\ left' \in [Slots -> 0..HandlerTimeout]
        /\ over' \in [Slots -> 0..Grace]
        /\ hb' \in [Slots -> 0..HeartbeatEvery]
    BY Numbers DEF TypeOK
  <1>3. HasMsg'
    BY DEF TypeOK, HasMsg
  <1>4. ShutdownOrder'
    BY DEF TypeOK, ShutdownOrder
  <1>5. NoBeatAfterSettle'
    BY DEF TypeOK, NoBeatAfterSettle, Busy
  <1> QED
    BY <1>1, <1>2, <1>3, <1>4, <1>5

-----------------------------------------------------------------------------
(* The invariant.                                                          *)

LEMMA InitInv == Init => IInv
  <1> SUFFICES ASSUME Init PROVE IInv
    OBVIOUS
  <1>1. TypeOK
    BY Numbers DEF Init, TypeOK
  <1>2. HasMsg /\ Deliveries /\ ShutdownOrder /\ NoBeatAfterSettle
    BY DEF Init, HasMsg, Deliveries, ShutdownOrder, NoBeatAfterSettle
  <1> QED
    BY <1>1, <1>2 DEF IInv

LEMMA DeliverInv == ASSUME IInv, NEW m \in Msgs, Deliver(m) PROVE IInv'
  <1> USE DEF IInv, Deliver, slotVars
  <1>1. count[m] \in 0..MaxDeliver /\ count[m] < MaxDeliver
    BY ConsumerAssumption DEF ConsumerAssumption, TypeOK, Deliveries
  <1>2. TypeOK'
    BY <1>1, Numbers, ConsumerAssumption DEF ConsumerAssumption, TypeOK
  <1>3. Deliveries'
    BY DEF TypeOK, Deliveries
  <1>4. HasMsg' /\ NoBeatAfterSettle'
    BY DEF HasMsg, NoBeatAfterSettle, Busy
  <1>5. ShutdownOrder'
    BY DEF ShutdownOrder
  <1> QED
    BY <1>2, <1>3, <1>4, <1>5

LEMMA DispatchInv == ASSUME IInv, NEW s \in Slots, Dispatch(s) PROVE IInv'
  <1> USE DEF IInv, Dispatch, serverVars
  <1>1. Head(queue) \in Msgs /\ Tail(queue) \in Seq(Msgs)
    BY DEF TypeOK
  <1>2. TypeOK'
    BY <1>1 DEF TypeOK
  <1>3. HasMsg'
    BY <1>1 DEF TypeOK, HasMsg
  <1>4. Deliveries'
    BY DEF Deliveries
  <1>5. ShutdownOrder'
    BY DEF ShutdownOrder
  <1>6. NoBeatAfterSettle'
    BY DEF TypeOK, NoBeatAfterSettle, Busy
  <1> QED
    BY <1>2, <1>3, <1>4, <1>5, <1>6

LEMMA HandleMsgInv == ASSUME IInv, NEW s \in Slots, HandleMsg(s) PROVE IInv'
  <1> USE DEF IInv
  <1>1. pc[s] = "taken" /\ msg[s] \in Msgs /\ beat[s] = "off"
    BY DEF HandleMsg, HasMsg, NoBeatAfterSettle, Busy, TypeOK
  <1>2. CASE settle(msg[s], "nak") /\ Free(s) /\ UNCHANGED <<wait, count, queue, phase>>
    <2>1. /\ st' \in [Msgs -> {"stored", "pending", "ready", "acked", "termed", "exhausted"}]
          /\ Deliveries'
      BY <1>1, <1>2, SettleKeeps
    <2> QED
      BY <1>1, <1>2, <2>1, FreeKeeps DEF TypeOK
  <1>3. CASE /\ pc' = [pc EXCEPT ![s] = "running"]
             /\ left' = [left EXCEPT ![s] = HandlerTimeout]
             /\ over' = [over EXCEPT ![s] = 0]
             /\ beat' = [beat EXCEPT ![s] = "on"]
             /\ hb' = [hb EXCEPT ![s] = HeartbeatEvery]
             /\ UNCHANGED <<st, msg, res>>
             /\ UNCHANGED <<wait, count, queue, phase>>
    <2>1. TypeOK'
      BY <1>3, Numbers DEF TypeOK
    <2>2. HasMsg'
      BY <1>1, <1>3 DEF TypeOK, HasMsg
    <2>3. Deliveries'
      BY <1>3 DEF Deliveries
    <2>4. ShutdownOrder'
      BY <1>1, <1>3 DEF TypeOK, ShutdownOrder
    <2>5. NoBeatAfterSettle'
      BY <1>3 DEF TypeOK, NoBeatAfterSettle, Busy
    <2> QED
      BY <2>1, <2>2, <2>3, <2>4, <2>5
  <1> QED
    BY <1>2, <1>3 DEF HandleMsg

LEMMA SettleInv == ASSUME IInv, NEW s \in Slots, Settle(s) PROVE IInv'
  <1> USE DEF IInv, Settle
  <1>1. msg[s] \in Msgs /\ beat[s] = "off" /\ settleOp(res[s]) \in {"ack", "nak", "term"}
    BY DEF HasMsg, TypeOK, BeatStopped, settleOp
  <1>2. /\ st' \in [Msgs -> {"stored", "pending", "ready", "acked", "termed", "exhausted"}]
        /\ Deliveries'
    BY <1>1, SettleKeeps
  <1> QED
    BY <1>1, <1>2, FreeKeeps DEF TypeOK

LEMMA HandlerReturnsInv == ASSUME IInv, NEW s \in Slots, HandlerReturns(s) PROVE IInv'
  <1> USE DEF IInv, HandlerReturns, serverVars
  <1>1. TypeOK'
    BY DEF TypeOK
  <1>2. HasMsg' /\ Deliveries'
    BY DEF TypeOK, HasMsg, Deliveries
  <1>3. ShutdownOrder'
    BY DEF TypeOK, ShutdownOrder
  <1>4. NoBeatAfterSettle'
    BY DEF TypeOK, NoBeatAfterSettle, Busy
  <1> QED
    BY <1>1, <1>2, <1>3, <1>4

LEMMA BeatInv == ASSUME IInv, NEW s \in Slots, BeatStep(s) PROVE IInv'
  <1> USE DEF IInv
  <1>1. beat[s] # "off" /\ Busy(s) /\ msg[s] \in Msgs
    BY DEF BeatStep, BeatFires, BeatEnds, InProgress, NoBeatAfterSettle, HasMsg, Busy
  <1>2. UNCHANGED <<st, count, queue, pc, msg, res, left, over, phase>>
    BY DEF BeatStep, BeatFires, BeatEnds, InProgress, serverVars
  <1>3. HasMsg' /\ Deliveries' /\ ShutdownOrder'
    BY <1>2 DEF HasMsg, Deliveries, ShutdownOrder
  <1>4. PICK b \in {"off", "on", "sending"} : beat' = [beat EXCEPT ![s] = b]
    BY DEF BeatStep, BeatFires, BeatEnds, InProgress
  <1>5. NoBeatAfterSettle'
    BY <1>1, <1>2, <1>4 DEF TypeOK, NoBeatAfterSettle, Busy
  <1>6. hb' \in [Slots -> 0..HeartbeatEvery]
    BY Numbers DEF BeatStep, BeatFires, BeatEnds, InProgress, TypeOK
  <1>7. wait' \in [Msgs -> 0..AckWait]
    BY <1>1, Numbers DEF BeatStep, BeatFires, BeatEnds, InProgress, TypeOK, serverVars
  <1>8. TypeOK'
    BY <1>2, <1>4, <1>6, <1>7 DEF TypeOK
  <1> QED
    BY <1>3, <1>5, <1>8

LEMMA ShutdownInv == ASSUME IInv, Shutdown \/ Quiesce \/ GiveUp PROVE IInv'
  <1> USE DEF IInv, Shutdown, Quiesce, GiveUp, ConsumeClosed, serverVars, slotVars
  <1>1. TypeOK'
    BY DEF TypeOK
  <1>2. HasMsg' /\ Deliveries'
    BY DEF HasMsg, Deliveries
  <1>3. ShutdownOrder'
    BY DEF ShutdownOrder
  <1>4. NoBeatAfterSettle'
    BY DEF NoBeatAfterSettle, Busy
  <1> QED
    BY <1>1, <1>2, <1>3, <1>4

LEMMA TickInv == ASSUME IInv, Tick PROVE IInv'
  <1> USE DEF IInv, Tick
  <1>1. left' \in [Slots -> 0..HandlerTimeout]
    BY LessType, ConsumerAssumption DEF ConsumerAssumption, TypeOK
  <1>2. hb' \in [Slots -> 0..HeartbeatEvery]
    BY LessType, Numbers DEF TypeOK
  <1>3. wait' \in [Msgs -> 0..AckWait]
    BY LessType, ConsumerAssumption DEF ConsumerAssumption, TypeOK
  <1>4. \A s \in Slots : (pc[s] = "running" /\ ctxEnded(s)) => over[s] # Grace
    BY DEF Urgent
  <1>5. over' \in [Slots -> 0..Grace]
    BY <1>4, ConsumerAssumption DEF ConsumerAssumption, TypeOK
  <1>6. st' \in [Msgs -> {"stored", "pending", "ready", "acked", "termed", "exhausted"}]
    BY AgainType DEF TypeOK
  <1>7. TypeOK'
    BY <1>1, <1>2, <1>3, <1>5, <1>6 DEF TypeOK
  <1>8. Deliveries'
    BY AgainType DEF Deliveries
  <1>9. HasMsg' /\ ShutdownOrder' /\ NoBeatAfterSettle'
    BY DEF HasMsg, ShutdownOrder, NoBeatAfterSettle, Busy
  <1> QED
    BY <1>7, <1>8, <1>9

LEMMA StutterInv == ASSUME IInv, UNCHANGED vars PROVE IInv'
  <1> USE DEF IInv, vars, serverVars, slotVars
  <1>1. TypeOK'
    BY DEF TypeOK
  <1>2. HasMsg' /\ Deliveries' /\ ShutdownOrder'
    BY DEF HasMsg, Deliveries, ShutdownOrder
  <1>3. NoBeatAfterSettle'
    BY DEF NoBeatAfterSettle, Busy
  <1> QED
    BY <1>1, <1>2, <1>3

LEMMA NextInv == ASSUME IInv, [Next]_vars PROVE IInv'
  BY DeliverInv, DispatchInv, HandleMsgInv, SettleInv, HandlerReturnsInv, BeatInv,
     ShutdownInv, TickInv, StutterInv DEF Next, SlotStep

-----------------------------------------------------------------------------
(* The theorems.                                                           *)

\* The inductive invariant holds in every reachable state of a consumer.
THEOREM Invariance == Spec => []IInv
  BY InitInv, NextInv, PTL DEF Spec

\* The consumer's state is well typed: a message is delivered at most
\* MaxDeliver times and a handler never runs longer than its grace.
THEOREM TypeCorrect == Spec => []TypeOK
  <1>1. IInv => TypeOK
    BY DEF IInv
  <1> QED
    BY <1>1, Invariance, PTL

\* startHeartbeat: no heartbeat is under way once its message is settled.
THEOREM BeatStops == Spec => []NoBeatAfterSettle
  <1>1. IInv => NoBeatAfterSettle
    BY DEF IInv
  <1> QED
    BY <1>1, Invariance, PTL

\* shutdown: a nil result means that no handler runs and none can start.
THEOREM NilQuiet == Spec => []ShutdownNilIsQuiet
  <1>1. IInv => ShutdownNilIsQuiet
    BY DEF IInv, TypeOK, ShutdownOrder, NoBeatAfterSettle, Busy, ShutdownNilIsQuiet
  <1> QED
    BY <1>1, Invariance, PTL

\* A message leaves the server's hands only as settleOutcome decides.
LeavesWell(m) ==
    (st'[m] # st[m]) =>
        /\ st'[m] = "acked" => (\E s \in Slots : msg[s] = m /\ Busy(s) /\ res[s] = "nil")
        /\ st'[m] = "termed" => (\E s \in Slots : msg[s] = m /\ Busy(s) /\ res[s] = "noRetry")
        /\ st'[m] = "exhausted" => count[m] = MaxDeliver

LEMMA StepLeavesWell == ASSUME IInv, [Next]_vars, NEW m \in Msgs PROVE LeavesWell(m)
  <1> USE DEF IInv
  <1>1. CASE UNCHANGED st
    BY <1>1 DEF LeavesWell
  <1>2. ASSUME NEW n \in Msgs, Deliver(n) PROVE LeavesWell(m)
    BY <1>2 DEF Deliver, LeavesWell, TypeOK
  <1>3. ASSUME NEW s \in Slots, HandleMsg(s) PROVE LeavesWell(m)
    <2>1. msg[s] \in Msgs
      BY <1>3 DEF HandleMsg, HasMsg
    <2>2. CASE UNCHANGED st
      BY <2>2 DEF LeavesWell
    <2>3. CASE st' = [st EXCEPT ![msg[s]] = After(msg[s], "nak")]
      BY <2>1, <2>3, AfterType DEF TypeOK, LeavesWell
    <2> QED
      BY <1>3, <2>2, <2>3 DEF HandleMsg, settle
  <1>4. ASSUME NEW s \in Slots, Settle(s) PROVE LeavesWell(m)
    <2> DEFINE op == settleOp(res[s])
    <2>1. msg[s] \in Msgs /\ Busy(s)
      BY <1>4 DEF Settle, HasMsg, Busy
    <2>2. /\ op \in {"ack", "nak", "term"}
          /\ op = "ack" => res[s] = "nil"
          /\ op = "term" => res[s] = "noRetry"
      BY DEF TypeOK, settleOp
    <2> HIDE DEF op
    <2>3. CASE UNCHANGED st
      BY <2>3 DEF LeavesWell
    <2>4. CASE st' = [st EXCEPT ![msg[s]] = After(msg[s], op)]
      BY <2>1, <2>2, <2>4, AfterType DEF TypeOK, LeavesWell
    <2> QED
      BY <1>4, <2>3, <2>4 DEF Settle, settle, op
  <1>5. CASE Tick
    BY <1>5, AgainType DEF Tick, TypeOK, LeavesWell
  <1>6. CASE \/ \E s \in Slots : Dispatch(s) \/ BeatStep(s) \/ HandlerReturns(s)
             \/ Shutdown \/ Quiesce \/ GiveUp \/ UNCHANGED vars
    <2>1. UNCHANGED st
      BY <1>6 DEF Dispatch, BeatStep, BeatFires, BeatEnds, InProgress, HandlerReturns,
                  Shutdown, Quiesce, GiveUp, vars, serverVars
    <2> QED
      BY <1>1, <2>1
  <1> QED
    BY <1>2, <1>3, <1>4, <1>5, <1>6 DEF Next, SlotStep

\* settleOutcome: no message is lost, whatever acks and heartbeats get lost.
THEOREM NothingLost == Spec => NotLost
  <1>1. ASSUME IInv, [Next]_vars PROVE \A m \in Msgs : LeavesWell(m)
    BY <1>1, StepLeavesWell
  <1>2. (IInv /\ [Next]_vars) =>
           [\A m \in Msgs : (st'[m] # st[m]) =>
              /\ st'[m] = "acked" => (\E s \in Slots : msg[s] = m /\ Busy(s) /\ res[s] = "nil")
              /\ st'[m] = "termed" => (\E s \in Slots : msg[s] = m /\ Busy(s) /\ res[s] = "noRetry")
              /\ st'[m] = "exhausted" => count[m] = MaxDeliver]_vars
    BY <1>1 DEF LeavesWell
  <1> QED
    BY <1>2, Invariance, PTL DEF Spec, NotLost

-----------------------------------------------------------------------------
(* No message is handled twice at once.                                    *)

\* What it takes: heartbeats get through, and a handler returns early enough
\* after the end of its context that the last of them still covers it.
Timely == ~BeatsLost /\ Grace + HeartbeatEvery < AckWait

\* A pulled message that nobody has looked at was just delivered.
Fresh(m) == st[m] = "pending" /\ wait[m] = AckWait
WaitingFresh ==
    /\ \A i \in 1..Len(queue) : Fresh(queue[i])
    /\ \A s \in Slots : pc[s] = "taken" => Fresh(msg[s])

\* What is left of AckWait covers the time until the next heartbeat, or what is
\* left of the grace.
TicksToBeat(s) == IF beat[s] = "on" /\ ~ctxEnded(s) THEN hb[s] ELSE 0
Covered(s) ==
    /\ st[msg[s]] = "pending"
    /\ wait[msg[s]] >= AckWait - HeartbeatEvery - over[s] + TicksToBeat(s)
BusyCovered ==
    \A s \in Slots : /\ Busy(s) => Covered(s)
                     /\ (pc[s] = "running" /\ ~ctxEnded(s)) => beat[s] # "off"

\* The consumer has at most one copy of a message.
OneCopy ==
    /\ \A i, j \in 1..Len(queue) : i # j => queue[i] # queue[j]
    /\ \A s \in Slots, i \in 1..Len(queue) : pc[s] # "idle" => msg[s] # queue[i]
    /\ \A s, t \in Slots : (s # t /\ pc[s] # "idle" /\ pc[t] # "idle") => msg[s] # msg[t]

\* MaxAckPending: no more messages are out than there are slots.
FewOut == Cardinality(AckPending) <= MaxConcurrent

CInv == WaitingFresh /\ BusyCovered /\ OneCopy /\ FewOut

LEMMA Times ==
    /\ AckWait \in Nat /\ HeartbeatEvery \in Nat /\ Grace \in Nat /\ MaxConcurrent \in Nat
    /\ IsFiniteSet(Msgs) /\ IsFiniteSet(Slots)
  BY ConsumerAssumption, FS_CardinalityType DEF ConsumerAssumption, HeartbeatEvery, MaxConcurrent

LEMMA OutFinite == IsFiniteSet(AckPending) /\ Cardinality(AckPending) \in Nat
  <1>1. AckPending \subseteq Msgs
    BY DEF AckPending
  <1> QED
    BY <1>1, Times, FS_Subset, FS_CardinalityType

LEMMA OutShrinks == ASSUME FewOut, AckPending' \subseteq AckPending PROVE FewOut'
  <1>1. Cardinality(AckPending') <= Cardinality(AckPending) /\ Cardinality(AckPending') \in Nat
    BY OutFinite, FS_Subset, FS_CardinalityType
  <1> QED
    BY <1>1, OutFinite, Times DEF FewOut

\* Every message the consumer has is out.
LEMMA CopiesPending ==
    ASSUME IInv, CInv
    PROVE  /\ \A i \in 1..Len(queue) : queue[i] \in Msgs /\ st[queue[i]] = "pending"
           /\ \A s \in Slots : pc[s] # "idle" => msg[s] \in Msgs /\ st[msg[s]] = "pending"
  <1>1. queue \in Seq(Msgs) /\ pc \in [Slots -> {"idle", "taken", "running", "stopping"}]
    BY DEF IInv, TypeOK
  <1>2. \A i \in 1..Len(queue) : queue[i] \in Msgs /\ st[queue[i]] = "pending"
    BY <1>1 DEF CInv, WaitingFresh, Fresh
  <1>3. \A s \in Slots : pc[s] # "idle" => msg[s] \in Msgs
    BY DEF IInv, HasMsg
  <1>4. \A s \in Slots : pc[s] # "idle" => st[msg[s]] = "pending"
    BY <1>1 DEF CInv, WaitingFresh, Fresh, BusyCovered, Covered, Busy
  <1> QED
    BY <1>2, <1>3, <1>4

\* The callback never waits for a slot: were they all taken, with one more
\* message in the queue, more messages than MaxAckPending would be out.
LEMMA QueueHasSlot ==
    ASSUME IInv, CInv, queue # <<>> PROVE \E s \in Slots : pc[s] = "idle"
  <1> SUFFICES ASSUME \A s \in Slots : pc[s] # "idle" PROVE FALSE
    OBVIOUS
  <1> DEFINE first == queue[1]
             T == AckPending \ {first}
  <1>1. queue \in Seq(Msgs) /\ msg \in [Slots -> Msgs \cup {NoMsg}]
    BY DEF IInv, TypeOK
  <1>2. 1 \in 1..Len(queue)
    BY <1>1
  <1>3. first \in AckPending
    BY <1>2, CopiesPending DEF AckPending
  <1>4. \A s \in Slots : msg[s] \in T
    BY <1>2, CopiesPending DEF AckPending, CInv, OneCopy
  <1>5. \A s, t \in Slots : msg[s] = msg[t] => s = t
    BY DEF CInv, OneCopy
  <1> HIDE DEF first, T
  <1>6. msg \in Injection(Slots, T)
    <2>1. msg \in [Slots -> T]
      BY <1>1, <1>4
    <2>2. IsInjective(msg)
      BY <1>1, <1>5 DEF IsInjective
    <2> QED
      BY <2>1, <2>2 DEF Injection
  <1>7. IsFiniteSet(T) /\ Cardinality(T) = Cardinality(AckPending) - 1
    BY <1>3, OutFinite, FS_RemoveElement DEF T
  <1>8. Cardinality(Slots) <= Cardinality(T)
    BY <1>6, <1>7, FS_Injection
  <1> QED
    BY <1>7, <1>8, OutFinite, Times DEF CInv, FewOut, MaxConcurrent

\* Another slot is not disturbed by what happens to its neighbour.
SlotSame(t) ==
    /\ pc'[t] = pc[t] /\ msg'[t] = msg[t] /\ left'[t] = left[t] /\ over'[t] = over[t]
    /\ beat'[t] = beat[t] /\ hb'[t] = hb[t]

LEMMA InitC == Init => CInv
  <1> SUFFICES ASSUME Init PROVE CInv
    OBVIOUS
  <1>1. AckPending = {}
    BY DEF Init, AckPending
  <1>2. FewOut
    BY <1>1, FS_EmptySet, Times DEF FewOut
  <1>3. WaitingFresh /\ BusyCovered /\ OneCopy
    BY DEF Init, WaitingFresh, BusyCovered, Busy, OneCopy
  <1> QED
    BY <1>2, <1>3 DEF CInv

\* Deliver: the message was stored or ready, so the consumer has no copy of it.
LEMMA DeliverC == ASSUME IInv, CInv, NEW m \in Msgs, Deliver(m) PROVE CInv'
  <1>0. /\ st \in [Msgs -> {"stored", "pending", "ready", "acked", "termed", "exhausted"}]
        /\ wait \in [Msgs -> 0..AckWait] /\ queue \in Seq(Msgs)
    BY DEF IInv, TypeOK
  <1>1. /\ st[m] # "pending" /\ st' = [st EXCEPT ![m] = "pending"] /\ wait' = [wait EXCEPT ![m] = AckWait]
        /\ queue' = Append(queue, m) /\ UNCHANGED <<slotVars, phase>>
    BY DEF Deliver
  <1>2. /\ \A i \in 1..Len(queue) : queue[i] # m
        /\ \A s \in Slots : pc[s] # "idle" => msg[s] # m
    BY <1>1, CopiesPending
  <1>3. \A k \in Msgs : k # m => st'[k] = st[k] /\ wait'[k] = wait[k]
    BY <1>0, <1>1
  <1>4. \A i \in 1..Len(queue) : st'[queue[i]] = "pending" /\ wait'[queue[i]] = AckWait
    BY <1>2, <1>3, CopiesPending DEF CInv, WaitingFresh, Fresh
  <1>5. \A s \in Slots : pc[s] # "idle" => st'[msg[s]] = st[msg[s]] /\ wait'[msg[s]] = wait[msg[s]]
    BY <1>2, <1>3, CopiesPending
  <1>6. /\ Len(queue) \in Nat /\ Len(queue') = Len(queue) + 1 /\ queue'[Len(queue) + 1] = m
        /\ \A i \in 1..Len(queue) : queue'[i] = queue[i]
    BY <1>0, <1>1
  <1>7. Fresh(m)'
    BY <1>0, <1>1 DEF Fresh
  <1>8. WaitingFresh'
    <2>1. \A i \in 1..Len(queue') : i \in 1..Len(queue) \/ i = Len(queue) + 1
      BY <1>6
    <2>2. \A i \in 1..Len(queue') : st'[queue'[i]] = "pending" /\ wait'[queue'[i]] = AckWait
      BY <1>6, <1>7, <1>4, <2>1 DEF Fresh
    <2>3. \A s \in Slots : pc[s] = "taken" => st'[msg[s]] = "pending" /\ wait'[msg[s]] = AckWait
      BY <1>5 DEF CInv, WaitingFresh, Fresh
    <2> QED
      BY <1>1, <2>2, <2>3 DEF WaitingFresh, Fresh, slotVars
  <1>9. BusyCovered'
    BY <1>1, <1>5 DEF CInv, BusyCovered, Covered, TicksToBeat, Busy, ctxEnded, canceled, slotVars
  <1>10. OneCopy'
    <2>1. \A i \in 1..Len(queue') : i \in 1..Len(queue) \/ i = Len(queue) + 1
      BY <1>6
    <2>2. \A i, j \in 1..Len(queue') : i # j => queue'[i] # queue'[j]
      BY <1>2, <1>6, <2>1 DEF CInv, OneCopy
    <2>3. \A s \in Slots, i \in 1..Len(queue') : pc[s] # "idle" => msg[s] # queue'[i]
      BY <1>2, <1>6, <2>1 DEF CInv, OneCopy
    <2> QED
      BY <1>1, <2>2, <2>3 DEF CInv, OneCopy, slotVars
  <1>11. FewOut'
    <2>1. CASE st[m] = "ready"
      <3>1. AckPending' \subseteq AckPending
        BY <1>0, <1>1, <2>1 DEF AckPending
      <3> QED
        BY <3>1, OutShrinks DEF CInv
    <2>2. CASE st[m] = "stored" /\ Cardinality(AckPending) < MaxAckPending
      <3>1. AckPending' = AckPending \cup {m} /\ m \notin AckPending
        BY <1>0, <1>1, <2>2 DEF AckPending
      <3>2. Cardinality(AckPending') = Cardinality(AckPending) + 1
        BY <3>1, OutFinite, FS_AddElement
      <3> QED
        BY <2>2, <3>2, OutFinite, Times DEF FewOut, MaxAckPending
    <2> QED
      BY <2>1, <2>2 DEF Deliver
  <1> QED
    BY <1>8, <1>9, <1>10, <1>11 DEF CInv

\* Dispatch: the copy goes from the queue to the slot.
LEMMA DispatchC == ASSUME IInv, CInv, NEW s \in Slots, Dispatch(s) PROVE CInv'
  <1>0. /\ queue \in Seq(Msgs) /\ queue # <<>> /\ pc \in [Slots -> {"idle", "taken", "running", "stopping"}]
        /\ msg \in [Slots -> Msgs \cup {NoMsg}]
    BY DEF IInv, TypeOK, Dispatch
  <1>1. /\ pc[s] = "idle" /\ pc' = [pc EXCEPT ![s] = "taken"] /\ msg' = [msg EXCEPT ![s] = Head(queue)]
        /\ queue' = Tail(queue) /\ UNCHANGED <<serverVars, res, left, over, beat, hb, phase>>
    BY DEF Dispatch
  <1>2. /\ Len(queue) \in Nat /\ 1 \in 1..Len(queue) /\ Head(queue) = queue[1]
        /\ Len(queue') = Len(queue) - 1
        /\ \A i \in 1..Len(queue') : i + 1 \in 1..Len(queue) /\ queue'[i] = queue[i + 1] /\ i + 1 # 1
    BY <1>0, <1>1
  <1>3. /\ pc'[s] = "taken" /\ msg'[s] = queue[1]
        /\ \A t \in Slots : t # s => pc'[t] = pc[t] /\ msg'[t] = msg[t]
    BY <1>0, <1>1, <1>2
  <1>4. WaitingFresh'
    BY <1>1, <1>2, <1>3 DEF CInv, WaitingFresh, Fresh, serverVars
  <1>5. BusyCovered'
    BY <1>1, <1>3 DEF CInv, BusyCovered, Covered, TicksToBeat, Busy, ctxEnded, canceled, serverVars
  <1>6. OneCopy'
    <2>1. \A i, j \in 1..Len(queue') : i # j => queue'[i] # queue'[j]
      <3> SUFFICES ASSUME NEW i \in 1..Len(queue'), NEW j \in 1..Len(queue'), i # j
                   PROVE  queue'[i] # queue'[j]
        OBVIOUS
      <3>1. i + 1 # j + 1
        BY <1>2
      <3> QED
        BY <1>2, <3>1 DEF CInv, OneCopy
    <2>2. \A t \in Slots, i \in 1..Len(queue') : pc'[t] # "idle" => msg'[t] # queue'[i]
      BY <1>2, <1>3 DEF CInv, OneCopy
    <2>3. \A t \in Slots : (t # s /\ pc[t] # "idle") => msg[t] # queue[1]
      BY <1>2 DEF CInv, OneCopy
    <2>4. \A t, u \in Slots : (t # u /\ pc'[t] # "idle" /\ pc'[u] # "idle") => msg'[t] # msg'[u]
      BY <1>3, <2>3 DEF CInv, OneCopy
    <2> QED
      BY <2>1, <2>2, <2>4 DEF OneCopy
  <1>7. FewOut'
    BY <1>1 DEF CInv, FewOut, AckPending, serverVars
  <1> QED
    BY <1>4, <1>5, <1>6, <1>7 DEF CInv

\* A goroutine that nak's or settles its message ends; nobody else has the message.
LEMMA EndC ==
    ASSUME IInv, CInv, NEW s \in Slots, pc[s] # "idle", NEW op, settle(msg[s], op), Free(s),
           UNCHANGED <<wait, count, queue, phase>>
    PROVE  CInv'
  <1>0. /\ st \in [Msgs -> {"stored", "pending", "ready", "acked", "termed", "exhausted"}]
        /\ pc \in [Slots -> {"idle", "taken", "running", "stopping"}]
        /\ msg \in [Slots -> Msgs \cup {NoMsg}] /\ left \in [Slots -> 0..HandlerTimeout]
        /\ over \in [Slots -> 0..Grace] /\ hb \in [Slots -> 0..HeartbeatEvery]
    BY DEF IInv, TypeOK
  <1>1. msg[s] \in Msgs /\ st[msg[s]] = "pending"
    BY CopiesPending
  <1>2. pc'[s] = "idle" /\ \A t \in Slots : t # s => SlotSame(t)
    BY <1>0 DEF Free, SlotAfter, SlotSame
  <1>3. \A k \in Msgs : k # msg[s] => st'[k] = st[k]
    BY <1>0, <1>1 DEF settle
  <1>4. /\ \A i \in 1..Len(queue) : queue[i] \in Msgs /\ queue[i] # msg[s]
        /\ \A t \in Slots : (t # s /\ pc[t] # "idle") => msg[t] \in Msgs /\ msg[t] # msg[s]
    BY CopiesPending DEF CInv, OneCopy
  <1>5. WaitingFresh'
    BY <1>2, <1>3, <1>4 DEF CInv, WaitingFresh, Fresh, SlotSame
  <1>6. BusyCovered'
    BY <1>2, <1>3, <1>4 DEF CInv, BusyCovered, Covered, TicksToBeat, Busy, ctxEnded, canceled, SlotSame
  <1>7. OneCopy'
    BY <1>2 DEF CInv, OneCopy, SlotSame
  <1>8. AckPending' \subseteq AckPending
    BY <1>1, <1>3 DEF AckPending
  <1> QED
    BY <1>5, <1>6, <1>7, <1>8, OutShrinks DEF CInv

\* HandleMsg: a message that goes to its handler is fresh, and its first
\* heartbeat comes well before AckWait ends.
LEMMA HandleMsgC == ASSUME IInv, CInv, NEW s \in Slots, HandleMsg(s) PROVE CInv'
  <1>1. pc[s] = "taken" /\ UNCHANGED <<wait, count, queue, phase>>
    BY DEF HandleMsg
  <1>2. CASE settle(msg[s], "nak") /\ Free(s)
    BY <1>1, <1>2, EndC
  <1>3. CASE /\ msg[s] \notin NoMetadata /\ ~canceled
             /\ pc' = [pc EXCEPT ![s] = "running"]
             /\ left' = [left EXCEPT ![s] = HandlerTimeout]
             /\ over' = [over EXCEPT ![s] = 0]
             /\ beat' = [beat EXCEPT ![s] = "on"]
             /\ hb' = [hb EXCEPT ![s] = HeartbeatEvery]
             /\ UNCHANGED <<st, msg, res>>
    <2>0. /\ pc \in [Slots -> {"idle", "taken", "running", "stopping"}] /\ left \in [Slots -> 0..HandlerTimeout]
          /\ over \in [Slots -> 0..Grace] /\ hb \in [Slots -> 0..HeartbeatEvery]
          /\ beat \in [Slots -> {"off", "on", "sending"}]
      BY DEF IInv, TypeOK
    <2>1. pc'[s] = "running" /\ over'[s] = 0 /\ beat'[s] = "on" /\ hb'[s] = HeartbeatEvery
      BY <1>3, <2>0
    <2>2. \A t \in Slots : t # s => SlotSame(t)
      BY <1>3, <2>0 DEF SlotSame
    <2>3. WaitingFresh'
      BY <1>1, <1>3, <2>1, <2>2 DEF CInv, WaitingFresh, Fresh, SlotSame
    <2>4. Covered(s)'
      <3>1. st[msg[s]] = "pending" /\ wait[msg[s]] = AckWait
        BY <1>1 DEF CInv, WaitingFresh, Fresh
      <3>2. TicksToBeat(s)' \in {0, HeartbeatEvery}
        BY <2>1 DEF TicksToBeat
      <3>3. AckWait >= AckWait - HeartbeatEvery - 0 + TicksToBeat(s)'
        BY <3>2, Times
      <3> QED
        BY <1>1, <1>3, <2>1, <3>1, <3>3 DEF Covered
    <2>5. BusyCovered'
      <3>1. \A t \in Slots : t # s => /\ Busy(t)' => Covered(t)'
                                      /\ (pc'[t] = "running" /\ ~ctxEnded(t)') => beat'[t] # "off"
        BY <1>1, <1>3, <2>2 DEF CInv, BusyCovered, Covered, TicksToBeat, Busy, ctxEnded, canceled, SlotSame
      <3> QED
        BY <2>1, <2>4, <3>1 DEF BusyCovered
    <2>6. OneCopy'
      BY <1>1, <1>3, <2>1, <2>2 DEF CInv, OneCopy, SlotSame
    <2>7. FewOut'
      BY <1>3 DEF CInv, FewOut, AckPending
    <2> QED
      BY <2>3, <2>5, <2>6, <2>7 DEF CInv
  <1> QED
    BY <1>2, <1>3 DEF HandleMsg

LEMMA SettleC == ASSUME IInv, CInv, NEW s \in Slots, Settle(s) PROVE CInv'
  BY EndC DEF Settle

LEMMA HandlerReturnsC == ASSUME IInv, CInv, NEW s \in Slots, HandlerReturns(s) PROVE CInv'
  <1>0. pc \in [Slots -> {"idle", "taken", "running", "stopping"}]
    BY DEF IInv, TypeOK
  <1>1. /\ pc[s] = "running" /\ pc' = [pc EXCEPT ![s] = "stopping"]
        /\ UNCHANGED <<serverVars, queue, msg, left, over, beat, hb, phase>>
    BY DEF HandlerReturns
  <1>2. pc'[s] = "stopping" /\ \A t \in Slots : t # s => pc'[t] = pc[t]
    BY <1>0, <1>1
  <1>3. WaitingFresh'
    BY <1>1, <1>2 DEF CInv, WaitingFresh, Fresh, serverVars
  <1>4. BusyCovered'
    BY <1>1, <1>2 DEF CInv, BusyCovered, Covered, TicksToBeat, Busy, ctxEnded, canceled, serverVars
  <1>5. OneCopy'
    BY <1>1, <1>2 DEF CInv, OneCopy
  <1>6. FewOut'
    BY <1>1 DEF CInv, FewOut, AckPending, serverVars
  <1> QED
    BY <1>3, <1>4, <1>5, <1>6 DEF CInv

\* The heartbeat: until it ends, the ticks to the next one are covered.
LEMMA BeatC == ASSUME ~BeatsLost, IInv, CInv, NEW s \in Slots, BeatStep(s) PROVE CInv'
  <1>0. /\ beat \in [Slots -> {"off", "on", "sending"}] /\ hb \in [Slots -> 0..HeartbeatEvery]
        /\ wait \in [Msgs -> 0..AckWait] /\ over \in [Slots -> 0..Grace]
        /\ st \in [Msgs -> {"stored", "pending", "ready", "acked", "termed", "exhausted"}]
    BY DEF IInv, TypeOK
  <1>1. UNCHANGED <<st, count, queue, pc, msg, res, left, over, phase>>
    BY DEF BeatStep, BeatFires, BeatEnds, InProgress, serverVars
  <1>2. Busy(s) /\ pc[s] # "idle" /\ msg[s] \in Msgs /\ st[msg[s]] = "pending" /\ Covered(s)
    <2>1. Busy(s) /\ pc[s] # "idle"
      BY <1>0 DEF BeatStep, BeatFires, BeatEnds, InProgress, IInv, NoBeatAfterSettle, Busy
    <2> QED
      BY <2>1, CopiesPending DEF CInv, BusyCovered
  <1>3. \A k \in Msgs : k # msg[s] => wait'[k] = wait[k]
    BY <1>0, <1>2 DEF BeatStep, BeatFires, BeatEnds, InProgress, serverVars
  <1>4. \A t \in Slots : t # s => beat'[t] = beat[t] /\ hb'[t] = hb[t]
    BY <1>0 DEF BeatStep, BeatFires, BeatEnds, InProgress
  <1>5. /\ \A i \in 1..Len(queue) : queue[i] \in Msgs /\ queue[i] # msg[s]
        /\ \A t \in Slots : (t # s /\ pc[t] # "idle") => msg[t] \in Msgs /\ msg[t] # msg[s]
    BY <1>2, CopiesPending DEF CInv, OneCopy
  <1>6. WaitingFresh'
    BY <1>1, <1>2, <1>3, <1>5 DEF CInv, WaitingFresh, Fresh, Busy
  <1>7. Covered(s)' /\ ((pc[s] = "running" /\ ~ctxEnded(s)) => beat'[s] # "off")
    <2>0. /\ wait[msg[s]] \in 0..AckWait /\ over[s] \in 0..Grace /\ hb[s] \in 0..HeartbeatEvery
          /\ wait[msg[s]] >= AckWait - HeartbeatEvery - over[s] + TicksToBeat(s)
          /\ ctxEnded(s)' = ctxEnded(s)
      BY <1>0, <1>1, <1>2 DEF Covered, ctxEnded, canceled
    <2>1. CASE BeatFires(s)
      <3>1. UNCHANGED wait /\ beat'[s] = "sending" /\ TicksToBeat(s)' = 0 /\ TicksToBeat(s) = 0
        BY <1>0, <2>1 DEF BeatFires, TicksToBeat, serverVars
      <3> QED
        BY <1>1, <1>2, <2>0, <3>1 DEF Covered
    <2>2. CASE BeatEnds(s)
      <3>1. UNCHANGED wait /\ beat'[s] = "off" /\ TicksToBeat(s)' = 0 /\ TicksToBeat(s) >= 0
        BY <1>0, <2>0, <2>2 DEF BeatEnds, TicksToBeat, serverVars
      <3>2. TicksToBeat(s) \in Int
        BY <2>0 DEF TicksToBeat
      <3>3. wait[msg[s]] >= AckWait - HeartbeatEvery - over[s] + 0
        BY <2>0, <3>1, <3>2, Times
      <3> QED
        BY <1>1, <1>2, <2>2, <3>1, <3>3 DEF Covered, BeatEnds
    <2>3. CASE InProgress(s)
      <3>1. beat'[s] = "on" /\ hb'[s] = hb[s]
        BY <1>0, <2>3 DEF InProgress
      <3>2. TicksToBeat(s) = 0 /\ TicksToBeat(s)' = IF ctxEnded(s) THEN 0 ELSE hb[s]
        BY <2>0, <2>3, <3>1 DEF InProgress, TicksToBeat
      <3>3. CASE wait' = [wait EXCEPT ![msg[s]] = AckWait]
        <4>1. wait'[msg[s]] = AckWait
          BY <1>0, <1>2, <3>3
        <4>2. AckWait >= AckWait - HeartbeatEvery - over[s] + TicksToBeat(s)'
          BY <2>0, <3>2, Times
        <4> QED
          BY <1>1, <1>2, <3>1, <4>1, <4>2 DEF Covered
      <3>4. CASE phase = "error" /\ UNCHANGED wait
        <4>1. TicksToBeat(s)' = 0
          BY <3>2, <3>4 DEF ctxEnded, canceled
        <4> QED
          BY <1>1, <1>2, <2>0, <3>1, <3>2, <3>4, <4>1 DEF Covered
      <3> QED
        BY <1>2, <2>3, <3>3, <3>4 DEF InProgress
    <2> QED
      BY <2>1, <2>2, <2>3 DEF BeatStep
  <1>8. BusyCovered'
    <2>1. \A t \in Slots : t # s => /\ Busy(t)' => Covered(t)'
                                    /\ (pc'[t] = "running" /\ ~ctxEnded(t)') => beat'[t] # "off"
      BY <1>1, <1>3, <1>4, <1>5 DEF CInv, BusyCovered, Covered, TicksToBeat, Busy, ctxEnded, canceled
    <2> QED
      BY <1>1, <1>7, <2>1 DEF BusyCovered, ctxEnded, canceled
  <1>9. OneCopy' /\ FewOut'
    BY <1>1 DEF CInv, OneCopy, FewOut, AckPending
  <1> QED
    BY <1>6, <1>8, <1>9 DEF CInv

\* Shutdown cancels the handlers' context: only their grace has to be covered.
LEMMA ShutdownC == ASSUME IInv, CInv, Shutdown \/ Quiesce \/ GiveUp PROVE CInv'
  <1>1. UNCHANGED <<serverVars, queue, slotVars>> /\ phase' # "up"
    BY DEF Shutdown, Quiesce, GiveUp
  <1> USE DEF serverVars, slotVars
  <1>2. WaitingFresh' /\ OneCopy' /\ FewOut'
    BY <1>1 DEF CInv, WaitingFresh, Fresh, OneCopy, FewOut, AckPending
  <1>3. ASSUME NEW s \in Slots, Busy(s) PROVE Covered(s)'
    <2>1. hb[s] \in 0..HeartbeatEvery /\ over[s] \in 0..Grace /\ msg[s] \in Msgs /\ wait[msg[s]] \in 0..AckWait
      BY <1>3 DEF IInv, TypeOK, HasMsg, Busy
    <2>2. TicksToBeat(s) \in Nat /\ TicksToBeat(s)' = 0
      BY <1>1, <2>1 DEF TicksToBeat, ctxEnded, canceled
    <2>3. st[msg[s]] = "pending" /\ wait[msg[s]] >= AckWait - HeartbeatEvery - over[s] + TicksToBeat(s)
      BY <1>3 DEF CInv, BusyCovered, Covered
    <2>4. wait[msg[s]] >= AckWait - HeartbeatEvery - over[s] + 0
      BY <2>1, <2>2, <2>3, Times
    <2> QED
      BY <1>1, <2>2, <2>3, <2>4 DEF Covered
  <1>4. BusyCovered'
    BY <1>1, <1>3 DEF BusyCovered, Busy, ctxEnded, canceled
  <1> QED
    BY <1>2, <1>4 DEF CInv

\* Tick: it comes only when every message the consumer has is with a handler
\* that still has time left, so no AckWait of theirs ends.
LEMMA TickC == ASSUME Timely, IInv, CInv, Tick PROVE CInv'
  <1>0. /\ pc \in [Slots -> {"idle", "taken", "running", "stopping"}] /\ left \in [Slots -> 0..HandlerTimeout]
        /\ over \in [Slots -> 0..Grace] /\ beat \in [Slots -> {"off", "on", "sending"}]
        /\ hb \in [Slots -> 0..HeartbeatEvery] /\ wait \in [Msgs -> 0..AckWait]
    BY DEF IInv, TypeOK
  <1>1. /\ ~Urgent /\ UNCHANGED <<count, queue, pc, msg, res, beat, phase>>
        /\ left' = [s \in Slots |-> Less(left[s])] /\ hb' = [s \in Slots |-> Less(hb[s])]
        /\ over' = [s \in Slots |-> IF pc[s] = "running" /\ ctxEnded(s) THEN over[s] + 1 ELSE over[s]]
        /\ wait' = [m \in Msgs |-> Less(wait[m])]
        /\ st' = [m \in Msgs |-> IF Expires(m) THEN Again(m) ELSE st[m]]
    BY DEF Tick
  <1>2. queue = <<>>
    BY <1>1, QueueHasSlot DEF Urgent
  <1>3. \A s \in Slots : pc[s] \in {"idle", "running"}
    BY <1>0, <1>1 DEF Urgent
  <1>4. WaitingFresh'
    BY <1>1, <1>2, <1>3 DEF WaitingFresh
  <1>5. ASSUME NEW s \in Slots, pc[s] = "running"
        PROVE  Covered(s)' /\ (~ctxEnded(s)' => beat'[s] # "off")
    <2>1. /\ msg[s] \in Msgs /\ st[msg[s]] = "pending"
          /\ wait[msg[s]] >= AckWait - HeartbeatEvery - over[s] + TicksToBeat(s)
      BY <1>5, CopiesPending DEF CInv, BusyCovered, Covered, Busy
    <2>2. /\ wait[msg[s]] \in Int /\ wait[msg[s]] >= 0 /\ over[s] \in Nat /\ over[s] <= Grace
          /\ left[s] \in Nat /\ hb[s] \in Nat
      BY <1>0, <2>1, Times
    <2>3. wait'[msg[s]] = Less(wait[msg[s]]) /\ hb'[s] = Less(hb[s])
      BY <1>1, <2>1
    <2>4. st'[msg[s]] = IF Expires(msg[s]) THEN Again(msg[s]) ELSE st[msg[s]]
      BY <1>1, <2>1
    <2>5. Grace + HeartbeatEvery < AckWait
      BY DEF Timely
    <2>6. CASE ctxEnded(s)
      <3>1. over[s] # Grace /\ over'[s] = over[s] + 1 /\ beat[s] # "on" /\ ctxEnded(s)'
        <4>1. left[s] = 0 => left'[s] = 0
          BY <1>1 DEF Less
        <4> QED
          BY <1>1, <1>5, <2>6, <4>1 DEF Urgent, ctxEnded, canceled
      <3>2. TicksToBeat(s) = 0 /\ TicksToBeat(s)' = 0
        BY <2>6, <3>1 DEF TicksToBeat
      <3>3. wait[msg[s]] > 1
        BY <2>1, <2>2, <2>5, <3>1, <3>2, Times
      <3>4. st'[msg[s]] = "pending" /\ wait'[msg[s]] = wait[msg[s]] - 1
        BY <2>1, <2>2, <2>3, <2>4, <3>3 DEF Expires, Less
      <3>5. wait[msg[s]] - 1 >= AckWait - HeartbeatEvery - (over[s] + 1) + 0
        BY <2>1, <2>2, <3>2, Times
      <3> QED
        BY <1>1, <3>1, <3>2, <3>4, <3>5 DEF Covered
    <2>7. CASE ~ctxEnded(s)
      <3>1. over'[s] = over[s] /\ beat[s] = "on" /\ hb[s] > 0
        BY <1>0, <1>1, <1>5, <2>2, <2>7 DEF CInv, BusyCovered, Urgent
      <3>2. TicksToBeat(s) = hb[s] /\ TicksToBeat(s)' \in {0, hb[s] - 1}
        BY <1>1, <2>2, <2>3, <2>7, <3>1 DEF TicksToBeat, Less
      <3>3. wait[msg[s]] > 1
        BY <2>1, <2>2, <2>5, <3>1, <3>2, Times
      <3>4. st'[msg[s]] = "pending" /\ wait'[msg[s]] = wait[msg[s]] - 1
        BY <2>1, <2>2, <2>3, <2>4, <3>3 DEF Expires, Less
      <3>5. wait[msg[s]] - 1 >= AckWait - HeartbeatEvery - over[s] + TicksToBeat(s)'
        BY <2>1, <2>2, <3>1, <3>2, Times
      <3> QED
        BY <1>1, <3>1, <3>4, <3>5 DEF Covered
    <2> QED
      BY <2>6, <2>7
  <1>6. BusyCovered'
    BY <1>1, <1>3, <1>5 DEF BusyCovered, Busy
  <1>7. OneCopy'
    BY <1>1 DEF CInv, OneCopy
  <1>8. AckPending' \subseteq AckPending
    BY <1>1 DEF AckPending, Expires
  <1> QED
    BY <1>4, <1>6, <1>7, <1>8, OutShrinks DEF CInv

LEMMA StutterC == ASSUME CInv, UNCHANGED vars PROVE CInv'
  BY DEF vars, serverVars, slotVars, CInv, WaitingFresh, Fresh, BusyCovered, Covered, TicksToBeat,
         Busy, ctxEnded, canceled, OneCopy, FewOut, AckPending

LEMMA NextC == ASSUME Timely, IInv, CInv, [Next]_vars PROVE CInv'
  <1>1. ~BeatsLost
    BY DEF Timely
  <1> QED
    BY <1>1, DeliverC, DispatchC, HandleMsgC, SettleC, HandlerReturnsC, BeatC, ShutdownC, TickC, StutterC
       DEF Next, SlotStep

\* The inductive invariant of a consumer that is timely.
THEOREM CopiesCovered == ASSUME Timely PROVE Spec => [](IInv /\ CInv)
  <1>1. Init => IInv /\ CInv
    BY InitInv, InitC
  <1>2. IInv /\ CInv /\ [Next]_vars => (IInv /\ CInv)'
    BY NextInv, NextC
  <1> QED
    BY <1>1, <1>2, PTL DEF Spec

\* startHeartbeat and buildConsumerConfig: whenever heartbeats get through and
\* handlers return in time, no message is ever handled twice at the same time,
\* for any AckWait, timeout, number of slots and number of messages.
THEOREM NeverConcurrent == ASSUME Timely PROVE Spec => []NoConcurrentRedelivery
  <1>1. CInv => NoConcurrentRedelivery
    BY DEF CInv, OneCopy, NoConcurrentRedelivery, Busy
  <1> QED
    BY <1>1, CopiesCovered, PTL

\* buildConsumerConfig: with MaxAckPending equal to MaxConcurrent, a message that
\* waits for a slot is not redelivered meanwhile.
THEOREM NotRedelivered == ASSUME Timely PROVE Spec => []WaitingNotRedelivered
  <1>1. IInv /\ CInv => WaitingNotRedelivered
    <2> SUFFICES ASSUME IInv, CInv, NEW i \in DOMAIN queue PROVE st[queue[i]] = "pending"
      BY DEF WaitingNotRedelivered
    <2>1. queue \in Seq(Msgs)
      BY DEF IInv, TypeOK
    <2>2. i \in 1..Len(queue)
      BY <2>1
    <2> QED
      BY <2>2, CopiesPending
  <1> QED
    BY <1>1, CopiesCovered, PTL

\* HandleMsg's callback: under the same condition the callback never waits for a
\* place of the semaphore, so the pull loop behind it is never held up.
THEOREM CallbackRuns == ASSUME Timely PROVE Spec => []CallbackNeverWaits
  <1>1. IInv /\ CInv => CallbackNeverWaits
    BY QueueHasSlot DEF CallbackNeverWaits
  <1> QED
    BY <1>1, CopiesCovered, PTL

-----------------------------------------------------------------------------
(* The consumer implements Delivery.                                       *)

Queued(m) == \E i \in 1..Len(queue) : queue[i] = m

\* The mapped state of a message, by where its only copy is.
WorkIs ==
    /\ \A s \in Slots : pc[s] # "idle" => WorkOn(msg[s]) = Stage(s)
    /\ \A m \in Msgs : Queued(m) => WorkOn(m) = "pulled"
    /\ \A m \in Msgs : (~Queued(m) /\ \A s \in Slots : ~Has(s, m)) => WorkOn(m) = "none"

LEMMA WorkFacts == IInv /\ CInv => WorkIs
  <1> SUFFICES ASSUME IInv, CInv PROVE WorkIs
    OBVIOUS
  <1>0. queue \in Seq(Msgs) /\ DOMAIN queue = 1..Len(queue)
    BY DEF IInv, TypeOK
  <1>1. ASSUME NEW s \in Slots, pc[s] # "idle" PROVE WorkOn(msg[s]) = Stage(s)
    <2>1. \A t \in Slots : Has(t, msg[s]) <=> t = s
      BY <1>1 DEF CInv, OneCopy, Has
    <2>2. (CHOOSE t \in Slots : Has(t, msg[s])) = s
      BY <2>1
    <2> QED
      BY <2>1, <2>2 DEF WorkOn
  <1>2. ASSUME NEW m \in Msgs, Queued(m) PROVE WorkOn(m) = "pulled"
    <2>1. \A s \in Slots : ~Has(s, m)
      BY <1>2 DEF CInv, OneCopy, Has, Queued
    <2> QED
      BY <1>0, <1>2, <2>1 DEF WorkOn, Queued
  <1>3. ASSUME NEW m \in Msgs, ~Queued(m), \A s \in Slots : ~Has(s, m) PROVE WorkOn(m) = "none"
    BY <1>0, <1>3 DEF WorkOn, Queued
  <1> QED
    BY <1>1, <1>2, <1>3 DEF WorkIs

LEMMA WorkFactsNext == (IInv /\ CInv)' => WorkIs'
  BY WorkFacts, PTL

\* Both states of a step.
Inv2 == IInv /\ CInv /\ (IInv /\ CInv)'

\* A message that stays where it is.
Stays(m) ==
    /\ Queued(m)' <=> Queued(m)
    /\ \A s \in Slots : Has(s, m)' <=> Has(s, m)
    /\ \A s \in Slots : Has(s, m) => Stage(s)' = Stage(s)

LEMMA StaysWork == ASSUME Inv2, NEW m \in Msgs, Stays(m) PROVE WorkOn(m)' = WorkOn(m)
  <1> USE WorkFacts, WorkFactsNext DEF Inv2
  <1>1. ASSUME NEW s \in Slots, Has(s, m) PROVE WorkOn(m)' = WorkOn(m)
    <2>1. WorkOn(m) = Stage(s)
      BY <1>1 DEF WorkIs, Has
    <2>2. WorkOn(m)' = Stage(s)'
      BY <1>1 DEF WorkIs, Has, Stays
    <2> QED
      BY <1>1, <2>1, <2>2 DEF Stays
  <1>2. CASE \A s \in Slots : ~Has(s, m)
    <2>1. CASE Queued(m)
      BY <2>1 DEF WorkIs, Stays
    <2>2. CASE ~Queued(m)
      <3>1. WorkOn(m) = "none"
        BY <1>2, <2>2 DEF WorkIs
      <3>2. ~Queued(m)' /\ \A s \in Slots : ~Has(s, m)'
        BY <1>2, <2>2 DEF Stays
      <3>3. WorkOn(m)' = "none"
        BY <3>2 DEF WorkIs
      <3> QED
        BY <3>1, <3>3
    <2> QED
      BY <2>1, <2>2
  <1> QED
    BY <1>1, <1>2

\* Nothing that Delivery speaks about changes.
LEMMA StaysMap ==
    ASSUME Inv2, \A m \in Msgs : Stays(m), UNCHANGED <<st, count>>
    PROVE  UNCHANGED <<Fate, count, Work>>
  <1>1. \A m \in Msgs : WorkOn(m)' = WorkOn(m)
    BY StaysWork
  <1>2. \A m \in Msgs : FateOf(m)' = FateOf(m)
    BY DEF FateOf
  <1> QED
    BY <1>1, <1>2 DEF Fate, Work

\* A step on the only copy of one message.
LEMMA OneMoves ==
    ASSUME Inv2, NEW m \in Msgs, \A n \in Msgs \ {m} : Stays(n) /\ st'[n] = st[n]
    PROVE  /\ Work' = [Work EXCEPT ![m] = WorkOn(m)']
           /\ Fate' = [Fate EXCEPT ![m] = FateOf(m)']
  <1>1. \A n \in Msgs \ {m} : WorkOn(n)' = WorkOn(n)
    BY StaysWork
  <1>2. \A n \in Msgs \ {m} : FateOf(n)' = FateOf(n)
    BY DEF FateOf
  <1> QED
    BY <1>1, <1>2 DEF Fate, Work

LEMMA FateKept == ASSUME UNCHANGED st PROVE UNCHANGED Fate
  BY DEF Fate, FateOf

\* A message in hand is pending, and so are no more than there are slots.
LEMMA HandPending ==
    ASSUME IInv, CInv, NEW m \in Msgs, WorkOn(m) # "none" PROVE st[m] = "pending"
  <1>1. Queued(m) \/ \E s \in Slots : Has(s, m)
    BY WorkFacts DEF WorkIs
  <1> QED
    BY <1>1, CopiesPending DEF Queued, Has

LEMMA HandPendingNext ==
    (IInv /\ CInv)' => \A m \in Msgs : WorkOn(m)' # "none" => st'[m] = "pending"
  <1>1. IInv /\ CInv => \A m \in Msgs : WorkOn(m) # "none" => st[m] = "pending"
    BY HandPending
  <1>2. (IInv /\ CInv)' => (\A m \in Msgs : WorkOn(m) # "none" => st[m] = "pending")'
    BY <1>1, PTL
  <1> QED
    BY <1>2

LEMMA SameCardinality == ASSUME NEW S PROVE Promise!Cardinality(S) = Cardinality(S)
  BY DEF Promise!Cardinality, Cardinality, Promise!IsFiniteSet, IsFiniteSet

LEMMA DeliverRefines == ASSUME Inv2, NEW m \in Msgs, Deliver(m) PROVE Promise!Attempt(m)
  <1> USE DEF Inv2
  <1>0. /\ queue \in Seq(Msgs) /\ count \in [Msgs -> 0..MaxDeliver] /\ st[m] \in {"stored", "ready"}
        /\ st' = [st EXCEPT ![m] = "pending"] /\ count' = [count EXCEPT ![m] = @ + 1]
        /\ queue' = Append(queue, m) /\ UNCHANGED <<slotVars, phase>>
        /\ st \in [Msgs -> {"stored", "pending", "ready", "acked", "termed", "exhausted"}]
    BY DEF Deliver, IInv, TypeOK
  <1>1. WorkOn(m) = "none"
    BY <1>0, HandPending
  <1>2. FateOf(m) = "open" /\ FateOf(m)' = "open"
    BY <1>0 DEF FateOf
  <1>3. count[m] < MaxDeliver
    BY <1>0, ConsumerAssumption DEF IInv, Deliveries, ConsumerAssumption
  <1>4. \A n \in Msgs \ {m} : Stays(n) /\ st'[n] = st[n]
    <2>1. \A n \in Msgs \ {m} : Queued(n)' <=> Queued(n)
      <3>1. /\ Len(queue') = Len(queue) + 1 /\ Len(queue) \in Nat /\ queue'[Len(queue) + 1] = m
            /\ \A i \in 1..Len(queue) : queue'[i] = queue[i]
        BY <1>0
      <3> QED
        BY <3>1 DEF Queued
    <2> QED
      BY <1>0, <2>1 DEF Stays, Has, Stage, slotVars
  <1>5. WorkOn(m)' = "pulled"
    <2>1. Queued(m)'
      <3>1. Len(queue) + 1 \in 1..Len(queue') /\ queue'[Len(queue) + 1] = m
        BY <1>0
      <3> QED
        BY <3>1 DEF Queued
    <2> QED
      BY <2>1, WorkFactsNext DEF WorkIs
  <1>6. Cardinality(Promise!InHand) < MaxConcurrent
    <2>1. Promise!InHand \subseteq AckPending \ {m}
      BY <1>1, HandPending DEF Promise!InHand, Work, AckPending
    <2>2. IsFiniteSet(AckPending \ {m}) /\ Cardinality(AckPending \ {m}) < MaxConcurrent
      <3>1. CASE m \in AckPending
        <4>1. /\ IsFiniteSet(AckPending \ {m})
              /\ Cardinality(AckPending \ {m}) = Cardinality(AckPending) - 1
          BY <3>1, OutFinite, FS_RemoveElement
        <4> QED
          BY <4>1, OutFinite, Times DEF CInv, FewOut
      <3>2. CASE m \notin AckPending
        <4>1. AckPending \ {m} = AckPending
          BY <3>2
        <4>2. Cardinality(AckPending) < MaxConcurrent
          BY <3>2 DEF Deliver, AckPending, MaxAckPending
        <4> QED
          BY <4>1, <4>2, OutFinite
      <3> QED
        BY <3>1, <3>2
    <2>3. /\ IsFiniteSet(Promise!InHand) /\ Cardinality(Promise!InHand) <= Cardinality(AckPending \ {m})
          /\ Cardinality(Promise!InHand) \in Nat /\ Cardinality(AckPending \ {m}) \in Nat
      BY <2>1, <2>2, FS_Subset, FS_CardinalityType
    <2> QED
      BY <2>2, <2>3, Times
  <1>7. /\ Work' = [Work EXCEPT ![m] = "pulled"]
        /\ Fate' = Fate
    BY <1>2, <1>4, <1>5, OneMoves DEF Fate
  <1> QED
    <2>1. Fate[m] = "open" /\ Work[m] = "none"
      BY <1>1, <1>2 DEF Work, Fate
    <2> QED
      BY <1>0, <1>3, <1>6, <1>7, <2>1, SameCardinality DEF Promise!Attempt

LEMMA DispatchRefines ==
    ASSUME Inv2, NEW s \in Slots, Dispatch(s) PROVE UNCHANGED <<Fate, count, Work>>
  <1> USE DEF Inv2
  <1>a. Head(queue) \in Msgs
    BY DEF Dispatch, IInv, TypeOK
  <1>b. PICK m \in Msgs : m = Head(queue)
    BY <1>a
  <1>0. /\ queue \in Seq(Msgs) /\ queue # <<>> /\ pc[s] = "idle" /\ m = queue[1]
        /\ pc' = [pc EXCEPT ![s] = "taken"] /\ msg' = [msg EXCEPT ![s] = m]
        /\ queue' = Tail(queue) /\ UNCHANGED <<st, count, res>>
        /\ pc \in [Slots -> {"idle", "taken", "running", "stopping"}]
        /\ msg \in [Slots -> Msgs \cup {NoMsg}]
    BY <1>b DEF Dispatch, IInv, TypeOK, serverVars
  <1>1. WorkOn(m) = "pulled"
    <2>1. 1 \in 1..Len(queue)
      BY <1>0
    <2>2. Queued(m)
      BY <1>0, <2>1 DEF Queued
    <2> QED
      BY <1>0, <2>2, WorkFacts DEF WorkIs
  <1>2. WorkOn(m)' = "pulled"
    <2>1. pc'[s] = "taken" /\ msg'[s] = m
      BY <1>0
    <2>2. Stage(s)' = "pulled"
      BY <2>1 DEF Stage
    <2>3. WorkOn(msg[s])' = "pulled"
      BY <2>1, <2>2, WorkFactsNext DEF WorkIs
    <2> QED
      BY <2>1, <2>3
  <1>3. \A n \in Msgs \ {m} : Stays(n) /\ st'[n] = st[n]
    <2>1. \A n \in Msgs \ {m} : Queued(n)' <=> Queued(n)
      <3>1. /\ Len(queue) \in Nat \ {0} /\ Len(queue') = Len(queue) - 1
            /\ \A i \in 1..Len(queue') : queue'[i] = queue[i + 1]
        BY <1>0
      <3>2. ASSUME NEW n \in Msgs \ {m}, Queued(n)' PROVE Queued(n)
        <4>1. PICK i \in 1..Len(queue') : queue'[i] = n
          BY <3>2 DEF Queued
        <4>2. i + 1 \in 1..Len(queue) /\ queue[i + 1] = n
          BY <3>1, <4>1
        <4> QED
          BY <4>2 DEF Queued
      <3>3. ASSUME NEW n \in Msgs \ {m}, Queued(n) PROVE Queued(n)'
        <4>1. PICK i \in 1..Len(queue) : queue[i] = n
          BY <3>3 DEF Queued
        <4>2. i # 1
          BY <1>0, <4>1
        <4>3. i - 1 \in 1..Len(queue') /\ queue'[i - 1] = n
          BY <3>1, <4>1, <4>2
        <4> QED
          BY <4>3 DEF Queued
      <3> QED
        BY <3>2, <3>3
    <2> QED
      BY <1>0, <2>1 DEF Stays, Has, Stage
  <1>4. Work' = Work
    BY <1>0, <1>1, <1>2, <1>3, OneMoves DEF Work
  <1> QED
    BY <1>0, <1>4, FateKept

\* The end of an attempt, at HandleMsg's checks or after the handler's return.
LEMMA EndRefines ==
    ASSUME Inv2, NEW s \in Slots, NEW m \in Msgs, m = msg[s], pc[s] \in {"taken", "stopping"},
           NEW op \in {"ack", "nak", "term"}, settle(m, op), Free(s), UNCHANGED <<count, queue>>,
           op = "ack" => Stage(s) = "nil", op = "term" => Stage(s) = "noRetry",
           op = "nak" => Stage(s) \in {"pulled", "failed"}
    PROVE  Promise!End(m)
  <1> USE DEF Inv2
  <1>0. /\ queue \in Seq(Msgs) /\ count \in [Msgs -> 0..MaxDeliver]
        /\ st \in [Msgs -> {"stored", "pending", "ready", "acked", "termed", "exhausted"}]
        /\ pc \in [Slots -> {"idle", "taken", "running", "stopping"}]
        /\ msg \in [Slots -> Msgs \cup {NoMsg}] /\ res \in [Slots -> {"nil", "noRetry", "failed"}]
        /\ pc' = [pc EXCEPT ![s] = "idle"] /\ msg' = [msg EXCEPT ![s] = NoMsg]
        /\ res' = [res EXCEPT ![s] = "nil"]
    BY DEF IInv, TypeOK, Free, SlotAfter
  <1>1. Work[m] = Stage(s) /\ Stage(s) \in Promise!Results \cup {"pulled"}
    <2>1. WorkOn(m) = Stage(s)
      BY WorkFacts DEF WorkIs
    <2> QED
      BY <2>1 DEF Work, Promise!Results
  <1>2. st[m] = "pending"
    BY CopiesPending
  <1>3. \A n \in Msgs \ {m} : Stays(n) /\ st'[n] = st[n]
    <2>1. \A n \in Msgs \ {m} : st'[n] = st[n]
      BY <1>0 DEF settle
    <2>2. \A n \in Msgs \ {m} : Stays(n)
      BY <1>0 DEF Stays, Has, Stage, Queued
    <2> QED
      BY <2>1, <2>2
  <1>4. WorkOn(m)' = "none"
    <2>1. ~Queued(m)'
      BY DEF CInv, OneCopy, Queued
    <2>2. \A t \in Slots : ~Has(t, m)'
      <3>1. \A t \in Slots : t # s => ~Has(t, m)
        BY DEF CInv, OneCopy, Has
      <3> QED
        BY <1>0, <3>1 DEF Has
    <2> QED
      BY <2>1, <2>2, WorkFactsNext DEF WorkIs
  <1>5. Work' = [Work EXCEPT ![m] = "none"] /\ Fate' = [Fate EXCEPT ![m] = FateOf(m)']
    BY <1>3, <1>4, OneMoves
  <1>6. FateOf(m)' \in Promise!Fates(m)
    <2>1. CASE UNCHANGED st
      BY <1>2, <2>1 DEF FateOf, Promise!Fates
    <2>2. CASE st' = [st EXCEPT ![m] = After(m, op)]
      <3>1. st'[m] = After(m, op)
        BY <1>0, <2>2
      <3>2. CASE op = "ack"
        BY <1>1, <1>2, <3>1, <3>2 DEF After, FateOf, Promise!Fates
      <3>3. CASE op = "term"
        BY <1>1, <1>2, <3>1, <3>3 DEF After, FateOf, Promise!Fates
      <3>4. CASE op = "nak"
        <4>1. st'[m] = Again(m)
          BY <1>2, <3>1, <3>4 DEF After
        <4>2. Again(m) = "ready" \/ (Again(m) = "exhausted" /\ count[m] = MaxDeliver)
          BY AgainType DEF IInv
        <4> QED
          BY <1>1, <3>4, <4>1, <4>2 DEF FateOf, Promise!Fates
      <3> QED
        BY <3>2, <3>3, <3>4
    <2> QED
      BY <2>1, <2>2 DEF settle
  <1>7. Fate[m] = "open"
    BY <1>2 DEF Fate, FateOf
  <1> QED
    BY <1>1, <1>5, <1>6, <1>7 DEF Promise!End

LEMMA HandleMsgRefines ==
    ASSUME Inv2, NEW s \in Slots, HandleMsg(s)
    PROVE  \E m \in Msgs : Promise!End(m) \/ Promise!Call(m)
  <1> USE DEF Inv2
  <1>0. /\ pc[s] = "taken" /\ UNCHANGED <<count, queue>> /\ msg[s] \in Msgs
        /\ pc \in [Slots -> {"idle", "taken", "running", "stopping"}]
    BY DEF HandleMsg, IInv, HasMsg, TypeOK
  <1>1. PICK m \in Msgs : m = msg[s]
    BY <1>0
  <1>2. Stage(s) = "pulled"
    BY <1>0 DEF Stage
  <1>3. CASE settle(msg[s], "nak") /\ Free(s)
    BY <1>0, <1>1, <1>2, <1>3, EndRefines
  <1>4. CASE pc' = [pc EXCEPT ![s] = "running"] /\ UNCHANGED <<st, msg, res>>
    <2>1. WorkOn(m) = "pulled"
      BY <1>0, <1>1, <1>2, WorkFacts DEF WorkIs
    <2>2. WorkOn(m)' = "handled"
      <3>1. pc'[s] = "running" /\ msg'[s] = m
        BY <1>0, <1>1, <1>4
      <3>2. Stage(s)' = "handled"
        BY <3>1 DEF Stage
      <3> QED
        BY <3>1, <3>2, WorkFactsNext DEF WorkIs
    <2>3. \A n \in Msgs \ {m} : Stays(n) /\ st'[n] = st[n]
      BY <1>0, <1>1, <1>4 DEF Stays, Has, Stage, Queued
    <2>4. Work' = [Work EXCEPT ![m] = "handled"] /\ Fate' = Fate
      BY <1>4, <2>2, <2>3, OneMoves, FateKept
    <2>5. Work[m] = "pulled"
      BY <2>1 DEF Work
    <2> QED
      BY <1>0, <2>4, <2>5 DEF Promise!Call
  <1> QED
    BY <1>3, <1>4 DEF HandleMsg

LEMMA HandlerReturnsRefines ==
    ASSUME Inv2, NEW s \in Slots, HandlerReturns(s) PROVE \E m \in Msgs : Promise!Return(m)
  <1> USE DEF Inv2
  <1>0. /\ pc[s] = "running" /\ UNCHANGED <<st, count, queue, msg>> /\ msg[s] \in Msgs
        /\ pc \in [Slots -> {"idle", "taken", "running", "stopping"}]
        /\ res \in [Slots -> {"nil", "noRetry", "failed"}]
        /\ pc' = [pc EXCEPT ![s] = "stopping"]
    BY DEF HandlerReturns, IInv, HasMsg, TypeOK, serverVars
  <1>1. PICK m \in Msgs : m = msg[s]
    BY <1>0
  <1>2. PICK r \in {"nil", "noRetry", "failed"} : res' = [res EXCEPT ![s] = r]
    BY DEF HandlerReturns
  <1>3. Stage(s) = "handled"
    BY <1>0 DEF Stage
  <1>4. Work[m] = "handled"
    BY <1>0, <1>1, <1>3, WorkFacts DEF WorkIs, Work
  <1>5. WorkOn(m)' = r
    <2>1. pc'[s] = "stopping" /\ msg'[s] = m /\ res'[s] = r
      BY <1>0, <1>1, <1>2
    <2>2. Stage(s)' = r
      BY <2>1 DEF Stage
    <2> QED
      BY <2>1, <2>2, WorkFactsNext DEF WorkIs
  <1>6. \A n \in Msgs \ {m} : Stays(n) /\ st'[n] = st[n]
    BY <1>0, <1>1, <1>2 DEF Stays, Has, Stage, Queued
  <1>7. Work' = [Work EXCEPT ![m] = r] /\ Fate' = Fate
    BY <1>0, <1>5, <1>6, OneMoves, FateKept
  <1> QED
    BY <1>0, <1>2, <1>4, <1>7 DEF Promise!Return, Promise!Results

LEMMA SettleRefines ==
    ASSUME Inv2, NEW s \in Slots, Settle(s) PROVE \E m \in Msgs : Promise!End(m)
  <1> USE DEF Inv2
  <1>0. /\ pc[s] = "stopping" /\ UNCHANGED <<count, queue>> /\ msg[s] \in Msgs /\ Free(s)
        /\ res[s] \in {"nil", "noRetry", "failed"} /\ settle(msg[s], settleOp(res[s]))
    BY DEF Settle, IInv, HasMsg, TypeOK
  <1>1. PICK m \in Msgs : m = msg[s]
    BY <1>0
  <1>2. PICK op \in {"ack", "nak", "term"} : op = settleOp(res[s])
    BY <1>0 DEF settleOp
  <1>3. Stage(s) = res[s]
    BY <1>0 DEF Stage
  <1>4. /\ op = "ack" => Stage(s) = "nil"
        /\ op = "term" => Stage(s) = "noRetry"
        /\ op = "nak" => Stage(s) \in {"pulled", "failed"}
    BY <1>0, <1>2, <1>3 DEF settleOp
  <1> QED
    BY <1>0, <1>1, <1>2, <1>4, EndRefines

\* A tick gives messages up, but none that is in hand: those are still pending.
LEMMA TickRefines == ASSUME Inv2, Tick PROVE \E S \in SUBSET Msgs : Promise!GiveUp(S)
  <1> USE DEF Inv2
  <1>0. /\ UNCHANGED <<count, queue, pc, msg, res>>
        /\ st' = [m \in Msgs |-> IF Expires(m) THEN Again(m) ELSE st[m]]
        /\ st \in [Msgs -> {"stored", "pending", "ready", "acked", "termed", "exhausted"}]
    BY DEF Tick, IInv, TypeOK
  <1> DEFINE S == {m \in Msgs : st[m] # "exhausted" /\ st'[m] = "exhausted"}
  <1>1. \A m \in Msgs : Stays(m)
    BY <1>0 DEF Stays, Has, Stage, Queued
  <1>2. \A m \in Msgs : WorkOn(m)' = WorkOn(m)
    BY <1>1, StaysWork
  <1>3. Work' = Work
    BY <1>2 DEF Work
  <1>4. ASSUME NEW m \in S PROVE FateOf(m) = "open" /\ WorkOn(m) = "none" /\ count[m] = MaxDeliver
    <2>1. Expires(m) /\ Again(m) = "exhausted"
      BY <1>0, <1>4
    <2>2. st[m] = "pending" /\ count[m] = MaxDeliver
      BY <2>1, AgainType DEF Expires, IInv
    <2>3. WorkOn(m)' = "none"
      <3>1. WorkOn(m)' # "none" => st'[m] = "pending"
        BY HandPendingNext
      <3> QED
        BY <1>4, <3>1
    <2> QED
      BY <1>2, <1>4, <2>2, <2>3 DEF FateOf
  <1>5. ASSUME NEW m \in Msgs
        PROVE  FateOf(m)' = IF m \in S THEN "exhausted" ELSE FateOf(m)
    <2>1. CASE Expires(m)
      <3>1. st[m] = "pending" /\ st'[m] = Again(m)
        BY <1>0, <2>1 DEF Expires
      <3> QED
        BY <3>1, AgainType DEF IInv, FateOf
    <2>2. CASE ~Expires(m)
      BY <1>0, <2>2 DEF FateOf
    <2> QED
      BY <2>1, <2>2
  <1>6. Fate' = [m \in Msgs |-> IF m \in S THEN "exhausted" ELSE Fate[m]]
    BY <1>5 DEF Fate
  <1>7. \A m \in S : Fate[m] = "open" /\ Work[m] = "none" /\ count[m] = MaxDeliver
    BY <1>4 DEF Fate, Work
  <1>8. S \in SUBSET Msgs
    OBVIOUS
  <1> HIDE DEF S
  <1> QED
    BY <1>0, <1>3, <1>6, <1>7, <1>8 DEF Promise!GiveUp

\* What only the consumer itself can see.
LEMMA InsideRefines ==
    ASSUME Inv2, Shutdown \/ Quiesce \/ GiveUp \/ UNCHANGED vars \/ \E s \in Slots : BeatStep(s)
    PROVE  UNCHANGED <<Fate, count, Work>>
  <1>1. UNCHANGED <<st, count, queue, pc, msg, res>>
    BY DEF Shutdown, Quiesce, GiveUp, vars, serverVars, slotVars, BeatStep, BeatFires, BeatEnds, InProgress
  <1>2. \A m \in Msgs : Stays(m)
    BY <1>1 DEF Stays, Has, Stage, Queued
  <1> QED
    BY <1>1, <1>2, StaysMap

LEMMA StepDelivers == ASSUME Inv2, [Next]_vars PROVE [Promise!Next]_<<Fate, count, Work>>
  <1>1. ASSUME NEW m \in Msgs, Deliver(m) PROVE Promise!Next
    BY <1>1, DeliverRefines DEF Promise!Next
  <1>2. ASSUME NEW s \in Slots, SlotStep(s) PROVE Promise!Next \/ UNCHANGED <<Fate, count, Work>>
    BY <1>2, DispatchRefines, HandleMsgRefines, SettleRefines DEF SlotStep, Promise!Next
  <1>3. ASSUME NEW s \in Slots, HandlerReturns(s) PROVE Promise!Next
    BY <1>3, HandlerReturnsRefines DEF Promise!Next
  <1>4. ASSUME Tick PROVE Promise!Next
    BY <1>4, TickRefines DEF Promise!Next
  <1> QED
    BY <1>1, <1>2, <1>3, <1>4, InsideRefines DEF Next

\* HandleMsg with the server: a timely consumer implements Delivery, whatever acks
\* get lost and whenever it is shut down, for any messages, slots and times.
THEOREM DeliveryRefinement == ASSUME Timely PROVE Spec => ImplementsDelivery
  <1>1. Init => Promise!Init
    <2> SUFFICES ASSUME Init PROVE Promise!Init
      OBVIOUS
    <2>1. \A m \in Msgs : FateOf(m) = "open" /\ WorkOn(m) = "none"
      BY DEF Init, FateOf, WorkOn, Has
    <2> QED
      BY <2>1 DEF Init, Promise!Init, Fate, Work
  <1>2. (IInv /\ CInv) /\ (IInv /\ CInv)' /\ [Next]_vars => [Promise!Next]_<<Fate, count, Work>>
    BY StepDelivers DEF Inv2
  <1>3. (IInv /\ CInv) /\ (IInv /\ CInv)' /\ [Next]_vars => [Promise!Next]_(Promise!dvars)
    BY <1>2 DEF Promise!dvars
  <1> QED
    BY <1>1, <1>3, CopiesCovered, PTL DEF Spec, Promise!Spec, ImplementsDelivery
=============================================================================
