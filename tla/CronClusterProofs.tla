------------------------- MODULE CronClusterProofs --------------------------
(***************************************************************************)
(* Proofs about CronCluster for any set of workers, any timeout, buffer,   *)
(* grace and number of runs.                                               *)
(*                                                                         *)
(* FInv holds whatever handlers do: tokens are unique among the runs that  *)
(* hold one, and a lock that stands is the backend's last token.  That is  *)
(* enough for fencing.  Exclusion needs more: the lock of a granted run    *)
(* outlives its context by the buffer (CInv), which is an invariant only   *)
(* when runs start and return within less than the buffer.                 *)
(***************************************************************************)
EXTENDS CronCluster, TLAPS

Holding == {"granted", "running", "unlocking"}

\* Tokens in use are unique, and none is the token of an abandoned Unlock.
TokensUnique ==
    /\ \A v, w \in Workers : (v # w /\ pc[v] \in Holding /\ pc[w] \in Holding) => tok[v] # tok[w]
    /\ \A w \in Workers : pc[w] \in Holding => tok[w] \notin late

\* The backend's tokens grow; the lock stands exactly while its TTL runs, for
\* the last token.
Backend ==
    /\ lock \in {0, fence} /\ started <= fence
    /\ \A w \in Workers : tok[w] <= fence /\ (pc[w] \in Holding => tok[w] > 0)
    /\ \A w \in Workers : pc[w] = "locking" => over[w] = 0
    /\ \A t \in late : t <= fence
    /\ lock = 0 <=> ttl = 0

FInv == TypeOK /\ TokensUnique /\ Backend

\* The lock of a granted run outlives its context by the buffer, and a run that
\* has not started is newer than every run that has.
CInv ==
    /\ \A w \in Workers : pc[w] \in {"granted", "running"} =>
            (tok[w] = lock /\ ttl + over[w] >= left[w] + Buffer)
    /\ \A w \in Workers : pc[w] = "granted" => started < tok[w]

-----------------------------------------------------------------------------

\* Init establishes both invariants.
LEMMA InitInv == Init => FInv /\ CInv
  BY ClusterAssumption DEF Init, FInv, TypeOK, TokensUnique, Backend, CInv, Holding

\* Every step of a worker preserves the first invariant.
LEMMA WorkerKeepsFInv ==
    ASSUME FInv, NEW w \in Workers,
           \/ Begin(w) \/ Refused(w) \/ RunHandler(w) \/ HandlerReturns(w) \/ Crash(w)
    PROVE  FInv'
  <1> USE ClusterAssumption DEF FInv, TypeOK
  <1>1. CASE Begin(w)
    BY <1>1 DEF Begin, RunTimeout, TokensUnique, Backend, Holding
  <1>2. CASE Refused(w) \/ Crash(w)
    BY <1>2 DEF Refused, Crash, TokensUnique, Backend, Holding
  <1>3. CASE RunHandler(w)
    BY <1>3 DEF RunHandler, TokensUnique, Backend, Holding
  <1>4. CASE HandlerReturns(w)
    BY <1>4 DEF HandlerReturns, TokensUnique, Backend, Holding
  <1>5. QED
    BY <1>1, <1>2, <1>3, <1>4

\* A grant takes a fresh token.
LEMMA GrantKeepsFInv ==
    ASSUME FInv, NEW w \in Workers, Grant(w)
    PROVE  FInv'
  <1> USE ClusterAssumption DEF FInv, TypeOK
  <1>1. /\ pc[w] = "locking" /\ lock = 0
        /\ pc' = [pc EXCEPT ![w] = "granted"]
        /\ fence' = fence + 1 /\ lock' = fence + 1
        /\ tok' = [tok EXCEPT ![w] = fence + 1]
        /\ ttl' = Timeout + Buffer
        /\ UNCHANGED <<left, over, late, started>>
    BY DEF Grant, LockTTL
  <1>2. TypeOK'
    BY <1>1
  <1>3. TokensUnique'
    BY <1>1 DEF TokensUnique, Backend, Holding
  <1>4. Backend'
    BY <1>1 DEF Backend, Holding
  <1>5. QED
    BY <1>2, <1>3, <1>4

\* Releasing a token that no other run carries leaves the others' alone.
LEMMA ReleaseKeepsFInv ==
    ASSUME FInv, (\E w \in Workers : Unlock(w)) \/ (\E t \in late : UnlockLate(t))
    PROVE  FInv'
  <1> USE ClusterAssumption DEF FInv, TypeOK
  <1>1. ASSUME NEW w \in Workers, Unlock(w)
        PROVE  FInv'
    <2>1. /\ pc[w] = "unlocking"
          /\ pc' = [pc EXCEPT ![w] = "idle"]
          /\ late' \in {late, late \cup {tok[w]}}
          /\ \/ lock = tok[w] /\ lock' = 0 /\ ttl' = 0
             \/ UNCHANGED <<lock, ttl>>
          /\ UNCHANGED <<left, over, tok, fence, started>>
      BY <1>1 DEF Unlock, Release
    <2>2. TypeOK'
      BY <2>1
    <2>3. TokensUnique'
      BY <2>1 DEF TokensUnique, Holding
    <2>4. Backend'
      BY <2>1 DEF Backend, Holding
    <2>5. QED
      BY <2>2, <2>3, <2>4
  <1>2. ASSUME NEW t \in late, UnlockLate(t)
        PROVE  FInv'
    BY <1>2 DEF UnlockLate, Release, TokensUnique, Backend, Holding
  <1>3. QED
    BY <1>1, <1>2

\* A tick leaves tokens alone, and the lock expires with its TTL.
LEMMA TickKeepsFInv ==
    ASSUME FInv, Tick
    PROVE  FInv'
  <1> USE ClusterAssumption DEF FInv, TypeOK
  <1>1. /\ left' = [w \in Workers |-> IF left[w] > 0 THEN left[w] - 1 ELSE 0]
        /\ over' = [w \in Workers |-> IF Overdue(w) THEN over[w] + 1 ELSE over[w]]
        /\ ttl' = IF ttl > 0 THEN ttl - 1 ELSE 0
        /\ lock' = IF ttl > 1 THEN lock ELSE 0
        /\ \A w \in Workers : Overdue(w) => over[w] < Grace
        /\ UNCHANGED <<pc, tok, fence, late, started>>
    BY DEF Tick
  <1>2. TypeOK'
    BY <1>1
  <1>3. TokensUnique'
    BY <1>1 DEF TokensUnique
  <1>4. Backend'
    BY <1>1 DEF Backend, Overdue
  <1>5. QED
    BY <1>2, <1>3, <1>4

\* The first invariant is inductive.
LEMMA NextFInv == FInv /\ [Next]_vars => FInv'
  <1>1. ASSUME FInv, UNCHANGED vars PROVE FInv'
    BY <1>1 DEF FInv, vars, TypeOK, TokensUnique, Backend
  <1>2. QED
    BY <1>1, WorkerKeepsFInv, GrantKeepsFInv, ReleaseKeepsFInv, TickKeepsFInv DEF Next

\* The first invariant holds in every reachable state.
THEOREM FencingInvariance == Spec => []FInv
  <1>1. Init => FInv
    BY InitInv
  <1>2. QED
    BY <1>1, NextFInv, PTL DEF Spec

\* However late runs start and however long handlers go on, the run whose lock
\* stands has the largest token of all runs in their handlers.
THEOREM Fenced == Spec => []HolderOutranks
  <1>1. FInv => HolderOutranks
    BY DEF FInv, TypeOK, TokensUnique, Backend, HolderOutranks, Holding
  <1>2. QED
    BY <1>1, FencingInvariance, PTL

-----------------------------------------------------------------------------
(* Exclusion, when runs start and return within less than the buffer.      *)

\* Two runs cannot both hold the current lock.
LEMMA OneCurrent ==
    ASSUME FInv, CInv
    PROVE  ReplicaExclusion
  BY DEF FInv, CInv, TokensUnique, ReplicaExclusion, Holding

\* Every step preserves the second invariant: the TTL runs out at the same
\* pace as the context and the grace, which together are shorter.
LEMMA NextCInv ==
    ASSUME Grace < Buffer, FInv, CInv, [Next]_vars
    PROVE  CInv'
  <1> USE ClusterAssumption DEF FInv, TypeOK, CInv
  <1>1. ASSUME NEW w \in Workers, Begin(w) \/ Refused(w) \/ HandlerReturns(w) \/ Crash(w)
        PROVE  CInv'
    BY <1>1 DEF Begin, Refused, HandlerReturns, Crash
  <1>2. ASSUME NEW w \in Workers, Grant(w)
        PROVE  CInv'
    <2>1. \A v \in Workers : pc[v] \notin {"granted", "running"}
      BY <1>2 DEF Grant, Backend, Holding
    <2>2. QED
      BY <1>2, <2>1 DEF Grant, LockTTL, Backend
  <1>3. ASSUME NEW w \in Workers, RunHandler(w)
        PROVE  CInv'
    <2>1. \A v \in Workers : v # w => pc[v] # "granted"
      BY <1>3 DEF RunHandler, TokensUnique, Holding
    <2>2. QED
      BY <1>3, <2>1 DEF RunHandler
  <1>4. ASSUME NEW w \in Workers, Unlock(w)
        PROVE  CInv'
    <2>1. \A v \in Workers : pc[v] \in {"granted", "running"} => tok[v] # tok[w]
      BY <1>4 DEF Unlock, TokensUnique, Holding
    <2>2. QED
      BY <1>4, <2>1 DEF Unlock, Release
  <1>5. ASSUME NEW t \in late, UnlockLate(t)
        PROVE  CInv'
    <2>1. \A v \in Workers : pc[v] \in {"granted", "running"} => tok[v] # t
      BY <1>5 DEF TokensUnique, Holding
    <2>2. QED
      BY <1>5, <2>1 DEF UnlockLate, Release
  <1>6. CASE Tick
    <2>1. ASSUME NEW w \in Workers, pc[w] \in {"granted", "running"}
          PROVE  tok[w] = lock' /\ ttl' + over'[w] >= left'[w] + Buffer
      <3>1. ttl + over[w] >= left[w] + Buffer /\ tok[w] = lock
        BY <2>1
      <3>2. left[w] = 0 => over[w] < Grace
        BY <1>6, <2>1 DEF Tick, Overdue
      <3>3. ttl > 1
        BY <3>1, <3>2
      <3>4. QED
        BY <1>6, <2>1, <3>1, <3>3 DEF Tick, Overdue
    <2>2. QED
      BY <1>6, <2>1 DEF Tick
  <1>7. CASE UNCHANGED vars
    BY <1>7 DEF vars
  <1>8. QED
    BY <1>1, <1>2, <1>3, <1>4, <1>5, <1>6, <1>7 DEF Next

\* Both invariants hold in every reachable state of a cooperative cluster.
THEOREM CooperativeInvariance ==
    ASSUME Grace < Buffer
    PROVE  Spec => [](FInv /\ CInv)
  <1>1. Init => FInv /\ CInv
    BY InitInv
  <1>2. (FInv /\ CInv) /\ [Next]_vars => (FInv /\ CInv)'
    BY NextFInv, NextCInv
  <1>3. QED
    BY <1>1, <1>2, PTL DEF Spec

\* When every run starts and returns within less than the buffer of the end of
\* its context, the job never runs on two workers at a time.
THEOREM ClusterExclusion ==
    ASSUME Grace < Buffer
    PROVE  Spec => []ReplicaExclusion
  <1>1. FInv /\ CInv => ReplicaExclusion
    BY OneCurrent
  <1>2. QED
    BY <1>1, CooperativeInvariance, PTL

\* The owner of the abstract specification is the worker that runs.
LEMMA OwnerIs ==
    ASSUME ReplicaExclusion
    PROVE  /\ \A w \in Workers : pc[w] = "running" => Owner = w
           /\ (\A w \in Workers : pc[w] # "running") => Owner = Nobody
  BY DEF ReplicaExclusion, Owner

\* A step that moves no worker in or out of its handler leaves the owner.
LEMMA OwnerKept ==
    ASSUME ReplicaExclusion, ReplicaExclusion',
           \A w \in Workers : pc'[w] = "running" <=> pc[w] = "running"
    PROVE  Owner' = Owner
  <1>1. CASE \E w \in Workers : pc[w] = "running"
    <2>1. PICK w \in Workers : pc[w] = "running"
      BY <1>1
    <2>2. Owner = w
      BY <2>1, OwnerIs
    <2>3. Owner' = w
      <3>1. pc'[w] = "running"
        BY <2>1
      <3>2. QED
        BY <3>1 DEF ReplicaExclusion, Owner
    <2>4. QED
      BY <2>2, <2>3
  <1>2. CASE \A w \in Workers : pc[w] # "running"
    BY <1>2 DEF Owner
  <1>3. QED
    BY <1>1, <1>2

\* Every step of the cluster is a step of the abstract specification or none.
LEMMA StepRefines ==
    ASSUME FInv, CInv, ReplicaExclusion, ReplicaExclusion', [Next]_vars
    PROVE  [Abstract!Next]_<<Owner, started>>
  <1> USE DEF FInv, TypeOK
  <1>1. ASSUME NEW w \in Workers, RunHandler(w)
        PROVE  Abstract!Enter(w)
    <2>1. /\ pc[w] = "granted" /\ started' = tok[w]
          /\ pc' = [pc EXCEPT ![w] = "running"]
      BY <1>1 DEF RunHandler
    <2>2. \A v \in Workers : pc[v] # "running"
      BY <2>1 DEF CInv, TokensUnique, Holding
    <2>3. Owner = Nobody
      BY <2>2, OwnerIs
    <2>4. Owner' = w
      <3>1. pc'[w] = "running"
        BY <2>1
      <3>2. QED
        BY <3>1 DEF ReplicaExclusion, Owner
    <2>5. started' \in Nat /\ started' > started
      BY <2>1 DEF CInv
    <2>6. QED
      BY <2>3, <2>4, <2>5 DEF Abstract!Enter
  <1>2. ASSUME NEW w \in Workers, pc[w] = "running", pc' = [pc EXCEPT ![w] = "idle"]
                 \/ pc' = [pc EXCEPT ![w] = "unlocking"], started' = started
        PROVE  Abstract!Exit
    <2>1. Owner = w /\ w # Nobody
      BY <1>2, OwnerIs, ClusterAssumption
    <2>2. \A v \in Workers : pc'[v] # "running"
      BY <1>2 DEF ReplicaExclusion
    <2>3. Owner' = Nobody
      BY <2>2 DEF Owner
    <2>4. QED
      BY <1>2, <2>1, <2>3 DEF Abstract!Exit
  <1>3. ASSUME \A w \in Workers : pc'[w] = "running" <=> pc[w] = "running",
               started' = started
        PROVE  UNCHANGED <<Owner, started>>
    BY <1>3, OwnerKept
  <1>4. ASSUME NEW w \in Workers, HandlerReturns(w)
        PROVE  Abstract!Exit
    BY <1>2, <1>4 DEF HandlerReturns
  <1>5. ASSUME NEW w \in Workers, Crash(w)
        PROVE  Abstract!Exit \/ UNCHANGED <<Owner, started>>
    <2>1. CASE pc[w] = "running"
      BY <1>2, <1>5, <2>1 DEF Crash
    <2>2. CASE pc[w] # "running"
      BY <1>3, <1>5, <2>2 DEF Crash
    <2>3. QED
      BY <2>1, <2>2
  <1>6. ASSUME NEW w \in Workers, Begin(w) \/ Grant(w) \/ Refused(w) \/ Unlock(w)
        PROVE  UNCHANGED <<Owner, started>>
    BY <1>3, <1>6 DEF Begin, Grant, Refused, Unlock
  <1>7. CASE Tick \/ UNCHANGED vars \/ \E t \in late : UnlockLate(t)
    BY <1>3, <1>7 DEF Tick, UnlockLate, vars
  <1>8. QED
    BY <1>1, <1>4, <1>5, <1>6, <1>7 DEF Next, Abstract!Next

\* A cooperative cluster implements the promise of a Locker.
THEOREM ClusterRefinement ==
    ASSUME Grace < Buffer
    PROVE  Spec => ImplementsExclusiveJob
  <1>1. Init => Abstract!Init
    BY DEF Init, Abstract!Init, Owner
  <1>2. FInv /\ CInv => ReplicaExclusion
    BY OneCurrent
  <1>3. (FInv /\ CInv) /\ (FInv /\ CInv)' /\ ReplicaExclusion /\ ReplicaExclusion' /\ [Next]_vars
           => [Abstract!Next]_<<Owner, started>>
    BY StepRefines
  <1>4. QED
    BY <1>1, <1>2, <1>3, CooperativeInvariance, PTL DEF Spec, Abstract!Spec, ImplementsExclusiveJob
=============================================================================
