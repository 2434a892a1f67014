---------------------------- MODULE CronCluster -----------------------------
(***************************************************************************)
(* One job on several workers that share a Locker (cron/cron.go), as       *)
(* lockerMW drives it (cron/engine/middleware.go).  Each worker is one     *)
(* engine: its overlap guard lets one run of the job in at a time, which   *)
(* CronEngine shows, so a worker is either without a run or at             *)
(*   locking    its context has its timeout, Lock was called               *)
(*   granted    the backend has given it the lock, the reply is under way  *)
(*   running    the handler runs, with the token in its context            *)
(*   unlocking  the deferred Unlock was called                             *)
(* Time is counted in ticks of one clock that all workers and the lock     *)
(* backend share.  The backend is external: it expires a lock with its     *)
(* TTL, hands out increasing tokens, lets Unlock release only the lock its *)
(* token stands for.  Nothing checks the context between Lock's return and *)
(* the handler's start, so a run may start late, its context over and its  *)
(* lock expired; Grace bounds how late a run may start or go on.           *)
(***************************************************************************)
EXTENDS Integers

CONSTANTS
    Workers,
    Nobody,
    Timeout,    \* the run's timeout: Job.Timeout or Config.GlobalTimeout
    Buffer,     \* FixedLockTTLBuffer
    Grace,      \* how long after its context's end a run may still be between
                \* the grant and its handler's return
    MaxFence    \* bound: locks granted in a behaviour

ASSUME ClusterAssumption ==
    /\ Nobody \notin Workers
    /\ Timeout \in Nat \ {0}
    /\ Buffer \in Nat
    /\ Grace \in Nat
    /\ MaxFence \in Nat

VARIABLES
    pc,      \* where each worker's run is
    left,    \* ticks until the run's context ends
    over,    \* ticks the granted run has gone on since its context ended
    tok,     \* the fencing token the backend gave to the run
    lock,    \* the backend: the token that holds the lock, 0 when free
    ttl,     \* the backend: ticks until the lock expires
    fence,   \* the backend: the last token handed out
    late,    \* tokens of Unlock calls the run has given up on, not yet delivered
    started  \* the token of the last run whose handler started

vars == <<pc, left, over, tok, lock, ttl, fence, late, started>>

TypeOK ==
    /\ pc \in [Workers -> {"idle", "locking", "granted", "running", "unlocking"}]
    /\ left \in [Workers -> 0..Timeout]
    /\ over \in [Workers -> 0..Grace]
    /\ tok \in [Workers -> Nat]
    /\ lock \in Nat
    /\ ttl \in Nat
    /\ fence \in Nat
    /\ late \subseteq Nat
    /\ started \in Nat

Init ==
    /\ pc = [w \in Workers |-> "idle"]
    /\ left = [w \in Workers |-> 0]
    /\ over = [w \in Workers |-> 0]
    /\ tok = [w \in Workers |-> 0]
    /\ lock = 0 /\ ttl = 0 /\ fence = 0 /\ started = 0 /\ late = {}

-----------------------------------------------------------------------------
(* The run, as runJob and lockerMW go through it.                          *)

\* Seeded bugs: no TTL, and the TTL without its buffer.
LockTTLNone == 0
LockTTLNoBuffer == Timeout
\* The TTL lockerMW asks for.
LockTTL == Timeout + Buffer

\* The timeout of the run's context.
RunTimeout == Timeout

\* runJob gives the run its context, then lockerMW calls Lock.
Begin(w) ==
    /\ pc[w] = "idle"
    /\ pc' = [pc EXCEPT ![w] = "locking"]
    /\ left' = [left EXCEPT ![w] = RunTimeout]
    /\ over' = [over EXCEPT ![w] = 0]
    /\ UNCHANGED <<tok, lock, ttl, fence, late, started>>

\* The backend grants the lock.
Grant(w) ==
    /\ pc[w] = "locking"
    /\ lock = 0
    /\ fence < MaxFence
    /\ pc' = [pc EXCEPT ![w] = "granted"]
    /\ fence' = fence + 1
    /\ tok' = [tok EXCEPT ![w] = fence + 1]
    /\ lock' = fence + 1
    /\ ttl' = LockTTL
    /\ UNCHANGED <<left, over, late, started>>

\* Lock returns ErrLockHeld (a skip) or another error, which may hide a grant
\* (fail closed): the run ends without a token, so without an Unlock.
Refused(w) ==
    /\ \/ pc[w] = "locking"
       \/ pc[w] = "granted"
    /\ pc' = [pc EXCEPT ![w] = "idle"]
    /\ UNCHANGED <<left, over, tok, lock, ttl, fence, late, started>>

\* Lock returns the token and the handler starts with it in its context, which
\* is not looked at again.
RunHandler(w) ==
    /\ pc[w] = "granted"
    /\ pc' = [pc EXCEPT ![w] = "running"]
    /\ started' = tok[w]
    /\ UNCHANGED <<left, over, tok, lock, ttl, fence, late>>

\* The handler returns, in time or not, with or without a panic.
HandlerReturns(w) ==
    /\ pc[w] = "running"
    /\ pc' = [pc EXCEPT ![w] = "unlocking"]
    /\ UNCHANGED <<left, over, tok, lock, ttl, fence, late, started>>

\* The backend handles an Unlock of token t.
Release(t) ==
    IF lock = t THEN lock' = 0 /\ ttl' = 0 ELSE UNCHANGED <<lock, ttl>>

\* Unlock is handled, or its five seconds pass with the call still under way or
\* lost; either way the run's outcome stands and the run ends.
Unlock(w) ==
    /\ pc[w] = "unlocking"
    /\ pc' = [pc EXCEPT ![w] = "idle"]
    /\ \/ Release(tok[w]) /\ UNCHANGED late
       \/ late' = late \cup {tok[w]} /\ UNCHANGED <<lock, ttl>>
    /\ UNCHANGED <<left, over, tok, fence, started>>

UnlockLate(t) ==
    /\ t \in late
    /\ late' = late \ {t}
    /\ Release(t)
    /\ UNCHANGED <<pc, left, over, tok, fence, started>>

\* The worker's process dies; its handler dies with it, its lock does not.
Crash(w) ==
    /\ pc[w] \in {"granted", "running", "unlocking"}
    /\ pc' = [pc EXCEPT ![w] = "idle"]
    /\ UNCHANGED <<left, over, tok, lock, ttl, fence, late, started>>

\* A granted run whose context has ended.
Overdue(w) == pc[w] \in {"granted", "running"} /\ left[w] = 0

\* One tick: contexts run out, the lock expires with its TTL.  A run that has
\* used up its grace has left its handler before the clock goes on.
Tick ==
    /\ \A w \in Workers : Overdue(w) => over[w] < Grace
    /\ ttl > 0 \/ \E w \in Workers : Overdue(w) \/ (pc[w] # "idle" /\ left[w] > 0)
    /\ left' = [w \in Workers |-> IF left[w] > 0 THEN left[w] - 1 ELSE 0]
    /\ over' = [w \in Workers |-> IF Overdue(w) THEN over[w] + 1 ELSE over[w]]
    /\ ttl' = IF ttl > 0 THEN ttl - 1 ELSE 0
    /\ lock' = IF ttl > 1 THEN lock ELSE 0
    /\ UNCHANGED <<pc, tok, fence, late, started>>

Next ==
    \/ \E w \in Workers : \/ Begin(w) \/ Grant(w) \/ Refused(w) \/ RunHandler(w)
                          \/ HandlerReturns(w) \/ Unlock(w) \/ Crash(w)
    \/ \E t \in late : UnlockLate(t)
    \/ Tick

Spec == Init /\ [][Next]_vars

\* Time goes on, a Lock call, whose context ends, returns, and a handler honours
\* its context within its grace.
FairSpec == Spec /\ WF_vars(Tick)
                 /\ \A w \in Workers : WF_vars(RunHandler(w) \/ Refused(w))
                                       /\ WF_vars(HandlerReturns(w))

-----------------------------------------------------------------------------
(* Properties.                                                             *)

\* lockerMW: the handler runs on at most one worker.  It holds when a run starts
\* and returns within less than Buffer of the end of its context.
ReplicaExclusion ==
    \A v, w \in Workers : (v # w /\ pc[v] = "running") => pc[w] # "running"

\* lockerMW: however late runs start and however long handlers go on, no two of
\* them carry the same token, and the one whose lock still stands has a larger
\* token than any other: a resource that remembers the largest token it has seen
\* never turns that run away in favour of one whose lock is gone.
HolderOutranks ==
    \A v, w \in Workers : (v # w /\ pc[v] = "running" /\ pc[w] = "running") =>
        /\ tok[v] # tok[w]
        /\ tok[w] = lock => tok[v] < tok[w]

\* lockerMW: a lock whose Unlock failed, or whose worker died, or whose grant
\* was never seen, does not block the job for ever.
LockHeals == lock # 0 ~> lock = 0

\* The worker whose handler runs.
Owner == IF \E w \in Workers : pc[w] = "running"
         THEN CHOOSE w \in Workers : pc[w] = "running" ELSE Nobody

Abstract == INSTANCE ExclusiveJob WITH owner <- Owner, epoch <- started

\* The cluster implements the promise of a Locker: one run at a time, with
\* increasing tokens.
ImplementsExclusiveJob == Abstract!Spec
=============================================================================
