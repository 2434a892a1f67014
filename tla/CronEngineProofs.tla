-------------------------- MODULE CronEngineProofs --------------------------
(***************************************************************************)
(* Proofs about CronEngine for any set of jobs, any finite set of run      *)
(* slots and any set of Stop calls, with or without toggler and locker.    *)
(*                                                                         *)
(* None of the safety properties is inductive by itself.  Even typing is   *)
(* not: activeWg stays a natural number only because it counts the runs    *)
(* between activeWg.Add and activeWg.Done.  IInv adds that count, the      *)
(* order of the phases of Stop, and that a run in progress has a job.      *)
(***************************************************************************)
EXTENDS CronEngine, FiniteSetTheorems, TLAPS

CountedRuns == {r \in Runs : pc[r] \in Counted}

\* activeWg counts the runs between the shutdown guard and their return.
WgExact == activeWg = Cardinality(CountedRuns)

\* A run in progress has a job.
JobKnown == \A r \in Runs : pc[r] \notin Free => jobOf[r] \in Jobs

\* The phases of Stop happen in order.
StopOrder ==
    /\ waiter # "none" => stopping
    /\ waiter = "closed" => activeWg = 0
    /\ \A s \in Stoppers : stopPc[s] = "idle" => timer[s] = "none"
    /\ \A s \in Stoppers : (stopPc[s] = "nil" /\ timer[s] # "none") => waiter = "closed"

IInv == TypeOK /\ WgExact /\ JobKnown /\ StopOrder /\ InFlightExact /\ NoLocalOverlap

-----------------------------------------------------------------------------

\* CountedRuns is finite, so its cardinality is a natural number.
LEMMA CountedRunsFinite ==
    /\ IsFiniteSet(CountedRuns)
    /\ Cardinality(CountedRuns) \in Nat
  <1>1. IsFiniteSet(CountedRuns)
    BY CronAssumption, FS_Subset DEF CountedRuns
  <1>2. QED
    BY <1>1, FS_CardinalityType

\* A step that leaves every run on its side of the shutdown guard keeps the
\* count.
LEMMA CountKept ==
    ASSUME WgExact, activeWg' = activeWg,
           \A r \in Runs : pc[r] \in Counted <=> pc'[r] \in Counted
    PROVE  WgExact'
  <1>1. CountedRuns' = CountedRuns
    BY DEF CountedRuns
  <1>2. QED
    BY <1>1 DEF WgExact

\* The guard of runJob admits one more run.
LEMMA CountUp ==
    ASSUME TypeOK, WgExact, NEW r \in Runs, pc[r] \notin Counted,
           pc' = [pc EXCEPT ![r] = "overlap"], activeWg' = activeWg + 1
    PROVE  WgExact'
  <1>1. CountedRuns' = CountedRuns \cup {r}
    BY DEF CountedRuns, TypeOK, Counted, Guarded
  <1>2. r \notin CountedRuns
    BY DEF CountedRuns
  <1>3. Cardinality(CountedRuns \cup {r}) = Cardinality(CountedRuns) + 1
    BY <1>2, CountedRunsFinite, FS_AddElement
  <1>4. QED
    BY <1>1, <1>3 DEF WgExact

\* A run that returns is no longer counted; the count was positive.
LEMMA CountDown ==
    ASSUME TypeOK, WgExact, NEW r \in Runs, pc[r] \in Counted,
           pc' = [pc EXCEPT ![r] = "returned"], activeWg' = activeWg - 1
    PROVE  WgExact' /\ activeWg' \in Nat
  <1>1. CountedRuns' = CountedRuns \ {r}
    BY DEF CountedRuns, TypeOK, Counted, Guarded
  <1>2. r \in CountedRuns
    BY DEF CountedRuns
  <1>3. Cardinality(CountedRuns \ {r}) = Cardinality(CountedRuns) - 1
    BY <1>2, CountedRunsFinite, FS_RemoveElement
  <1>4. IsFiniteSet(CountedRuns \ {r})
    BY CountedRunsFinite, FS_Subset
  <1>5. Cardinality(CountedRuns \ {r}) \in Nat
    BY <1>4, FS_CardinalityType
  <1>6. QED
    BY <1>1, <1>3, <1>5 DEF WgExact

\* activeWg is zero exactly when no run is counted.
LEMMA CountZero ==
    ASSUME WgExact, activeWg = 0
    PROVE  \A r \in Runs : pc[r] \notin Counted
  <1>1. CountedRuns = {}
    BY CountedRunsFinite, FS_EmptySet DEF WgExact
  <1>2. QED
    BY <1>1 DEF CountedRuns

-----------------------------------------------------------------------------

\* Init establishes the invariant.
LEMMA InitIInv == Init => IInv
  <1> SUFFICES ASSUME Init PROVE IInv
    OBVIOUS
  <1>1. TypeOK
    BY DEF Init, TypeOK, Labels, Free, Errors, HandlerResults, Metrics
  <1>2. WgExact
    <2>1. CountedRuns = {}
      BY DEF Init, CountedRuns, Counted, Guarded
    <2>2. QED
      BY <2>1, FS_EmptySet DEF Init, WgExact
  <1>3. JobKnown /\ StopOrder /\ InFlightExact /\ NoLocalOverlap
    BY DEF Init, JobKnown, StopOrder, InFlightExact, NoLocalOverlap, Guarded, Free
  <1>4. QED
    BY <1>1, <1>2, <1>3 DEF IInv

\* What the invariant says of runs survives every step that leaves their
\* place, job and overlap markers alone.
LEMMA RunPartKept ==
    ASSUME JobKnown, InFlightExact, NoLocalOverlap,
           UNCHANGED <<pc, jobOf, inFlight>>
    PROVE  JobKnown' /\ InFlightExact' /\ NoLocalOverlap'
  BY DEF JobKnown, InFlightExact, NoLocalOverlap

\* Register and Start touch nothing the other parts read.
LEMMA SetupKeepsIInv ==
    ASSUME IInv, Start \/ \E j \in Jobs : Register(j)
    PROVE  IInv'
  <1> USE DEF IInv, engineVars, stopVars, callVars, telVars, chainVars
  <1>1. TypeOK'
    BY DEF TypeOK, Start, Register
  <1>2. UNCHANGED <<pc, jobOf, inFlight, activeWg>>
    BY DEF Start, Register
  <1>3. WgExact'
    BY <1>2, CountKept
  <1>4. JobKnown' /\ InFlightExact' /\ NoLocalOverlap'
    BY <1>2, RunPartKept
  <1>5. StopOrder'
    BY DEF StopOrder, Start, Register
  <1>6. QED
    BY <1>1, <1>3, <1>4, <1>5

\* A new call takes a free slot: it is neither counted nor guarded.
LEMMA CallKeepsIInv ==
    ASSUME IInv, NEW r \in Runs, NEW j \in Jobs, Trigger(r, j) \/ Fire(r, j)
    PROVE  IInv'
  <1> USE DEF IInv, engineVars, stopVars
  <1>1. TypeOK'
    <2> USE DEF TypeOK, Call, Labels, Free, Errors, Metrics
    <2>1. CASE Trigger(r, j) /\ j \in jobs
      BY <2>1 DEF Trigger, HandlerResults
    <2>2. CASE Trigger(r, j) /\ j \notin jobs
      BY <2>2 DEF Trigger
    <2>3. CASE Fire(r, j)
      BY <2>3 DEF Fire, HandlerResults
    <2>4. QED
      BY <2>1, <2>2, <2>3
  <1>2. /\ pc[r] \in Free
        /\ pc' = [pc EXCEPT ![r] = "called"] \/ pc' = [pc EXCEPT ![r] = "returned"]
        /\ jobOf' = [jobOf EXCEPT ![r] = j]
        /\ UNCHANGED <<inFlight, activeWg, stopping, waiter, stopPc, timer>>
    BY DEF Trigger, Fire, Call
  <1>3. WgExact'
    <2>1. \A q \in Runs : pc[q] \in Counted <=> pc'[q] \in Counted
      BY <1>2 DEF TypeOK, Free, Counted, Guarded
    <2>2. QED
      BY <1>2, <2>1, CountKept
  <1>4. JobKnown'
    BY <1>2 DEF JobKnown, TypeOK, Free
  <1>5. \A q \in Runs : pc'[q] \in Guarded <=> pc[q] \in Guarded
    BY <1>2 DEF TypeOK, Free, Guarded
  <1>6. \A q \in Runs : pc[q] \in Guarded => jobOf'[q] = jobOf[q]
    BY <1>2 DEF TypeOK, Free, Guarded
  <1>7. InFlightExact' /\ NoLocalOverlap'
    BY <1>2, <1>5, <1>6 DEF InFlightExact, NoLocalOverlap
  <1>8. StopOrder'
    BY <1>2 DEF StopOrder
  <1>9. QED
    BY <1>1, <1>3, <1>4, <1>7, <1>8

-----------------------------------------------------------------------------
(* The steps of a run: one lemma per middleware that changes shared state, *)
(* one for the steps inside the guard, which only move the run along.      *)

\* The shutdown guard admits a run, which is then counted, or refuses it.
LEMMA RunGuardKeepsIInv ==
    ASSUME IInv, NEW r \in Runs, RunGuard(r)
    PROVE  IInv'
  <1> USE DEF IInv, engineVars, stopVars, callVars
  <1>1. CASE ~Admitted
    <2>1. /\ pc[r] = "called"
          /\ pc' = [pc EXCEPT ![r] = "returned"]
          /\ err' = [err EXCEPT ![r] = "stopped"]
          /\ UNCHANGED <<engineVars, stopVars, callVars, metric, log, span, unwinding,
                         token, inFlight, activeWg, ctx>>
      BY <1>1 DEF RunGuard
    <2>2. TypeOK'
      BY <2>1 DEF TypeOK, Labels, Free, Errors
    <2>3. \A q \in Runs : /\ pc'[q] \in Guarded <=> pc[q] \in Guarded
                          /\ pc'[q] \in Counted <=> pc[q] \in Counted
      BY <2>1 DEF TypeOK, Guarded, Counted
    <2>4. WgExact'
      BY <2>1, <2>3, CountKept
    <2>5. JobKnown'
      BY <2>1 DEF JobKnown, TypeOK, Free
    <2>6. InFlightExact' /\ NoLocalOverlap'
      BY <2>1, <2>3 DEF InFlightExact, NoLocalOverlap
    <2>7. StopOrder'
      BY <2>1 DEF StopOrder
    <2>8. QED
      BY <2>2, <2>4, <2>5, <2>6, <2>7
  <1>2. CASE Admitted
    <2>1. /\ pc[r] = "called"
          /\ activeWg' = activeWg + 1
          /\ pc' = [pc EXCEPT ![r] = "overlap"]
          /\ log' = [log EXCEPT ![r] = "started"]
          /\ span' = [span EXCEPT ![r] = "open"]
          /\ UNCHANGED <<engineVars, stopVars, callVars, metric, unwinding, token,
                         inFlight, err>>
      BY <1>2 DEF RunGuard
    <2>2. ctx' \in [Runs -> {"live", "timeout", "canceled"}]
      <3>1. PICK c \in {"live", "canceled"} : ctx' = [ctx EXCEPT ![r] = c]
        BY <1>2 DEF RunGuard
      <3>2. QED
        BY <3>1 DEF TypeOK
    <2>3. TypeOK'
      <3>1. pc' \in [Runs -> Labels]
        BY <2>1 DEF TypeOK, Labels, Counted
      <3>2. QED
        BY <2>1, <2>2, <3>1 DEF TypeOK
    <2>4. WgExact'
      BY <2>1, CountUp DEF Counted, Guarded
    <2>5. JobKnown'
      BY <2>1 DEF JobKnown, TypeOK, Free
    <2>6. \A q \in Runs : pc'[q] \in Guarded <=> pc[q] \in Guarded
      BY <2>1 DEF TypeOK, Guarded
    <2>7. InFlightExact' /\ NoLocalOverlap'
      BY <2>1, <2>6 DEF InFlightExact, NoLocalOverlap
    <2>8. StopOrder'
      <3>1. waiter = "none"
        BY <1>2 DEF StopOrder, Admitted
      <3>2. QED
        BY <2>1, <3>1 DEF StopOrder
    <2>9. QED
      BY <2>3, <2>4, <2>5, <2>7, <2>8
  <1>3. QED
    BY <1>1, <1>2

\* overlapMW lets a run in only when no marker, hence no other run, is there.
LEMMA OverlapKeepsIInv ==
    ASSUME IInv, NEW r \in Runs, overlapMW(r)
    PROVE  IInv'
  <1> USE DEF IInv, engineVars, stopVars, callVars, telVars
  <1>1. TypeOK'
    BY DEF overlapMW, FlightAfterSkip, TypeOK, Labels, Counted, Guarded, Errors,
           HandlerResults, JobKnown, Free
  <1>2. /\ pc[r] = "overlap"
        /\ UNCHANGED <<jobOf, activeWg, stopping, waiter, stopPc, timer>>
        /\ \/ /\ jobOf[r] \in inFlight
              /\ inFlight' = inFlight
              /\ pc' = [pc EXCEPT ![r] = "report"]
           \/ /\ jobOf[r] \notin inFlight
              /\ inFlight' = inFlight \cup {jobOf[r]}
              /\ pc' = [pc EXCEPT ![r] = "toggler"]
    BY DEF overlapMW, FlightAfterSkip
  <1>3. jobOf[r] \in Jobs
    BY <1>2 DEF JobKnown, Free
  <1>4. \A q \in Runs : pc'[q] \in Counted <=> pc[q] \in Counted
    BY <1>2 DEF TypeOK, Counted, Guarded
  <1>5. WgExact'
    BY <1>2, <1>4, CountKept
  <1>6. JobKnown'
    BY <1>2 DEF JobKnown, TypeOK, Free
  <1>7. InFlightExact' /\ NoLocalOverlap'
    <2>1. CASE jobOf[r] \in inFlight
      BY <1>2, <2>1 DEF InFlightExact, NoLocalOverlap, TypeOK, Guarded
    <2>2. CASE jobOf[r] \notin inFlight
      <3>1. \A q \in Runs : pc'[q] \in Guarded <=> (pc[q] \in Guarded \/ q = r)
        BY <1>2, <2>2 DEF TypeOK, Guarded
      <3>2. \A q \in Runs : pc[q] \in Guarded => jobOf[q] # jobOf[r]
        BY <1>3, <2>2 DEF InFlightExact
      <3>3. InFlightExact'
        BY <1>2, <2>2, <3>1 DEF InFlightExact
      <3>4. NoLocalOverlap'
        BY <1>2, <3>1, <3>2 DEF NoLocalOverlap
      <3>5. QED
        BY <3>3, <3>4
    <2>3. QED
      BY <2>1, <2>2
  <1>8. StopOrder'
    BY <1>2 DEF StopOrder
  <1>9. QED
    BY <1>1, <1>5, <1>6, <1>7, <1>8

\* Leaving the guarded part of the chain, normally or by a panic, is well typed.
LEMMA LeaveType ==
    ASSUME TypeOK, NEW r \in Runs, NEW e \in Errors, NEW m \in Metrics,
           Leave(r, e, m) \/ Crash(r)
    PROVE  /\ pc' \in [Runs -> Labels] /\ err' \in [Runs -> Errors]
           /\ metric' \in [Runs -> Metrics] /\ unwinding' \in [Runs -> BOOLEAN]
  <1> USE DEF TypeOK, Labels, Counted, Guarded
  <1>1. CASE Leave(r, e, m)
    BY <1>1 DEF Leave
  <1>2. CASE Crash(r)
    BY <1>2 DEF Crash, Errors, HandlerResults
  <1>3. QED
    BY <1>1, <1>2

\* metricsMW records a metric or none.
LEMMA MeasuredType == \A e \in Errors : Measured(e) \in Metrics
  BY DEF Measured, skipReason, errorType, Metrics

\* The steps inside the guard move the run from one guarded place to another.
LEMMA GuardedStepKeepsIInv ==
    ASSUME IInv, NEW r \in Runs,
           togglerMW(r) \/ lockerMW(r) \/ handler(r) \/ unlock(r)
    PROVE  IInv'
  <1> USE DEF IInv, engineVars, stopVars, callVars, telVars
  <1>1. TypeOK'
    <2>1. CASE togglerMW(r)
      <3>1. /\ pc' \in [Runs -> Labels] /\ err' \in [Runs -> Errors]
            /\ metric' \in [Runs -> Metrics] /\ unwinding' \in [Runs -> BOOLEAN]
        <4>1. CASE Leave(r, "disabled", "none") \/ Crash(r)
          BY <4>1, LeaveType DEF Errors, Metrics
        <4>2. CASE pc' = [pc EXCEPT ![r] = "locker"] /\ UNCHANGED <<err, metric, unwinding>>
          BY <4>2 DEF TypeOK, Labels, Counted, Guarded
        <4>3. QED
          BY <2>1, <4>1, <4>2 DEF togglerMW
      <3>2. QED
        BY <2>1, <3>1 DEF togglerMW, TypeOK
    <2>2. CASE lockerMW(r)
      <3>1. /\ pc' \in [Runs -> Labels] /\ err' \in [Runs -> Errors]
            /\ metric' \in [Runs -> Metrics] /\ unwinding' \in [Runs -> BOOLEAN]
        <4>1. ASSUME NEW e \in Errors, Leave(r, e, Measured(e)) \/ Crash(r)
              PROVE  /\ pc' \in [Runs -> Labels] /\ err' \in [Runs -> Errors]
                     /\ metric' \in [Runs -> Metrics] /\ unwinding' \in [Runs -> BOOLEAN]
          BY <4>1, LeaveType, MeasuredType
        <4>2. CASE pc' = [pc EXCEPT ![r] = "handler"] /\ UNCHANGED <<err, metric, unwinding>>
          BY <4>2 DEF TypeOK, Labels, Counted, Guarded
        <4>3. QED
          BY <2>2, <4>1, <4>2 DEF lockerMW, Errors
      <3>2. token' \in [Runs -> BOOLEAN]
        BY <2>2, CronAssumption DEF lockerMW, TypeOK
      <3>3. QED
        BY <2>2, <3>1, <3>2 DEF lockerMW, TypeOK
    <2>3. CASE handler(r)
      <3>1. \A e \in HandlerResults \cup ({ctx[r]} \ {"live"}) : e \in Errors
        BY DEF TypeOK, Errors
      <3>2. QED
        BY <2>3, <3>1 DEF handler, TypeOK, Labels, Counted, Guarded
    <2>4. CASE unlock(r)
      <3>1. /\ pc' \in [Runs -> Labels] /\ err' \in [Runs -> Errors]
            /\ metric' \in [Runs -> Metrics] /\ unwinding' \in [Runs -> BOOLEAN]
        <4>1. err[r] \in Errors /\ Measured(err[r]) \in Metrics
          BY MeasuredType DEF TypeOK
        <4>2. QED
          BY <2>4, <4>1, LeaveType DEF unlock
      <3>2. token' \in [Runs -> BOOLEAN]
        BY <2>4 DEF unlock, TypeOK
      <3>3. QED
        BY <2>4, <3>1, <3>2 DEF unlock, TypeOK
    <2>5. QED
      BY <2>1, <2>2, <2>3, <2>4
  <1>2. /\ pc[r] \in Guarded
        /\ \E l \in Guarded : pc' = [pc EXCEPT ![r] = l]
        /\ UNCHANGED <<jobOf, inFlight, activeWg, stopping, waiter, stopPc, timer>>
    BY DEF togglerMW, lockerMW, handler, unlock, Leave, Crash, Guarded
  <1>3. \A q \in Runs : /\ pc'[q] \in Guarded <=> pc[q] \in Guarded
                        /\ pc'[q] \in Counted <=> pc[q] \in Counted
                        /\ pc'[q] \in Free <=> pc[q] \in Free
    BY <1>2 DEF TypeOK, Guarded, Counted, Free
  <1>4. WgExact'
    BY <1>2, <1>3, CountKept
  <1>5. JobKnown' /\ InFlightExact' /\ NoLocalOverlap'
    BY <1>2, <1>3 DEF JobKnown, InFlightExact, NoLocalOverlap
  <1>6. StopOrder'
    BY <1>2 DEF StopOrder
  <1>7. QED
    BY <1>1, <1>4, <1>5, <1>6

\* The deferred Delete removes the run's own marker: no other run has its job.
LEMMA UnguardKeepsIInv ==
    ASSUME IInv, NEW r \in Runs, unguard(r)
    PROVE  IInv'
  <1> USE DEF IInv, engineVars, stopVars, callVars, telVars, chainVars
  <1>1. TypeOK'
    BY DEF unguard, FlightAfterRun, TypeOK, Labels, Counted
  <1>2. /\ pc[r] = "unguard"
        /\ inFlight' = inFlight \ {jobOf[r]}
        /\ pc' = [pc EXCEPT ![r] = "report"]
        /\ UNCHANGED <<jobOf, activeWg, stopping, waiter, stopPc, timer>>
    BY DEF unguard, FlightAfterRun
  <1>3. \A q \in Runs : pc'[q] \in Counted <=> pc[q] \in Counted
    BY <1>2 DEF TypeOK, Counted, Guarded
  <1>4. WgExact'
    BY <1>2, <1>3, CountKept
  <1>5. JobKnown'
    BY <1>2 DEF JobKnown, TypeOK, Free
  <1>6. \A q \in Runs : pc'[q] \in Guarded <=> (pc[q] \in Guarded /\ q # r)
    BY <1>2 DEF TypeOK, Guarded
  <1>7. pc[r] \in Guarded
    BY <1>2 DEF Guarded
  <1>8. InFlightExact'
    BY <1>2, <1>6, <1>7 DEF InFlightExact, NoLocalOverlap
  <1>9. NoLocalOverlap'
    BY <1>2, <1>6 DEF NoLocalOverlap
  <1>10. StopOrder'
    BY <1>2 DEF StopOrder
  <1>11. QED
    BY <1>1, <1>4, <1>5, <1>8, <1>9, <1>10

\* activeWg.Done: the count was positive, and stays zero once done is closed.
LEMMA FinishKeepsIInv ==
    ASSUME IInv, NEW r \in Runs, finish(r)
    PROVE  IInv'
  <1> USE DEF IInv, engineVars, stopVars, callVars, chainVars
  <1>1. /\ pc[r] = "report"
        /\ activeWg' = activeWg - 1
        /\ pc' = [pc EXCEPT ![r] = "returned"]
        /\ UNCHANGED <<jobOf, inFlight, stopping, waiter, stopPc, timer>>
    BY DEF finish
  <1>2. pc[r] \in Counted
    BY <1>1 DEF Counted
  <1>3. WgExact' /\ activeWg' \in Nat
    BY <1>1, <1>2, CountDown
  <1>4. TypeOK'
    BY <1>3 DEF finish, TypeOK, Labels, Free, logOutcome, spanOutcome
  <1>5. JobKnown'
    BY <1>1 DEF JobKnown, TypeOK, Free
  <1>6. \A q \in Runs : pc'[q] \in Guarded <=> pc[q] \in Guarded
    BY <1>1 DEF TypeOK, Guarded
  <1>7. InFlightExact' /\ NoLocalOverlap'
    BY <1>1, <1>6 DEF InFlightExact, NoLocalOverlap
  <1>8. waiter # "closed"
    BY <1>2, CountZero DEF StopOrder
  <1>9. StopOrder'
    BY <1>1, <1>8 DEF StopOrder
  <1>10. QED
    BY <1>3, <1>4, <1>5, <1>7, <1>9

-----------------------------------------------------------------------------
(* Contexts and Stop.                                                      *)

\* The end of a context moves no run.
LEMMA CtxStepKeepsIInv ==
    ASSUME IInv, NEW r \in Runs, CtxStep(r)
    PROVE  IInv'
  <1> USE DEF IInv, engineVars, stopVars, callVars, telVars, chainVars
  <1>1. PICK why \in {"timeout", "canceled"} : EndCtx(r, why)
    BY DEF CtxStep, RunTimeout, CallerCancel, WatchStop
  <1>2. TypeOK'
    BY <1>1 DEF EndCtx, TypeOK
  <1>3. UNCHANGED <<pc, jobOf, inFlight, activeWg, stopping, waiter, stopPc, timer>>
    BY <1>1 DEF EndCtx
  <1>4. WgExact'
    BY <1>3, CountKept
  <1>5. JobKnown' /\ InFlightExact' /\ NoLocalOverlap'
    BY <1>3, RunPartKept
  <1>6. StopOrder'
    BY <1>3 DEF StopOrder
  <1>7. QED
    BY <1>2, <1>4, <1>5, <1>6

\* Stop moves no run and goes through its phases in order.
LEMMA StopStepKeepsIInv ==
    ASSUME IInv, AwaitCron \/ AwaitRuns \/ \E s \in Stoppers : StopStep(s)
    PROVE  IInv'
  <1> USE DEF IInv, engineVars, callVars, telVars, chainVars
  <1>1. UNCHANGED <<pc, jobOf, inFlight, activeWg>>
    BY DEF AwaitCron, AwaitRuns, StopStep, StopExpire, StopDone, StopGiveUp, StopReturn, Stop
  <1>2. WgExact'
    BY <1>1, CountKept
  <1>3. JobKnown' /\ InFlightExact' /\ NoLocalOverlap'
    BY <1>1, RunPartKept
  <1>4. TypeOK' /\ StopOrder'
    <2>1. CASE AwaitCron
      BY <2>1 DEF AwaitCron, TypeOK, StopOrder
    <2>2. CASE AwaitRuns
      BY <2>2 DEF AwaitRuns, WgDrained, TypeOK, StopOrder
    <2>3. ASSUME NEW s \in Stoppers, StopExpire(s)
          PROVE  TypeOK' /\ StopOrder'
      BY <2>3 DEF StopExpire, TypeOK, StopOrder
    <2>4. ASSUME NEW s \in Stoppers, StopDone(s)
          PROVE  TypeOK' /\ StopOrder'
      BY <2>4 DEF StopDone, StopReturn, TypeOK, StopOrder
    <2>5. ASSUME NEW s \in Stoppers, StopGiveUp(s)
          PROVE  TypeOK' /\ StopOrder'
      BY <2>5 DEF StopGiveUp, StopReturn, TypeOK, StopOrder
    <2>6. ASSUME NEW s \in Stoppers, NEW d \in BOOLEAN, Stop(s, d)
          PROVE  TypeOK' /\ StopOrder'
      <3>1. CASE stopping
        BY <2>6, <3>1 DEF Stop, TypeOK, StopOrder
      <3>2. CASE ~stopping
        <4>1. /\ stopPc[s] = "idle"
              /\ stopping' = TRUE /\ running' = FALSE /\ waiter' = "cron"
              /\ stopPc' = [stopPc EXCEPT ![s] = "waiting"]
              /\ timer' = [timer EXCEPT ![s] = StopTimer(d)]
              /\ UNCHANGED <<jobs, stopCtx, callVars, telVars, chainVars,
                             inFlight, activeWg, pc, ctx>>
          BY <2>6, <3>2 DEF Stop
        <4>2. StopTimer(d) \in {"caller", "config"}
          BY DEF StopTimer
        <4>3. TypeOK'
          BY <4>1, <4>2 DEF TypeOK
        <4>4. StopOrder'
          BY <3>2, <4>1, <4>2 DEF TypeOK, StopOrder
        <4>5. QED
          BY <4>3, <4>4
      <3>3. QED
        BY <3>1, <3>2
    <2>7. QED
      BY <2>1, <2>2, <2>3, <2>4, <2>5, <2>6 DEF StopStep
  <1>5. QED
    BY <1>2, <1>3, <1>4

-----------------------------------------------------------------------------
(* The theorems.                                                           *)

\* Every step preserves the invariant.
LEMMA NextIInv == IInv /\ [Next]_vars => IInv'
  <1> SUFFICES ASSUME IInv, [Next]_vars PROVE IInv'
    OBVIOUS
  <1>1. CASE UNCHANGED vars
    <2>1. UNCHANGED <<pc, jobOf, inFlight, activeWg>>
      BY <1>1 DEF vars, callVars
    <2>2. WgExact'
      BY <2>1, CountKept DEF IInv
    <2>3. JobKnown' /\ InFlightExact' /\ NoLocalOverlap'
      BY <2>1, RunPartKept DEF IInv
    <2>4. TypeOK' /\ StopOrder'
      BY <1>1 DEF IInv, vars, engineVars, stopVars, callVars, telVars, chainVars,
                  TypeOK, StopOrder
    <2>5. QED
      BY <2>2, <2>3, <2>4 DEF IInv
  <1>2. ASSUME NEW r \in Runs, RunStep(r) PROVE IInv'
    BY <1>2, RunGuardKeepsIInv, OverlapKeepsIInv, GuardedStepKeepsIInv,
       UnguardKeepsIInv, FinishKeepsIInv DEF RunStep
  <1>3. QED
    BY <1>1, <1>2, SetupKeepsIInv, CallKeepsIInv, CtxStepKeepsIInv, StopStepKeepsIInv
       DEF Next

\* The inductive invariant holds in every reachable state.
THEOREM Invariance == Spec => []IInv
  BY InitIInv, NextIInv, PTL DEF Spec

\* Every variable keeps its type; in particular the counter behind activeWg
\* never goes negative, which would panic in Go.
THEOREM TypeCorrect == Spec => []TypeOK
  <1>1. IInv => TypeOK
    BY DEF IInv
  <1>2. QED
    BY <1>1, Invariance, PTL

\* The overlap guard: two runs of one job are never inside it together.
THEOREM LocalExclusion == Spec => []NoLocalOverlap
  <1>1. IInv => NoLocalOverlap
    BY DEF IInv
  <1>2. QED
    BY <1>1, Invariance, PTL

\* The overlap markers are exact: none leaks, none is missing.
THEOREM MarkersExact == Spec => []InFlightExact
  <1>1. IInv => InFlightExact
    BY DEF IInv
  <1>2. QED
    BY <1>1, Invariance, PTL

\* A Stop that waited and returned nil leaves no run behind, now or later.
THEOREM StopQuiet == Spec => []StopNilIsQuiet
  <1>1. IInv => StopNilIsQuiet
    BY CountZero DEF IInv, StopOrder, StopNilIsQuiet
  <1>2. QED
    BY <1>1, Invariance, PTL

\* activeWg.Add never runs once Stop's goroutine is in activeWg.Wait.
THEOREM AddBeforeWait == Spec => NoAddDuringWait
  <1>1. ASSUME IInv, [Next]_vars, waiter \in {"wg", "closed"}
        PROVE  activeWg' <= activeWg
    <2>1. stopping /\ activeWg \in Nat
      BY <1>1 DEF IInv, StopOrder, TypeOK
    <2>2. ASSUME NEW r \in Runs, RunStep(r)
          PROVE  activeWg' <= activeWg
      BY <2>1, <2>2 DEF RunStep, RunGuard, Admitted, overlapMW, togglerMW, lockerMW, handler,
                        unlock, unguard, finish
    <2>3. ASSUME NEW r \in Runs, CtxStep(r)
          PROVE  activeWg' = activeWg
      BY <2>3 DEF CtxStep, RunTimeout, CallerCancel, WatchStop, EndCtx
    <2>4. ASSUME NEW s \in Stoppers, StopStep(s)
          PROVE  activeWg' = activeWg
      BY <2>4 DEF StopStep, StopExpire, StopDone, StopGiveUp, StopReturn, Stop
    <2>5. ASSUME NEW r \in Runs, NEW j \in Jobs, Trigger(r, j) \/ Fire(r, j)
          PROVE  activeWg' = activeWg
      BY <2>5 DEF Trigger, Fire, Call
    <2>6. CASE Start \/ AwaitCron \/ AwaitRuns \/ \E j \in Jobs : Register(j)
      BY <2>1, <2>6 DEF Start, AwaitCron, AwaitRuns, Register
    <2>7. CASE UNCHANGED vars
      BY <2>1, <2>7 DEF vars
    <2>8. QED
      BY <1>1, <2>1, <2>2, <2>3, <2>4, <2>5, <2>6, <2>7 DEF Next
  <1>2. IInv /\ [Next]_vars => [(waiter \in {"wg", "closed"}) => (activeWg' <= activeWg)]_vars
    BY <1>1
  <1>3. QED
    BY <1>2, Invariance, PTL DEF Spec, NoAddDuringWait

-----------------------------------------------------------------------------
(* What a run reports.                                                     *)

\* The telemetry of run r so far: none before the guard, a metric that fits
\* the error once the chain is left, all of it once the run has returned.
Reports(r) ==
    /\ pc[r] \in {"idle", "called"} => span[r] = "none"
    /\ pc[r] \in {"called", "overlap", "toggler", "locker", "handler", "unlock"} =>
          metric[r] = "none" /\ ~unwinding[r]
    /\ (pc[r] \in {"unguard", "report"} /\ ~unwinding[r]) => metric[r] = Measured(err[r])
    /\ (pc[r] = "returned" /\ span[r] # "none" /\ ~unwinding[r]) =>
          /\ metric[r] = Measured(err[r])
          /\ log[r] = logOutcome(err[r])
          /\ span[r] = spanOutcome(err[r])
    /\ unwinding[r] => err[r] = "panic" /\ metric[r] = "none"
    /\ (pc[r] = "returned" /\ span[r] # "none" /\ unwinding[r]) =>
          log[r] = "panicked" /\ span[r] = "unset"

ReportsFit == \A r \in Runs : Reports(r)

runVars(r) == <<pc[r], span[r], metric[r], unwinding[r], err[r], log[r]>>

\* A run that a step leaves alone reports what it did.
LEMMA ReportsKept ==
    ASSUME NEW q \in Runs, Reports(q), UNCHANGED runVars(q)
    PROVE  Reports(q)'
  BY DEF Reports, runVars

\* A call, and the guard of runJob.
LEMMA CallReports ==
    ASSUME TypeOK, ReportsFit, NEW r \in Runs, NEW j \in Jobs,
           Trigger(r, j) \/ Fire(r, j) \/ RunGuard(r)
    PROVE  ReportsFit'
  <1>1. ASSUME NEW q \in Runs, q # r PROVE Reports(q)'
    <2>1. UNCHANGED runVars(q)
      BY <1>1 DEF TypeOK, Trigger, Fire, RunGuard, Call, runVars
    <2>2. QED
      BY <2>1, ReportsKept DEF ReportsFit
  <1>2. CASE Trigger(r, j)
    BY <1>1, <1>2 DEF ReportsFit, Reports, TypeOK, Trigger, Call
  <1>3. CASE Fire(r, j)
    BY <1>1, <1>3 DEF ReportsFit, Reports, TypeOK, Fire, Call
  <1>4. CASE RunGuard(r)
    <2>1. Reports(r)
      BY DEF ReportsFit
    <2>2. Reports(r)'
      BY <1>4, <2>1 DEF Reports, TypeOK, RunGuard
    <2>3. QED
      BY <1>1, <2>2 DEF ReportsFit
  <1>5. QED
    BY <1>2, <1>3, <1>4

\* The steps of the chain and of the end of a run.
LEMMA ChainReports ==
    ASSUME TypeOK, ReportsFit, NEW r \in Runs,
           overlapMW(r) \/ togglerMW(r) \/ lockerMW(r) \/ handler(r) \/ unlock(r)
              \/ unguard(r) \/ finish(r)
    PROVE  ReportsFit'
  <1>1. ASSUME NEW q \in Runs, q # r PROVE Reports(q)'
    <2>1. UNCHANGED runVars(q)
      BY <1>1 DEF TypeOK, overlapMW, togglerMW, lockerMW, handler, unlock, unguard, finish,
                  Leave, Crash, telVars, chainVars, runVars
    <2>2. QED
      BY <2>1, ReportsKept DEF ReportsFit
  <1>2. Reports(r)
    BY DEF ReportsFit
  <1>3. CASE overlapMW(r)
    BY <1>1, <1>2, <1>3 DEF ReportsFit, Reports, TypeOK, overlapMW, telVars, Measured, skipReason
  <1>4. CASE togglerMW(r)
    BY <1>1, <1>2, <1>4 DEF ReportsFit, Reports, TypeOK, togglerMW, Leave, Crash, Measured, skipReason
  <1>5. CASE lockerMW(r)
    BY <1>1, <1>2, <1>5 DEF ReportsFit, Reports, TypeOK, lockerMW, Leave, Crash
  <1>6. CASE handler(r)
    BY <1>1, <1>2, <1>6 DEF ReportsFit, Reports, TypeOK, handler, telVars
  <1>7. CASE unlock(r)
    BY <1>1, <1>2, <1>7 DEF ReportsFit, Reports, TypeOK, unlock, Leave, Crash
  <1>8. CASE unguard(r)
    BY <1>1, <1>2, <1>8 DEF ReportsFit, Reports, TypeOK, unguard, telVars, chainVars
  <1>9. CASE finish(r)
    BY <1>1, <1>2, <1>9 DEF ReportsFit, Reports, TypeOK, finish, chainVars
  <1>10. QED
    BY <1>3, <1>4, <1>5, <1>6, <1>7, <1>8, <1>9

\* Every step keeps the reports.
LEMMA NextReports == IInv /\ ReportsFit /\ [Next]_vars => ReportsFit'
  <1> SUFFICES ASSUME IInv, ReportsFit, [Next]_vars PROVE ReportsFit'
    OBVIOUS
  <1>1. TypeOK
    BY DEF IInv
  <1>2. ASSUME UNCHANGED <<pc, telVars, chainVars>> PROVE ReportsFit'
    <2>1. ASSUME NEW q \in Runs PROVE UNCHANGED runVars(q)
      BY <1>2 DEF runVars, telVars, chainVars
    <2>2. QED
      BY <2>1, ReportsKept DEF ReportsFit
  <1>3. ASSUME NEW r \in Runs, RunStep(r) PROVE ReportsFit'
    <2>1. CASE RunGuard(r)
      <3>1. jobOf[r] \in Jobs
        BY <2>1 DEF IInv, JobKnown, RunGuard, Free
      <3>2. QED
        BY <1>1, <2>1, <3>1, CallReports
    <2>2. QED
      BY <1>1, <1>3, <2>1, ChainReports DEF RunStep
  <1>4. ASSUME NEW r \in Runs, CtxStep(r) PROVE ReportsFit'
    BY <1>2, <1>4 DEF CtxStep, RunTimeout, CallerCancel, WatchStop, EndCtx
  <1>5. ASSUME NEW s \in Stoppers, StopStep(s) PROVE ReportsFit'
    BY <1>2, <1>5 DEF StopStep, Stop, StopExpire, StopDone, StopGiveUp, StopReturn
  <1>6. CASE Start \/ AwaitCron \/ AwaitRuns \/ \E j \in Jobs : Register(j)
    BY <1>2, <1>6 DEF Start, AwaitCron, AwaitRuns, Register
  <1>7. CASE UNCHANGED vars
    BY <1>2, <1>7 DEF vars
  <1>8. QED
    BY <1>1, <1>3, <1>4, <1>5, <1>6, <1>7, CallReports DEF Next

\* metricsMW, loggerMW, tracerMW and runJob classify every run that has returned
\* alike; a panic that passes the chain by is logged and returned, not measured.
THEOREM Telemetry == Spec => []TelemetryAgrees
  <1>1. Init => ReportsFit
    BY DEF Init, ReportsFit, Reports
  <1>2. IInv /\ ReportsFit => TelemetryAgrees
    BY DEF IInv, TypeOK, ReportsFit, Reports, TelemetryAgrees, Measured, logOutcome, spanOutcome,
           skipReason, errorType
  <1>3. QED
    BY <1>1, <1>2, NextReports, Invariance, PTL DEF Spec
=============================================================================
