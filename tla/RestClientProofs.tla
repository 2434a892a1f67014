-------------------------- MODULE RestClientProofs --------------------------
(***************************************************************************)
(* Proofs about RestClient for any configuration that Config.Validate      *)
(* accepts, any width of a duration, any requests, limits and headers.     *)
(***************************************************************************)
EXTENDS RestClient, WellFoundedInduction, TLAPS

\* The part of TypeOK the arguments need.
Shape ==
    /\ pc \in {"idle", "next", "flight", "back", "waiting", "done"}
    /\ opt \in Nat /\ owned \in Nat /\ saved \in Nat
    /\ bound \in Nat /\ age \in Nat /\ left \in Nat /\ flight \in Nat
    /\ paused \in Nat /\ attempt \in Nat \ {0} /\ sent \in Nat
    /\ resp.after \in RetryAfters
    /\ resp = [status |-> resp.status, after |-> resp.after, own |-> resp.own, skip |-> resp.skip]

\* The call has left what its limit leaves, and the attempt in flight ends by
\* then: Hertz, which ignores the context, has the rest of the limit as its
\* request timeout.
TimeLeft ==
    /\ InCall => age + left = bound
    /\ pc = "flight" => flight <= left

\* deadline's copy holds the caller's timeout while the request has another one.
Settings ==
    /\ pc = "flight" => saved = owned
    /\ pc # "flight" => opt = owned
    /\ InCall => resp.skip = skip

\* An attempt is sent at most once, and only a request that may be sent again
\* has a second attempt.
Attempts ==
    /\ pc = "next" => sent < attempt
    /\ sent <= attempt
    /\ (attempt > 1 \/ pc = "waiting") => retryable

\* No idle connection holds the response to an earlier request.
CleanPool == conn # "poisoned" /\ resp.own = TRUE

\* The vendor has asked for a time in seconds.
Asked ==
    err = {} /\ resp.status \in {429, 503} /\ resp.after.form = "secs" /\ resp.after.n >= 0

\* MaxRetryAfter is less than the longest duration there is.
WideEnough == MaxRetryAfter < Half - 1

\* While retry waits, the time the vendor asked for is the time since its answer
\* and the rest of the wait.
AskedTime ==
    (WideEnough /\ pc = "waiting" /\ Asked) =>
        /\ delay \in Nat /\ paused + delay >= resp.after.n
        /\ resp.after.n <= MaxRetryAfter

IInv == Shape /\ TimeLeft /\ Settings /\ Attempts /\ CleanPool /\ AskedTime

-----------------------------------------------------------------------------
(* The powers of two.  Induction is by sets of natural numbers: only Nat   *)
(* has 0 and the successor of each of its elements.                        *)

LEMMA SetInduction ==
    ASSUME NEW S \in SUBSET Nat, 0 \in S, \A n \in S : n + 1 \in S
    PROVE  S = Nat
  <1> DEFINE R == {p \in Nat \X Nat : p[1] < p[2]}
             T == Nat \ S
  <1>1. IsWellFoundedOn(R, Nat)
    BY NatLessThanWellFounded DEF OpToRel
  <1>2. SUFFICES ASSUME T # {} PROVE FALSE
    OBVIOUS
  <1>3. PICK n \in T : \A k \in T : ~(<<k, n>> \in R)
    <2>1. T \subseteq Nat
      OBVIOUS
    <2> HIDE DEF R, T
    <2> QED
      BY <1>1, <1>2, <2>1, WFMin
  <1>4. n \in Nat /\ n # 0 /\ n - 1 \in Nat /\ (n - 1) + 1 = n
    OBVIOUS
  <1>5. n - 1 \notin S
    BY <1>4
  <1>6. n - 1 \in T /\ <<n - 1, n>> \in R
    BY <1>4, <1>5
  <1> QED
    BY <1>3, <1>6

\* The beginnings of Pow2.
Doubles(g, n) == g \in [0..n -> Nat] /\ g[0] = 1 /\ \A k \in 1..n : g[k] = 2 * g[k - 1]

LEMMA DoublesExist == \A n \in Nat : \E g : Doubles(g, n)
  <1> DEFINE S == {n \in Nat : \E g : Doubles(g, n)}
  <1>1. 0 \in S
    <2>1. Doubles([k \in 0..0 |-> 1], 0)
      BY DEF Doubles
    <2> QED
      BY <2>1
  <1>2. ASSUME NEW n \in S PROVE n + 1 \in S
    <2>1. PICK g : Doubles(g, n)
      OBVIOUS
    <2>2. n \in Nat
      OBVIOUS
    <2> DEFINE h == [k \in 0..(n + 1) |-> IF k = n + 1 THEN 2 * g[n] ELSE g[k]]
    <2>3. /\ \A k \in 0..n : h[k] = g[k] /\ g[k] \in Nat
          /\ h[n + 1] = 2 * g[n]
      BY <2>1, <2>2 DEF Doubles
    <2>4. h \in [0..(n + 1) -> Nat]
      BY <2>1, <2>2, <2>3 DEF Doubles
    <2>5. h[0] = 1
      BY <2>1, <2>2, <2>3 DEF Doubles
    <2>6. ASSUME NEW k \in 1..(n + 1) PROVE h[k] = 2 * h[k - 1]
      <3> HIDE DEF h
      <3>1. k - 1 \in 0..n /\ h[k - 1] = g[k - 1]
        BY <2>2, <2>3
      <3>2. CASE k = n + 1
        BY <2>2, <2>3, <3>1, <3>2
      <3>3. CASE k # n + 1
        <4>1. k \in 1..n /\ k \in 0..n
          BY <2>2, <3>3
        <4> QED
          BY <2>1, <2>3, <3>1, <4>1 DEF Doubles
      <3> QED
        BY <3>2, <3>3
    <2>7. Doubles(h, n + 1)
      <3> HIDE DEF h
      <3> QED
        BY <2>4, <2>5, <2>6 DEF Doubles
    <2> QED
      BY <2>2, <2>7
  <1>3. S = Nat
    <2> HIDE DEF S
    <2>1. S \in SUBSET Nat
      BY DEF S
    <2> QED
      BY <1>1, <1>2, <2>1, SetInduction
  <1> QED
    BY <1>3

\* Two beginnings agree.
LEMMA DoublesAgree ==
    ASSUME NEW n \in Nat, NEW m \in Nat, NEW g, NEW h, Doubles(g, n), Doubles(h, m)
    PROVE  \A k \in Nat : k <= n /\ k <= m => g[k] = h[k]
  <1> DEFINE S == {k \in Nat : k <= n /\ k <= m => g[k] = h[k]}
  <1>1. 0 \in S
    BY DEF Doubles
  <1>2. ASSUME NEW k \in S PROVE k + 1 \in S
    <2>1. k \in Nat /\ (k <= n /\ k <= m => g[k] = h[k])
      OBVIOUS
    <2> SUFFICES ASSUME k + 1 <= n, k + 1 <= m PROVE g[k + 1] = h[k + 1]
      BY <2>1
    <2>2. k + 1 \in 1..n /\ k + 1 \in 1..m /\ (k + 1) - 1 = k /\ g[k] = h[k]
      BY <2>1
    <2> HIDE DEF S
    <2>3. g[k + 1] = 2 * g[k] /\ h[k + 1] = 2 * h[k]
      BY <2>2 DEF Doubles
    <2> QED
      BY <2>2, <2>3
  <1>3. S = Nat
    <2> HIDE DEF S
    <2>1. S \in SUBSET Nat
      BY DEF S
    <2> QED
      BY <1>1, <1>2, <2>1, SetInduction
  <1> QED
    BY <1>3

\* Pow2 is what its definition says.
LEMMA Pow2Def == /\ Pow2[0] = 1
                 /\ \A n \in Nat : Pow2[n] \in Nat /\ Pow2[n + 1] = 2 * Pow2[n]
  <1> DEFINE B(n) == CHOOSE g : Doubles(g, n)
             f == [n \in Nat |-> B(n)[n]]
  <1>1. ASSUME NEW n \in Nat PROVE Doubles(B(n), n)
    BY DoublesExist
  <1> HIDE DEF B
  <1>2. ASSUME NEW n \in Nat PROVE f[n] \in Nat
    <2>1. n \in 0..n
      OBVIOUS
    <2> QED
      BY <1>1, <2>1 DEF Doubles
  <1>3. f[0] = 1
    BY <1>1 DEF Doubles
  <1>4. ASSUME NEW n \in Nat, n # 0 PROVE f[n] = 2 * f[n - 1]
    <2>1. n - 1 \in Nat /\ n \in 1..n /\ n - 1 <= n
      BY <1>4
    <2>2. B(n)[n] = 2 * B(n)[n - 1]
      BY <1>1, <2>1 DEF Doubles
    <2>3. B(n)[n - 1] = B(n - 1)[n - 1]
      BY <1>1, <2>1, DoublesAgree
    <2> QED
      BY <2>1, <2>2, <2>3
  <1> DEFINE F(p) == [n \in Nat |-> IF n = 0 THEN 1 ELSE 2 * p[n - 1]]
  <1>5. f = F(f)
    <2>1. \A n \in Nat : f[n] = F(f)[n]
      BY <1>3, <1>4
    <2> QED
      BY <2>1
  <1> HIDE DEF f
  <1>6. Pow2 = F(Pow2)
    BY <1>5, Zenon DEF Pow2
  <1>7. Pow2[0] = 1 /\ \A n \in Nat : Pow2[n + 1] = 2 * Pow2[n]
    <2>1. Pow2[0] = 1
      BY <1>6
    <2>2. ASSUME NEW n \in Nat PROVE Pow2[n + 1] = 2 * Pow2[n]
      <3>1. n + 1 \in Nat /\ n + 1 # 0 /\ (n + 1) - 1 = n
        OBVIOUS
      <3> QED
        BY <1>6, <3>1
    <2> QED
      BY <2>1, <2>2
  <1>8. \A n \in Nat : Pow2[n] \in Nat
    <2> DEFINE S == {n \in Nat : Pow2[n] \in Nat}
    <2>1. 0 \in S /\ \A n \in S : n + 1 \in S
      BY <1>7
    <2>2. S \in SUBSET Nat
      OBVIOUS
    <2> HIDE DEF S
    <2>3. S = Nat
      BY <2>1, <2>2, SetInduction
    <2> QED
      BY <2>3 DEF S
  <1> QED
    BY <1>7, <1>8

\* Pow2 is positive and grows.
LEMMA Pow2Grows == \A m, n \in Nat : Pow2[m] > 0 /\ (m <= n => Pow2[m] <= Pow2[n])
  <1>1. ASSUME NEW m \in Nat PROVE Pow2[m] > 0
    <2> DEFINE S == {n \in Nat : Pow2[n] > 0}
    <2>1. 0 \in S /\ \A n \in S : n + 1 \in S
      BY Pow2Def
    <2>2. S \in SUBSET Nat
      OBVIOUS
    <2> HIDE DEF S
    <2>3. S = Nat
      BY <2>1, <2>2, SetInduction
    <2> QED
      BY <2>3 DEF S
  <1>2. ASSUME NEW m \in Nat PROVE \A n \in Nat : Pow2[m] <= Pow2[m + n]
    <2> DEFINE S == {n \in Nat : Pow2[m] <= Pow2[m + n]}
    <2>1. 0 \in S
      BY Pow2Def
    <2>2. ASSUME NEW n \in S PROVE n + 1 \in S
      <3>1. n \in Nat /\ m + n \in Nat /\ Pow2[m] <= Pow2[m + n] /\ m + (n + 1) = (m + n) + 1 /\ n + 1 \in Nat
        OBVIOUS
      <3>2. Pow2[m] \in Nat /\ Pow2[m + n] \in Nat /\ Pow2[(m + n) + 1] = 2 * Pow2[m + n]
        BY <3>1, Pow2Def
      <3>3. Pow2[m] <= Pow2[m + (n + 1)]
        BY <3>1, <3>2
      <3> QED
        BY <3>1, <3>3
    <2>3. S \in SUBSET Nat
      OBVIOUS
    <2> HIDE DEF S
    <2>4. S = Nat
      BY <2>1, <2>2, <2>3, SetInduction
    <2> QED
      BY <2>4 DEF S
  <1>3. ASSUME NEW m \in Nat, NEW n \in Nat, m <= n PROVE Pow2[m] <= Pow2[n]
    <2>1. n - m \in Nat /\ m + (n - m) = n
      BY <1>3
    <2> QED
      BY <1>2, <2>1
  <1> QED
    BY <1>1, <1>3

LEMMA HalfPositive == Half \in Nat /\ Half > 0
  <1>1. Width - 1 \in Nat
    BY RestAssumption DEF RestAssumption
  <1> QED
    BY <1>1, Pow2Def, Pow2Grows DEF Half

-----------------------------------------------------------------------------
(* The invariant.                                                          *)

LEMMA Limits ==
    /\ AttemptTimeout \in Nat /\ Timeout \in Nat /\ MaxRetryAfter \in Nat
    /\ \A o \in CallerTimeouts : o \in Nat
    /\ \A dl \in CtxDeadlines : dl \in Nat
  BY RestAssumption DEF RestAssumption, ValidConfig, Durations

LEMMA CallLimitType == ASSUME NEW o \in Nat, NEW dl \in Nat PROVE callLimit(o, dl) \in Nat
  BY Limits DEF callLimit, Least

\* A duration of seconds that is accepted is what the header says: the clamp
\* before the conversion keeps it from wrapping around.
LEMMA WrapLeast ==
    ASSUME WideEnough, NEW n \in Nat, Wrap(Least(n, Half - 1)) <= MaxRetryAfter
    PROVE  Wrap(Least(n, Half - 1)) = n
  <1>1. Half \in Nat /\ Half > 0 /\ MaxRetryAfter < Half - 1
    BY RestAssumption, HalfPositive DEF RestAssumption, WideEnough
  <1> HIDE DEF Half
  <1>2. \A x \in 0..(Half - 1) : (x + Half) % (2 * Half) = x + Half
    BY <1>1
  <1>3. Wrap(Least(n, Half - 1)) = Least(n, Half - 1)
    BY <1>1, <1>2 DEF Wrap, Least
  <1> QED
    BY <1>1, <1>3, Limits DEF Least

LEMMA LessType == ASSUME NEW n \in Nat PROVE Less(n) \in Nat
  BY DEF Less

-----------------------------------------------------------------------------
(* The invariant.                                                          *)

LEMMA InitInv == Init => IInv
  BY Limits, RestAssumption DEF Init, IInv, Shape, TimeLeft, Settings, Attempts, CleanPool,
     AskedTime, InCall, Blank, RestAssumption

LEMMA CallInv ==
    ASSUME IInv, NEW r \in Requests, NEW o \in CallerTimeouts, NEW dl \in CtxDeadlines,
           NEW s \in BOOLEAN, Call(r, o, dl, s)
    PROVE  IInv'
  <1> USE DEF IInv
  <1>1. opt' \in Nat /\ owned' = opt'
    BY Limits DEF Call, Shape, Settings
  <1>2. left' \in Nat /\ bound' = left'
    BY <1>1, Limits, CallLimitType DEF Call
  <1>3. Shape'
    BY <1>1, <1>2, RestAssumption DEF Call, Shape, Blank, RestAssumption
  <1>4. TimeLeft'
    BY <1>2 DEF Call, TimeLeft, InCall
  <1>5. Settings'
    BY <1>1 DEF Call, Settings, InCall, Blank
  <1>6. Attempts'
    BY DEF Call, Attempts
  <1>7. CleanPool' /\ AskedTime'
    BY DEF Call, CleanPool, AskedTime, Blank
  <1> QED
    BY <1>3, <1>4, <1>5, <1>6, <1>7

LEMMA AttemptInv == ASSUME IInv, Attempt PROVE IInv'
  <1> USE DEF IInv
  <1>1. attemptTimeout \in Nat /\ attemptTimeout <= left
    BY Limits DEF Shape, attemptTimeout, Least
  <1> HIDE DEF attemptTimeout
  <1>2. Shape'
    BY <1>1 DEF Attempt, Shape, ctxVars
  <1>3. TimeLeft'
    BY <1>1 DEF Attempt, Shape, TimeLeft, InCall, ctxVars
  <1>4. Settings'
    BY DEF Attempt, Settings, InCall
  <1>5. Attempts'
    BY DEF Attempt, Shape, Attempts, retryable
  <1>6. CleanPool' /\ AskedTime'
    BY DEF Attempt, CleanPool, AskedTime
  <1> QED
    BY <1>2, <1>3, <1>4, <1>5, <1>6

LEMMA RespondInv ==
    ASSUME IInv, NEW status \in Statuses, NEW h \in RetryAfters, Respond(status, h)
    PROVE  IInv'
  <1> USE DEF IInv
  <1>1. resp' = [status |-> status, after |-> h, own |-> conn # "poisoned", skip |-> resp.skip]
    BY DEF Respond, Shape
  <1>2. resp'.own = TRUE /\ resp'.skip = resp.skip
    BY <1>1 DEF CleanPool
  <1>3. conn' # "poisoned"
    BY DEF Respond, connAfter, keptConn, CleanPool
  <1>4. Shape'
    <2>1. resp' = [status |-> resp'.status, after |-> resp'.after, own |-> resp'.own,
                   skip |-> resp'.skip] /\ resp'.after = h
      BY <1>1
    <2> QED
      BY <2>1 DEF Respond, Shape, ctxVars, timeoutAfter
  <1>5. TimeLeft'
    BY DEF Respond, TimeLeft, InCall, ctxVars
  <1>6. Settings'
    BY <1>2 DEF Respond, Settings, InCall, timeoutAfter
  <1>7. Attempts' /\ AskedTime'
    BY DEF Respond, Attempts, retryable, AskedTime
  <1> QED
    BY <1>2, <1>3, <1>4, <1>5, <1>6, <1>7 DEF CleanPool

LEMMA FailInv == ASSUME IInv, NEW e, Fail(e) PROVE IInv'
  <1> USE DEF IInv, Fail
  <1>1. Shape'
    BY DEF Shape, ctxVars, timeoutAfter
  <1>2. TimeLeft'
    BY DEF TimeLeft, InCall, ctxVars
  <1>3. Settings'
    BY DEF Settings, InCall, timeoutAfter
  <1>4. Attempts' /\ CleanPool' /\ AskedTime'
    BY DEF Attempts, retryable, CleanPool, AskedTime
  <1> QED
    BY <1>1, <1>2, <1>3, <1>4

LEMMA ReturnInv == ASSUME IInv, Return PROVE IInv'
  <1> USE DEF IInv, Return, reqVars, ctxVars, callVars
  <1>1. Shape'
    BY DEF Shape
  <1>2. TimeLeft' /\ Settings'
    BY DEF TimeLeft, Settings, InCall
  <1>3. Attempts' /\ CleanPool' /\ AskedTime'
    BY DEF Attempts, retryable, CleanPool, AskedTime
  <1> QED
    BY <1>1, <1>2, <1>3

LEMMA DecideInv == ASSUME IInv, Decide PROVE IInv'
  <1> USE DEF IInv, Decide, reqVars, ctxVars
  <1>1. Shape'
    BY DEF Shape
  <1>2. TimeLeft' /\ Settings'
    BY DEF TimeLeft, Settings, InCall
  <1>3. Attempts' /\ CleanPool'
    BY DEF Attempts, goesOn, retryable, CleanPool
  <1>4. AskedTime'
    <2> SUFFICES ASSUME WideEnough, Asked, pc' = "waiting"
                 PROVE  /\ delay' \in Nat
                        /\ paused + delay' >= resp.after.n /\ resp.after.n <= MaxRetryAfter
      BY DEF AskedTime, Asked
    <2>1. delay' \in retryDelays
      BY DEF Shape
    <2>2. resp.after.n \in Nat
      BY RestAssumption DEF RestAssumption, Shape, Asked
    <2>3. parseRetryAfter(resp.after) = {Wrap(Least(resp.after.n, Half - 1))}
      BY <2>2 DEF parseRetryAfter, Asked
    <2>4. delay' = Wrap(Least(resp.after.n, Half - 1)) /\ delay' <= MaxRetryAfter
      BY <2>1, <2>3 DEF retryDelays, Asked
    <2> QED
      BY <2>2, <2>4, WrapLeast DEF Shape
  <1> QED
    BY <1>1, <1>2, <1>3, <1>4

LEMMA WaitFiresInv == ASSUME IInv, WaitFires PROVE IInv'
  <1> USE DEF IInv, WaitFires, reqVars, ctxVars, respBeforeRetry, Blank
  <1>1. Shape'
    BY RestAssumption DEF Shape, RestAssumption
  <1>2. TimeLeft' /\ Settings'
    BY DEF TimeLeft, Settings, InCall
  <1>3. Attempts'
    BY DEF Shape, Attempts, retryable
  <1>4. CleanPool' /\ AskedTime'
    BY DEF CleanPool, AskedTime
  <1> QED
    BY <1>1, <1>2, <1>3, <1>4

LEMMA WaitCanceledInv == ASSUME IInv, WaitCanceled PROVE IInv'
  <1> USE DEF IInv, WaitCanceled, reqVars, ctxVars
  <1>1. Shape'
    BY DEF Shape
  <1>2. TimeLeft' /\ Settings'
    BY DEF TimeLeft, Settings, InCall
  <1>3. Attempts' /\ CleanPool' /\ AskedTime'
    BY DEF Attempts, retryable, CleanPool, AskedTime
  <1> QED
    BY <1>1, <1>2, <1>3

LEMMA CtxEndsInv == ASSUME IInv, CtxEnds PROVE IInv'
  <1> USE DEF IInv, CtxEnds, reqVars, callVars
  <1>1. Shape'
    BY DEF Shape
  <1>2. TimeLeft' /\ Settings'
    BY DEF TimeLeft, Settings, InCall
  <1>3. Attempts' /\ CleanPool' /\ AskedTime'
    BY DEF Attempts, retryable, CleanPool, AskedTime, Asked
  <1> QED
    BY <1>1, <1>2, <1>3

LEMMA TickInv == ASSUME IInv, Tick PROVE IInv'
  <1> USE DEF IInv, Tick, reqVars
  <1>1. Shape'
    BY LessType DEF Shape
  <1>2. left > 0
    BY DEF Shape, TimeLeft, InCall, Urgent
  <1>3. TimeLeft'
    BY <1>2 DEF Shape, TimeLeft, InCall, Urgent, Less
  <1>4. Settings'
    BY DEF Settings, InCall
  <1>5. Attempts' /\ CleanPool'
    BY DEF Attempts, retryable, CleanPool
  <1>6. AskedTime'
    <2> SUFFICES ASSUME WideEnough, pc = "waiting", Asked
                 PROVE  /\ delay' \in Nat /\ paused' + delay' >= resp.after.n
                        /\ resp.after.n <= MaxRetryAfter
      BY DEF AskedTime, Asked
    <2>1. /\ delay \in Nat /\ paused + delay >= resp.after.n
          /\ resp.after.n <= MaxRetryAfter /\ ~(delay <= 0)
      BY DEF AskedTime, Urgent
    <2>2. resp.after.n \in Int
      BY RestAssumption DEF RestAssumption, Shape
    <2> QED
      BY <2>1, <2>2 DEF Shape, Less
  <1> QED
    BY <1>1, <1>3, <1>4, <1>5, <1>6

LEMMA StutterInv == ASSUME IInv, UNCHANGED vars PROVE IInv'
  <1> USE DEF IInv, vars, reqVars, ctxVars, callVars
  <1>1. Shape'
    BY DEF Shape
  <1>2. TimeLeft' /\ Settings'
    BY DEF TimeLeft, Settings, InCall
  <1>3. Attempts' /\ CleanPool' /\ AskedTime'
    BY DEF Attempts, retryable, CleanPool, AskedTime, Asked
  <1> QED
    BY <1>1, <1>2, <1>3

LEMMA NextInv == ASSUME IInv, [Next]_vars PROVE IInv'
  BY CallInv, ReturnInv, AttemptInv, RespondInv, FailInv, DecideInv, WaitFiresInv,
     WaitCanceledInv, CtxEndsInv, TickInv, StutterInv DEF Next

-----------------------------------------------------------------------------
(* Types.                                                                  *)

\* Spans and measurements are counted like attempts.
Records == (pc = "next" => records < attempt) /\ records <= attempt

\* TypeOK in parts, with what they need of one another.
TimeType ==
    /\ opt \in 0..(Half - 1) /\ owned \in 0..(Half - 1) /\ saved \in 0..(Half - 1)
    /\ bound \in 0..(Half - 1) /\ left \in 0..(Half - 1) /\ age \in Nat
    /\ flight \in 0..AttemptTimeout /\ delay \in Nat /\ paused \in Nat
CountType ==
    /\ attempt \in 1..MaxAttempts /\ sent \in 0..MaxAttempts /\ records \in 0..MaxAttempts
    /\ Records
    /\ pc = "waiting" => attempt < MaxAttempts
NameType ==
    /\ pc \in {"idle", "next", "flight", "back", "waiting", "done"}
    /\ req \in Requests /\ skip \in BOOLEAN
    /\ ctx \in {"live", "deadline", "canceled"}
    /\ err \subseteq Sentinels
    /\ conn \in {"none", "clean", "poisoned"} /\ used \in BOOLEAN
RespType ==
    resp \in [status : Statuses \cup {0}, after : RetryAfters, own : BOOLEAN, skip : BOOLEAN]
MeasureType ==
    measured \in [status : Statuses \cup {0}, type : {"", "timeout", "canceled", "_OTHER", "status"}]

Types == TimeType /\ CountType /\ NameType /\ RespType /\ MeasureType

LEMMA TypesSuffice == Types => TypeOK
  BY DEF Types, TypeOK, TimeType, CountType, NameType, RespType, MeasureType

LEMMA InitTypes == Init => Types
  <1> SUFFICES ASSUME Init PROVE Types
    OBVIOUS
  <1> USE DEF Init
  <1>1. TimeType
    BY HalfPositive, RestAssumption, Limits DEF RestAssumption, TimeType, Durations
  <1>2. CountType
    BY RestAssumption DEF RestAssumption, ValidConfig, CountType, Records
  <1>3. NameType
    BY DEF NameType
  <1>4. RespType
    BY RestAssumption DEF RestAssumption, RespType, Blank
  <1>5. MeasureType
    BY DEF MeasureType, NoOutcome
  <1> QED
    BY <1>1, <1>2, <1>3, <1>4, <1>5 DEF Types

LEMMA BlankType ==
    ASSUME NEW s \in BOOLEAN
    PROVE  Blank(s) \in [status : Statuses \cup {0}, after : RetryAfters, own : BOOLEAN, skip : BOOLEAN]
  BY RestAssumption DEF RestAssumption, Blank

LEMMA IntervalNat == ASSUME NEW e, NEW d \in 0..e PROVE d \in Nat
  OBVIOUS

LEMMA MeasureKept ==
    ASSUME NEW status \in Statuses \cup {0}, NEW e, measure(status, e)
    PROVE  MeasureType'
  BY DEF measure, attemptOutcome, ClientErrorType, MeasureType

\* What Next does to the state the types are about, action by action.
LEMMA NextCases ==
    ASSUME [Next]_vars
    PROVE  \/ \E r \in Requests, o \in CallerTimeouts, dl \in CtxDeadlines, s \in BOOLEAN : Call(r, o, dl, s)
           \/ Attempt
           \/ \E status \in Statuses, h \in RetryAfters : Respond(status, h)
           \/ \E e \in {"dropped", "permanent", "timeout"} : Fail(e)
           \/ Return \/ Decide \/ WaitFires \/ WaitCanceled \/ CtxEnds \/ Tick \/ UNCHANGED vars
  BY DEF Next

\* A delay is not negative: jitter, or a Retry-After.
LEMMA DelayNat == ASSUME IInv, NEW d \in retryDelays PROVE d \in Nat
  <1>1. ASSUME NEW x \in parseRetryAfter(resp.after) PROVE x \in Nat
    <2>1. resp.after.n \in Int
      BY RestAssumption DEF RestAssumption, IInv, Shape
    <2>2. Half \in Nat /\ Half > 0
      BY HalfPositive, RestAssumption DEF RestAssumption
    <2>3. CASE resp.after.form = "secs" /\ resp.after.n >= 0
      <3>1. Least(resp.after.n, Half - 1) \in 0..(Half - 1)
        BY <2>1, <2>2, <2>3 DEF Least
      <3>2. \A y \in 0..(Half - 1) : Wrap(y) = y
        BY <2>2 DEF Wrap
      <3> QED
        BY <1>1, <2>1, <2>2, <2>3, <3>1, <3>2 DEF parseRetryAfter
    <2>4. CASE resp.after.form = "date"
      BY <1>1, <2>1, <2>4 DEF parseRetryAfter, Most
    <2> QED
      BY <1>1, <2>1, <2>3, <2>4 DEF parseRetryAfter
  <1> QED
    BY <1>1, IntervalNat DEF retryDelays

LEMMA TimeTypeStep == ASSUME IInv, Types, [Next]_vars PROVE TimeType'
  <1> USE DEF Types
  <1>0. Half \in Nat /\ AttemptTimeout \in 1..(Half - 1) /\ Timeout \in 1..(Half - 1)
    BY HalfPositive, RestAssumption DEF RestAssumption, ValidConfig, Durations
  <1>1. ASSUME NEW r \in Requests, NEW o \in CallerTimeouts, NEW dl \in CtxDeadlines,
               NEW s \in BOOLEAN, Call(r, o, dl, s)
        PROVE  TimeType'
    <2>1. opt' \in 0..(Half - 1) /\ owned' \in 0..(Half - 1) /\ dl \in 0..(Half - 1)
      BY <1>0, <1>1, RestAssumption DEF RestAssumption, Durations, Call, TimeType
    <2>2. bound' \in 0..(Half - 1) /\ left' \in 0..(Half - 1)
      BY <1>0, <1>1, <2>1 DEF Call, callLimit, Least
    <2> QED
      BY <1>1, <2>1, <2>2 DEF Call, TimeType
  <1>2. CASE Attempt
    <2>1. attemptTimeout \in 0..(Half - 1) /\ attemptTimeout \in 0..AttemptTimeout
      BY <1>0 DEF attemptTimeout, Least, TimeType
    <2> QED
      BY <1>2, <2>1 DEF Attempt, TimeType, ctxVars
  <1>3. CASE \/ \E status \in Statuses, h \in RetryAfters : Respond(status, h)
             \/ \E e \in {"dropped", "permanent", "timeout"} : Fail(e)
    <2>1. flight' = 0 /\ paused' = 0 /\ opt' = saved /\ UNCHANGED <<owned, saved, ctxVars, delay>>
      BY <1>3 DEF Respond, Fail, timeoutAfter
    <2> QED
      BY <1>0, <2>1 DEF TimeType, ctxVars
  <1>4. CASE Decide
    BY <1>4, DelayNat DEF Decide, TimeType, reqVars, ctxVars
  <1>5. CASE Tick
    BY <1>0, <1>5 DEF Tick, Less, TimeType, reqVars
  <1>6. CASE Return \/ WaitFires \/ WaitCanceled \/ CtxEnds \/ UNCHANGED vars
    BY <1>6 DEF Return, WaitFires, WaitCanceled, CtxEnds, vars, TimeType, reqVars, ctxVars, callVars
  <1> QED
    BY <1>1, <1>2, <1>3, <1>4, <1>5, <1>6, NextCases

LEMMA CountTypeStep == ASSUME IInv, Types, [Next]_vars PROVE CountType'
  <1> USE DEF Types, CountType, Records
  <1>0. MaxAttempts \in Nat /\ MaxAttempts > 0
    BY RestAssumption DEF RestAssumption, ValidConfig
  <1>1. CASE \E r \in Requests, o \in CallerTimeouts, dl \in CtxDeadlines, s \in BOOLEAN : Call(r, o, dl, s)
    BY <1>0, <1>1 DEF Call
  <1>2. CASE Attempt
    <2>1. sent < attempt /\ records < attempt
      BY <1>2 DEF IInv, Attempts, Attempt
    <2> QED
      BY <1>0, <1>2, <2>1 DEF Attempt, tracing
  <1>3. CASE \/ \E status \in Statuses, h \in RetryAfters : Respond(status, h)
             \/ \E e \in {"dropped", "permanent", "timeout"} : Fail(e)
    BY <1>3 DEF Respond, Fail
  <1>4. CASE Decide
    BY <1>4 DEF Decide, goesOn, attemptsLeft
  <1>5. CASE WaitFires
    BY <1>0, <1>5 DEF WaitFires
  <1>6. CASE Return \/ WaitCanceled \/ CtxEnds \/ Tick \/ UNCHANGED vars
    BY <1>6 DEF Return, WaitCanceled, CtxEnds, Tick, vars, callVars
  <1> QED
    BY <1>1, <1>2, <1>3, <1>4, <1>5, <1>6, NextCases

LEMMA NameTypeStep == ASSUME IInv, Types, [Next]_vars PROVE NameType'
  <1> USE DEF Types, NameType, Sentinels
  <1>1. CASE \E r \in Requests, o \in CallerTimeouts, dl \in CtxDeadlines, s \in BOOLEAN : Call(r, o, dl, s)
    BY <1>1 DEF Call
  <1>2. CASE Attempt
    BY <1>2 DEF Attempt, ctxErr, ctxVars
  <1>3. ASSUME NEW status \in Statuses, NEW h \in RetryAfters, Respond(status, h) PROVE NameType'
    BY <1>3 DEF Respond, ctxErr, ctxVars, connAfter, keptConn
  <1>4. ASSUME NEW e \in {"dropped", "permanent", "timeout"}, Fail(e) PROVE NameType'
    BY <1>4 DEF Fail, ctxErr, ctxVars
  <1>5. CASE Decide \/ WaitFires \/ WaitCanceled
    BY <1>5 DEF Decide, WaitFires, WaitCanceled, ctxErr, reqVars, ctxVars
  <1>6. CASE Return \/ CtxEnds \/ Tick \/ UNCHANGED vars
    BY <1>6 DEF Return, CtxEnds, Tick, vars, reqVars, ctxVars, callVars
  <1> QED
    BY <1>1, <1>2, <1>3, <1>4, <1>5, <1>6, NextCases

LEMMA RespTypeStep == ASSUME IInv, Types, [Next]_vars PROVE RespType'
  <1> USE DEF Types, RespType
  <1>1. CASE \E r \in Requests, o \in CallerTimeouts, dl \in CtxDeadlines, s \in BOOLEAN : Call(r, o, dl, s)
    BY <1>1, BlankType DEF Call
  <1>2. ASSUME NEW status \in Statuses, NEW h \in RetryAfters, Respond(status, h) PROVE RespType'
    <2>1. resp' = [resp EXCEPT !.status = status, !.after = h, !.own = TRUE]
      BY <1>2 DEF Respond, IInv, CleanPool
    <2> QED
      BY <2>1
  <1>3. CASE WaitFires
    <2>1. resp.skip \in BOOLEAN
      OBVIOUS
    <2> QED
      BY <1>3, <2>1, BlankType DEF WaitFires, respBeforeRetry
  <1>4. CASE \/ Attempt \/ \E e \in {"dropped", "permanent", "timeout"} : Fail(e)
             \/ Return \/ Decide \/ WaitCanceled \/ CtxEnds \/ Tick \/ UNCHANGED vars
    BY <1>4 DEF Attempt, Fail, Return, Decide, WaitCanceled, CtxEnds, Tick, vars, callVars
  <1> QED
    BY <1>1, <1>2, <1>3, <1>4, NextCases

LEMMA MeasureTypeStep == ASSUME IInv, Types, [Next]_vars PROVE MeasureType'
  <1> USE DEF Types
  <1>0. resp.status \in Statuses \cup {0}
    BY DEF RespType
  <1>1. CASE \E r \in Requests, o \in CallerTimeouts, dl \in CtxDeadlines, s \in BOOLEAN : Call(r, o, dl, s)
    <2>1. measured' = NoOutcome
      BY <1>1 DEF Call
    <2> QED
      BY <2>1 DEF NoOutcome, MeasureType
  <1>2. CASE Attempt
    <2>1. CASE UNCHANGED measured
      BY <2>1 DEF MeasureType
    <2> QED
      BY <1>0, <1>2, <2>1, MeasureKept DEF Attempt
  <1>3. ASSUME NEW status \in Statuses, NEW h \in RetryAfters, Respond(status, h) PROVE MeasureType'
    BY <1>3, MeasureKept DEF Respond
  <1>4. ASSUME NEW e \in {"dropped", "permanent", "timeout"}, Fail(e) PROVE MeasureType'
    BY <1>0, <1>4, MeasureKept DEF Fail
  <1>5. CASE Return \/ Decide \/ WaitFires \/ WaitCanceled \/ CtxEnds \/ Tick \/ UNCHANGED vars
    BY <1>5 DEF Return, Decide, WaitFires, WaitCanceled, CtxEnds, Tick, vars, callVars, MeasureType
  <1> QED
    BY <1>1, <1>2, <1>3, <1>4, <1>5, NextCases

-----------------------------------------------------------------------------
(* The theorems.                                                           *)

\* The inductive invariant holds in every reachable state of a client.
THEOREM Invariance == Spec => []IInv
  BY InitInv, NextInv, PTL DEF Spec

\* The client's state is well typed; in particular no more than MaxAttempts
\* attempts are sent and measured, and no delay is negative.
THEOREM TypeCorrect == Spec => []TypeOK
  <1>1. ASSUME IInv, Types, [Next]_vars PROVE Types'
    BY <1>1, TimeTypeStep, CountTypeStep, NameTypeStep, RespTypeStep, MeasureTypeStep DEF Types
  <1> QED
    BY <1>1, InitTypes, TypesSuffice, Invariance, PTL DEF Spec

\* logging, deadline and wait: a call, retries and waits included, ends by the
\* limit its caller gave it.
THEOREM WithinLimit == Spec => []DeadlineHolds
  <1>1. IInv => DeadlineHolds
    BY DEF IInv, Shape, TimeLeft, DeadlineHolds
  <1> QED
    BY <1>1, Invariance, PTL

\* deadline and retry: the caller's timeout and SkipBody survive every call.
THEOREM SettingsKept == Spec => []CallerSettingsKept
  <1>1. IInv => CallerSettingsKept
    BY DEF IInv, Settings, CallerSettingsKept
  <1> QED
    BY <1>1, Invariance, PTL

\* retry and retryable: what must not be sent twice is not.
THEOREM SentOnce == Spec => []NoUnsafeResend
  <1>1. IInv => NoUnsafeResend
    BY DEF IInv, Shape, Attempts, retryable, NoUnsafeResend
  <1> QED
    BY <1>1, Invariance, PTL

\* deadline and ErrInformationalResponse: a call that succeeds has the response
\* to its own request.
THEOREM OwnAnswer == Spec => []OwnResponse
  <1>1. IInv => OwnResponse
    BY DEF IInv, CleanPool, OwnResponse
  <1> QED
    BY <1>1, Invariance, PTL

\* retryDelay and parseRetryAfter: a vendor's Retry-After is waited for, when
\* the longest wait allowed is less than the longest duration.
THEOREM Honoured ==
    ASSUME WideEnough
    PROVE  Spec => RetryAfterHonoured
  <1>1. (IInv /\ [Next]_vars) =>
           [(pc = "waiting" /\ pc' = "next" /\ err = {} /\ resp.status \in {429, 503}
                /\ resp.after.form = "secs" /\ resp.after.n >= 0)
            => (paused >= resp.after.n /\ resp.after.n <= MaxRetryAfter)]_vars
    <2> SUFFICES ASSUME IInv, Next, pc = "waiting", pc' = "next", Asked
                 PROVE  paused >= resp.after.n /\ resp.after.n <= MaxRetryAfter
      BY DEF Asked
    <2>1. WaitFires
      BY DEF Next, Call, Return, Attempt, Respond, Fail, Decide, WaitCanceled, CtxEnds, Tick
    <2>2. resp.after.n \in Int
      BY RestAssumption DEF RestAssumption, IInv, Shape
    <2> QED
      BY <2>1, <2>2 DEF WaitFires, IInv, Shape, AskedTime
  <1> QED
    BY <1>1, Invariance, PTL DEF Spec, RetryAfterHonoured

-----------------------------------------------------------------------------
(* What a call reports of its attempts.                                    *)

\* The last attempt's outcome fits what next returned.
OutcomeFits ==
    pc = "back" =>
        /\ (measured.status # 0) = (err = {})
        /\ (measured.type = "timeout") = ("deadline" \in err)

\* An attempt that is recorded and was not sent is one that deadline refused:
\* no time was left, and none will be.
Refused ==
    /\ records >= sent
    /\ pc = "flight" => records = sent
    /\ records # sent => measured.status = 0
    /\ (InCall /\ records # sent) => (left = 0 \/ ctx # "live")
    /\ (pc \in {"back", "done"} /\ records # sent) => {"deadline", "canceled"} \cap err # {}

\* The counters and the time left are natural numbers.
LEMMA CountersNat == ASSUME TypeOK PROVE records \in Nat /\ sent \in Nat /\ left \in Nat
  <1>1. records \in 0..MaxAttempts /\ sent \in 0..MaxAttempts /\ left \in 0..(Half - 1)
    BY DEF TypeOK
  <1>2. records \in Nat
    BY <1>1, IntervalNat
  <1>3. sent \in Nat
    BY <1>1, IntervalNat
  <1>4. left \in Nat
    BY <1>1, IntervalNat
  <1>5. QED
    BY <1>2, <1>3, <1>4

\* The status and the type of an outcome.
LEMMA OutcomeOf ==
    ASSUME NEW status, NEW e, status # 0 \/ e # {}
    PROVE  /\ (attemptOutcome(status, e).status # 0) = (e = {})
           /\ (attemptOutcome(status, e).type = "timeout") = ("deadline" \in e)
           /\ e # {} => attemptOutcome(status, e).status = 0
  BY DEF attemptOutcome, ClientErrorType

\* Attempt: refused or sent.
LEMMA AttemptReports ==
    ASSUME TypeOK, OutcomeFits, Refused, Attempt
    PROVE  OutcomeFits' /\ Refused'
  <1>1. records \in Nat /\ sent \in Nat /\ left \in Nat /\ AttemptTimeout \in Nat
    BY CountersNat, Limits
  <1>2. CASE ctx = "live" /\ attemptTimeout > 0
    <2>1. left > 0
      BY <1>1, <1>2 DEF attemptTimeout, Least
    <2>2. records = sent
      BY <1>2, <2>1 DEF Refused, Attempt, InCall
    <2>3. pc' = "flight" /\ records' = records + 1 /\ sent' = sent + 1 /\ left' = left
      BY <1>1, <1>2 DEF Attempt, tracing, ctxVars, attemptTimeout, Least
    <2>4. QED
      BY <1>1, <2>2, <2>3 DEF OutcomeFits, Refused, InCall
  <1>3. CASE ctx # "live" \/ attemptTimeout <= 0
    <2>1. /\ pc' = "back" /\ records' = records + 1 /\ UNCHANGED <<sent, left, ctx>>
          /\ err' = IF ctx # "live" THEN {ctx} ELSE {"deadline"}
          /\ measured' = attemptOutcome(resp.status, err')
      BY <1>1, <1>3 DEF Attempt, tracing, measure, ctxVars, ctxErr, attemptTimeout, Least
    <2>2. {"deadline", "canceled"} \cap err' # {} /\ err' # {}
      BY <2>1 DEF TypeOK
    <2>3. OutcomeFits'
      BY <2>1, <2>2, OutcomeOf DEF OutcomeFits
    <2>4. measured'.status = 0
      BY <2>1, <2>2, OutcomeOf
    <2>5. left = 0 \/ ctx # "live"
      BY <1>1, <1>3, RestAssumption DEF RestAssumption, ValidConfig, Durations, attemptTimeout, Least
    <2>6. QED
      BY <1>1, <2>1, <2>2, <2>3, <2>4, <2>5 DEF Refused, InCall
  <1>4. QED
    BY <1>1, <1>2, <1>3 DEF attemptTimeout, Least

\* Respond and Fail: the attempt was sent.
LEMMA AnswerReports ==
    ASSUME TypeOK, Refused, NEW status, NEW f,
           pc = "flight", pc' = "back", UNCHANGED <<records, sent>>,
           err' = f, measured' = attemptOutcome(status, f), status # 0 \/ f # {}
    PROVE  OutcomeFits' /\ Refused'
  <1>1. records = sent /\ sent \in Nat
    BY CountersNat DEF Refused
  <1>2. OutcomeFits'
    BY OutcomeOf DEF OutcomeFits
  <1>3. QED
    BY <1>1, <1>2 DEF Refused

\* Every step keeps the reports.
LEMMA NextReports == TypeOK /\ OutcomeFits /\ Refused /\ [Next]_vars => OutcomeFits' /\ Refused'
  <1> SUFFICES ASSUME TypeOK, OutcomeFits, Refused, [Next]_vars PROVE OutcomeFits' /\ Refused'
    OBVIOUS
  <1>0. records \in Nat /\ sent \in Nat /\ left \in Nat
    BY CountersNat
  <1>1. CASE \E r \in Requests, o \in CallerTimeouts, dl \in CtxDeadlines, s \in BOOLEAN : Call(r, o, dl, s)
    BY <1>1 DEF Call, OutcomeFits, Refused
  <1>2. ASSUME NEW status \in Statuses, NEW h \in RetryAfters, Respond(status, h)
        PROVE  OutcomeFits' /\ Refused'
    <2>1. status # 0
      BY DEF Statuses
    <2>2. QED
      BY <1>2, <2>1, AnswerReports DEF Respond, measure
  <1>3. ASSUME NEW e \in {"dropped", "permanent", "timeout"}, Fail(e)
        PROVE  OutcomeFits' /\ Refused'
    BY <1>3, AnswerReports DEF Fail, measure
  <1>4. CASE Return
    BY <1>4 DEF Return, callVars, OutcomeFits, Refused, InCall
  <1>5. CASE Decide
    BY <1>5 DEF Decide, ctxVars, OutcomeFits, Refused, InCall
  <1>6. CASE WaitFires
    BY <1>6 DEF WaitFires, ctxVars, OutcomeFits, Refused, InCall
  <1>7. CASE WaitCanceled
    BY <1>7 DEF WaitCanceled, ctxVars, ctxErr, TypeOK, OutcomeFits, Refused, InCall
  <1>8. CASE CtxEnds
    BY <1>8 DEF CtxEnds, callVars, OutcomeFits, Refused, InCall
  <1>9. CASE Tick
    BY <1>0, <1>9 DEF Tick, Less, OutcomeFits, Refused, InCall
  <1>10. CASE UNCHANGED vars
    BY <1>10 DEF vars, callVars, ctxVars, OutcomeFits, Refused, InCall
  <1>11. QED
    BY <1>1, <1>2, <1>3, <1>4, <1>5, <1>6, <1>7, <1>8, <1>9, <1>10, AttemptReports DEF Next

\* attemptOutcome, deadline and logCall: what is recorded of the attempts fits
\* what the call returns, for attempts that were refused too.
THEOREM Telemetry == Spec => []TelemetryAgrees
  <1>1. Init => OutcomeFits /\ Refused
    BY DEF Init, OutcomeFits, Refused
  <1>2. TypeOK /\ OutcomeFits /\ Refused => TelemetryAgrees
    BY CountersNat DEF OutcomeFits, Refused, TelemetryAgrees
  <1>3. QED
    BY <1>1, <1>2, NextReports, TypeCorrect, PTL DEF Spec

-----------------------------------------------------------------------------
(* The backoff.                                                            *)

\* A duration that fits does not wrap.
LEMMA WrapFits == ASSUME NEW x \in 0..(Half - 1) PROVE Wrap(x) = x
  <1>1. Half \in Nat /\ Half > 0
    BY HalfPositive
  <1> HIDE DEF Half
  <1>2. (x + Half) % (2 * Half) = x + Half
    BY <1>1
  <1> QED
    BY <1>1, <1>2 DEF Wrap

\* The test before the shift is the test of the product.
LEMMA QuotientTest ==
    ASSUME NEW b \in Nat, NEW m \in Nat, NEW p \in Nat, p > 0
    PROVE  (b <= m \div p) <=> (b * p <= m)
  <1> DEFINE q == m \div p
             r == m % p
  <1>1. q \in Int /\ r \in 0..(p - 1) /\ m = p * q + r
    OBVIOUS
  <1> HIDE DEF q, r
  <1>2. CASE b <= q
    <2>1. b * p <= q * p
      BY <1>1, <1>2
    <2> QED
      BY <1>1, <1>2, <2>1 DEF q
  <1>3. CASE b >= q + 1
    <2>1. b * p >= (q + 1) * p
      BY <1>1, <1>3
    <2>2. (q + 1) * p = p * q + p
      BY <1>1
    <2> QED
      BY <1>1, <1>3, <2>1, <2>2 DEF q
  <1> QED
    BY <1>1, <1>2, <1>3

\* What backoff computes, for every attempt.
LEMMA BackoffCap ==
    ASSUME attempt \in Nat \ {0}
    PROVE  backoffCap = Least(BackoffMax, BackoffBase * Pow2[attempt - 1]) /\ backoffCap > 0
  <1> DEFINE n == attempt - 1
             p == Pow2[n]
  <1>1. /\ Half = Pow2[Width - 1] /\ Half \in Nat /\ Width \in Nat /\ Width - 1 \in Nat /\ n \in Nat
        /\ BackoffBase \in 1..(Half - 1) /\ BackoffMax \in 1..(Half - 1)
    BY RestAssumption, HalfPositive DEF RestAssumption, ValidConfig, Durations, Half
  <1>2. p \in Nat /\ p > 0 /\ (n >= Width => Half <= p)
    <2>1. n >= Width => Width - 1 <= n
      BY <1>1
    <2> QED
      BY <1>1, <2>1, Pow2Def, Pow2Grows
  <1> HIDE DEF Half, n, p
  <1>3. BackoffBase * p \in Nat /\ BackoffBase * p >= p
    BY <1>1, <1>2
  <1>4. CASE n >= Width
    <2>1. Shr(BackoffMax, n) = 0
      BY <1>4 DEF Shr
    <2>2. backoffCap = BackoffMax
      BY <1>1, <2>1 DEF backoffCap, n
    <2>3. BackoffBase * p >= BackoffMax
      BY <1>1, <1>2, <1>3, <1>4
    <2> QED
      BY <1>1, <1>3, <2>2, <2>3 DEF Least, p, n
  <1>5. CASE n < Width
    <2>1. Shr(BackoffMax, n) = BackoffMax \div p /\ Shl(BackoffBase, n) = Wrap(BackoffBase * p)
      BY <1>1, <1>5 DEF Shr, Shl, p
    <2>2. (BackoffBase <= BackoffMax \div p) <=> (BackoffBase * p <= BackoffMax)
      BY <1>1, <1>2, QuotientTest
    <2>3. CASE BackoffBase * p <= BackoffMax
      <3>1. BackoffBase * p \in 0..(Half - 1)
        BY <1>1, <1>3, <2>3
      <3>2. backoffCap = BackoffBase * p
        BY <2>1, <2>2, <2>3, <3>1, WrapFits DEF backoffCap, n
      <3> QED
        BY <1>1, <1>2, <1>3, <2>3, <3>2 DEF Least, p, n
    <2>4. CASE ~(BackoffBase * p <= BackoffMax)
      <3>1. backoffCap = BackoffMax
        BY <2>1, <2>2, <2>4 DEF backoffCap, n
      <3> QED
        BY <1>1, <1>3, <2>4, <3>1 DEF Least, p, n
    <2> QED
      BY <2>3, <2>4
  <1> QED
    BY <1>1, <1>4, <1>5

\* The bound of the jitter is the smaller of BackoffMax and BackoffBase doubled
\* for every attempt before, however many there were and whatever the width of a
\* duration, and never zero, for which rand.N panics (backoff).
THEOREM BackoffIsExact == Spec => []BackoffExact
  <1>1. IInv => BackoffExact
    BY BackoffCap DEF IInv, Shape, BackoffExact
  <1> QED
    BY <1>1, Invariance, PTL
=============================================================================
