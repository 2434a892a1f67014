-------------------------- MODULE RestServerProofs --------------------------
(***************************************************************************)
(* Proofs about RestServer, for any number of requests, any responses of   *)
(* handlers and any statuses: what a return of Run means, and what the     *)
(* client and the telemetry get to see of a request.                       *)
(***************************************************************************)
EXTENDS RestServer, TLAPS

\* The serving goroutine has reported exactly when the engine has ended; the
\* engine stops exactly while Run drains it, and nothing is served before it
\* is up.
EngineInv ==
    /\ engine = "ended" <=> errc # "none"
    /\ engine = "stopping" <=> run = "draining"
    /\ run = "done" => errc # "none"
    /\ engine \in {"starting", "marked"} => \A r \in Reqs : at[r] = 0

\* The serving goroutine ends with nil only once Run has shut the engine down,
\* and a shutdown without an error left only requests that came after it.
DrainInv ==
    /\ errc = "nil" => run \in {"shut", "done"}
    /\ run \notin {"shut", "done"} => err = "nil"
    /\ result = "nil" => (run = "done" /\ err = "nil" /\ errc = "nil")
    /\ (run \in {"shut", "done"} /\ err = "nil" /\ errc # "error") => \A r \in InFlight : late[r]

RunInv == EngineInv /\ DrainInv

\* A response that recovery has left; only a stream sends headers early.
Aborted(p) ==
    /\ p.status = 500 /\ p.hijack = "none"
    /\ p.writer # "aborted" => (/\ p.writer = "none" /\ p.body = "problem"
                               /\ p.headers \subseteq {"cors"} /\ p.id = "request")
Wired(p) == p.writer = "none" => p.wire = 0

\* Each layer that a request has left on its way out recorded the status of the
\* response as it still is, since a panic does not get past recovery.
Recorded(r) ==
    /\ at[r] \in {1, 2, 3, 4, 7} => panicking[r] # "yes"
    /\ at[r] \in {1, 2, 3, 7} => log[r] = resp[r].status
    /\ at[r] \in {1, 2, 7} => metric[r] = resp[r].status
    /\ at[r] \in {1, 7} => span[r] = resp[r].status
    /\ at[r] = 6 => panicking[r] = "no"
    /\ panicking[r] = "recovered" => Aborted(resp[r])
    /\ Wired(resp[r])

\* What was sent is what was recorded.
Delivered(r) ==
    sent[r].how # "none" =>
        /\ at[r] = 0
        /\ log[r] = sent[r].resp.status
        /\ metric[r] = sent[r].resp.status
        /\ span[r] = sent[r].resp.status
        /\ sent[r].panic # "no" => Aborted(sent[r].resp)
        /\ sent[r].how = "complete" => sent[r].resp.writer # "aborted"
        /\ sent[r].status = clientStatus(sent[r].resp)
        /\ Wired(sent[r].resp)

Quiet(r) == sent[r].how = "none" => sent[r].panic = "no"

ReqInv == \A r \in Reqs : Recorded(r) /\ Delivered(r) /\ Quiet(r)

IInv == TypeOK /\ RunInv /\ ReqInv

-----------------------------------------------------------------------------
(* The responses the code writes.                                          *)

\* The response w is a problem written over the response p.
IsProblem(w, p, s, b) ==
    /\ w \in Responses
    /\ w.status = s /\ w.body = b /\ w.id = "request"
    /\ w.writer = p.writer /\ w.hijack = p.hijack /\ w.headers = p.headers /\ w.wire = p.wire

\* What writeProblem sets and what it leaves.
LEMMA ProblemFields ==
    ASSUME NEW p \in Responses, NEW s \in 200..599, NEW b \in {"problem", "detailed"}
    PROVE  IsProblem(writeProblem(p, s, b), p, s, b)
  <1> USE DEF writeProblem, Responses
  <1>1. writeProblem(p, s, b) \in Responses
    BY ZenonT(60)
  <1>2. writeProblem(p, s, b).status = s /\ writeProblem(p, s, b).body = b
    OBVIOUS
  <1>3. writeProblem(p, s, b).id = "request"
    OBVIOUS
  <1>4. writeProblem(p, s, b).writer = p.writer /\ writeProblem(p, s, b).hijack = p.hijack
    OBVIOUS
  <1>5. writeProblem(p, s, b).headers = p.headers /\ writeProblem(p, s, b).wire = p.wire
    OBVIOUS
  <1> HIDE DEF writeProblem, Responses
  <1> QED
    BY <1>1, <1>2, <1>3, <1>4, <1>5, Zenon DEF IsProblem

\* The response that recovery starts from.
LEMMA CorsResponse ==
    ASSUME NEW p \in Responses
    PROVE  /\ corsOnly(p) \in Responses
           /\ corsOnly(p).writer = "none" /\ corsOnly(p).hijack = "none"
           /\ corsOnly(p).headers \subseteq {"cors"}
           /\ corsOnly(p).wire = 0
  BY DEF corsOnly, Empty, Responses

\* Error corrects the status; the handler may change the header afterwards.
LEMMA ErrorResponse ==
    ASSUME NEW p \in Responses, Wired(p), NEW status \in Int, NEW errs \in BOOLEAN,
           NEW id \in {"request", "other"}
    PROVE  /\ [Error(p, status, errs) EXCEPT !.id = id] \in Responses
           /\ Wired([Error(p, status, errs) EXCEPT !.id = id])
  <1> DEFINE s == IF inRange(status) THEN status ELSE 500
             b == IF errs /\ s < 500 THEN "detailed" ELSE "problem"
  <1>1. s \in 200..599
    BY DEF inRange
  <1>2. b \in {"problem", "detailed"}
    OBVIOUS
  <1>4. Error(p, status, errs) = writeProblem(p, s, b)
    BY DEF Error
  <1> HIDE DEF s, b
  <1>5. IsProblem(writeProblem(p, s, b), p, s, b)
    BY <1>1, <1>2, ProblemFields
  <1> DEFINE e == Error(p, status, errs)
             q == [e EXCEPT !.id = id]
  <1>6. e \in Responses /\ e.writer = p.writer /\ e.wire = p.wire
    BY <1>4, <1>5 DEF IsProblem
  <1> HIDE DEF e
  <1>7. q \in Responses /\ q.writer = e.writer /\ q.wire = e.wire
    BY <1>6 DEF Responses
  <1> QED
    BY <1>6, <1>7 DEF Wired, e

\* recovery leaves a problem or an aborted stream.
LEMMA RecoveredResponse ==
    ASSUME NEW p \in Responses
    PROVE  recovered(p) \in Responses /\ Aborted(recovered(p)) /\ Wired(recovered(p))
  <1>1. PICK s \in 200..599, h \in {"none", "set"}, w \in {"none", "stream", "aborted"},
             b \in {"problem", "detailed"} :
             s = 500 /\ h = "none" /\ w = "aborted" /\ b = "problem"
    OBVIOUS
  <1>2. CASE p.writer # "none"
    <2> DEFINE q == [p EXCEPT !.status = s, !.hijack = h, !.writer = w]
    <2>1. recovered(p) = q
      BY <1>1, <1>2, Zenon DEF recovered
    <2>2. q \in Responses
      <3> DEFINE q1 == [p EXCEPT !.status = s]
                 q2 == [q1 EXCEPT !.hijack = h]
                 q3 == [q2 EXCEPT !.writer = w]
      <3>1. q = q3
        BY Zenon
      <3>2. q1 \in Responses
        BY DEF Responses
      <3> HIDE DEF q1
      <3>3. q2 \in Responses
        BY <3>2 DEF Responses
      <3> HIDE DEF q2
      <3>4. q3 \in Responses
        BY <3>3 DEF Responses
      <3> HIDE DEF q, q3
      <3> QED
        BY <3>1, <3>4, Zenon
    <2>3. q.status = s /\ q.hijack = h
      BY DEF Responses
    <2>4. q.writer = w
      BY DEF Responses
    <2> HIDE DEF q
    <2> QED
      BY <1>1, <2>1, <2>2, <2>3, <2>4 DEF Aborted, Wired
  <1>3. CASE p.writer = "none"
    <2>1. recovered(p) = writeProblem(corsOnly(p), s, b)
      BY <1>1, <1>3, Zenon DEF recovered
    <2>2. corsOnly(p) \in Responses
      BY CorsResponse
    <2>3. IsProblem(writeProblem(corsOnly(p), s, b), corsOnly(p), s, b)
      BY <2>2, ProblemFields
    <2> QED
      BY <1>1, <2>1, <2>3, CorsResponse DEF IsProblem, Aborted, Wired
  <1> QED
    BY <1>2, <1>3

LEMMA HandledResponse ==
    ASSUME NEW p \in Handled
    PROVE  p \in Responses /\ Wired(p)
  <1>1. p \in Responses /\ (p.writer = "none" => p.wire = 0)
    BY ServerAssumption
  <1> QED
    BY <1>1 DEF Wired

-----------------------------------------------------------------------------
(* The invariant.                                                          *)

LEMMA InitInv == Init => IInv
  <1> SUFFICES ASSUME Init PROVE IInv
    OBVIOUS
  <1> USE DEF Init
  <1>1. Empty \in Responses /\ Unsent \in [how : {"none", "complete", "truncated", "closed"},
                                           panic : {"no", "recovered"},
                                           status : {0} \cup 200..599, resp : Responses]
    BY DEF Empty, Unsent, Responses
  <1>2. TypeOK
    BY <1>1 DEF TypeOK
  <1>3. RunInv
    BY DEF RunInv, EngineInv, DrainInv, InFlight
  <1>4. Empty.wire = 0 /\ Unsent.how = "none" /\ Unsent.panic = "no"
    BY DEF Empty, Unsent
  <1>5. \A r \in Reqs : at[r] = 0 /\ panicking[r] = "no" /\ resp[r] = Empty /\ sent[r] = Unsent
    OBVIOUS
  <1>6. ReqInv
    <2> SUFFICES ASSUME NEW r \in Reqs PROVE Recorded(r) /\ Delivered(r) /\ Quiet(r)
      BY DEF ReqInv
    <2>0. Wired(resp[r])
      BY <1>4, <1>5, Zenon DEF Wired
    <2>1. Recorded(r)
      BY <1>5, <2>0 DEF Recorded
    <2>2. Delivered(r) /\ Quiet(r)
      BY <1>4, <1>5, Zenon DEF Delivered, Quiet
    <2> QED
      BY <2>1, <2>2
  <1> QED
    BY <1>2, <1>3, <1>6 DEF IInv

\* Run and the engine leave the requests alone.
LEMMA RunSteps ==
    IInv /\ (EngineComesUp \/ serveFails \/ CtxCancel \/ RunStep \/ ShutdownExpires) => IInv'
  <1> SUFFICES ASSUME IInv,
                      EngineComesUp \/ serveFails \/ CtxCancel \/ RunStep \/ ShutdownExpires
               PROVE  IInv'
    OBVIOUS
  <1> USE DEF EngineComesUp, serveFails, CtxCancel, RunStep, ShutdownExpires,
              ReturnServeError, AwaitListener, ShutdownCall, ShutdownReturns, CloseTick,
              ReturnAfterShutdown, shutdownErr, closes, serveEnded, IsRunning, reqVars
  <1>1. UNCHANGED reqVars
    OBVIOUS
  <1>2. ReqInv'
    BY <1>1 DEF IInv, ReqInv, Recorded, Delivered, Quiet
  <1>3. TypeOK'
    BY <1>1 DEF IInv, TypeOK
  <1>4. EngineInv'
    BY <1>1 DEF IInv, TypeOK, RunInv, EngineInv
  <1>5. DrainInv'
    <2> USE <1>1 DEF IInv, TypeOK, RunInv, EngineInv, DrainInv, InFlight
    <2>1. CASE EngineComesUp \/ serveFails \/ CtxCancel \/ ShutdownExpires
      BY <2>1
    <2>2. CASE ReturnServeError
      BY <2>2
    <2>7. CASE AwaitListener
      BY <2>7
    <2>3. CASE ShutdownCall
      BY <2>3
    <2>4. CASE ShutdownReturns
      BY <2>4
    <2>5. CASE CloseTick
      BY <2>5
    <2>6. CASE ReturnAfterShutdown
      BY <2>6
    <2> QED
      BY <2>1, <2>2, <2>3, <2>4, <2>5, <2>6, <2>7
  <1> QED
    BY <1>2, <1>3, <1>4, <1>5 DEF IInv, RunInv

\* A request arrives only while the engine serves.
LEMMA EnterStep == ASSUME NEW r \in Reqs, IInv, Enter(r) PROVE IInv'
  <1> USE DEF Enter, runVars
  <1>7. /\ [Empty EXCEPT !.id = "request"] \in Responses
        /\ Unsent \in [how : {"none", "complete", "truncated", "closed"},
                       panic : {"no", "recovered"}, status : {0} \cup 200..599, resp : Responses]
    BY DEF Empty, Unsent, Responses
  <1>8. (run \in {"shut", "done"}) \in BOOLEAN
    OBVIOUS
  <1>1. TypeOK'
    <2>1. resp' \in [Reqs -> Responses]
      BY <1>7 DEF IInv, TypeOK
    <2> DEFINE S == [how : {"none", "complete", "truncated", "closed"}, panic : {"no", "recovered"},
                     status : {0} \cup 200..599, resp : Responses]
    <2>2. sent' \in [Reqs -> S]
      <3>1. sent \in [Reqs -> S] /\ sent' = [sent EXCEPT ![r] = Unsent] /\ Unsent \in S
        BY <1>7, Zenon DEF IInv, TypeOK
      <3> HIDE DEF S
      <3> QED
        BY <3>1
    <2>3. late' \in [Reqs -> BOOLEAN]
      BY <1>8 DEF IInv, TypeOK
    <2>4. /\ at' \in [Reqs -> 0..7] /\ panicking' \in [Reqs -> {"no", "yes", "recovered"}]
          /\ {log, metric, span}' \subseteq [Reqs -> {0} \cup 200..599] /\ active' \in [Reqs -> 0..1]
      BY DEF IInv, TypeOK
    <2> QED
      BY <2>1, <2>2, <2>3, <2>4 DEF IInv, TypeOK
  <1>2. EngineInv'
    BY DEF IInv, TypeOK, RunInv, EngineInv
  <1>5. errc = "none" /\ InFlight' = InFlight \cup {r} /\ r \notin InFlight
    BY DEF IInv, TypeOK, RunInv, EngineInv, InFlight
  <1>6. /\ \A q \in Reqs : q # r => late'[q] = late[q]
        /\ run \in {"shut", "done"} => late'[r]
    <2>1. late \in [Reqs -> BOOLEAN] /\ late' = [late EXCEPT ![r] = run \in {"shut", "done"}]
      BY DEF IInv, TypeOK
    <2> HIDE DEF Enter
    <2> QED
      BY <2>1, Zenon
  <1>4. DrainInv'
    BY <1>5, <1>6 DEF IInv, TypeOK, RunInv, EngineInv, DrainInv, InFlight
  <1>3. ReqInv'
    BY DEF IInv, TypeOK, ReqInv, Recorded, Delivered, Quiet, Wired, Empty, Unsent
  <1> QED
    BY <1>1, <1>2, <1>3, <1>4 DEF IInv, RunInv

LEMMA HandlerStep ==
    ASSUME NEW r \in Reqs, NEW p \in Handled, IInv, HandlerEnds(r, p) PROVE IInv'
  <1> USE DEF HandlerEnds, runVars
  <1>1. PICK q : q \in Responses /\ Wired(q) /\ resp' = [resp EXCEPT ![r] = q]
    BY HandledResponse, ErrorResponse, ServerAssumption
  <1>2. TypeOK'
    BY <1>1 DEF IInv, TypeOK
  <1>3. RunInv'
    BY DEF IInv, TypeOK, RunInv, EngineInv, DrainInv, InFlight
  <1>4. ReqInv'
    BY <1>1 DEF IInv, TypeOK, ReqInv, Recorded, Delivered, Quiet
  <1> QED
    BY <1>2, <1>3, <1>4 DEF IInv

LEMMA UnwindStep == ASSUME NEW r \in Reqs, IInv, Unwind(r) PROVE IInv'
  <1> USE DEF runVars
  <1>1. at[r] \in {1, 2, 3, 4, 5} /\ at' = [at EXCEPT ![r] = IF at[r] = 1 THEN 7 ELSE at[r] - 1]
    BY DEF Unwind
  <1>2. UNCHANGED <<runVars, late, sent>>
    BY DEF Unwind
  <1>3. RunInv'
    BY <1>1, <1>2 DEF IInv, TypeOK, RunInv, EngineInv, DrainInv, InFlight
  <1>4. resp[r] \in Responses /\ Wired(resp[r]) /\ resp[r].status \in 200..599
    BY DEF IInv, TypeOK, ReqInv, Recorded, Responses
  <1>10. chain[1] = "requestID" /\ chain[2] = "tracing" /\ chain[3] = "measure"
         /\ chain[4] = "logging" /\ chain[5] = "recovery"
    BY DEF chain
  <1>12. at' \in [Reqs -> 0..7]
    BY <1>1 DEF IInv, TypeOK
  <1>11. at[r] # 5 => panicking[r] # "yes"
    BY <1>1 DEF IInv, ReqInv, Recorded
  <1>5. CASE at[r] = 5
    <2>0. recovered(resp[r]) \in Responses /\ Aborted(recovered(resp[r])) /\ Wired(recovered(resp[r]))
      BY <1>4, RecoveredResponse
    <2>1. recovery(r) /\ UNCHANGED <<log, metric, span, active>>
      BY <1>5, <1>10 DEF Unwind
    <2>4. panicking' \in [Reqs -> {"no", "yes", "recovered"}]
      BY <2>1, SMTT(30) DEF IInv, TypeOK, recovery
    <2>5. resp' \in [Reqs -> Responses]
      BY <2>0, <2>1, SMTT(30) DEF IInv, TypeOK, recovery
    <2>2. TypeOK'
      BY <1>2, <1>12, <2>1, <2>4, <2>5 DEF IInv, TypeOK
    <2>3. ReqInv'
      BY <1>1, <1>2, <1>4, <1>5, <2>0, <2>1
         DEF IInv, TypeOK, ReqInv, Recorded, Delivered, Quiet, recovery
    <2> QED
      BY <1>3, <2>2, <2>3 DEF IInv
  <1>6. CASE at[r] = 4
    <2>1. log' = [log EXCEPT ![r] = resp[r].status] /\ UNCHANGED <<panicking, resp, metric, span, active>>
      BY <1>6, <1>10, <1>11 DEF Unwind
    <2>2. TypeOK'
      BY <1>2, <1>4, <1>12, <2>1 DEF IInv, TypeOK
    <2>3. ReqInv'
      BY <1>1, <1>2, <1>6, <2>1 DEF IInv, TypeOK, ReqInv, Recorded, Delivered, Quiet
    <2> QED
      BY <1>3, <2>2, <2>3 DEF IInv
  <1>7. CASE at[r] = 3
    <2>1. /\ metric' = [metric EXCEPT ![r] = resp[r].status]
          /\ active' = [active EXCEPT ![r] = 0]
          /\ UNCHANGED <<panicking, resp, log, span>>
      BY <1>7, <1>10, <1>11 DEF Unwind
    <2>2. TypeOK'
      BY <1>2, <1>4, <1>12, <2>1 DEF IInv, TypeOK
    <2>3. ReqInv'
      BY <1>1, <1>2, <1>7, <2>1 DEF IInv, TypeOK, ReqInv, Recorded, Delivered, Quiet
    <2> QED
      BY <1>3, <2>2, <2>3 DEF IInv
  <1>8. CASE at[r] = 2
    <2>1. span' = [span EXCEPT ![r] = resp[r].status] /\ UNCHANGED <<panicking, resp, log, metric, active>>
      BY <1>8, <1>10, <1>11 DEF Unwind
    <2>2. TypeOK'
      BY <1>2, <1>4, <1>12, <2>1 DEF IInv, TypeOK
    <2>3. ReqInv'
      BY <1>1, <1>2, <1>8, <2>1 DEF IInv, TypeOK, ReqInv, Recorded, Delivered, Quiet
    <2> QED
      BY <1>3, <2>2, <2>3 DEF IInv
  <1>9. CASE at[r] = 1
    <2>1. UNCHANGED <<panicking, resp, log, metric, span, active>>
      BY <1>9, <1>10 DEF Unwind
    <2>2. TypeOK'
      BY <1>2, <1>12, <2>1 DEF IInv, TypeOK
    <2>3. ReqInv'
      BY <1>1, <1>2, <1>9, <2>1 DEF IInv, TypeOK, ReqInv, Recorded, Delivered, Quiet
    <2> QED
      BY <1>3, <2>2, <2>3 DEF IInv
  <1> QED
    BY <1>1, <1>5, <1>6, <1>7, <1>8, <1>9

LEMMA WriteStep == ASSUME NEW r \in Reqs, IInv, Write(r) PROVE IInv'
  <1> USE DEF Write, runVars
  <1> DEFINE q == [how |-> outcome(resp[r]), panic |-> panicking[r],
                   status |-> clientStatus(resp[r]), resp |-> resp[r]]
  <1>1. panicking[r] \in {"no", "recovered"} /\ resp[r] \in Responses
    BY DEF IInv, TypeOK, ReqInv, Recorded
  <1>2. /\ outcome(resp[r]) \in {"complete", "truncated", "closed"}
        /\ outcome(resp[r]) = "complete" => resp[r].writer # "aborted"
        /\ clientStatus(resp[r]) \in {0} \cup 200..599
    BY <1>1 DEF outcome, clientStatus, Responses
  <1>3. q \in [how : {"none", "complete", "truncated", "closed"}, panic : {"no", "recovered"},
               status : {0} \cup 200..599, resp : Responses]
    BY <1>1, <1>2
  <1>4. sent' = [sent EXCEPT ![r] = q]
    OBVIOUS
  <1>5. TypeOK'
    BY <1>3, <1>4 DEF IInv, TypeOK
  <1>6. RunInv'
    BY DEF IInv, TypeOK, RunInv, EngineInv, DrainInv, InFlight
  <1>7. ReqInv'
    BY <1>2 DEF IInv, TypeOK, ReqInv, Recorded, Delivered, Quiet
  <1> QED
    BY <1>5, <1>6, <1>7 DEF IInv

\* IInv is an invariant of the server.
THEOREM Invariance == Spec => []IInv
  <1>1. Init => IInv
    BY InitInv
  <1>2. IInv /\ [Next]_vars => IInv'
    <2> SUFFICES ASSUME IInv, [Next]_vars PROVE IInv'
      OBVIOUS
    <2>1. CASE UNCHANGED vars
      BY <2>1 DEF vars, runVars, reqVars, IInv, TypeOK, RunInv, EngineInv, DrainInv, InFlight,
                  ReqInv, Recorded, Delivered, Quiet
    <2>2. CASE Next
      BY <2>2, RunSteps, EnterStep, HandlerStep, UnwindStep, WriteStep DEF Next
    <2> QED
      BY <2>1, <2>2
  <1> QED
    BY <1>1, <1>2, PTL DEF Spec

-----------------------------------------------------------------------------
(* The theorems.                                                           *)

\* Every variable of the server stays in its type.
THEOREM TypeCorrect == Spec => []TypeOK
  <1>1. IInv => TypeOK
    BY DEF IInv
  <1> QED
    BY <1>1, Invariance, PTL

\* A nil result of Run means that the requests that came before the shutdown
\* have been answered.
THEOREM NilDrained == Spec => []NilIsDrained
  <1>1. IInv => NilIsDrained
    BY DEF IInv, RunInv, DrainInv, NilIsDrained
  <1> QED
    BY <1>1, Invariance, PTL

\* Run returns only when the engine has ended.
THEOREM EndsServing == Spec => []RunEndsServing
  <1>1. IInv => RunEndsServing
    BY DEF IInv, RunInv, EngineInv, RunEndsServing
  <1> QED
    BY <1>1, Invariance, PTL

\* Log line, metric and span of a request agree, and with what the client saw
\* of it unless it was streamed.
THEOREM Telemetry == Spec => []TelemetryAgrees
  <1>1. IInv => TelemetryAgrees
    BY DEF IInv, ReqInv, Delivered, Aborted, Wired, TelemetryAgrees, clientStatus
  <1> QED
    BY <1>1, Invariance, PTL

\* A response whose handler panicked never looks complete unless it is the
\* problem recovery wrote.
THEOREM Panics == Spec => []PanicNotCompleted
  <1>1. IInv => PanicNotCompleted
    BY DEF IInv, ReqInv, Delivered, Quiet, Aborted, PanicNotCompleted
  <1> QED
    BY <1>1, Invariance, PTL
=============================================================================
