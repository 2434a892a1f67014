--------------------------- MODULE LifetimeProofs ---------------------------
(***************************************************************************)
(* Proofs about what is left when a part of a service has ended: the       *)
(* consumers after Shutdown (NatsLifecycle), the tasks after Wait          *)
(* (ErrGroup), the pool's metrics after Close and the meter provider after *)
(* Stop (DataClients), for any number of calls and goroutines, and what    *)
(* the telemetry says of a call that has ended (CallTelemetry).  The       *)
(* components share no state; Init, Next and Spec are NatsLifecycle's.     *)
(* The last part is about BindQuery, which has no state at all: what the   *)
(* database client makes of a query before it sends it.                    *)
(***************************************************************************)
EXTENDS NatsLifecycle, ErrGroup, DataClients, BindQuery, FiniteSetTheorems, SequenceTheorems,
        WellFoundedInduction, NaturalsInduction, TLAPS

\* mu is held by the call that is at work, and only then is there work.
MuExact ==
    /\ \A c \in Calls : (pc[c] = "busy") <=> (mu = c)
    /\ (mu = NoCall) <=> (job = "none")
    /\ mu = NoCall => list = {}
    /\ mu # NoCall => ~started /\ run # 0
    /\ job \in {"dial", "undo"} => mu \in Starts

\* Every run was begun by a call of Start of its own.
Begun == {c \in Starts : pc[c] \in {"busy", "nil", "error"}}
RunsBegun == run <= Cardinality(Begun)

\* A run that was shut down or rolled back.
Over(r) == r \in canceled /\ \A n \in Names : sc[r][n] \in {"none", "closed"}
\* The consumers of the last run while Start has done all of S.
Open(S) == run \notin canceled /\ \A n \in Names : sc[run][n] = IF n \in S THEN "consuming" ELSE "none"

\* The runs before the last one are over, those after it not begun.
OtherRuns ==
    \A r \in Runs : /\ r < run => Over(r)
                    /\ r > run => r \notin canceled /\ \A n \in Names : sc[r][n] = "none"

\* The last run, by the work that is going on.
LastRun ==
    /\ (job = "none" /\ started) => run # 0 /\ Open(regs)
    /\ (job = "none" /\ ~started /\ run # 0) => Over(run)
    /\ job = "dial" => list \subseteq regs /\ Open(regs \ list)
    /\ job = "undo" => /\ run \notin canceled
                       /\ \A n \in Names : sc[run][n] \in IF n \in list THEN {"dialed", "flushing"}
                                                          ELSE {"none", "consuming", "closed"}
    /\ job = "shut" => /\ run \in canceled
                       /\ \A n \in Names \ list : sc[run][n] \in {"none", "closed"}

\* A handler is at work only where messages were delivered.
Delivered == \A r \in Runs, n \in Names : h[r][n] # "idle" => sc[r][n] \in {"consuming", "draining", "closed"}

\* Calls that have not returned; the handlers that wait for them are apart.
Under(c) == pc[c] \in {"waiting", "busy"}
HandlerCalls ==
    /\ \A c \in Shutdowns : pc[c] = "idle" => by[c] = NoHandler
    /\ \A c \in Shutdowns : (Under(c) /\ by[c] # NoHandler) => h[by[c][1]][by[c][2]] = "calling"
    /\ \A c, d \in Shutdowns : (c # d /\ Under(c) /\ Under(d) /\ by[c] # NoHandler) => by[c] # by[d]

\* The run that a call of Shutdown took is canceled, and no other call takes it.
Taken ==
    /\ \A c \in Shutdowns : took[c] # 0 => took[c] \in canceled /\ took[c] <= run
    /\ \A c \in Shutdowns : pc[c] \in {"idle", "waiting"} => took[c] = 0
    /\ \A c \in Shutdowns : (took[c] = run /\ job = "shut") => mu = c

\* While shutdownAll has met no error, it leaves no handler behind.
QuietSoFar ==
    (job = "shut" /\ err = "nil") =>
        mu \in Shutdowns /\ took[mu] = run /\ \A n \in Names \ list : h[run][n] = "idle"

\* The server offers a message only while it has deliveries left.
Offered == \A n \in Names : st[n] = "ready" => count[n] < MaxDeliver

IInv ==
    /\ TypeOK /\ MuExact /\ RunsBegun /\ OtherRuns /\ LastRun
    /\ Delivered /\ HandlerCalls /\ Taken /\ QuietSoFar /\ Offered /\ ShutdownNilIsQuiet

-----------------------------------------------------------------------------
(* Facts about the constants, and about single updates.                    *)

LEMMA Constants ==
    /\ N \in Nat /\ MaxDeliver \in Nat /\ MaxDeliver > 0
    /\ Names \subseteq Nat /\ Runs \subseteq Nat /\ 0 \notin Runs
    /\ Cardinality(Starts) \in Nat
    /\ Starts \cap Shutdowns = {} /\ NoCall \notin Calls
  <1>1. Cardinality(Starts) \in Nat
    BY LifecycleAssumption, FS_CardinalityType DEF LifecycleAssumption
  <1> QED
    BY <1>1, LifecycleAssumption DEF LifecycleAssumption, Names, Runs, Calls

\* First: a set of natural numbers has a least one.
LEMMA FirstIn == ASSUME NEW S \in SUBSET Names, S # {} PROVE First(S) \in S
  <1> DEFINE R == {p \in Nat \X Nat : p[1] < p[2]}
  <1>1. IsWellFoundedOn(R, Nat)
    BY NatLessThanWellFounded DEF OpToRel
  <1>2. S \subseteq Nat
    BY Constants
  <1>3. PICK n \in S : \A k \in S : ~(<<k, n>> \in R)
    <2> HIDE DEF R
    <2> QED
      BY <1>1, <1>2, WFMin
  <1>4. ASSUME NEW k \in S PROVE n <= k
    <2>1. k \in Nat /\ n \in Nat
      BY <1>2
    <2>2. k < n => <<k, n>> \in R
      BY <2>1
    <2>3. ~(k < n)
      <3> HIDE DEF R
      <3> QED
        BY <1>3, <2>2
    <2> QED
      BY <2>1, <2>3
  <1> QED
    BY <1>4 DEF First

\* The run that a call took is a number.
LEMMA TookNat == ASSUME TypeOK PROVE \A d \in Shutdowns : took[d] \in Nat
  <1>1. took \in [Shutdowns -> {0} \cup Runs]
    BY DEF TypeOK
  <1>2. {0} \cup Runs \subseteq Nat
    BY Constants
  <1> QED
    BY <1>1, <1>2

ScStates == {"none", "dialed", "consuming", "draining", "flushing", "closed"}
HStates  == {"idle", "taken", "running", "calling"}

\* One streamConsumer changes its state.
LEMMA ScUpdate ==
    ASSUME TypeOK, NEW r \in Runs, NEW n \in Names, NEW v \in ScStates,
           sc' = [sc EXCEPT ![r][n] = v]
    PROVE  /\ sc' \in [Runs -> [Names -> ScStates]]
           /\ sc'[r][n] = v
           /\ \A q \in Runs, k \in Names : (q # r \/ k # n) => sc'[q][k] = sc[q][k]
  BY DEF TypeOK, ScStates

\* One handler changes its state.
LEMMA HUpdate ==
    ASSUME TypeOK, NEW r \in Runs, NEW n \in Names, NEW v \in HStates,
           h' = [h EXCEPT ![r][n] = v]
    PROVE  /\ h' \in [Runs -> [Names -> HStates]]
           /\ h'[r][n] = v
           /\ \A q \in Runs, k \in Names : (q # r \/ k # n) => h'[q][k] = h[q][k]
  BY DEF TypeOK, HStates

\* One call gets further.
LEMMA PcUpdate ==
    ASSUME TypeOK, NEW c \in Calls, NEW v \in {"idle", "waiting", "busy", "nil", "error"},
           pc' = [pc EXCEPT ![c] = v]
    PROVE  /\ pc' \in [Calls -> {"idle", "waiting", "busy", "nil", "error"}]
           /\ pc'[c] = v /\ \A d \in Calls : d # c => pc'[d] = pc[d]
  BY DEF TypeOK

\* A call that gets further does not take back that a run was begun.
LEMMA BegunGrows ==
    ASSUME TypeOK, RunsBegun, Begun \subseteq Begun', UNCHANGED run
    PROVE  RunsBegun'
  <1>1. IsFiniteSet(Starts) /\ Begun' \subseteq Starts
    BY LifecycleAssumption DEF LifecycleAssumption, Begun
  <1>2. IsFiniteSet(Begun')
    BY <1>1, FS_Subset
  <1>3. Cardinality(Begun) <= Cardinality(Begun') /\ Cardinality(Begun) \in Nat /\ Cardinality(Begun') \in Nat
    BY <1>2, FS_Subset, FS_CardinalityType
  <1>4. run \in Nat
    BY Constants DEF TypeOK
  <1> QED
    BY <1>3, <1>4 DEF RunsBegun

\* A Start that begins a run is one more.
LEMMA BegunAdds ==
    ASSUME TypeOK, RunsBegun, NEW c \in Starts, c \notin Begun, Begun' = Begun \cup {c}, run' = run + 1
    PROVE  RunsBegun' /\ run' \in Runs
  <1>1. IsFiniteSet(Starts) /\ Begun' \subseteq Starts /\ Begun \subseteq Starts
    BY LifecycleAssumption DEF LifecycleAssumption, Begun
  <1>2. IsFiniteSet(Begun)
    BY <1>1, FS_Subset
  <1>3. Cardinality(Begun') = Cardinality(Begun) + 1
    BY <1>2, FS_AddElement
  <1>4. Cardinality(Begun') <= Cardinality(Starts)
    BY <1>1, FS_Subset
  <1>5. Cardinality(Begun) \in Nat /\ Cardinality(Starts) \in Nat
    BY <1>1, <1>2, FS_CardinalityType
  <1>6. run \in Nat
    BY Constants DEF TypeOK
  <1>7. run + 1 <= Cardinality(Begun')
    BY <1>3, <1>5, <1>6 DEF RunsBegun
  <1>8. RunsBegun'
    BY <1>7 DEF RunsBegun
  <1>9. run + 1 \in 1..Cardinality(Starts)
    BY <1>3, <1>4, <1>5, <1>6, <1>7
  <1> QED
    BY <1>8, <1>9 DEF Runs

-----------------------------------------------------------------------------
(* The invariant.                                                          *)

LEMMA InitInv == Init => IInv
  <1> SUFFICES ASSUME Init PROVE IInv
    OBVIOUS
  <1> USE Constants DEF Init
  <1>1. TypeOK
    <2>1. by \in [Shutdowns -> (Runs \X Names) \cup {NoHandler}]
      BY Zenon
    <2>2. regs \subseteq Names /\ started \in BOOLEAN /\ run \in {0} \cup Runs /\ canceled \subseteq Runs
      OBVIOUS
    <2>3. sc \in [Runs -> [Names -> ScStates]] /\ h \in [Runs -> [Names -> HStates]]
      BY DEF ScStates, HStates
    <2>4. pc \in [Calls -> {"idle", "waiting", "busy", "nil", "error"}] /\ took \in [Shutdowns -> {0} \cup Runs]
      OBVIOUS
    <2>5. st \in [Names -> {"ready", "pending", "settled", "exhausted"}] /\ count \in [Names -> 0..MaxDeliver]
      OBVIOUS
    <2> QED
      BY <2>1, <2>2, <2>3, <2>4, <2>5 DEF TypeOK, ScStates, HStates
  <1>2. MuExact
    BY DEF MuExact, Calls
  <1>3. RunsBegun
    <2>1. Begun = {}
      BY DEF Begun, Calls
    <2> QED
      BY <2>1, FS_EmptySet DEF RunsBegun
  <1>4. OtherRuns /\ LastRun
    BY DEF OtherRuns, LastRun
  <1>5. Delivered /\ HandlerCalls /\ Taken /\ QuietSoFar /\ Offered /\ ShutdownNilIsQuiet
    BY DEF Delivered, HandlerCalls, Under, Taken, QuietSoFar, Offered, ShutdownNilIsQuiet, Calls
  <1> QED
    BY <1>1, <1>2, <1>3, <1>4, <1>5 DEF IInv

\* Register: no run is open.
LEMMA RegisterInv == ASSUME IInv, NEW n \in Names, Register(n) PROVE IInv'
  <1> USE DEF IInv, Register, workVars, callVars, msgVars
  <1>1. TypeOK'
    BY DEF TypeOK
  <1>2. MuExact' /\ OtherRuns' /\ Delivered' /\ HandlerCalls' /\ Taken'
    BY DEF MuExact, OtherRuns, Over, Delivered, HandlerCalls, Under, Taken
  <1>3. RunsBegun'
    BY BegunGrows DEF Begun
  <1>4. LastRun'
    BY DEF LastRun, MuExact, Over, Open
  <1>5. QuietSoFar' /\ Offered' /\ ShutdownNilIsQuiet'
    BY DEF QuietSoFar, Offered, ShutdownNilIsQuiet
  <1> QED
    BY <1>1, <1>2, <1>3, <1>4, <1>5

\* Call: only its own place changes.
LEMMA CallInv == ASSUME IInv, NEW c \in Calls, Call(c) PROVE IInv'
  <1> USE DEF IInv, Call, regVars, workVars, msgVars
  <1>1. pc'[c] = "waiting" /\ pc[c] = "idle" /\ \A d \in Calls : d # c => pc'[d] = pc[d]
    BY PcUpdate
  <1>2. TypeOK'
    BY PcUpdate DEF TypeOK
  <1>3. MuExact'
    BY <1>1 DEF MuExact
  <1>4. RunsBegun'
    BY <1>1, BegunGrows DEF Begun, Calls
  <1>5. OtherRuns' /\ LastRun' /\ Delivered' /\ QuietSoFar' /\ Offered'
    BY DEF OtherRuns, LastRun, Over, Open, Delivered, QuietSoFar, Offered
  <1>6. HandlerCalls'
    BY <1>1 DEF HandlerCalls, Under, Calls
  <1>7. Taken'
    BY <1>1 DEF Taken, Calls
  <1>8. ShutdownNilIsQuiet'
    BY <1>1 DEF ShutdownNilIsQuiet, Calls
  <1> QED
    BY <1>2, <1>3, <1>4, <1>5, <1>6, <1>7, <1>8

\* CallFromHandler: the handler waits, and waits for no other call.
LEMMA CallFromHandlerInv ==
    ASSUME IInv, NEW c \in Shutdowns, NEW r \in Runs, NEW n \in Names, CallFromHandler(c, r, n)
    PROVE  IInv'
  <1> USE DEF IInv, CallFromHandler, regVars, workVars, msgVars
  <1>0. c \in Calls
    BY DEF Calls
  <1>1. pc'[c] = "waiting" /\ pc[c] = "idle" /\ \A d \in Calls : d # c => pc'[d] = pc[d]
    BY <1>0, PcUpdate
  <1>2. /\ h' \in [Runs -> [Names -> HStates]]
        /\ h[r][n] = "running" /\ h'[r][n] = "calling"
        /\ \A q \in Runs, k \in Names : (q # r \/ k # n) => h'[q][k] = h[q][k]
    BY HUpdate DEF HStates
  <1>3. /\ by \in [Shutdowns -> (Runs \X Names) \cup {NoHandler}]
        /\ by' \in [Shutdowns -> (Runs \X Names) \cup {NoHandler}]
        /\ by'[c] = <<r, n>> /\ \A d \in Shutdowns : d # c => by'[d] = by[d]
    <2>1. by \in [Shutdowns -> (Runs \X Names) \cup {NoHandler}]
      BY DEF TypeOK
    <2>2. <<r, n>> \in Runs \X Names
      OBVIOUS
    <2>3. by' = [by EXCEPT ![c] = <<r, n>>]
      OBVIOUS
    <2> HIDE DEF IInv, CallFromHandler
    <2> QED
      BY <2>1, <2>2, <2>3, Zenon
  <1>4. TypeOK'
    BY <1>0, <1>2, <1>3, PcUpdate DEF TypeOK, HStates
  <1>5. MuExact'
    BY <1>1 DEF MuExact
  <1>6. RunsBegun'
    BY <1>1, BegunGrows DEF Begun, Calls
  <1>7. OtherRuns' /\ LastRun' /\ Offered'
    BY DEF OtherRuns, LastRun, Over, Open, Offered
  <1>8. Delivered'
    BY <1>2 DEF Delivered
  <1>9. HandlerCalls'
    <2>1. ASSUME NEW d \in Shutdowns, d # c, Under(d), by[d] # NoHandler
          PROVE  h'[by[d][1]][by[d][2]] = "calling" /\ by[d] # <<r, n>>
      <3>1. h[by[d][1]][by[d][2]] = "calling"
        BY <2>1 DEF HandlerCalls
      <3>2. PICK q \in Runs, k \in Names : by[d] = <<q, k>>
        BY <1>3, <2>1
      <3>3. by[d][1] = q /\ by[d][2] = k
        BY <3>2
      <3>4. h[q][k] = "calling"
        BY <3>1, <3>3
      <3>5. q # r \/ k # n
        BY <1>2, <3>4
      <3>6. h'[q][k] = "calling"
        BY <1>2, <3>4, <3>5
      <3> QED
        BY <3>2, <3>3, <3>5, <3>6
    <2>2. \A d \in Shutdowns : d # c => Under(d)' = Under(d)
      BY <1>1 DEF Under, Calls
    <2>3. \A d \in Shutdowns : pc'[d] = "idle" => by'[d] = NoHandler
      BY <1>1, <1>3 DEF HandlerCalls, Calls
    <2>4. \A d \in Shutdowns : (Under(d)' /\ by'[d] # NoHandler) => h'[by'[d][1]][by'[d][2]] = "calling"
      BY <1>2, <1>3, <2>1, <2>2
    <2>5. \A d, e \in Shutdowns : (d # e /\ Under(d)' /\ Under(e)' /\ by'[d] # NoHandler) => by'[d] # by'[e]
      BY <1>3, <2>1, <2>2 DEF HandlerCalls, NoHandler
    <2> QED
      BY <2>3, <2>4, <2>5 DEF HandlerCalls
  <1>10. Taken'
    BY <1>1 DEF Taken, Calls
  <1>11. QuietSoFar'
    <2>1. h[r][n] # "idle"
      BY <1>2
    <2> QED
      BY <1>2, <2>1 DEF QuietSoFar, TypeOK
  <1>12. ShutdownNilIsQuiet'
    BY <1>1, <1>2 DEF ShutdownNilIsQuiet, Calls, TypeOK
  <1> QED
    BY <1>4, <1>5, <1>6, <1>7, <1>8, <1>9, <1>10, <1>11, <1>12

\* Resumed: the handler that waited for a call goes on, and nobody else.
LEMMA Resumes ==
    ASSUME TypeOK, HandlerCalls, NEW c \in Calls, Under(c), h' = Resumed(c)
    PROVE  /\ h' \in [Runs -> [Names -> HStates]]
           /\ \A q \in Runs, k \in Names : (h'[q][k] = "idle") <=> (h[q][k] = "idle")
           /\ \A d \in Shutdowns : (d # c /\ Under(d) /\ by[d] # NoHandler)
                                     => h'[by[d][1]][by[d][2]] = "calling"
  <1>0. by \in [Shutdowns -> (Runs \X Names) \cup {NoHandler}] /\ h \in [Runs -> [Names -> HStates]]
    BY DEF TypeOK, HStates
  <1>1. CASE c \in Starts \/ by[c] = NoHandler
    BY <1>0, <1>1 DEF Resumed, HandlerCalls
  <1>2. CASE ~(c \in Starts \/ by[c] = NoHandler)
    <2>1. c \in Shutdowns
      BY <1>2 DEF Calls
    <2>2. PICK r \in Runs, n \in Names : by[c] = <<r, n>>
      BY <1>0, <1>2, <2>1
    <2>3. by[c][1] = r /\ by[c][2] = n
      BY <2>2
    <2>4. h' = [h EXCEPT ![r][n] = "running"]
      BY <1>2, <2>3 DEF Resumed
    <2>5. h[r][n] = "calling"
      BY <1>2, <2>1, <2>3 DEF HandlerCalls
    <2>6. /\ h' \in [Runs -> [Names -> HStates]] /\ h'[r][n] = "running"
          /\ \A q \in Runs, k \in Names : (q # r \/ k # n) => h'[q][k] = h[q][k]
      BY <2>4, HUpdate DEF HStates
    <2>7. \A q \in Runs, k \in Names : (h'[q][k] = "idle") <=> (h[q][k] = "idle")
      BY <2>5, <2>6
    <2>8. ASSUME NEW d \in Shutdowns, d # c, Under(d), by[d] # NoHandler
          PROVE  h'[by[d][1]][by[d][2]] = "calling"
      <3>1. PICK q \in Runs, k \in Names : by[d] = <<q, k>>
        BY <1>0, <2>8
      <3>2. by[d][1] = q /\ by[d][2] = k
        BY <3>1
      <3>3. by[d] # by[c]
        BY <2>1, <2>8 DEF HandlerCalls
      <3>4. q # r \/ k # n
        BY <2>2, <3>1, <3>3
      <3>5. h[q][k] = "calling"
        BY <2>8, <3>2 DEF HandlerCalls
      <3> QED
        BY <2>6, <3>2, <3>4, <3>5
    <2> QED
      BY <2>6, <2>7, <2>8
  <1> QED
    BY <1>1, <1>2

\* Return: mu is free, and the call is over; the conjuncts that do not depend
\* on what became of the run.
LEMMA ReturnKeeps ==
    ASSUME IInv, NEW c \in Calls, Under(c), NEW res \in {"nil", "error"}, Return(c, res),
           mu \in {c, NoCall}, UNCHANGED <<regs, run, canceled, sc, took, msgVars>>,
           started' \in BOOLEAN
    PROVE  /\ TypeOK' /\ MuExact' /\ RunsBegun' /\ OtherRuns' /\ Delivered' /\ HandlerCalls'
           /\ QuietSoFar' /\ Offered'
           /\ pc'[c] = res /\ \A d \in Calls : d # c => pc'[d] = pc[d]
           /\ \A q \in Runs, k \in Names : (h'[q][k] = "idle") <=> (h[q][k] = "idle")
  <1> USE DEF IInv, Return, msgVars
  <1>1. /\ pc' \in [Calls -> {"idle", "waiting", "busy", "nil", "error"}]
        /\ pc'[c] = res /\ \A d \in Calls : d # c => pc'[d] = pc[d]
    BY PcUpdate
  <1>2. /\ h' \in [Runs -> [Names -> HStates]]
        /\ \A q \in Runs, k \in Names : (h'[q][k] = "idle") <=> (h[q][k] = "idle")
    BY Resumes
  <1>3. TypeOK'
    BY <1>1, <1>2 DEF TypeOK, HStates
  <1>4. MuExact'
    BY <1>1, Constants DEF MuExact
  <1>5. RunsBegun'
    BY <1>1, BegunGrows DEF Begun, Calls
  <1>6. OtherRuns' /\ Offered' /\ QuietSoFar'
    BY DEF OtherRuns, Over, Offered, QuietSoFar
  <1>7. Delivered'
    BY <1>2 DEF Delivered
  <1>8. HandlerCalls'
    <2>1. \A d \in Shutdowns : Under(d)' => d # c /\ Under(d)
      BY <1>1 DEF Under, Calls
    <2>2. \A d \in Shutdowns : pc'[d] = "idle" => by[d] = NoHandler
      BY <1>1 DEF HandlerCalls, Calls
    <2>3. \A d \in Shutdowns : (Under(d)' /\ by[d] # NoHandler) => h'[by[d][1]][by[d][2]] = "calling"
      BY <2>1, Resumes
    <2>4. \A d, e \in Shutdowns : (d # e /\ Under(d)' /\ Under(e)' /\ by[d] # NoHandler) => by[d] # by[e]
      BY <2>1 DEF HandlerCalls
    <2> QED
      BY <2>2, <2>3, <2>4 DEF HandlerCalls
  <1> QED
    BY <1>1, <1>2, <1>3, <1>4, <1>5, <1>6, <1>7, <1>8

\* Start: it returns at once, or begins a run that nothing has touched.
LEMMA StartInv == ASSUME IInv, NEW c \in Starts, Start(c) PROVE IInv'
  <1> USE DEF IInv
  <1>0. c \in Calls /\ c \notin Shutdowns /\ Under(c) /\ mu = NoCall /\ job = "none" /\ c \notin Begun
    BY Constants DEF Start, Calls, Under, MuExact, Begun
  <1>1. CASE started /\ Return(c, "nil") /\ UNCHANGED run
    <2>1. UNCHANGED <<regs, started, run, canceled, sc, took, msgVars>>
      BY <1>1 DEF Start
    <2>2. started' \in BOOLEAN
      BY <2>1 DEF TypeOK
    <2>3. /\ TypeOK' /\ MuExact' /\ RunsBegun' /\ OtherRuns' /\ Delivered' /\ HandlerCalls'
          /\ QuietSoFar' /\ Offered'
          /\ pc'[c] = "nil" /\ \A d \in Calls : d # c => pc'[d] = pc[d]
          /\ \A q \in Runs, k \in Names : (h'[q][k] = "idle") <=> (h[q][k] = "idle")
      BY <1>0, <1>1, <2>1, <2>2, ReturnKeeps
    <2>4. LastRun'
      BY <1>0, <1>1, <2>1 DEF Return, LastRun, Over, Open
    <2>5. Taken'
      BY <1>0, <1>1, <2>1, <2>3 DEF Return, Taken, Calls
    <2>6. ShutdownNilIsQuiet'
      BY <1>0, <2>1, <2>3, SMTT(30) DEF ShutdownNilIsQuiet, Calls, TypeOK
    <2> QED
      BY <2>3, <2>4, <2>5, <2>6
  <1>2. CASE ~started /\ run' = run + 1 /\ Work(c, "dial", regs)
    <2> USE DEF Work
    <2>1. UNCHANGED <<regs, started, canceled, sc, took, msgVars, by, h>>
      BY <1>2 DEF Start
    <2>2. pc'[c] = "busy" /\ \A d \in Calls : d # c => pc'[d] = pc[d]
      BY <1>0, <1>2, PcUpdate
    <2>3. Begun' = Begun \cup {c}
      BY <2>2 DEF Begun, Calls
    <2>4. RunsBegun' /\ run' \in Runs
      BY <1>0, <1>2, <2>3, BegunAdds
    <2>5. TypeOK'
      BY <1>0, <1>2, <2>1, <2>4, PcUpdate DEF TypeOK, msgVars
    <2>6. MuExact'
      BY <1>0, <1>2, <2>1, <2>2, <2>4, Constants DEF MuExact
    <2>7. run \in Nat /\ (run # 0 => Over(run))
      BY <1>0, <1>2, Constants DEF LastRun, TypeOK
    <2>8. OtherRuns'
      <3> SUFFICES ASSUME NEW r \in Runs
                   PROVE  /\ r < run' => Over(r)'
                          /\ r > run' => r \notin canceled' /\ \A n \in Names : sc'[r][n] = "none"
        BY DEF OtherRuns
      <3>1. r \in Nat /\ r # 0 /\ run' = run + 1
        BY <1>2, Constants
      <3>2. r < run' => Over(r)
        BY <2>7, <3>1 DEF OtherRuns
      <3>3. r > run' => r > run
        BY <2>7, <3>1
      <3> QED
        BY <2>1, <3>2, <3>3 DEF OtherRuns, Over
    <2>9. LastRun'
      <3>1. run' > run
        BY <1>2, <2>7
      <3>2. run' \notin canceled /\ \A n \in Names : sc[run'][n] = "none"
        BY <2>4, <3>1 DEF OtherRuns
      <3> HIDE DEF IInv
      <3> QED
        BY <1>2, <2>1, <3>2 DEF LastRun, Open
    <2>10. Delivered' /\ Offered' /\ QuietSoFar'
      BY <1>2, <2>1 DEF Delivered, Offered, QuietSoFar, msgVars
    <2>11. HandlerCalls'
      BY <1>0, <2>1, <2>2 DEF HandlerCalls, Under, Calls
    <2>12. Taken'
      <3>1. \A d \in Shutdowns : took[d] \in Nat
        BY TookNat
      <3>2. \A d \in Shutdowns : took[d] # 0 => took[d] \in canceled /\ took[d] <= run + 1
        BY <2>7, <3>1 DEF Taken
      <3>3. \A d \in Shutdowns : pc'[d] \in {"idle", "waiting"} => took[d] = 0
        BY <1>0, <2>2 DEF Taken, Calls
      <3> QED
        BY <1>2, <2>1, <3>2, <3>3 DEF Taken
    <2>13. ShutdownNilIsQuiet'
      BY <1>0, <2>1, <2>2 DEF ShutdownNilIsQuiet, Calls
    <2> QED
      BY <2>4, <2>5, <2>6, <2>8, <2>9, <2>10, <2>11, <2>12, <2>13
  <1> QED
    BY <1>1, <1>2 DEF Start

\* Shutdown: it returns at once, or takes the run that Start left open, which no
\* other call has taken.
LEMMA ShutdownInv == ASSUME IInv, NEW c \in Shutdowns, Shutdown(c) PROVE IInv'
  <1> USE DEF IInv
  <1>0. c \in Calls /\ c \notin Starts /\ Under(c) /\ mu = NoCall /\ job = "none" /\ took[c] = 0
    BY Constants DEF Shutdown, Calls, Under, MuExact, Taken
  <1>1. CASE ~started /\ Return(c, "nil") /\ UNCHANGED <<started, canceled, took>>
    <2>1. UNCHANGED <<regs, started, run, canceled, sc, took, msgVars>>
      BY <1>1 DEF Shutdown
    <2>2. started' \in BOOLEAN
      BY <2>1 DEF TypeOK
    <2>3. /\ TypeOK' /\ MuExact' /\ RunsBegun' /\ OtherRuns' /\ Delivered' /\ HandlerCalls'
          /\ QuietSoFar' /\ Offered'
          /\ pc'[c] = "nil" /\ \A d \in Calls : d # c => pc'[d] = pc[d]
          /\ \A q \in Runs, k \in Names : (h'[q][k] = "idle") <=> (h[q][k] = "idle")
      BY <1>0, <1>1, <2>1, <2>2, ReturnKeeps
    <2>4. LastRun'
      BY <1>0, <1>1, <2>1 DEF Return, LastRun, Over, Open
    <2>5. Taken'
      BY <1>0, <1>1, <2>1, <2>3 DEF Return, Taken, Calls
    <2>6. ShutdownNilIsQuiet'
      BY <1>0, <2>1, <2>3, SMTT(30) DEF ShutdownNilIsQuiet, Calls, TypeOK
    <2> QED
      BY <2>3, <2>4, <2>5, <2>6
  <1>2. CASE /\ started /\ started' = FALSE /\ canceled' = canceled \cup {run}
             /\ took' = [took EXCEPT ![c] = run] /\ Work(c, "shut", Running(run))
    <2> USE DEF Work
    <2>1. UNCHANGED <<regs, run, sc, msgVars, by, h>>
      BY <1>2 DEF Shutdown
    <2>2. /\ pc' \in [Calls -> {"idle", "waiting", "busy", "nil", "error"}]
          /\ pc'[c] = "busy" /\ \A d \in Calls : d # c => pc'[d] = pc[d]
      BY <1>0, <1>2, PcUpdate
    <2>3. run \in Runs /\ run # 0 /\ Open(regs)
      BY <1>0, <1>2 DEF LastRun, TypeOK
    <2>4. took'[c] = run /\ \A d \in Shutdowns : d # c => took'[d] = took[d] /\ took[d] # run
      BY <1>2, <2>3 DEF Taken, Open, TypeOK
    <2>5. TypeOK'
      BY <1>0, <1>2, <2>1, <2>2, <2>3 DEF TypeOK, msgVars, Running
    <2>6. MuExact'
      BY <1>0, <1>2, <2>1, <2>2, <2>3, Constants DEF MuExact
    <2>7. RunsBegun'
      BY <1>0, <2>1, <2>2, BegunGrows DEF Begun, Calls
    <2>8. OtherRuns'
      BY <1>2, <2>1, <2>3, Constants DEF OtherRuns, Over
    <2>9. \A n \in Names \ Running(run) : sc[run][n] = "none" /\ h[run][n] = "idle"
      BY <2>3 DEF Open, Running, Delivered
    <2>10. LastRun'
      BY <1>2, <2>1, <2>9 DEF LastRun
    <2>11. Delivered' /\ Offered'
      BY <2>1 DEF Delivered, Offered, msgVars
    <2>12. HandlerCalls'
      BY <1>0, <2>1, <2>2 DEF HandlerCalls, Under, Calls
    <2>13. Taken'
      <3>1. run \in Nat
        BY <2>3, Constants
      <3>2. \A d \in Shutdowns : took'[d] # 0 => took'[d] \in canceled' /\ took'[d] <= run
        BY <1>2, <2>4, <3>1 DEF Taken
      <3>3. \A d \in Shutdowns : pc'[d] \in {"idle", "waiting"} => took'[d] = 0
        BY <1>0, <2>2, <2>4 DEF Taken, Calls
      <3> QED
        BY <1>2, <2>1, <2>4, <3>2, <3>3 DEF Taken
    <2>14. QuietSoFar'
      BY <1>2, <2>1, <2>4, <2>9 DEF QuietSoFar
    <2>15. ShutdownNilIsQuiet'
      BY <1>0, <2>1, <2>2, <2>4 DEF ShutdownNilIsQuiet, Calls
    <2> QED
      BY <2>5, <2>6, <2>7, <2>8, <2>10, <2>11, <2>12, <2>13, <2>14, <2>15
  <1> QED
    BY <1>1, <1>2 DEF Shutdown

\* The call that holds mu works on the last run: what depends on no other state
\* of its consumers.
LEMMA AtWork ==
    ASSUME IInv, mu # NoCall, UNCHANGED <<regVars, mu, callVars, h, msgVars>>,
           sc' \in [Runs -> [Names -> ScStates]], \A q \in Runs : q # run => sc'[q] = sc[q],
           canceled' \in {canceled, canceled \cup {run}},
           job' \in {job, "undo", "shut"}, job' = "undo" => mu \in Starts, list' \subseteq Names,
           ctx' \in {"live", "ended"}, err' \in {"nil", "error"}
    PROVE  /\ TypeOK' /\ MuExact' /\ RunsBegun' /\ OtherRuns' /\ HandlerCalls' /\ Offered'
           /\ ShutdownNilIsQuiet' /\ run \in Runs
  <1> USE DEF IInv, regVars, callVars, msgVars
  <1>1. run \in Runs /\ run # 0
    BY DEF TypeOK, MuExact
  <1>2. TypeOK'
    <2>1. canceled' \subseteq Runs /\ job' \in {"none", "dial", "undo", "shut"}
      BY <1>1 DEF TypeOK
    <2> QED
      BY <2>1 DEF TypeOK, ScStates
  <1>3. MuExact'
    <2>1. job # "none" /\ job' # "none"
      BY DEF MuExact
    <2> QED
      BY <2>1 DEF MuExact
  <1>4. RunsBegun' /\ HandlerCalls' /\ Offered'
    BY BegunGrows DEF Begun, HandlerCalls, Under, Offered
  <1>5. OtherRuns'
    <2> SUFFICES ASSUME NEW r \in Runs
                 PROVE  /\ r < run => Over(r)'
                        /\ r > run => r \notin canceled' /\ \A n \in Names : sc'[r][n] = "none"
      BY DEF OtherRuns
    <2>1. r \in Nat /\ run \in Nat
      BY <1>1, Constants
    <2>2. (r < run \/ r > run) => r # run /\ sc'[r] = sc[r]
      BY <2>1
    <2> QED
      BY <2>2 DEF OtherRuns, Over
  <1>6. ShutdownNilIsQuiet'
    <2> SUFFICES ASSUME NEW d \in Shutdowns, pc[d] = "nil", took[d] # 0
                 PROVE  \A n \in Names : h[took[d]][n] = "idle" /\ sc'[took[d]][n] \in {"none", "closed"}
      BY DEF ShutdownNilIsQuiet
    <2>1. mu # d
      BY DEF MuExact, Calls
    <2>2. job \in {"dial", "undo", "shut"}
      BY DEF MuExact, TypeOK
    <2>3. took[d] # run
      BY <2>1, <2>2 DEF Taken, LastRun, Open
    <2>4. took[d] \in Runs
      BY DEF TypeOK
    <2> QED
      BY <2>3, <2>4 DEF ShutdownNilIsQuiet
  <1> QED
    BY <1>1, <1>2, <1>3, <1>4, <1>5, <1>6

\* startOne: the consumer was not dialed before; it delivers, or the run is
\* canceled, or its connection is left to be drained.
LEMMA startOneInv == ASSUME IInv, NEW c \in Calls, startOne(c) PROVE IInv'
  <1> DEFINE n == First(list)
  <1>0. /\ mu = c /\ mu # NoCall /\ job = "dial" /\ mu \in Starts
        /\ UNCHANGED <<regVars, mu, ctx, callVars, h, msgVars>>
    BY Constants DEF startOne, IInv, MuExact
  <1>1. TypeOK /\ list \subseteq regs /\ Open(regs \ list) /\ list \subseteq Names /\ regs \subseteq Names
    BY <1>0 DEF IInv, LastRun, TypeOK
  <1>2. n \in list /\ n \in Names /\ run \in Runs /\ run # 0
    BY <1>0, <1>1, FirstIn DEF startOne, IInv, MuExact, TypeOK
  <1>3. PICK v \in ScStates :
           /\ sc' = [sc EXCEPT ![run][n] = v]
           /\ \/ v = "consuming" /\ list' = list \ {n} /\ UNCHANGED <<job, err, canceled>>
              \/ v = "closed" /\ RollBack
              \/ v = "dialed" /\ job' = "undo" /\ list' = {n} /\ UNCHANGED <<err, canceled>>
    BY DEF startOne, ScStates
  <1> HIDE DEF n
  <1>4. /\ sc' \in [Runs -> [Names -> ScStates]] /\ sc'[run][n] = v
        /\ \A q \in Runs, k \in Names : (q # run \/ k # n) => sc'[q][k] = sc[q][k]
    <2>1. sc' = [sc EXCEPT ![run][n] = v]
      BY <1>3
    <2>2. TypeOK /\ run \in Runs /\ n \in Names
      BY <1>1, <1>2
    <2> QED
      BY <2>1, <2>2, ScUpdate, ZenonT(60)
  <1>5. \A q \in Runs : q # run => sc'[q] = sc[q]
    BY <1>1, <1>2, <1>3 DEF TypeOK
  <1>6. /\ canceled' \in {canceled, canceled \cup {run}} /\ job' \in {job, "undo", "shut"}
        /\ list' \subseteq Names /\ ctx' \in {"live", "ended"} /\ err' \in {"nil", "error"}
        /\ job' = "shut" => err' = "error"
    BY <1>0, <1>1, <1>2, <1>3 DEF RollBack, ToRollBack, Running, TypeOK
  <1>7. TypeOK' /\ MuExact' /\ RunsBegun' /\ OtherRuns' /\ HandlerCalls' /\ Offered' /\ ShutdownNilIsQuiet'
    BY <1>0, <1>4, <1>5, <1>6, AtWork
  <1>8. run \notin canceled /\ sc[run][n] = "none" /\ h[run][n] = "idle"
    BY <1>1, <1>2 DEF IInv, Open, Delivered
  <1>9. LastRun'
    <2>1. CASE v = "consuming" /\ list' = list \ {n} /\ UNCHANGED <<job, err, canceled>>
      <3>1. list' \subseteq regs /\ job' = "dial"
        BY <1>0, <1>1, <2>1
      <3>2. \A k \in Names : sc'[run][k] = IF k \in regs \ list' THEN "consuming" ELSE "none"
        BY <1>1, <1>2, <1>4, <2>1 DEF Open
      <3> QED
        BY <1>0, <1>8, <2>1, <3>1, <3>2 DEF LastRun, Open, regVars
    <2>2. CASE v = "closed" /\ RollBack
      <3>1. \A k \in Names \ Running(run) : sc'[run][k] \in {"none", "closed"}
        BY <1>1, <1>2, <1>4, <2>2 DEF Open, Running
      <3> QED
        BY <1>0, <2>2, <3>1 DEF LastRun, RollBack, ToRollBack, regVars
    <2>3. CASE v = "dialed" /\ job' = "undo" /\ list' = {n} /\ UNCHANGED <<err, canceled>>
      <3>1. \A k \in Names : sc'[run][k] \in IF k \in list' THEN {"dialed", "flushing"}
                                               ELSE {"none", "consuming", "closed"}
        BY <1>1, <1>2, <1>4, <2>3 DEF Open
      <3> QED
        BY <1>0, <1>8, <2>3, <3>1 DEF LastRun, regVars
    <2> QED
      BY <1>3, <2>1, <2>2, <2>3
  <1>10. Delivered'
    BY <1>0, <1>2, <1>4, <1>8 DEF IInv, Delivered
  <1>11. Taken'
    BY <1>0, <1>2, <1>6, <1>8 DEF IInv, Taken, callVars, regVars
  <1>12. QuietSoFar'
    BY <1>6 DEF QuietSoFar
  <1> QED
    BY <1>7, <1>9, <1>10, <1>11, <1>12 DEF IInv

\* StartDone: every registered consumer of the run delivers.
LEMMA StartDoneInv == ASSUME IInv, NEW c \in Calls, StartDone(c) PROVE IInv'
  <1> USE DEF IInv
  <1>1. /\ mu = c /\ mu # NoCall /\ job = "dial" /\ list = {} /\ started' = TRUE /\ Return(c, "nil")
        /\ UNCHANGED <<regs, run, canceled, sc, took, msgVars>>
    BY Constants DEF StartDone
  <1>2. Under(c) /\ c \in Starts /\ c \notin Shutdowns /\ run # 0
    BY <1>1, Constants DEF MuExact, Under
  <1>3. /\ TypeOK' /\ MuExact' /\ RunsBegun' /\ OtherRuns' /\ Delivered' /\ HandlerCalls'
        /\ QuietSoFar' /\ Offered'
        /\ pc'[c] = "nil" /\ \A d \in Calls : d # c => pc'[d] = pc[d]
        /\ \A q \in Runs, k \in Names : (h'[q][k] = "idle") <=> (h[q][k] = "idle")
    BY <1>1, <1>2, ReturnKeeps
  <1>4. Open(regs)
    BY <1>1 DEF LastRun
  <1>5. LastRun'
    BY <1>1, <1>2, <1>4 DEF Return, LastRun, Open
  <1>6. Taken'
    BY <1>1, <1>2, <1>3 DEF Return, Taken, Calls
  <1>7. ShutdownNilIsQuiet'
    BY <1>1, <1>2, <1>3 DEF ShutdownNilIsQuiet, Calls, TypeOK
  <1> QED
    BY <1>3, <1>5, <1>6, <1>7

\* UndoDone: the rest of the run is as Start left it, and is canceled.
LEMMA UndoDoneInv == ASSUME IInv, NEW c \in Calls, UndoDone(c) PROVE IInv'
  <1> USE DEF IInv
  <1>1. /\ mu = c /\ mu # NoCall /\ job = "undo" /\ list = {} /\ RollBack
        /\ UNCHANGED <<regVars, sc, mu, ctx, callVars, h, msgVars>>
    BY Constants DEF UndoDone
  <1>2. /\ run \notin canceled /\ run # 0
        /\ \A n \in Names : sc[run][n] \in {"none", "consuming", "closed"}
    BY <1>1 DEF LastRun, MuExact
  <1>3. /\ sc' \in [Runs -> [Names -> ScStates]] /\ list' \subseteq Names
        /\ ctx' \in {"live", "ended"} /\ err' = "error" /\ job' = "shut" /\ canceled' = canceled \cup {run}
    BY <1>1 DEF TypeOK, ScStates, RollBack, ToRollBack, Running
  <1>4. TypeOK' /\ MuExact' /\ RunsBegun' /\ OtherRuns' /\ HandlerCalls' /\ Offered' /\ ShutdownNilIsQuiet'
    BY <1>1, <1>3, AtWork
  <1>5. LastRun'
    <2>1. \A k \in Names \ Running(run) : sc[run][k] \in {"none", "closed"}
      BY <1>2 DEF Running
    <2> QED
      BY <1>1, <1>3, <2>1 DEF LastRun, RollBack, ToRollBack, regVars
  <1>6. Delivered'
    BY <1>1 DEF Delivered
  <1>7. Taken'
    BY <1>1, <1>2, <1>3 DEF Taken, callVars, regVars
  <1>8. QuietSoFar'
    BY <1>3 DEF QuietSoFar
  <1> QED
    BY <1>4, <1>5, <1>6, <1>7, <1>8

\* What a step of shutdownAll on its first consumer starts from.
LEMMA ClosingOne ==
    ASSUME IInv, NEW c \in Calls, NEW S, Closing(c, S), NEW v \in ScStates,
           sc' = [sc EXCEPT ![run][Current] = v], UNCHANGED <<regVars, canceled, mu, job, ctx, callVars, h, msgVars>>,
           list' \in {list, list \ {Current}}, err' \in {err, "error"}
    PROVE  /\ Current \in list /\ Current \in Names /\ sc[run][Current] \in S /\ job \in {"undo", "shut"}
           /\ sc'[run][Current] = v
           /\ \A q \in Runs, k \in Names : (q # run \/ k # Current) => sc'[q][k] = sc[q][k]
           /\ TypeOK' /\ MuExact' /\ RunsBegun' /\ OtherRuns' /\ HandlerCalls' /\ Offered' /\ ShutdownNilIsQuiet'
           /\ Taken' /\ run \in Runs
  <1> USE DEF IInv
  <1>1. mu = c /\ mu # NoCall /\ job \in {"undo", "shut"} /\ list # {} /\ sc[run][Current] \in S /\ list \subseteq Names
    BY Constants DEF Closing, TypeOK
  <1>2. Current \in list /\ Current \in Names
    BY <1>1, FirstIn DEF Current
  <1>3. run \in Runs
    BY <1>1 DEF MuExact, TypeOK
  <1> HIDE DEF IInv
  <1>4. /\ sc' \in [Runs -> [Names -> ScStates]] /\ sc'[run][Current] = v
        /\ \A q \in Runs, k \in Names : (q # run \/ k # Current) => sc'[q][k] = sc[q][k]
    BY <1>2, <1>3, ScUpdate, ZenonT(60) DEF IInv
  <1>5. \A q \in Runs : q # run => sc'[q] = sc[q]
    BY <1>2, <1>3 DEF TypeOK, IInv
  <1>6. /\ canceled' \in {canceled, canceled \cup {run}} /\ job' \in {job, "undo", "shut"}
        /\ (job' = "undo" => mu \in Starts)
        /\ list' \subseteq Names /\ ctx' \in {"live", "ended"} /\ err' \in {"nil", "error"}
    BY <1>1 DEF TypeOK, IInv, MuExact
  <1>7. TypeOK' /\ MuExact' /\ RunsBegun' /\ OtherRuns' /\ HandlerCalls' /\ Offered' /\ ShutdownNilIsQuiet'
    BY <1>1, <1>4, <1>5, <1>6, AtWork
  <1>8. Taken'
    BY DEF IInv, Taken, callVars, regVars
  <1> QED
    BY <1>1, <1>2, <1>3, <1>4, <1>7, <1>8

\* Drain: only a consumer that delivered is drained.
LEMMA DrainInv == ASSUME IInv, NEW c \in Calls, Drain(c) PROVE IInv'
  <1>1. /\ Current \in list /\ Current \in Names /\ sc[run][Current] = "consuming" /\ job \in {"undo", "shut"}
        /\ sc'[run][Current] = "draining"
        /\ \A q \in Runs, k \in Names : (q # run \/ k # Current) => sc'[q][k] = sc[q][k]
        /\ TypeOK' /\ MuExact' /\ RunsBegun' /\ OtherRuns' /\ HandlerCalls' /\ Offered' /\ ShutdownNilIsQuiet'
        /\ Taken' /\ run \in Runs
    BY ClosingOne DEF Drain, workVars, ScStates
  <1>2. UNCHANGED <<regVars, canceled, workVars, callVars, h, msgVars>>
    BY DEF Drain
  <1> USE DEF IInv, regVars, workVars, callVars
  <1>3. job = "shut"
    BY <1>1 DEF LastRun
  <1>4. LastRun'
    BY <1>1, <1>2, <1>3 DEF LastRun
  <1>5. Delivered'
    BY <1>1, <1>2 DEF Delivered
  <1>6. QuietSoFar'
    BY <1>2 DEF QuietSoFar
  <1> QED
    BY <1>1, <1>4, <1>5, <1>6

\* Quiesced: the consumer has no handler left.
LEMMA QuiescedInv == ASSUME IInv, NEW c \in Calls, Quiesced(c) PROVE IInv'
  <1>1. /\ Current \in list /\ Current \in Names /\ job \in {"undo", "shut"}
        /\ sc'[run][Current] = "flushing"
        /\ \A q \in Runs, k \in Names : (q # run \/ k # Current) => sc'[q][k] = sc[q][k]
        /\ TypeOK' /\ MuExact' /\ RunsBegun' /\ OtherRuns' /\ HandlerCalls' /\ Offered' /\ ShutdownNilIsQuiet'
        /\ Taken' /\ run \in Runs
    BY ClosingOne DEF Quiesced, workVars, ScStates
  <1>2. h[run][Current] = "idle" /\ UNCHANGED <<regVars, canceled, workVars, callVars, h, msgVars>>
    BY DEF Quiesced
  <1> USE DEF IInv, regVars, workVars, callVars
  <1>4. LastRun'
    <2>1. CASE job = "undo"
      BY <1>1, <1>2, <2>1 DEF LastRun
    <2>2. CASE job = "shut"
      BY <1>1, <1>2, <2>2 DEF LastRun
    <2> QED
      BY <1>1, <2>1, <2>2
  <1>5. Delivered'
    BY <1>1, <1>2 DEF Delivered
  <1>6. QuietSoFar'
    BY <1>2 DEF QuietSoFar
  <1> QED
    BY <1>1, <1>4, <1>5, <1>6

\* Flushed and CutShort: the connection is closed; a call that was not cut short
\* leaves no handler of the consumer at work.
LEMMA CloseInv == ASSUME IInv, NEW c \in Calls, Flushed(c) \/ CutShort(c) PROVE IInv'
  <1>0. /\ Closing(c, Bounded) /\ CloseCurrent /\ err' \in {err, "error"}
        /\ err' = "nil" => Closing(c, {"flushing"}) /\ err = "nil"
    BY DEF Flushed, CutShort, Joined, Closing, Bounded
  <1>1. /\ Current \in list /\ Current \in Names /\ job \in {"undo", "shut"}
        /\ sc'[run][Current] = "closed"
        /\ \A q \in Runs, k \in Names : (q # run \/ k # Current) => sc'[q][k] = sc[q][k]
        /\ TypeOK' /\ MuExact' /\ RunsBegun' /\ OtherRuns' /\ HandlerCalls' /\ Offered' /\ ShutdownNilIsQuiet'
        /\ Taken' /\ run \in Runs
    BY <1>0, ClosingOne DEF CloseCurrent, ScStates
  <1>2. list' = list \ {Current} /\ UNCHANGED <<regVars, canceled, mu, job, ctx, callVars, h, msgVars>>
    BY <1>0 DEF CloseCurrent
  <1> USE DEF IInv, regVars, callVars
  <1>4. LastRun'
    <2>1. CASE job = "undo"
      BY <1>1, <1>2, <2>1 DEF LastRun
    <2>2. CASE job = "shut"
      BY <1>1, <1>2, <2>2 DEF LastRun
    <2> QED
      BY <1>1, <2>1, <2>2
  <1>5. Delivered'
    BY <1>1, <1>2 DEF Delivered
  <1>6. QuietSoFar'
    <2>1. err' = "nil" => err = "nil" /\ h[run][Current] = "idle"
      BY <1>0, <1>1 DEF Closing, Delivered
    <2> QED
      BY <1>1, <1>2, <2>1 DEF QuietSoFar
  <1> QED
    BY <1>1, <1>4, <1>5, <1>6

\* ShutDone: all of the run's connections are closed.
LEMMA ShutDoneInv == ASSUME IInv, NEW c \in Calls, ShutDone(c) PROVE IInv'
  <1> USE DEF IInv
  <1>1. /\ mu = c /\ mu # NoCall /\ job = "shut" /\ list = {} /\ Return(c, err)
        /\ UNCHANGED <<regVars, canceled, sc, took, msgVars>>
    BY Constants DEF ShutDone
  <1>2. Under(c) /\ run # 0 /\ ~started /\ err \in {"nil", "error"} /\ started' = started
        /\ started' \in BOOLEAN /\ UNCHANGED <<regs, run, canceled, sc, took, msgVars>>
    BY <1>1 DEF MuExact, Under, TypeOK, regVars
  <1>3. /\ TypeOK' /\ MuExact' /\ RunsBegun' /\ OtherRuns' /\ Delivered' /\ HandlerCalls'
        /\ QuietSoFar' /\ Offered'
        /\ pc'[c] = err /\ \A d \in Calls : d # c => pc'[d] = pc[d]
        /\ \A q \in Runs, k \in Names : (h'[q][k] = "idle") <=> (h[q][k] = "idle")
    BY <1>1, <1>2, ReturnKeeps
  <1>4. run \in Runs /\ Over(run)
    BY <1>1, <1>2 DEF LastRun, Over, TypeOK
  <1>5. LastRun'
    BY <1>1, <1>2, <1>4 DEF Return, LastRun, Over, regVars
  <1>6. Taken'
    BY <1>1, <1>2, <1>3 DEF Return, Taken, Calls, regVars
  <1>7. ShutdownNilIsQuiet'
    <2> SUFFICES ASSUME NEW d \in Shutdowns, pc'[d] = "nil", took[d] # 0
                 PROVE  \A n \in Names : h'[took[d]][n] = "idle" /\ sc[took[d]][n] \in {"none", "closed"}
      BY <1>1 DEF ShutdownNilIsQuiet
    <2>1. took[d] \in Runs
      BY DEF TypeOK
    <2>2. CASE d = c
      <3>1. took[d] = run /\ \A n \in Names : h[run][n] = "idle"
        BY <1>1, <1>3, <2>2 DEF QuietSoFar
      <3> QED
        BY <1>3, <1>4, <3>1 DEF Over
    <2>3. CASE d # c
      <3>1. pc[d] = "nil"
        BY <1>3, <2>3 DEF Calls
      <3> QED
        BY <1>3, <2>1, <3>1 DEF ShutdownNilIsQuiet
    <2> QED
      BY <2>2, <2>3
  <1> QED
    BY <1>3, <1>5, <1>6, <1>7

\* CtxEnds: nothing else changes.
LEMMA CtxEndsInv == ASSUME IInv, CtxEnds PROVE IInv'
  <1>1. /\ mu # NoCall /\ ctx' = "ended" /\ sc' \in [Runs -> [Names -> ScStates]]
        /\ list' \subseteq Names /\ err' \in {"nil", "error"} /\ (job = "undo" => mu \in Starts)
        /\ UNCHANGED <<regVars, canceled, sc, mu, job, list, err, callVars, h, msgVars>>
    BY DEF CtxEnds, IInv, TypeOK, MuExact, ScStates
  <1>2. TypeOK' /\ MuExact' /\ RunsBegun' /\ OtherRuns' /\ HandlerCalls' /\ Offered' /\ ShutdownNilIsQuiet'
    BY <1>1, AtWork
  <1>3. LastRun' /\ Delivered' /\ Taken' /\ QuietSoFar'
    BY <1>1 DEF IInv, LastRun, Over, Open, Delivered, Taken, QuietSoFar, regVars, callVars
  <1> QED
    BY <1>2, <1>3 DEF IInv

\* A handler that is in no call of Shutdown takes a step; it begins one only on
\* a consumer that delivers.
LEMMA HandlerStep ==
    ASSUME IInv, NEW r \in Runs, NEW n \in Names, NEW v \in {"idle", "taken", "running"},
           h' = [h EXCEPT ![r][n] = v], h[r][n] # "calling",
           v = "idle" \/ h[r][n] # "idle" \/ sc[r][n] = "consuming",
           UNCHANGED <<regVars, canceled, sc, workVars, callVars>>, called' \subseteq Names,
           st' \in [Names -> {"ready", "pending", "settled", "exhausted"}], count' \in [Names -> 0..MaxDeliver],
           Offered'
    PROVE  IInv'
  <1> USE DEF regVars, workVars, callVars
  <1>1. /\ h' \in [Runs -> [Names -> HStates]] /\ h'[r][n] = v
        /\ \A q \in Runs, k \in Names : (q # r \/ k # n) => h'[q][k] = h[q][k]
    BY HUpdate DEF IInv, HStates
  <1>2. TypeOK'
    <2>1. TypeOK
      BY DEF IInv
    <2> QED
      BY <1>1, <2>1 DEF TypeOK, HStates
  <1>3. MuExact' /\ OtherRuns' /\ LastRun' /\ Taken'
    BY DEF IInv, MuExact, OtherRuns, LastRun, Over, Open, Taken
  <1>4. RunsBegun'
    BY BegunGrows DEF IInv, Begun
  <1>5. Delivered'
    BY <1>1 DEF IInv, Delivered
  <1>6. HandlerCalls'
    <2>1. ASSUME NEW d \in Shutdowns, Under(d), by[d] # NoHandler PROVE h'[by[d][1]][by[d][2]] = "calling"
      <3>0. by \in [Shutdowns -> (Runs \X Names) \cup {NoHandler}]
        BY DEF IInv, TypeOK
      <3>1. PICK q \in Runs, k \in Names : by[d] = <<q, k>>
        BY <2>1, <3>0
      <3>2. by[d][1] = q /\ by[d][2] = k
        BY <3>1
      <3>3. h[q][k] = "calling"
        BY <2>1, <3>2 DEF IInv, HandlerCalls
      <3>4. h'[q][k] = "calling"
        BY <1>1, <3>3
      <3> QED
        BY <3>2, <3>4
    <2> QED
      BY <2>1 DEF IInv, HandlerCalls, Under
  <1>7. ASSUME NEW k \in Names, NEW q \in Runs, h[q][k] = "idle", sc[q][k] \in {"none", "closed"}
        PROVE  h'[q][k] = "idle"
    BY <1>1, <1>7
  <1>8. QuietSoFar'
    <2> SUFFICES ASSUME job = "shut", err = "nil"
                 PROVE  mu \in Shutdowns /\ took[mu] = run /\ \A k \in Names \ list : h'[run][k] = "idle"
      BY DEF QuietSoFar
    <2>1. run \in Runs
      BY DEF IInv, TypeOK, MuExact
    <2> QED
      BY <1>7, <2>1 DEF IInv, QuietSoFar, LastRun
  <1>9. ShutdownNilIsQuiet'
    <2>1. \A d \in Shutdowns : took[d] # 0 => took[d] \in Runs
      BY DEF IInv, TypeOK
    <2> QED
      BY <1>7, <2>1 DEF IInv, ShutdownNilIsQuiet
  <1> QED
    BY <1>2, <1>3, <1>4, <1>5, <1>6, <1>8, <1>9 DEF IInv

\* Again and settle: a message is offered again only with deliveries left.
LEMMA SettleOffers ==
    ASSUME TypeOK, Offered, NEW n \in Names, NEW s \in {"settled", Again(n)},
           st' = [st EXCEPT ![n] = s] \/ st' = [st EXCEPT ![n] = @], UNCHANGED count
    PROVE  /\ st' \in [Names -> {"ready", "pending", "settled", "exhausted"}]
           /\ count' \in [Names -> 0..MaxDeliver] /\ Offered'
  <1>1. s \in {"ready", "settled", "exhausted"} /\ (s = "ready" => count[n] < MaxDeliver)
    BY DEF Again
  <1>2. st \in [Names -> {"ready", "pending", "settled", "exhausted"}] /\ count \in [Names -> 0..MaxDeliver]
    BY DEF TypeOK
  <1> QED
    BY <1>1, <1>2 DEF Offered

LEMMA DeliverInv == ASSUME IInv, NEW r \in Runs, NEW n \in Names, Deliver(r, n) PROVE IInv'
  <1>1. /\ sc[r][n] = "consuming" /\ h[r][n] = "idle" /\ st[n] = "ready"
        /\ st' = [st EXCEPT ![n] = "pending"] /\ count' = [count EXCEPT ![n] = @ + 1]
        /\ h' = [h EXCEPT ![r][n] = "taken"]
        /\ UNCHANGED <<regVars, canceled, sc, workVars, callVars, called>>
    BY DEF Deliver
  <1>2. /\ st \in [Names -> {"ready", "pending", "settled", "exhausted"}]
        /\ count \in [Names -> 0..MaxDeliver] /\ called \subseteq Names
    BY DEF IInv, TypeOK
  <1>3. count[n] \in 0..MaxDeliver /\ count[n] < MaxDeliver /\ MaxDeliver \in Nat
    BY <1>1, <1>2, Constants DEF IInv, Offered
  <1>4. count[n] + 1 \in 0..MaxDeliver
    BY <1>3
  <1>5. /\ st' \in [Names -> {"ready", "pending", "settled", "exhausted"}]
        /\ count' \in [Names -> 0..MaxDeliver] /\ called' \subseteq Names
    BY <1>1, <1>2, <1>4
  <1>6. Offered'
    <2>1. \A k \in Names : k # n => st'[k] = st[k] /\ count'[k] = count[k]
      BY <1>1, <1>2
    <2>2. st'[n] = "pending"
      BY <1>1, <1>2
    <2> QED
      BY <2>1, <2>2 DEF IInv, Offered
  <1> QED
    BY <1>1, <1>5, <1>6, HandlerStep

LEMMA HandleMsgInv == ASSUME IInv, NEW r \in Runs, NEW n \in Names, HandleMsg(r, n) PROVE IInv'
  <1>1. h[r][n] = "taken" /\ UNCHANGED <<regVars, canceled, sc, workVars, callVars, count>>
    BY DEF HandleMsg
  <1>2. /\ st \in [Names -> {"ready", "pending", "settled", "exhausted"}]
        /\ count \in [Names -> 0..MaxDeliver] /\ called \subseteq Names /\ TypeOK /\ Offered
    BY DEF IInv, TypeOK
  <1>3. CASE settle(r, n, Again(n)) /\ h' = [h EXCEPT ![r][n] = "idle"] /\ UNCHANGED called
    <2>1. st' = [st EXCEPT ![n] = Again(n)] \/ st' = [st EXCEPT ![n] = @]
      BY <1>3 DEF settle
    <2>2. /\ st' \in [Names -> {"ready", "pending", "settled", "exhausted"}]
          /\ count' \in [Names -> 0..MaxDeliver] /\ Offered'
      BY <1>1, <1>2, <2>1, SettleOffers
    <2> QED
      BY <1>1, <1>2, <1>3, <2>2, HandlerStep
  <1>4. CASE h' = [h EXCEPT ![r][n] = "running"] /\ called' = called \cup {n} /\ UNCHANGED st
    <2>1. /\ st' \in [Names -> {"ready", "pending", "settled", "exhausted"}]
          /\ count' \in [Names -> 0..MaxDeliver] /\ Offered' /\ called' \subseteq Names
      BY <1>1, <1>2, <1>4 DEF Offered
    <2> QED
      BY <1>1, <1>4, <2>1, HandlerStep
  <1> QED
    BY <1>3, <1>4 DEF HandleMsg

LEMMA HandlerReturnsInv == ASSUME IInv, NEW r \in Runs, NEW n \in Names, HandlerReturns(r, n) PROVE IInv'
  <1>1. /\ h[r][n] = "running" /\ h' = [h EXCEPT ![r][n] = "idle"]
        /\ UNCHANGED <<regVars, canceled, sc, workVars, callVars, count, called>>
    BY DEF HandlerReturns
  <1>2. called' \subseteq Names /\ TypeOK /\ Offered
    BY <1>1 DEF IInv, TypeOK
  <1>3. PICK s \in {"settled", Again(n)} : settle(r, n, s)
    BY DEF HandlerReturns
  <1>4. st' = [st EXCEPT ![n] = s] \/ st' = [st EXCEPT ![n] = @]
    BY <1>3 DEF settle
  <1>5. /\ st' \in [Names -> {"ready", "pending", "settled", "exhausted"}]
        /\ count' \in [Names -> 0..MaxDeliver] /\ Offered'
    BY <1>1, <1>2, <1>4, SettleOffers
  <1> QED
    BY <1>1, <1>2, <1>5, HandlerStep

LEMMA ExpiresInv == ASSUME IInv, NEW n \in Names, Expires(n) PROVE IInv'
  <1>1. st' = [st EXCEPT ![n] = Again(n)] /\ UNCHANGED <<regVars, canceled, sc, workVars, callVars, h, count, called>>
    BY DEF Expires
  <1>2. /\ st' \in [Names -> {"ready", "pending", "settled", "exhausted"}]
        /\ count' \in [Names -> 0..MaxDeliver] /\ Offered'
    BY <1>1, SettleOffers DEF IInv
  <1> USE DEF regVars, workVars, callVars
  <1>3. TypeOK'
    <2>1. TypeOK
      BY DEF IInv
    <2> QED
      BY <1>1, <1>2, <2>1 DEF TypeOK
  <1>4. MuExact' /\ OtherRuns' /\ LastRun' /\ Taken' /\ Delivered'
    BY <1>1 DEF IInv, MuExact, OtherRuns, LastRun, Over, Open, Taken, Delivered
  <1>5. RunsBegun' /\ HandlerCalls' /\ QuietSoFar' /\ ShutdownNilIsQuiet'
    BY <1>1, BegunGrows DEF IInv, Begun, HandlerCalls, Under, QuietSoFar, ShutdownNilIsQuiet
  <1> QED
    BY <1>2, <1>3, <1>4, <1>5 DEF IInv

LEMMA StutterInv == ASSUME IInv, UNCHANGED vars PROVE IInv'
  <1> USE DEF vars, regVars, workVars, callVars, msgVars
  <1>3. TypeOK' /\ Offered'
    BY DEF IInv, TypeOK, Offered
  <1>4. MuExact' /\ OtherRuns' /\ LastRun' /\ Taken' /\ Delivered'
    BY DEF IInv, MuExact, OtherRuns, LastRun, Over, Open, Taken, Delivered
  <1>5. RunsBegun' /\ HandlerCalls' /\ QuietSoFar' /\ ShutdownNilIsQuiet'
    BY BegunGrows DEF IInv, Begun, HandlerCalls, Under, QuietSoFar, ShutdownNilIsQuiet
  <1> QED
    BY <1>3, <1>4, <1>5 DEF IInv

LEMMA NextInv == IInv /\ [Next]_vars => IInv'
  <1> SUFFICES ASSUME IInv, [Next]_vars PROVE IInv'
    OBVIOUS
  <1>1. ASSUME NEW c \in Calls, Acquire(c) PROVE IInv'
    BY <1>1, StartInv, ShutdownInv DEF Acquire
  <1>2. ASSUME NEW c \in Calls, Step(c) PROVE IInv'
    BY <1>2, startOneInv, StartDoneInv, UndoDoneInv, DrainInv, QuiescedInv, CloseInv, ShutDoneInv DEF Step
  <1>3. ASSUME NEW r \in Runs, NEW n \in Names, Deliver(r, n) \/ HandleMsg(r, n) \/ HandlerReturns(r, n)
        PROVE  IInv'
    BY <1>3, DeliverInv, HandleMsgInv, HandlerReturnsInv
  <1>4. ASSUME NEW n \in Names, Register(n) \/ Expires(n) PROVE IInv'
    BY <1>4, RegisterInv, ExpiresInv
  <1> QED
    BY <1>1, <1>2, <1>3, <1>4, CallInv, CallFromHandlerInv, CtxEndsInv, StutterInv DEF Next

THEOREM Invariance == Spec => []IInv
  <1>1. Init => IInv
    BY InitInv
  <1>2. IInv /\ [Next]_vars => IInv'
    BY NextInv
  <1> QED
    BY <1>1, <1>2, PTL DEF Spec

\* Every variable of the consumer's lifecycle keeps its type: no more runs are
\* begun than calls of Start are made, and no message is delivered more than
\* MaxDeliver times.
THEOREM TypeCorrect == Spec => []TypeOK
  <1>1. IInv => TypeOK
    BY DEF IInv
  <1> QED
    BY <1>1, Invariance, PTL

\* Start and Shutdown: whenever no call is at work, the started run delivers on
\* exactly the registered consumers with a live context, and every other run has
\* all its connections closed and its context canceled.
THEOREM OpenOnlyStarted == Spec => []OnlyStartedRunIsOpen
  <1>1. IInv => OnlyStartedRunIsOpen
    <2> SUFFICES ASSUME IInv, mu = NoCall, NEW r \in 1..run
                 PROVE  IF started /\ r = run
                        THEN r \notin canceled /\ \A n \in Names : (n \in regs) = (sc[r][n] = "consuming")
                        ELSE r \in canceled /\ \A n \in Names : sc[r][n] \in {"none", "closed"}
      BY DEF OnlyStartedRunIsOpen
    <2>1. job = "none" /\ run \in {0} \cup Runs
      BY DEF IInv, MuExact, TypeOK
    <2>2. run \in Nat /\ run # 0
      BY <2>1, Constants
    <2>3. r \in Runs /\ (r < run \/ r = run)
      BY <2>1, <2>2, Constants DEF Runs
    <2>4. CASE r < run
      <3>1. r # run
        BY <2>2, <2>4
      <3> QED
        BY <2>3, <2>4, <3>1 DEF IInv, OtherRuns, Over
    <2>5. CASE r = run
      BY <2>1, <2>2, <2>5 DEF IInv, LastRun, Open, Over
    <2> QED
      BY <2>3, <2>4, <2>5
  <1> QED
    BY <1>1, Invariance, PTL

\* Shutdown: when the call that took a run returned nil, no handler of the run is
\* at work, whatever handlers call Shutdown themselves, and none can start.
THEOREM NilMeansQuiet == Spec => []ShutdownNilIsQuiet
  <1>1. IInv => ShutdownNilIsQuiet
    BY DEF IInv
  <1> QED
    BY <1>1, Invariance, PTL

\* The consumers that shutdownAll has left are not closed yet.
LeftOpen == job = "shut" => \A n \in list : sc[run][n] \in {"consuming", "draining", "flushing"}

LEMMA LeftOpenWork == ASSUME IInv, LeftOpen, NEW c \in Calls, Step(c) PROVE LeftOpen'
  <1>0. TypeOK /\ list \subseteq Names
    BY DEF IInv, TypeOK
  <1>1. CASE startOne(c)
    <2>1. job = "dial" /\ list # {} /\ run' = run
      BY <1>1 DEF startOne, regVars
    <2>2. run \in Runs /\ First(list) \in list /\ First(list) \in Names
      <3>1. mu # NoCall
        BY <1>1, Constants DEF startOne
      <3> QED
        BY <1>0, <2>1, <3>1, FirstIn DEF IInv, MuExact, TypeOK
    <2>3. CASE job' # "shut"
      BY <2>3 DEF LeftOpen
    <2>4. CASE job' = "shut"
      <3>1. sc' = [sc EXCEPT ![run][First(list)] = "closed"] /\ list' = Running(run)
        BY <1>1, <2>1, <2>4 DEF startOne, RollBack, ToRollBack
      <3>2. sc[run][First(list)] = "none"
        BY <2>1, <2>2 DEF IInv, LastRun, Open
      <3>3. \A n \in Names : n # First(list) => sc'[run][n] = sc[run][n]
        BY <1>0, <2>2, <3>1, ScUpdate DEF ScStates
      <3> QED
        BY <2>1, <3>1, <3>2, <3>3 DEF LeftOpen, Running
    <2> QED
      BY <2>3, <2>4
  <1>2. CASE StartDone(c) \/ ShutDone(c)
    BY <1>2 DEF StartDone, ShutDone, Return, LeftOpen
  <1>3. CASE UndoDone(c)
    BY <1>3 DEF UndoDone, RollBack, ToRollBack, Running, LeftOpen, regVars
  <1>4. ASSUME Drain(c) \/ Quiesced(c) PROVE LeftOpen'
    <2>0. PICK v \in {"draining", "flushing"} : sc' = [sc EXCEPT ![run][Current] = v]
      BY <1>4 DEF Drain, Quiesced
    <2>1. PICK S : Closing(c, S)
      BY <1>4 DEF Drain, Quiesced
    <2>2. UNCHANGED <<regVars, canceled, workVars, callVars, h, msgVars>>
      BY <1>4 DEF Drain, Quiesced
    <2>3. /\ sc'[run][Current] = v /\ run \in Runs
          /\ \A q \in Runs, k \in Names : (q # run \/ k # Current) => sc'[q][k] = sc[q][k]
      BY <2>0, <2>1, <2>2, ClosingOne DEF workVars, ScStates
    <2> QED
      BY <1>0, <2>2, <2>3 DEF LeftOpen, workVars, regVars
  <1>5. ASSUME Flushed(c) \/ CutShort(c) PROVE LeftOpen'
    <2>1. PICK S : Closing(c, S)
      BY <1>5 DEF Flushed, CutShort
    <2>2. CloseCurrent /\ err' \in {err, "error"}
      BY <1>5 DEF Flushed, CutShort, Joined
    <2>3. \A q \in Runs, k \in Names : (q # run \/ k # Current) => sc'[q][k] = sc[q][k]
      BY <2>1, <2>2, ClosingOne DEF CloseCurrent, ScStates
    <2>4. run \in Runs
      BY <2>1, <2>2, ClosingOne DEF CloseCurrent, ScStates
    <2> QED
      BY <1>0, <2>2, <2>3, <2>4 DEF LeftOpen, CloseCurrent, regVars
  <1> QED
    BY <1>1, <1>2, <1>3, <1>4, <1>5 DEF Step

LEMMA LeftOpenNext == ASSUME IInv, LeftOpen, [Next]_vars PROVE LeftOpen'
  <1>1. ASSUME UNCHANGED <<job, list, sc, run>> PROVE LeftOpen'
    BY <1>1 DEF LeftOpen
  <1>2. ASSUME NEW c \in Calls, Acquire(c) PROVE LeftOpen'
    <2>1. CASE c \in Starts /\ Start(c)
      BY <2>1 DEF Start, Return, Work, LeftOpen
    <2>2. CASE c \in Shutdowns /\ Shutdown(c)
      BY <2>2 DEF Shutdown, Return, Work, Running, LeftOpen
    <2> QED
      BY <1>2, <2>1, <2>2 DEF Acquire
  <1>3. ASSUME NEW c \in Calls, Step(c) PROVE LeftOpen'
    BY <1>3, LeftOpenWork
  <1>4. CASE \E n \in Names : Register(n) \/ Expires(n)
    BY <1>1, <1>4 DEF Register, Expires, regVars, workVars
  <1>5. CASE (\E c \in Calls : Call(c)) \/ (\E c \in Shutdowns, r \in Runs, n \in Names : CallFromHandler(c, r, n))
    BY <1>1, <1>5 DEF Call, CallFromHandler, regVars, workVars
  <1>6. CASE CtxEnds \/ UNCHANGED vars
    BY <1>1, <1>6 DEF CtxEnds, vars, regVars, workVars
  <1>7. CASE \E r \in Runs, n \in Names : Deliver(r, n) \/ HandleMsg(r, n) \/ HandlerReturns(r, n)
    BY <1>1, <1>7 DEF Deliver, HandleMsg, HandlerReturns, regVars, workVars
  <1> QED
    BY <1>2, <1>3, <1>4, <1>5, <1>6, <1>7 DEF Next

\* Start and Shutdown wait for the handlers of the consumer that they close, and
\* for them only while the context of the call lives (shutdownAll, quiesce).
THEOREM OnlyHandlersHoldUp == Spec => []WaitsOnlyForHandlers
  <1>1. Init => LeftOpen
    BY DEF Init, LeftOpen
  <1>2. IInv /\ LeftOpen /\ [Next]_vars => LeftOpen'
    BY LeftOpenNext
  <1>3. ASSUME IInv, LeftOpen, mu # NoCall
        PROVE  CanStep \/ (ctx = "live" /\ sc[run][Current] = "draining" /\ h[run][Current] # "idle")
    <2>1. job \in {"dial", "undo", "shut"} /\ run \in Runs /\ ctx \in {"live", "ended"} /\ list \subseteq Names
      BY <1>3 DEF IInv, MuExact, TypeOK
    <2>2. CASE job = "dial" \/ list = {}
      BY <2>2 DEF CanStep
    <2>3. CASE job # "dial" /\ list # {}
      <3>1. Current \in list /\ Current \in Names
        BY <2>1, <2>3, FirstIn DEF Current
      <3>2. CASE job = "undo"
        <4>1. sc[run][Current] \in {"dialed", "flushing"}
          BY <1>3, <3>1, <3>2 DEF IInv, LastRun
        <4>2. sc[run][Current] = "dialed" => h[run][Current] = "idle"
          BY <1>3, <2>1, <3>1 DEF IInv, Delivered
        <4> QED
          BY <4>1, <4>2 DEF CanStep
      <3>3. CASE job = "shut"
        <4>1. sc[run][Current] \in {"consuming", "draining", "flushing"}
          BY <1>3, <3>1, <3>3 DEF LeftOpen
        <4> QED
          BY <2>1, <4>1 DEF CanStep, Bounded
      <3> QED
        BY <2>1, <2>3, <3>2, <3>3
    <2> QED
      BY <2>2, <2>3
  <1>4. IInv /\ LeftOpen => WaitsOnlyForHandlers
    BY <1>3 DEF WaitsOnlyForHandlers
  <1> QED
    BY <1>1, <1>2, <1>4, Invariance, PTL DEF Spec

-----------------------------------------------------------------------------
\* The least of a set of naturals.
LEMMA LeastIs ==
    ASSUME NEW S \in SUBSET Nat, S # {}
    PROVE  Min(S) \in S /\ \A y \in S : Min(S) <= y
  <1> DEFINE R == {p \in Nat \X Nat : p[1] < p[2]}
  <1>1. IsWellFoundedOn(R, Nat)
    BY NatLessThanWellFounded DEF OpToRel
  <1>2. PICK n \in S : \A k \in S : ~(<<k, n>> \in R)
    <2> HIDE DEF R
    <2> QED
      BY <1>1, WFMin
  <1>3. ASSUME NEW y \in S PROVE n <= y
    <2>1. y \in Nat /\ n \in Nat
      OBVIOUS
    <2>2. ~(<<y, n>> \in R)
      BY <1>2
    <2>3. ~(y < n)
      BY <2>1, <2>2
    <2> QED
      BY <2>1, <2>3
  <1> QED
    BY <1>3 DEF Min

-----------------------------------------------------------------------------
(* errgroup: what Wait returns, and that it does, for any groups, tasks    *)
(* and limits.                                                             *)

\* A task that gives another one to a group is a task of that group.
GivenWithin ==
    \A t \in Tasks : (tpc[t] = "given" /\ giver[t] # NoTask) => GroupOf[giver[t]] = GroupOf[t]

\* Nothing of a group is under way once Wait has returned.
EndedFirst ==
    \A g \in Groups : gpc[g] = "waited" => \A t \in TasksOf(g) : tpc[t] \in {"new", "rejected", "done"}

\* A group's own cancellation has a cause that Wait tells.
CancelTold == \A g \in gcanceled : gerr[g] # "nil" \/ gpc[g] = "waited"

\* A task that was skipped while its group had no error was canceled from outside.
Results ==
    \A t \in Tasks :
        /\ tpc[t] = "running" => t \in ran
        /\ tpc[t] \in {"ended", "done"} => t \in ran \/ result[t] = "ctx"
        /\ (result[t] = "ctx" /\ gerr[GroupOf[t]] = "nil") => CanceledOutside(GroupOf[t])
        /\ (tpc[t] = "done" /\ gerr[GroupOf[t]] = "nil") => result[t] = "nil"

\* The error that a group keeps is true.
ErrorsTold ==
    \A g \in Groups :
        /\ gerr[g] = "ctx" => CanceledOutside(g)
        /\ gerr[g] \in {"fail", "panic"} =>
               \E t \in TasksOf(g) : tpc[t] = "done" /\ t \in ran /\ result[t] = gerr[g]

GInv == GroupsTypeOK /\ GivenWithin /\ EndedFirst /\ CancelTold /\ Results /\ ErrorsTold

\* Contexts are never canceled back.
LEMMA OutsideGrows ==
    ASSUME outside => outside', gcanceled \subseteq gcanceled', NEW g \in Groups, CanceledOutside(g)
    PROVE  CanceledOutside(g)'
  BY DEF CanceledOutside, Ancestors

LEMMA GInit == ASSUME WellFormed, GroupsInit PROVE GInv
  <1>1. GroupsTypeOK
    <2>1. /\ opt \in [Groups -> Limits \cup {NotGiven}] /\ limit \in [Groups -> Int]
          /\ giver \in [Tasks -> Tasks \cup {NoTask}]
      BY DEF GroupsInit
    <2>2. /\ gpc \in [Groups -> {"none", "open", "wait", "waited"}]
          /\ gerr \in [Groups -> {"nil", "fail", "panic", "ctx"}]
          /\ tpc \in [Tasks -> {"new", "given", "rejected", "begun", "running", "ended", "done"}]
          /\ result \in [Tasks -> {"nil", "fail", "panic", "ctx"}]
      BY DEF GroupsInit
    <2>3. gcanceled \subseteq Groups /\ outside \in BOOLEAN /\ ran \subseteq Tasks
      BY DEF GroupsInit
    <2> QED
      BY <2>1, <2>2, <2>3 DEF GroupsTypeOK
  <1>2. GivenWithin /\ EndedFirst /\ CancelTold /\ Results /\ ErrorsTold
    BY DEF GroupsInit, WellFormed, GivenWithin, EndedFirst, CancelTold, Results, ErrorsTold
  <1> QED
    BY <1>1, <1>2 DEF GInv

\* New, Wait and WaitReturns: only the group's own place changes.
LEMMA GroupInv ==
    ASSUME WellFormed, GInv, NEW g \in Groups, New(g) \/ Wait(g) \/ WaitReturns(g) PROVE GInv'
  <1> USE DEF GInv, WellFormed
  <1>1. /\ UNCHANGED <<opt, outside, gerr, tpc, giver, result, ran>>
        /\ gcanceled \subseteq gcanceled' /\ gcanceled' \subseteq gcanceled \cup {g}
    BY DEF New, Wait, WaitReturns
  <1>2. PICK s \in {"open", "wait", "waited"} :
           /\ gpc' = [gpc EXCEPT ![g] = s] /\ gpc[g] # "waited"
           /\ s = "waited" => \A t \in TasksOf(g) : tpc[t] \in {"new", "rejected", "done"}
           /\ gcanceled' # gcanceled => s = "waited"
    BY DEF New, Wait, WaitReturns
  <1>3. gpc'[g] = s /\ \A k \in Groups : k # g => gpc'[k] = gpc[k]
    BY <1>2 DEF GroupsTypeOK
  <1>4. limit' \in [Groups -> Int]
    <2>1. limit \in [Groups -> Int] /\ opt \in [Groups -> Limits \cup {NotGiven}]
      BY DEF GroupsTypeOK
    <2>2. CASE UNCHANGED limit
      BY <2>1, <2>2
    <2>3. CASE New(g)
      <3>1. PICK x : /\ limit' = [limit EXCEPT ![g] = x]
                     /\ x = IF Parent[g] # NoGroup THEN SubGroup(g)
                            ELSE IF opt[g] # NotGiven THEN opt[g] ELSE DefaultMaxConcurrency
        BY <2>3 DEF New
      <3>2. opt[g] # NotGiven => opt[g] \in Int
        BY <2>1
      <3>3. Parent[g] # NoGroup => limit[Parent[g]] \in Int
        BY <2>1
      <3>4. x \in Int
        BY <3>1, <3>2, <3>3 DEF SubGroup
      <3> QED
        BY <2>1, <3>1, <3>4
    <2> QED
      BY <2>2, <2>3 DEF Wait, WaitReturns
  <1>5. GroupsTypeOK'
    BY <1>1, <1>2, <1>4 DEF GroupsTypeOK
  <1>6. GivenWithin'
    BY <1>1 DEF GivenWithin
  <1>7. EndedFirst'
    BY <1>1, <1>2, <1>3 DEF EndedFirst, TasksOf
  <1>8. CancelTold'
    BY <1>1, <1>2, <1>3 DEF CancelTold, GroupsTypeOK
  <1>9. Results'
    BY <1>1, OutsideGrows DEF Results
  <1>10. ErrorsTold'
    BY <1>1, OutsideGrows DEF ErrorsTold, TasksOf
  <1> QED
    BY <1>5, <1>6, <1>7, <1>8, <1>9, <1>10

\* A task of a group that is not waited for yet is given, rejected or begins.
LEMMA GiveInv ==
    ASSUME WellFormed, GInv, NEW t \in Tasks, tpc[t] \in {"new", "given"},
           gpc[GroupOf[t]] # "waited",
           NEW s \in {"given", "begun", "rejected"}, tpc' = [tpc EXCEPT ![t] = s],
           NEW x \in Tasks \cup {NoTask}, giver' = [giver EXCEPT ![t] = x],
           x # NoTask => GroupOf[x] = GroupOf[t],
           UNCHANGED <<opt, gpc, limit, gcanceled, outside, gerr, result, ran>>
    PROVE  GInv'
  <1> USE DEF GInv, WellFormed
  <1>1. tpc'[t] = s /\ \A u \in Tasks : u # t => tpc'[u] = tpc[u]
    BY DEF GroupsTypeOK
  <1>2. GroupsTypeOK'
    BY DEF GroupsTypeOK
  <1>3. giver'[t] = x /\ \A u \in Tasks : u # t => giver'[u] = giver[u]
    BY DEF GroupsTypeOK
  <1>4. GivenWithin'
    BY <1>1, <1>3 DEF GivenWithin
  <1>5. EndedFirst'
    BY <1>1 DEF EndedFirst, TasksOf
  <1>6. CancelTold'
    BY DEF CancelTold
  <1>7. Results'
    BY <1>1, OutsideGrows DEF Results
  <1>8. ErrorsTold'
    BY <1>1, OutsideGrows DEF ErrorsTold, TasksOf
  <1> QED
    BY <1>2, <1>4, <1>5, <1>6, <1>7, <1>8

\* A group that has a giver is open, or one of its tasks runs.
LEMMA GiversIn ==
    ASSUME WellFormed, GInv, NEW g \in Groups, NEW x \in Givers(g)
    PROVE  x \in Tasks \cup {NoTask} /\ (x # NoTask => GroupOf[x] = g) /\ gpc[g] # "waited"
  BY DEF Givers, TasksOf, GInv, EndedFirst

LEMMA GoInv == ASSUME WellFormed, GInv, NEW t \in Tasks, Go(t) PROVE GInv'
  <1>0. GroupOf[t] \in Groups
    BY DEF WellFormed
  <1>1. PICK x \in Givers(GroupOf[t]) : giver' = [giver EXCEPT ![t] = x]
    BY DEF Go
  <1>2. x \in Tasks \cup {NoTask} /\ (x # NoTask => GroupOf[x] = GroupOf[t]) /\ gpc[GroupOf[t]] # "waited"
    BY <1>0, GiversIn
  <1> QED
    BY <1>1, <1>2, GiveInv DEF Go

LEMMA GoReturnsInv == ASSUME WellFormed, GInv, NEW t \in Tasks, GoReturns(t) PROVE GInv'
  <1>1. gpc[GroupOf[t]] # "waited"
    BY DEF GoReturns, GInv, EndedFirst, TasksOf, WellFormed
  <1> QED
    BY <1>1, GiveInv DEF GoReturns, Begin

LEMMA TryGoInv == ASSUME WellFormed, GInv, NEW t \in Tasks, TryGo(t) PROVE GInv'
  <1>0. GroupOf[t] \in Groups
    BY DEF WellFormed
  <1>1. PICK s \in {"begun", "rejected"} : tpc' = [tpc EXCEPT ![t] = s]
    BY DEF TryGo, Begin
  <1>2. gpc[GroupOf[t]] # "waited"
    BY <1>0, GiversIn DEF TryGo
  <1> USE DEF GInv, WellFormed
  <1>4. tpc[t] = "new" /\ UNCHANGED <<opt, gpc, limit, gcanceled, outside, gerr, giver, result, ran>>
    BY DEF TryGo
  <1>5. tpc'[t] = s /\ \A u \in Tasks : u # t => tpc'[u] = tpc[u]
    BY <1>1 DEF GroupsTypeOK
  <1>6. GroupsTypeOK'
    BY <1>1, <1>4 DEF GroupsTypeOK
  <1>7. GivenWithin' /\ EndedFirst' /\ CancelTold'
    BY <1>2, <1>4, <1>5 DEF GivenWithin, EndedFirst, CancelTold, TasksOf
  <1>8. Results'
    BY <1>4, <1>5, OutsideGrows DEF Results
  <1>9. ErrorsTold'
    BY <1>4, <1>5, OutsideGrows DEF ErrorsTold, TasksOf
  <1> QED
    BY <1>6, <1>7, <1>8, <1>9

\* Preflight: a task finds its context canceled by its own group only after the
\* group has an error.
LEMMA PreflightInv == ASSUME WellFormed, GInv, NEW t \in Tasks, Preflight(t) PROVE GInv'
  <1> USE DEF GInv, WellFormed
  <1>0. /\ tpc[t] = "begun" /\ GroupOf[t] \in Groups
        /\ UNCHANGED <<opt, gpc, limit, gcanceled, outside, gerr, giver>>
    BY DEF Preflight
  <1>1. gpc[GroupOf[t]] # "waited"
    BY <1>0 DEF EndedFirst, TasksOf
  <1>2. (Canceled(GroupOf[t]) /\ gerr[GroupOf[t]] = "nil") => CanceledOutside(GroupOf[t])
    BY <1>1 DEF Canceled, CancelTold
  <1>3. PICK s \in {"ended", "running"} :
           /\ tpc' = [tpc EXCEPT ![t] = s]
           /\ s = "ended" => result' = [result EXCEPT ![t] = "ctx"] /\ UNCHANGED ran /\ Canceled(GroupOf[t])
           /\ s = "running" => ran' = ran \cup {t} /\ UNCHANGED result
    BY DEF Preflight, Ends, Skip
  <1>4. /\ tpc'[t] = s /\ (s = "ended" => result'[t] = "ctx") /\ (s = "running" => t \in ran')
        /\ \A u \in Tasks : u # t => tpc'[u] = tpc[u] /\ result'[u] = result[u]
        /\ ran \subseteq ran'
    BY <1>3 DEF GroupsTypeOK
  <1>5. GroupsTypeOK'
    BY <1>0, <1>3 DEF GroupsTypeOK
  <1>6. GivenWithin' /\ EndedFirst' /\ CancelTold'
    BY <1>0, <1>1, <1>4 DEF GivenWithin, EndedFirst, CancelTold, TasksOf
  <1>7. Results'
    <2> SUFFICES ASSUME NEW u \in Tasks
                 PROVE  /\ tpc'[u] = "running" => u \in ran'
                        /\ tpc'[u] \in {"ended", "done"} => u \in ran' \/ result'[u] = "ctx"
                        /\ (result'[u] = "ctx" /\ gerr'[GroupOf[u]] = "nil") => CanceledOutside(GroupOf[u])'
                        /\ (tpc'[u] = "done" /\ gerr'[GroupOf[u]] = "nil") => result'[u] = "nil"
      BY DEF Results
    <2>1. CanceledOutside(GroupOf[u])' = CanceledOutside(GroupOf[u])
      BY <1>0 DEF CanceledOutside, Ancestors
    <2>2. CASE u # t
      BY <1>0, <1>4, <2>1, <2>2 DEF Results
    <2>3. CASE u = t /\ s = "ended"
      BY <1>0, <1>2, <1>3, <1>4, <2>1, <2>3
    <2>4. CASE u = t /\ s = "running"
      BY <1>0, <1>3, <1>4, <2>1, <2>4 DEF Results
    <2> QED
      BY <2>2, <2>3, <2>4
  <1>8. ErrorsTold'
    BY <1>0, <1>4, OutsideGrows DEF ErrorsTold, TasksOf
  <1> QED
    BY <1>5, <1>6, <1>7, <1>8

\* TaskReturns: a task returns the error of a context that is canceled.
LEMMA TaskReturnsInv == ASSUME WellFormed, GInv, NEW t \in Tasks, TaskReturns(t) PROVE GInv'
  <1> USE DEF GInv, WellFormed
  <1>0. /\ tpc[t] = "running" /\ GroupOf[t] \in Groups /\ t \in ran
        /\ UNCHANGED <<opt, gpc, limit, gcanceled, outside, gerr, giver, ran>>
    BY DEF TaskReturns, Results
  <1>1. gpc[GroupOf[t]] # "waited"
    BY <1>0 DEF EndedFirst, TasksOf
  <1>2. (Canceled(GroupOf[t]) /\ gerr[GroupOf[t]] = "nil") => CanceledOutside(GroupOf[t])
    BY <1>1 DEF Canceled, CancelTold
  <1>3. PICK r \in {"nil", "fail", "panic", "ctx"} :
           /\ tpc' = [tpc EXCEPT ![t] = "ended"] /\ result' = [result EXCEPT ![t] = r]
           /\ r = "ctx" => Canceled(GroupOf[t])
    BY DEF TaskReturns, Ends
  <1>4. /\ tpc'[t] = "ended" /\ result'[t] = r
        /\ \A u \in Tasks : u # t => tpc'[u] = tpc[u] /\ result'[u] = result[u]
    BY <1>3 DEF GroupsTypeOK
  <1>5. GroupsTypeOK'
    BY <1>0, <1>3 DEF GroupsTypeOK
  <1>6. GivenWithin' /\ EndedFirst' /\ CancelTold'
    BY <1>0, <1>1, <1>4 DEF GivenWithin, EndedFirst, CancelTold, TasksOf
  <1>7. Results'
    <2>1. \A g \in Groups : CanceledOutside(g)' = CanceledOutside(g)
      BY <1>0 DEF CanceledOutside, Ancestors
    <2> QED
      BY <1>0, <1>2, <1>3, <1>4, <2>1 DEF Results
  <1>8. ErrorsTold'
    BY <1>0, <1>4, OutsideGrows DEF ErrorsTold, TasksOf
  <1> QED
    BY <1>5, <1>6, <1>7, <1>8

\* Done: the first error of a group is its own task's, or came from outside.
LEMMA DoneInv == ASSUME WellFormed, GInv, NEW t \in Tasks, Done(t) PROVE GInv'
  <1> USE DEF GInv, WellFormed
  <1> DEFINE g == GroupOf[t]
  <1>0. /\ tpc[t] = "ended" /\ g \in Groups /\ tpc' = [tpc EXCEPT ![t] = "done"]
        /\ UNCHANGED <<opt, gpc, limit, outside, giver, result, ran>>
    BY DEF Done
  <1>1. CASE result[t] # "nil" /\ gerr[g] = "nil" /\ gerr' = [gerr EXCEPT ![g] = result[t]]
             /\ gcanceled' = gcanceled \cup {g}
    <2>1. /\ tpc'[t] = "done" /\ \A u \in Tasks : u # t => tpc'[u] = tpc[u]
          /\ gerr'[g] = result[t] /\ \A k \in Groups : k # g => gerr'[k] = gerr[k]
          /\ result[t] \in {"fail", "panic", "ctx"}
      BY <1>0, <1>1 DEF GroupsTypeOK
    <2>2. GroupsTypeOK'
      BY <1>0, <1>1, <2>1 DEF GroupsTypeOK
    <2>3. GivenWithin' /\ EndedFirst'
      BY <1>0, <2>1 DEF GivenWithin, EndedFirst, TasksOf
    <2>4. CancelTold'
      BY <1>0, <1>1, <2>1 DEF CancelTold, GroupsTypeOK
    <2>5. \A k \in Groups : CanceledOutside(k) => CanceledOutside(k)'
      BY <1>0, <1>1, OutsideGrows
    <2>6. Results'
      BY <1>0, <1>1, <2>1, <2>5 DEF Results
    <2>7. ErrorsTold'
      <3>1. result[t] = "ctx" => CanceledOutside(g)'
        BY <1>0, <1>1, <2>5 DEF Results
      <3>2. result[t] # "ctx" => t \in ran
        BY <1>0 DEF Results
      <3>3. ASSUME NEW k \in Groups, k # g
            PROVE  /\ gerr'[k] = "ctx" => CanceledOutside(k)'
                   /\ gerr'[k] \in {"fail", "panic"} =>
                        \E u \in TasksOf(k) : tpc'[u] = "done" /\ u \in ran /\ result[u] = gerr'[k]
        BY <2>1, <2>5, <3>3 DEF ErrorsTold, TasksOf
      <3> QED
        BY <1>0, <2>1, <3>1, <3>2, <3>3 DEF ErrorsTold, TasksOf
    <2> QED
      BY <2>2, <2>3, <2>4, <2>6, <2>7
  <1>2. CASE ~(result[t] # "nil" /\ gerr[g] = "nil") /\ UNCHANGED <<gerr, gcanceled>>
    <2>1. tpc'[t] = "done" /\ \A u \in Tasks : u # t => tpc'[u] = tpc[u]
      BY <1>0 DEF GroupsTypeOK
    <2>2. GroupsTypeOK'
      BY <1>0, <1>2 DEF GroupsTypeOK
    <2>3. GivenWithin' /\ EndedFirst' /\ CancelTold'
      BY <1>0, <1>2, <2>1 DEF GivenWithin, EndedFirst, CancelTold, TasksOf
    <2>4. \A k \in Groups : CanceledOutside(k) => CanceledOutside(k)'
      BY <1>0, <1>2, OutsideGrows
    <2>5. Results'
      BY <1>0, <1>2, <2>1, <2>4 DEF Results
    <2>6. ErrorsTold'
      BY <1>0, <1>2, <2>1, <2>4 DEF ErrorsTold, TasksOf
    <2> QED
      BY <2>2, <2>3, <2>5, <2>6
  <1> QED
    BY <1>1, <1>2 DEF Done

LEMMA CancelOutsideInv == ASSUME WellFormed, GInv, CancelOutside \/ UNCHANGED gvars PROVE GInv'
  <1> USE DEF GInv, WellFormed
  <1>1. UNCHANGED <<opt, gpc, limit, gcanceled, gerr, tpc, giver, result, ran>> /\ outside' \in {outside, TRUE}
    BY DEF CancelOutside, gvars
  <1>2. GroupsTypeOK'
    BY <1>1 DEF GroupsTypeOK
  <1>3. GivenWithin' /\ EndedFirst' /\ CancelTold'
    BY <1>1 DEF GivenWithin, EndedFirst, CancelTold, TasksOf
  <1>4. \A k \in Groups : CanceledOutside(k) => CanceledOutside(k)'
    BY <1>1 DEF CanceledOutside, Ancestors
  <1>5. Results' /\ ErrorsTold'
    BY <1>1, <1>4 DEF Results, ErrorsTold, TasksOf
  <1> QED
    BY <1>2, <1>3, <1>5

LEMMA GNext == ASSUME WellFormed, GInv, [GroupsNext]_gvars PROVE GInv'
  BY GroupInv, GoInv, GoReturnsInv, TryGoInv, PreflightInv, TaskReturnsInv, DoneInv, CancelOutsideInv
     DEF GroupsNext, GroupStep, TaskStep

\* The inductive invariant of the groups.
THEOREM GroupsInvariance == GroupsSpec => []GInv
  <1> USE GroupAssumption
  <1>1. GroupsInit => GInv
    BY GInit
  <1>2. GInv /\ [GroupsNext]_gvars => GInv'
    BY GNext
  <1> QED
    BY <1>1, <1>2, PTL DEF GroupsSpec

\* The state of the groups and their tasks is well typed (New, Go, TryGo, Wait).
THEOREM GroupsTyped == GroupsSpec => []GroupsTypeOK
  <1>1. GInv => GroupsTypeOK
    BY DEF GInv
  <1> QED
    BY <1>1, GroupsInvariance, PTL

\* New, SubGroup, adaptTask and Wait: what Wait returns is what happened, for any
\* tree of groups, any tasks, limits and cancellations.
THEOREM WaitIsTrue == GroupsSpec => []WaitTells
  <1> USE GroupAssumption
  <1>1. GInv => WaitTells
    <2> SUFFICES ASSUME GInv, NEW g \in Groups, gpc[g] = "waited"
                 PROVE  /\ gerr[g] = "nil" =>
                             \A t \in TasksOf(g) : tpc[t] = "done" => t \in ran /\ result[t] = "nil"
                        /\ gerr[g] = "ctx" => CanceledOutside(g)
                        /\ gerr[g] \in {"fail", "panic"} => \E t \in TasksOf(g) : t \in ran /\ result[t] = gerr[g]
      BY DEF WaitTells
    <2>1. gerr[g] = "nil" => \A t \in TasksOf(g) : tpc[t] = "done" => t \in ran /\ result[t] = "nil"
      BY DEF GInv, Results, TasksOf
    <2> QED
      BY <2>1 DEF GInv, ErrorsTold, TasksOf
  <1> QED
    BY <1>1, GroupsInvariance, PTL

\* The owner of a group that is not waited for yet runs.
OwnersRun ==
    \A g \in Groups : (gpc[g] \in {"open", "wait"} /\ Owner[g] \in Tasks) => tpc[Owner[g]] = "running"

LEMMA OwnersNext == ASSUME WellFormed, GInv, OwnersRun, [GroupsNext]_gvars PROVE OwnersRun'
  <1> USE DEF WellFormed
  <1>0. /\ gpc \in [Groups -> {"none", "open", "wait", "waited"}]
        /\ tpc \in [Tasks -> {"new", "given", "rejected", "begun", "running", "ended", "done"}]
    BY DEF GInv, GroupsTypeOK
  <1>1. ASSUME UNCHANGED gpc, \A t \in Tasks : tpc[t] = "running" => tpc'[t] = "running" PROVE OwnersRun'
    BY <1>1 DEF OwnersRun
  <1>2. ASSUME NEW g \in Groups, New(g) PROVE OwnersRun'
    BY <1>0, <1>2 DEF New, OwnersRun, CanCall
  <1>3. ASSUME NEW g \in Groups, Wait(g) PROVE OwnersRun'
    BY <1>0, <1>3 DEF Wait, OwnersRun
  <1>4. ASSUME NEW g \in Groups, WaitReturns(g) PROVE OwnersRun'
    BY <1>0, <1>4 DEF WaitReturns, OwnersRun
  <1>5. ASSUME NEW t \in Tasks, Go(t) \/ GoReturns(t) \/ TryGo(t) PROVE OwnersRun'
    BY <1>0, <1>1, <1>5 DEF Go, GoReturns, TryGo, Begin
  <1>6. ASSUME NEW t \in Tasks, Preflight(t) \/ Done(t) PROVE OwnersRun'
    BY <1>0, <1>1, <1>6 DEF Preflight, Ends, Done
  <1>7. ASSUME NEW t \in Tasks, TaskReturns(t) PROVE OwnersRun'
    <2>1. UNCHANGED gpc /\ \A g \in Groups : Owner[g] = t => gpc[g] \in {"none", "waited"}
      BY <1>7 DEF TaskReturns
    <2>2. \A u \in Tasks : u # t => tpc'[u] = tpc[u]
      BY <1>0, <1>7 DEF TaskReturns, Ends
    <2> QED
      BY <2>1, <2>2 DEF OwnersRun
  <1>8. CASE CancelOutside \/ UNCHANGED gvars
    BY <1>1, <1>8 DEF CancelOutside, gvars
  <1> QED
    BY <1>2, <1>3, <1>4, <1>5, <1>6, <1>7, <1>8 DEF GroupsNext, GroupStep, TaskStep

(* Only a task's Go on its own full group blocks for good, for any finite  *)
(* nesting of groups, any tasks, any callers of Go and any limits, zero    *)
(* and less included: the lowest of the groups that are open or waited for *)
(* goes on, unless every task that holds a slot of it waits for another    *)
(* one, or its owner waits for a slot of its own group (Go, Wait, New).    *)
THEOREM GroupsNeverStuck ==
    ASSUME NEW height \in [Groups -> Nat], Nested(height)
    PROVE  GroupsSpec => []NoGroupStuck
  <1> USE GroupAssumption DEF WellFormed
  <1>1. GroupsInit => OwnersRun
    BY DEF GroupsInit, OwnersRun
  <1>2. GInv /\ OwnersRun /\ [GroupsNext]_gvars => OwnersRun'
    BY OwnersNext
  <1>3. ASSUME GInv, OwnersRun PROVE NoGroupStuck
    <2> SUFFICES ASSUME NEW some \in SUBSET Groups,
                        \A g \in Groups : Owner[g] \in Tasks /\ GroupOf[Owner[g]] \in some => g \in some,
                        \E g \in some : gpc[g] \in {"open", "wait"}
                 PROVE  GoOn(some) \/ \E g \in some : SelfBlocked(g) \/ Giving(Owner[g])
      BY DEF NoGroupStuck
    <2> DEFINE live == {g \in some : gpc[g] \in {"open", "wait"}}
               H == {height[g] : g \in live}
    <2>1. H \in SUBSET Nat /\ H # {}
      OBVIOUS
    <2>2. PICK m \in H : \A y \in H : m <= y
      <3> HIDE DEF H
      <3> QED
        BY <2>1, LeastIs
    <2>3. PICK g \in live : height[g] = m
      BY <2>2
    <2>4. g \in some /\ g \in Groups /\ gpc[g] \in {"open", "wait"}
      BY <2>3
    <2>5. /\ gpc \in [Groups -> {"none", "open", "wait", "waited"}] /\ limit \in [Groups -> Int]
          /\ tpc \in [Tasks -> {"new", "given", "rejected", "begun", "running", "ended", "done"}]
          /\ giver \in [Tasks -> Tasks \cup {NoTask}]
      BY <1>3 DEF GInv, GroupsTypeOK
    <2>6. ASSUME NEW t \in Holders(g), ~Giving(t) PROVE TaskGoesOn(t) /\ t \in TasksOf(g)
      <3>1. t \in Tasks /\ GroupOf[t] = g /\ tpc[t] \in {"begun", "running", "ended"}
        BY DEF TasksOf, Holders
      <3>2. ASSUME NEW k \in Groups, Owner[k] = t PROVE gpc[k] \in {"none", "waited"}
        <4>1. k \in some
          BY <2>4, <3>1, <3>2
        <4>2. height[k] < height[g] /\ height[k] \in Nat /\ height[g] \in Nat
          BY <2>4, <3>1, <3>2 DEF Nested
        <4>3. k \notin live
          BY <2>2, <2>3, <4>2
        <4> QED
          BY <2>5, <4>1, <4>3
      <3> QED
        BY <2>6, <3>1, <3>2 DEF TaskGoesOn, TasksOf
    <2>7. CASE \E t \in Holders(g) : ~Giving(t)
      BY <2>4, <2>6, <2>7 DEF GoOn
    <2>8. CASE Holders(g) # {} /\ \A t \in Holders(g) : Giving(t)
      <3>1. CASE ~Slot(g)
        BY <2>4, <2>8, <3>1 DEF SelfBlocked
      <3>2. CASE Slot(g)
        <4>1. PICK t \in Holders(g) : Giving(t)
          BY <2>8
        <4>2. PICK u \in Tasks : tpc[u] = "given" /\ giver[u] = t
          BY <4>1 DEF Giving
        <4>3. t \in Tasks /\ GroupOf[t] = g
          BY <4>1 DEF Holders, TasksOf
        <4>4. GroupOf[u] = g
          BY <1>3, <4>2, <4>3 DEF GInv, GivenWithin
        <4> QED
          BY <2>4, <3>2, <4>2, <4>4 DEF GoOn, TaskGoesOn, TasksOf
      <3> QED
        BY <3>1, <3>2
    <2>9. CASE Holders(g) = {}
      <3>1. Slot(g)
        BY <2>4, <2>5, <2>9, FS_EmptySet DEF Slot, Enforced
      <3>2. CASE \E t \in TasksOf(g) : tpc[t] = "given"
        BY <2>4, <3>1, <3>2 DEF GoOn, TaskGoesOn, TasksOf
      <3>3. CASE \A t \in TasksOf(g) : tpc[t] # "given"
        <4>1. \A t \in TasksOf(g) : tpc[t] \in {"new", "rejected", "done"}
          BY <2>5, <2>9, <3>3 DEF TasksOf, Holders
        <4>2. CASE gpc[g] = "wait"
          BY <2>4, <4>1, <4>2 DEF GoOn
        <4>3. CASE gpc[g] = "open" /\ ~Giving(Owner[g])
          <5>1. CanCall(Owner[g])
            BY <1>3, <2>4, <4>3 DEF OwnersRun, CanCall
          <5>2. OwnerFree(g)
            BY <3>3, <5>1 DEF OwnerFree
          <5> QED
            BY <2>4, <4>3, <5>2 DEF GoOn
        <4> QED
          BY <2>4, <4>2, <4>3
      <3> QED
        BY <3>2, <3>3
    <2> QED
      BY <2>7, <2>8, <2>9
  <1> QED
    BY <1>1, <1>2, <1>3, GroupsInvariance, PTL DEF GroupsSpec

-----------------------------------------------------------------------------
(* The metrics client and the redis client: what Stop and Close leave, for *)
(* any goroutines, bounds and width of the counter.                        *)

Pooled == {"idle", "used", "timeouts"}

\* The measurements of the poller, and those of the other recorders.
Measures == [name   : {"count", "timeouts", "duration", "rpc", "Bad", NoEntry},
             kind   : Kinds \cup {NoEntry},
             series : Pooled \cup {"calls", "app", NoEntry},
             value  : Int]
OfPool(m) ==
    \/ m.name = "count" /\ m.kind = "updown" /\ m.series \in {"idle", "used"}
    \/ m.name = "timeouts" /\ m.kind = "counter" /\ m.series = "timeouts"
NotOfPool(m) == m.series \notin Pooled /\ m.name # "timeouts"

\* stopMu: who is between prepare's check and release holds it for reading, and
\* Stop has it alone.
Locked ==
    /\ \A c \in Recorders : (mpc[c] \in {"load", "store", "write"}) <=> (c \in readers)
    /\ \A s \in Stoppers : spc[s] = "shutdown" => writer = s
    /\ (writer # Nobody \/ stopped) => readers = {}
    /\ provider = "shut" => stopped

\* The map of instruments: what is written agrees with the entry, and nobody but
\* the poller has the counter of timeouts.
Entries ==
    /\ \A c \in Recorders : mpc[c] # "idle" => mreq[c].kind \in Kinds
    /\ \A c \in Recorders : mpc[c] \in {"load", "store", "write"} => mreq[c].name \in MetricNames
    /\ \A c \in Recorders : mpc[c] = "write" => instruments[mreq[c].name] = mreq[c].kind
    /\ instruments["timeouts"] \in {NoEntry, "counter"}
    /\ \A c \in Recorders \ {Poller} : NotOfPool(mreq[c])
    /\ mpc[Poller] # "idle" => OfPool(mreq[Poller])

MInv == MTypeOK /\ mreq \in [Recorders -> Measures] /\ Locked /\ Entries

\* What the provider has of a series, with the measurement under way.
Paid(x) == total[x] + IF mpc[Poller] # "idle" /\ mreq[Poller].series = x THEN mreq[Poller].value ELSE 0

\* With what Q has of the series x, the amount p makes v.
Makes(Q, x, p, v) ==
    /\ (\A i \in 1..Len(Q) : Q[i].series # x) => p = v
    /\ \A i \in 1..Len(Q) : Q[i].series = x => p + Q[i].value = v

\* Once what is queued is paid too, the series sums up to v.
SumsTo(x, v) == Makes(queue, x, Paid(x), v)

\* Unless the client could not serve the poller once, the sums agree with its
\* last snapshot; an entry of another kind under its name keeps the counts out
\* from the first on.
Balance ==
    /\ Poller \in lost \/ SumsTo("timeouts", timeouts)
    /\ (Poller \notin lost /\ instruments["count"] \in {NoEntry, "updown"}) =>
           SumsTo("idle", prev.idle) /\ SumsTo("used", prev.used)
    /\ instruments["count"] # "updown" => total["idle"] = 0 /\ total["used"] = 0

\* The queue has at most one measurement of a series.
Once(Q) ==
    /\ Q \in Seq(Measures)
    /\ \A i \in 1..Len(Q) : OfPool(Q[i])
    /\ \A i, j \in 1..Len(Q) : i # j => Q[i].series # Q[j].series
QueueOnce == Once(queue)

\* The life of the poller and of the client.
Life ==
    /\ prev \in [idle : Int, used : Int, timeouts : Int] /\ timeouts \in Nat
    /\ ppc \in {"none", "gone"} => PollerIdle
    /\ ppc \in {"none", "withdraw", "gone"} => prev.idle = 0 /\ prev.used = 0
    /\ prev.timeouts = timeouts % Uint32
    /\ (\E x \in Closers : closes[x] # <<>>) => pool = "closed" /\ ppc \in {"none", "gone"} /\ client = "open"
    /\ \A x \in Closers : cpc[x] = "wait" => client = "open"

DInv == MInv /\ Balance /\ QueueOnce /\ Life /\ cpc \in [Closers -> {"idle", "wait"}] /\ closes \in [Closers -> Seq({"nil", "closed"})]

-----------------------------------------------------------------------------
(* uint32.                                                                 *)

\* The remainder is the only one.
LEMMA ModIs ==
    ASSUME NEW U \in Nat \ {0}, NEW x \in Int, NEW q \in Int, NEW r \in 0..(U - 1), x = U * q + r
    PROVE  x % U = r
  <1> DEFINE p == x \div U
             s == x % U
  <1>1. s \in 0..(U - 1) /\ p \in Int /\ x = U * p + s
    OBVIOUS
  <1> HIDE DEF p, s
  <1>2. U * (p - q) = r - s
    BY <1>1
  <1>3. CASE p - q >= 1
    <2>1. U * (p - q) >= U
      BY <1>1, <1>3
    <2> QED
      BY <1>1, <1>2, <2>1
  <1>4. CASE p - q <= -1
    <2>1. U * (p - q) <= -U
      BY <1>1, <1>4
    <2> QED
      BY <1>1, <1>2, <2>1
  <1>5. CASE p = q
    BY <1>1, <1>2, <1>5 DEF s
  <1> QED
    BY <1>1, <1>3, <1>4, <1>5

\* Since: the difference of two readings of the counter is what was added, across
\* its wrap.
LEMMA WrapDelta ==
    ASSUME NEW U \in Nat \ {0}, NEW t \in Nat, NEW d \in 0..(U - 1)
    PROVE  (((t + d) % U) - (t % U)) % U = d
  <1> DEFINE r == t % U
             q == t \div U
             n == (t + d) % U
  <1>1. r \in 0..(U - 1) /\ q \in Int /\ t = U * q + r
    OBVIOUS
  <1> HIDE DEF r, q, n
  <1>2. CASE r + d < U
    <2>1. r + d \in 0..(U - 1) /\ t + d = U * q + (r + d) /\ t + d \in Int
      BY <1>1, <1>2
    <2>2. n = r + d
      BY <1>1, <2>1, ModIs DEF n
    <2>3. n - r = U * 0 + d /\ n - r \in Int
      BY <1>1, <2>2
    <2>4. (n - r) % U = d
      BY <2>3, ModIs
    <2> QED
      BY <2>4 DEF n, r
  <1>3. CASE r + d >= U
    <2>1. r + d - U \in 0..(U - 1) /\ t + d = U * (q + 1) + (r + d - U) /\ t + d \in Int /\ q + 1 \in Int
      BY <1>1, <1>3
    <2>2. n = r + d - U
      BY <1>1, <2>1, ModIs DEF n
    <2>3. n - r = U * (-1) + d /\ n - r \in Int
      BY <1>1, <2>2
    <2>4. (n - r) % U = d
      BY <2>3, ModIs
    <2> QED
      BY <2>4 DEF n, r
  <1> QED
    BY <1>1, <1>2, <1>3

\* The elements of a concatenation.
LEMMA ConcatAt ==
    ASSUME NEW S, NEW s \in Seq(S), NEW t \in Seq(S), NEW u, u = s \o t
    PROVE  /\ u \in Seq(S) /\ Len(u) = Len(s) + Len(t)
           /\ \A i \in 1..Len(s) : u[i] = s[i]
           /\ \A i \in 1..Len(t) : u[i + Len(s)] = t[i]
  OBVIOUS

\* Pending: one measurement for every series that changed.
LEMMA PendingIs ==
    ASSUME NEW idle \in Int, NEW used \in Int, NEW d \in Int, ClientsWellFormed,
           NEW Q, Q = Pending(idle, used, d)
    PROVE  /\ Once(Q)
           /\ Makes(Q, "idle", 0, idle) /\ Makes(Q, "used", 0, used) /\ Makes(Q, "timeouts", 0, d)
  <1> DEFINE a == Point("count", "updown", "idle", idle)
             b == Point("count", "updown", "used", used)
             c == Point("timeouts", "counter", "timeouts", d)
             A == IF idle # 0 THEN <<a>> ELSE <<>>
             B == IF used # 0 THEN <<b>> ELSE <<>>
             C == IF d # 0 THEN <<c>> ELSE <<>>
  <1>1. /\ a \in Measures /\ a.series = "idle" /\ a.value = idle /\ OfPool(a)
        /\ b \in Measures /\ b.series = "used" /\ b.value = used /\ OfPool(b)
        /\ c \in Measures /\ c.series = "timeouts" /\ c.value = d /\ OfPool(c)
    BY DEF Point, Measures, OfPool, Pooled, ClientsWellFormed
  <1>2. Q = (A \o B) \o C
    BY DEF Pending, addCount
  <1> HIDE DEF a, b, c
  <1>3. /\ A \in Seq(Measures) /\ B \in Seq(Measures) /\ C \in Seq(Measures)
        /\ Len(A) = (IF idle # 0 THEN 1 ELSE 0) /\ (idle # 0 => A[1] = a)
        /\ Len(B) = (IF used # 0 THEN 1 ELSE 0) /\ (used # 0 => B[1] = b)
        /\ Len(C) = (IF d # 0 THEN 1 ELSE 0) /\ (d # 0 => C[1] = c)
    BY <1>1
  <1> HIDE DEF A, B, C
  <1>4. /\ Q \in Seq(Measures) /\ Len(Q) = Len(A) + Len(B) + Len(C)
        /\ \A i \in 1..Len(A) : Q[i] = A[i]
        /\ \A i \in 1..Len(B) : Q[i + Len(A)] = B[i]
        /\ \A i \in 1..Len(C) : Q[i + Len(A) + Len(B)] = C[i]
    <2> DEFINE AB == A \o B
    <2>1. A \in Seq(Measures) /\ B \in Seq(Measures) /\ C \in Seq(Measures)
      BY <1>3
    <2>2. AB = A \o B /\ Q = AB \o C
      BY <1>2
    <2> HIDE DEF AB
    <2>3. /\ AB \in Seq(Measures) /\ Len(AB) = Len(A) + Len(B)
          /\ \A i \in 1..Len(A) : AB[i] = A[i]
          /\ \A i \in 1..Len(B) : AB[i + Len(A)] = B[i]
      BY <2>1, <2>2, ConcatAt
    <2>4. /\ Q \in Seq(Measures) /\ Len(Q) = Len(AB) + Len(C)
          /\ \A i \in 1..Len(AB) : Q[i] = AB[i]
          /\ \A i \in 1..Len(C) : Q[i + Len(AB)] = C[i]
      BY <2>1, <2>2, <2>3, ConcatAt
    <2>5. Len(A) \in Nat /\ Len(B) \in Nat /\ Len(C) \in Nat
      BY <1>3
    <2>6. \A i \in 1..Len(B) : i + Len(A) \in 1..Len(AB)
      BY <2>3, <2>5
    <2>7. \A i \in 1..Len(A) : i \in 1..Len(AB)
      BY <2>3, <2>5
    <2>8. \A i \in 1..Len(C) : i + Len(A) + Len(B) = i + Len(AB)
      BY <2>3, <2>5
    <2> QED
      BY <2>3, <2>4, <2>6, <2>7, <2>8
  <1>5. /\ idle # 0 => 1 \in 1..Len(Q) /\ Q[1] = a
        /\ used # 0 => Len(A) + 1 \in 1..Len(Q) /\ Q[Len(A) + 1] = b
        /\ d # 0 => Len(A) + Len(B) + 1 \in 1..Len(Q) /\ Q[Len(A) + Len(B) + 1] = c
    BY <1>3, <1>4
  <1>6. \A i \in 1..Len(Q) : \/ idle # 0 /\ i = 1
                             \/ used # 0 /\ i = Len(A) + 1
                             \/ d # 0 /\ i = Len(A) + Len(B) + 1
    BY <1>3, <1>4
  <1>7. \A i \in 1..Len(Q) : Q[i] \in {a, b, c}
    BY <1>5, <1>6
  <1>8. \A i, j \in 1..Len(Q) : i # j => Q[i].series # Q[j].series
    BY <1>1, <1>5, <1>6
  <1>9. \A i \in 1..Len(Q) : /\ OfPool(Q[i])
                             /\ Q[i].series = "idle" => Q[i].value = idle
                             /\ Q[i].series = "used" => Q[i].value = used
                             /\ Q[i].series = "timeouts" => Q[i].value = d
    BY <1>1, <1>7
  <1>10. /\ (\A i \in 1..Len(Q) : Q[i].series # "idle") => idle = 0
         /\ (\A i \in 1..Len(Q) : Q[i].series # "used") => used = 0
         /\ (\A i \in 1..Len(Q) : Q[i].series # "timeouts") => d = 0
    BY <1>1, <1>5
  <1>11. \A i \in 1..Len(Q) : Q[i].value \in Int
    BY <1>1, <1>7
  <1> QED
    BY <1>4, <1>8, <1>9, <1>10, <1>11 DEF Once, Makes

-----------------------------------------------------------------------------
(* The metrics client.                                                     *)

\* What is left of the state when the metrics client does nothing.
LEMMA MetricsSame == ASSUME MInv, UNCHANGED mvars PROVE MInv'
  BY DEF MInv, mvars, MTypeOK, Locked, Entries

\* Measure: a goroutine asks for a measurement of its own.
LEMMA MeasureM ==
    ASSUME ClientsWellFormed, MInv, NEW c \in Recorders, NEW m \in Measures, m.kind \in Kinds, Measure(c, m), UNCHANGED notRecorder,
           IF c = Poller THEN OfPool(m) ELSE NotOfPool(m)
    PROVE  /\ MInv' /\ mpc[c] = "idle" /\ mpc'[c] = "rlock" /\ mreq'[c] = m
           /\ \A k \in Recorders : k # c => mpc'[k] = mpc[k] /\ mreq'[k] = mreq[k]
  <1> USE DEF Measure, notRecorder
  <1>1. mpc \in [Recorders -> {"idle", "rlock", "load", "store", "write"}] /\ mreq \in [Recorders -> Measures]
    BY DEF MInv, MTypeOK
  <1>2. /\ mpc[c] = "idle" /\ mpc'[c] = "rlock" /\ mreq'[c] = m
        /\ \A k \in Recorders : k # c => mpc'[k] = mpc[k] /\ mreq'[k] = mreq[k]
    BY <1>1
  <1>3. MTypeOK' /\ mreq' \in [Recorders -> Measures]
    BY <1>1 DEF MInv, MTypeOK
  <1>4. Locked'
    BY <1>2 DEF MInv, Locked
  <1>5. Entries'
    BY <1>2 DEF MInv, Entries, ClientsWellFormed
  <1> QED
    BY <1>2, <1>3, <1>4, <1>5 DEF MInv

\* Fail: the measurement is given up, and the lock given back.
LEMMA FailM ==
    ASSUME ClientsWellFormed, MInv, NEW c \in Recorders, NEW e, Fail(c, e),
           UNCHANGED <<shutdown, total, lockVars>>,
           instruments' \in [MetricNames -> Kinds \cup {NoEntry}], instruments'["timeouts"] \in {NoEntry, "counter"},
           \A n \in MetricNames : instruments[n] # NoEntry => instruments'[n] = instruments[n]
    PROVE  /\ MInv' /\ mpc'[c] = "idle" /\ \A k \in Recorders : k # c => mpc'[k] = mpc[k] /\ mreq'[k] = mreq[k]
           /\ c # Poller => (Poller \in lost' <=> Poller \in lost)
           /\ c = Poller => (e \in {"stopped", "create"} => Poller \in lost')
           /\ lost \subseteq lost'
  <1> USE DEF Fail, lockVars
  <1>0. NoEntry \notin Kinds /\ NoEntry \notin Summed /\ Pooled \subseteq Summed /\ "timeouts" \in MetricNames
        /\ NoEntry \notin MetricNames /\ Poller \in Recorders /\ Poller \in Watched
    BY DEF ClientsWellFormed, Pooled
  <1>1. mpc \in [Recorders -> {"idle", "rlock", "load", "store", "write"}] /\ mreq \in [Recorders -> Measures]
        /\ lost \subseteq Watched /\ readers \subseteq Recorders
    BY DEF MInv, MTypeOK
  <1>2. /\ mpc'[c] = "idle" /\ mreq'[c] = NoMeasure /\ \A k \in Recorders : k # c => mpc'[k] = mpc[k] /\ mreq'[k] = mreq[k]
        /\ readers' = readers \ {c}
    BY <1>1
  <1>3. NoMeasure \in Measures /\ NotOfPool(NoMeasure)
    BY <1>0 DEF NoMeasure, Measures, NotOfPool
  <1>4. mreq' \in [Recorders -> Measures]
    BY <1>1, <1>3
  <1>5. /\ lost' \subseteq Watched /\ lost \subseteq lost'
        /\ c # Poller => (Poller \in lost' <=> Poller \in lost)
        /\ c = Poller => (e \in {"stopped", "create"} => Poller \in lost')
    BY <1>0, <1>1
  <1>6. MTypeOK'
    <2>1. mpc' \in [Recorders -> {"idle", "rlock", "load", "store", "write"}] /\ readers' \subseteq Recorders
      BY <1>1, <1>2
    <2> QED
      BY <1>5, <2>1 DEF MInv, MTypeOK
  <1>7. Locked'
    BY <1>2 DEF MInv, Locked
  <1>8. Entries'
    <2>1. \A k \in Recorders : mpc'[k] = "write" => instruments'[mreq'[k].name] = mreq'[k].kind
      <3> SUFFICES ASSUME NEW k \in Recorders, mpc'[k] = "write" PROVE instruments'[mreq'[k].name] = mreq'[k].kind
        OBVIOUS
      <3>1. k # c /\ mpc[k] = "write" /\ mreq'[k] = mreq[k]
        BY <1>2
      <3>2. mreq[k].name \in MetricNames /\ instruments[mreq[k].name] = mreq[k].kind /\ mreq[k].kind \in Kinds
        BY <1>1, <3>1 DEF MInv, Entries
      <3> QED
        BY <1>0, <3>1, <3>2
    <2> QED
      BY <1>2, <1>3, <2>1 DEF MInv, Entries
  <1> QED
    BY <1>2, <1>4, <1>5, <1>6, <1>7, <1>8 DEF MInv

\* A recorder gets further and keeps its measurement.
LEMMA GoesOnM ==
    ASSUME ClientsWellFormed, MInv, NEW c \in Recorders, mpc[c] # "idle", NEW s \in {"load", "store", "write"},
           mpc' = [mpc EXCEPT ![c] = s], UNCHANGED <<shutdown, total, lockVars, mreq, lost>>,
           readers' = readers \cup {c}, ~stopped, writer = Nobody,
           mreq[c].name \in MetricNames, s = "write" => instruments'[mreq[c].name] = mreq[c].kind,
           instruments' \in [MetricNames -> Kinds \cup {NoEntry}], instruments'["timeouts"] \in {NoEntry, "counter"},
           \A n \in MetricNames : instruments[n] # NoEntry => instruments'[n] = instruments[n]
    PROVE  MInv' /\ mpc'[c] # "idle" /\ \A k \in Recorders : k # c => mpc'[k] = mpc[k]
  <1> USE DEF lockVars
  <1>0. NoEntry \notin Kinds /\ Poller \in Recorders
    BY DEF ClientsWellFormed
  <1>1. mpc \in [Recorders -> {"idle", "rlock", "load", "store", "write"}] /\ readers \subseteq Recorders
    BY DEF MInv, MTypeOK
  <1>2. mpc'[c] = s /\ \A k \in Recorders : k # c => mpc'[k] = mpc[k]
    BY <1>1
  <1>3. MTypeOK'
    BY <1>1 DEF MInv, MTypeOK
  <1>4. Locked'
    BY <1>2 DEF MInv, Locked
  <1>5. Entries'
    <2>1. \A k \in Recorders : mpc'[k] = "write" => instruments'[mreq[k].name] = mreq[k].kind
      <3> SUFFICES ASSUME NEW k \in Recorders, mpc'[k] = "write", k # c PROVE instruments'[mreq[k].name] = mreq[k].kind
        BY <1>2
      <3>1. mpc[k] = "write"
        BY <1>2
      <3>2. mreq[k].name \in MetricNames /\ instruments[mreq[k].name] = mreq[k].kind /\ mreq[k].kind \in Kinds
        BY <3>1 DEF MInv, Entries
      <3> QED
        BY <1>0, <3>2
    <2>2. \A k \in Recorders : mpc'[k] \in {"load", "store", "write"} => mreq[k].name \in MetricNames
      BY <1>2 DEF MInv, Entries
    <2>3. \A k \in Recorders : mpc'[k] # "idle" => mreq[k].kind \in Kinds
      BY <1>2 DEF MInv, Entries
    <2>4. \A k \in Recorders \ {Poller} : NotOfPool(mreq[k])
      BY DEF MInv, Entries
    <2>5. mpc'[Poller] # "idle" => OfPool(mreq[Poller])
      BY <1>0, <1>2 DEF MInv, Entries
    <2> QED
      BY <2>1, <2>2, <2>3, <2>4, <2>5 DEF Entries
  <1> QED
    BY <1>2, <1>3, <1>4, <1>5 DEF MInv

\* What a step of the metrics client does to the sums of the poller: nothing,
\* unless the poller's measurement is lost, or finds an entry of another kind.
SumsKept ==
    /\ Poller \notin lost' => Poller \notin lost /\ Paid("timeouts")' = Paid("timeouts")
    /\ (Poller \notin lost' /\ instruments'["count"] \in {NoEntry, "updown"}) =>
           /\ instruments["count"] \in {NoEntry, "updown"}
           /\ Paid("idle")' = Paid("idle") /\ Paid("used")' = Paid("used")
    /\ instruments'["count"] # "updown" =>
           /\ instruments["count"] # "updown"
           /\ total'["idle"] = total["idle"] /\ total'["used"] = total["used"]

LEMMA SumsSame ==
    ASSUME ClientsWellFormed, MInv, \A x \in Pooled : total'[x] = total[x],
           mpc[Poller] = "idle" <=> mpc'[Poller] = "idle", mreq'[Poller] = mreq[Poller],
           \A n \in MetricNames : instruments[n] # NoEntry => instruments'[n] = instruments[n],
           Poller \in lost' <=> Poller \in lost
    PROVE  SumsKept
  <1>1. "count" \in MetricNames /\ NoEntry # "updown" 
    BY DEF ClientsWellFormed
  <1>2. \A x \in Pooled : Paid(x)' = Paid(x)
    BY DEF Paid
  <1>3. "idle" \in Pooled /\ "used" \in Pooled /\ "timeouts" \in Pooled
    BY DEF Pooled
  <1> QED
    BY <1>1, <1>2, <1>3 DEF SumsKept

\* A measurement that is given up.
LEMMA FailSums ==
    ASSUME ClientsWellFormed, MInv, NEW c \in Recorders, NEW e, Fail(c, e),
           UNCHANGED <<shutdown, total, lockVars>>,
           instruments' \in [MetricNames -> Kinds \cup {NoEntry}], instruments'["timeouts"] \in {NoEntry, "counter"},
           \A n \in MetricNames : instruments[n] # NoEntry => instruments'[n] = instruments[n],
           c = Poller => \/ e \in {"stopped", "create"}
                         \/ mreq[Poller].series # "timeouts" /\ instruments'["count"] \notin {NoEntry, "updown"}
    PROVE  MInv' /\ SumsKept /\ \A k \in Recorders : k # c => mpc'[k] = mpc[k]
  <1>1. /\ MInv' /\ mpc'[c] = "idle" /\ \A k \in Recorders : k # c => mpc'[k] = mpc[k] /\ mreq'[k] = mreq[k]
        /\ c # Poller => (Poller \in lost' <=> Poller \in lost)
        /\ c = Poller => (e \in {"stopped", "create"} => Poller \in lost')
        /\ lost \subseteq lost'
    BY FailM
  <1>2. "count" \in MetricNames /\ NoEntry # "updown" /\ Poller \in Recorders /\ Pooled \subseteq Summed
    BY DEF ClientsWellFormed, Pooled
  <1>3. CASE c # Poller
    <2>1. SumsKept
      BY <1>1, <1>2, <1>3, SumsSame
    <2> QED
      BY <1>1, <2>1
  <1>4. CASE c = Poller
    <2>1. /\ instruments'["count"] # "updown" => instruments["count"] # "updown"
          /\ total'["idle"] = total["idle"] /\ total'["used"] = total["used"]
      BY <1>2
    <2>2. CASE e \in {"stopped", "create"}
      BY <1>1, <1>4, <2>1, <2>2 DEF SumsKept
    <2>3. CASE mreq[Poller].series # "timeouts" /\ instruments'["count"] \notin {NoEntry, "updown"}
      <3>1. Paid("timeouts")' = Paid("timeouts")
        BY <1>1, <1>4, <2>3 DEF Paid
      <3> QED
        BY <1>1, <2>1, <2>3, <3>1 DEF SumsKept
    <2> QED
      BY <1>4, <2>2, <2>3
  <1> QED
    BY <1>3, <1>4

\* A measurement that goes on.
LEMMA GoesOnSums ==
    ASSUME ClientsWellFormed, MInv, NEW c \in Recorders, mpc[c] # "idle", NEW s \in {"load", "store", "write"},
           mpc' = [mpc EXCEPT ![c] = s], UNCHANGED <<shutdown, total, lockVars, mreq, lost>>,
           readers' = readers \cup {c}, ~stopped, writer = Nobody,
           mreq[c].name \in MetricNames, s = "write" => instruments'[mreq[c].name] = mreq[c].kind,
           instruments' \in [MetricNames -> Kinds \cup {NoEntry}], instruments'["timeouts"] \in {NoEntry, "counter"},
           \A n \in MetricNames : instruments[n] # NoEntry => instruments'[n] = instruments[n]
    PROVE  MInv' /\ SumsKept /\ \A k \in Recorders : k # c => mpc'[k] = mpc[k]
  <1>1. MInv' /\ mpc'[c] # "idle" /\ \A k \in Recorders : k # c => mpc'[k] = mpc[k]
    BY GoesOnM
  <1>2. Poller \in Recorders
    BY DEF ClientsWellFormed
  <1>3. SumsKept
    BY <1>1, <1>2, SumsSame
  <1> QED
    BY <1>1, <1>3

LEMMA prepareM ==
    ASSUME ClientsWellFormed, MInv, NEW c \in Recorders, prepare(c)
    PROVE  MInv' /\ SumsKept /\ \A k \in Recorders : k # c => mpc'[k] = mpc[k]
  <1>1. /\ mpc[c] = "rlock" /\ writer = Nobody /\ UNCHANGED <<shutdown, total, instruments, lockVars>>
        /\ instruments \in [MetricNames -> Kinds \cup {NoEntry}] /\ instruments["timeouts"] \in {NoEntry, "counter"}
    BY DEF prepare, Readable, MInv, MTypeOK, Entries
  <1>2. CASE Fail(c, "stopped")
    BY <1>1, <1>2, FailSums
  <1>3. CASE mreq[c].name \notin MetricNames /\ Fail(c, "invalid")
    <2>1. c # Poller
      BY <1>1, <1>3 DEF MInv, Entries, OfPool, ClientsWellFormed
    <2> QED
      BY <1>1, <1>3, <2>1, FailSums
  <1>4. CASE /\ ~stopped /\ mreq[c].name \in MetricNames /\ readers' = readers \cup {c}
             /\ mpc' = [mpc EXCEPT ![c] = "load"] /\ UNCHANGED <<mreq, lost>>
    BY <1>1, <1>4, GoesOnSums
  <1> QED
    BY <1>2, <1>3, <1>4 DEF prepare, Stopped

\* A recorder past prepare holds the lock.
LEMMA HoldsLock ==
    ASSUME MInv, NEW c \in Recorders, mpc[c] \in {"load", "store", "write"}
    PROVE  /\ ~stopped /\ writer = Nobody /\ readers = readers \cup {c} /\ provider = "open"
           /\ mreq[c].name \in MetricNames /\ mreq[c].kind \in Kinds
  BY DEF MInv, Locked, Entries, MTypeOK

\* The poller meets an entry of another kind only under the name of the count.
LEMMA PollerConflict ==
    ASSUME MInv, mpc[Poller] # "idle", ClientsWellFormed, NEW k, k # NoEntry, k # mreq[Poller].kind,
           mreq[Poller].name = "timeouts" => k \in {NoEntry, "counter"}
    PROVE  mreq[Poller].name = "count" /\ mreq[Poller].series # "timeouts" /\ k \notin {NoEntry, "updown"}
  BY DEF MInv, Entries, OfPool

LEMMA LoadInstrumentM ==
    ASSUME ClientsWellFormed, MInv, NEW c \in Recorders, LoadInstrument(c)
    PROVE  MInv' /\ SumsKept /\ \A k \in Recorders : k # c => mpc'[k] = mpc[k]
  <1>1. /\ mpc[c] = "load" /\ UNCHANGED <<shutdown, total, instruments, lockVars>>
        /\ instruments \in [MetricNames -> Kinds \cup {NoEntry}] /\ instruments["timeouts"] \in {NoEntry, "counter"}
    BY DEF LoadInstrument, MInv, MTypeOK, Entries
  <1>2. /\ ~stopped /\ writer = Nobody /\ readers = readers \cup {c}
        /\ mreq[c].name \in MetricNames
    BY <1>1, HoldsLock
  <1>3. CASE /\ instruments[mreq[c].name] = mreq[c].kind
             /\ mpc' = [mpc EXCEPT ![c] = "write"] /\ UNCHANGED <<mreq, lost, readers>>
    BY <1>1, <1>2, <1>3, GoesOnSums
  <1>4. CASE /\ instruments[mreq[c].name] # NoEntry /\ instruments[mreq[c].name] # mreq[c].kind
             /\ Fail(c, "conflict")
    <2>1. c = Poller => mreq[Poller].series # "timeouts" /\ instruments["count"] \notin {NoEntry, "updown"}
      BY <1>1, <1>4, PollerConflict
    <2> QED
      BY <1>1, <1>4, <2>1, FailSums
  <1>5. CASE mpc' = [mpc EXCEPT ![c] = "store"] /\ UNCHANGED <<mreq, lost, readers>>
    BY <1>1, <1>2, <1>5, GoesOnSums
  <1>6. CASE Fail(c, "create")
    BY <1>1, <1>6, FailSums
  <1> QED
    BY <1>3, <1>4, <1>5, <1>6 DEF LoadInstrument, matches

LEMMA LoadOrStoreM ==
    ASSUME ClientsWellFormed, MInv, NEW c \in Recorders, LoadOrStore(c)
    PROVE  MInv' /\ SumsKept /\ \A k \in Recorders : k # c => mpc'[k] = mpc[k]
  <1> DEFINE n == mreq[c].name
  <1>1. /\ mpc[c] = "store" /\ UNCHANGED <<shutdown, total, lockVars>>
        /\ instruments \in [MetricNames -> Kinds \cup {NoEntry}] /\ instruments["timeouts"] \in {NoEntry, "counter"}
    BY DEF LoadOrStore, MInv, MTypeOK, Entries
  <1>2. /\ ~stopped /\ writer = Nobody /\ readers = readers \cup {c}
        /\ n \in MetricNames /\ mreq[c].kind \in Kinds
    BY <1>1, HoldsLock
  <1>3. instruments' = IF instruments[n] = NoEntry THEN [instruments EXCEPT ![n] = mreq[c].kind] ELSE instruments
    BY DEF LoadOrStore
  <1>4. n = "timeouts" => mreq[c].kind = "counter" /\ c = Poller
    BY <1>1 DEF MInv, Entries, OfPool, NotOfPool
  <1>5. /\ instruments' \in [MetricNames -> Kinds \cup {NoEntry}] /\ instruments'["timeouts"] \in {NoEntry, "counter"}
        /\ \A k \in MetricNames : instruments[k] # NoEntry => instruments'[k] = instruments[k]
        /\ instruments'[n] # NoEntry
    BY <1>1, <1>2, <1>3, <1>4 DEF ClientsWellFormed
  <1>6. CASE /\ instruments'[n] = mreq[c].kind
             /\ mpc' = [mpc EXCEPT ![c] = "write"] /\ UNCHANGED <<mreq, lost, readers>>
    BY <1>1, <1>2, <1>5, <1>6, GoesOnSums
  <1>7. CASE instruments'[n] # mreq[c].kind /\ Fail(c, "conflict")
    <2>1. c = Poller => mreq[Poller].series # "timeouts" /\ instruments'["count"] \notin {NoEntry, "updown"}
      BY <1>1, <1>5, <1>7, PollerConflict
    <2> QED
      BY <1>1, <1>5, <1>7, <2>1, FailSums
  <1> QED
    BY <1>6, <1>7 DEF LoadOrStore

\* RecordPoint: what was under way is paid.
LEMMA RecordPointM ==
    ASSUME ClientsWellFormed, MInv, NEW c \in Recorders, RecordPoint(c)
    PROVE  MInv' /\ SumsKept /\ \A k \in Recorders : k # c => mpc'[k] = mpc[k]
  <1>0. /\ NoEntry \notin Kinds /\ NoEntry \notin Summed /\ Pooled \subseteq Summed /\ Poller \in Recorders
    BY DEF ClientsWellFormed, Pooled
  <1>1. /\ mpc[c] = "write" /\ UNCHANGED <<shutdown, instruments, lost, lockVars>> /\ readers' = readers \ {c}
        /\ total' = [x \in Summed |-> total[x] + IF x = mreq[c].series THEN mreq[c].value ELSE 0]
        /\ mpc' = [mpc EXCEPT ![c] = "idle"] /\ mreq' = [mreq EXCEPT ![c] = NoMeasure]
    BY DEF RecordPoint
  <1>2. /\ mpc \in [Recorders -> {"idle", "rlock", "load", "store", "write"}] /\ mreq \in [Recorders -> Measures]
        /\ total \in [Summed -> Int] /\ readers \subseteq Recorders
    BY DEF MInv, MTypeOK
  <1>3. /\ mpc'[c] = "idle" /\ mreq'[c] = NoMeasure
        /\ \A k \in Recorders : k # c => mpc'[k] = mpc[k] /\ mreq'[k] = mreq[k]
    BY <1>1, <1>2
  <1>4. NoMeasure \in Measures /\ NotOfPool(NoMeasure)
    BY <1>0 DEF NoMeasure, Measures, NotOfPool, ClientsWellFormed
  <1>5. mreq[c].value \in Int /\ mreq[c].kind \in Kinds
    BY <1>1, <1>2, HoldsLock DEF Measures
  <1>6. MTypeOK' /\ mreq' \in [Recorders -> Measures]
    <2>1. total' \in [Summed -> Int]
      BY <1>1, <1>2, <1>5
    <2>2. mpc' \in [Recorders -> {"idle", "rlock", "load", "store", "write"}] /\ mreq' \in [Recorders -> Measures]
      BY <1>1, <1>2, <1>4
    <2> QED
      BY <1>1, <1>2, <2>1, <2>2 DEF MInv, MTypeOK, lockVars
  <1>7. Locked'
    BY <1>1, <1>3 DEF MInv, Locked, lockVars
  <1>8. Entries'
    BY <1>0, <1>1, <1>3, <1>4 DEF MInv, Entries, lockVars
  <1>9. SumsKept
    <2>1. CASE c # Poller
      <3>1. mreq[c].series \notin Pooled
        BY <2>1 DEF MInv, Entries, NotOfPool
      <3>2. \A x \in Pooled : total[x] \in Int /\ total'[x] = total[x]
        BY <1>0, <1>1, <1>2, <3>1
      <3> QED
        BY <1>0, <1>1, <1>3, <2>1, <3>2, SumsSame
    <2>2. CASE c = Poller
      <3>1. \A x \in Pooled : /\ total[x] \in Int
                              /\ total'[x] = total[x] + IF x = mreq[c].series THEN mreq[c].value ELSE 0
        BY <1>0, <1>1, <1>2
      <3>2. \A x \in Pooled : Paid(x)' = Paid(x)
        BY <1>1, <1>3, <1>5, <2>2, <3>1 DEF Paid
      <3>3. /\ mreq[c].series \in {"idle", "used"} => instruments["count"] = "updown"
        BY <1>1, <2>2 DEF MInv, Entries, OfPool
      <3>4. "idle" \in Pooled /\ "used" \in Pooled /\ "timeouts" \in Pooled
        BY DEF Pooled
      <3>5. instruments["count"] # "updown" => total'["idle"] = total["idle"] /\ total'["used"] = total["used"]
        BY <3>1, <3>3, <3>4
      <3> QED
        BY <1>1, <3>2, <3>4, <3>5 DEF SumsKept
    <2> QED
      BY <2>1, <2>2
  <1> QED
    BY <1>3, <1>6, <1>7, <1>8, <1>9 DEF MInv

LEMMA RecorderM ==
    ASSUME ClientsWellFormed, MInv, NEW c \in Recorders, RecorderStep(c)
    PROVE  MInv' /\ SumsKept /\ mpc[c] # "idle" /\ \A k \in Recorders : k # c => mpc'[k] = mpc[k]
  <1>1. mpc[c] # "idle"
    BY DEF RecorderStep, prepare, LoadInstrument, LoadOrStore, RecordPoint
  <1> QED
    BY <1>1, prepareM, LoadInstrumentM, LoadOrStoreM, RecordPointM DEF RecorderStep

\* Stop waits for the readers, and keeps new ones out.
LEMMA StopperM ==
    ASSUME ClientsWellFormed, MInv, NEW s \in Stoppers, StopperStep(s)
    PROVE  MInv' /\ UNCHANGED recorderVars
  <1> USE DEF recorderVars
  <1>0. Nobody \notin Stoppers /\ MaxStops \in Nat
    BY DEF ClientsWellFormed
  <1>1. /\ spc \in [Stoppers -> {"idle", "lock", "shutdown"}] /\ stops \in [Stoppers -> 0..MaxStops]
        /\ waiting \subseteq Stoppers
    BY DEF MInv, MTypeOK
  <1>2. UNCHANGED recorderVars
    BY DEF StopperStep, Stop, StopLocked, StopShutdown
  <1>3. CASE Stop(s)
    <2>1. stops' \in [Stoppers -> 0..MaxStops]
      BY <1>0, <1>1, <1>3 DEF Stop
    <2>2. spc' \in [Stoppers -> {"idle", "lock", "shutdown"}] /\ waiting' \subseteq Stoppers
      BY <1>1, <1>3 DEF Stop
    <2>3. MTypeOK' /\ mreq' \in [Recorders -> Measures]
      BY <1>2, <1>3, <2>1, <2>2 DEF MInv, MTypeOK, Stop
    <2>4. Locked'
      BY <1>1, <1>2, <1>3 DEF MInv, Locked, Stop
    <2>5. Entries'
      BY <1>2 DEF MInv, Entries
    <2> QED
      BY <1>2, <2>3, <2>4, <2>5 DEF MInv
  <1>4. CASE StopLocked(s)
    <2>1. MTypeOK' /\ mreq' \in [Recorders -> Measures]
      BY <1>1, <1>2, <1>4 DEF MInv, MTypeOK, StopLocked
    <2>2. Locked'
      BY <1>0, <1>1, <1>2, <1>4 DEF MInv, Locked, StopLocked
    <2>3. Entries'
      BY <1>2 DEF MInv, Entries
    <2> QED
      BY <1>2, <2>1, <2>2, <2>3 DEF MInv
  <1>5. CASE StopShutdown(s)
    <2>1. MTypeOK' /\ mreq' \in [Recorders -> Measures]
      BY <1>1, <1>2, <1>5 DEF MInv, MTypeOK, StopShutdown
    <2>2. Locked'
      BY <1>0, <1>1, <1>2, <1>5 DEF MInv, Locked, StopShutdown
    <2>3. Entries'
      BY <1>2 DEF MInv, Entries
    <2> QED
      BY <1>2, <2>1, <2>2, <2>3 DEF MInv
  <1> QED
    BY <1>3, <1>4, <1>5 DEF StopperStep

-----------------------------------------------------------------------------
(* The redis client and its poller.                                        *)

\* The metrics client works, or rests, and the poller's books stay as they are.
LEMMA BooksKept ==
    ASSUME Balance, SumsKept, UNCHANGED <<queue, prev, timeouts>> PROVE Balance'
  <1>1. (Poller \notin lost') => SumsTo("timeouts", timeouts)'
    BY DEF Balance, SumsKept, SumsTo
  <1>2. (Poller \notin lost' /\ instruments'["count"] \in {NoEntry, "updown"}) =>
           SumsTo("idle", prev.idle)' /\ SumsTo("used", prev.used)'
    BY DEF Balance, SumsKept, SumsTo
  <1>3. instruments'["count"] # "updown" => total'["idle"] = 0 /\ total'["used"] = 0
    BY DEF Balance, SumsKept
  <1> QED
    BY <1>1, <1>2, <1>3 DEF Balance

LEMMA SumsSameVars == ASSUME ClientsWellFormed, MInv, UNCHANGED <<total, instruments, mpc, mreq, lost>> PROVE SumsKept
  BY SumsSame

\* A recorder other than the poller asks for a measurement.
LEMMA OtherMeasures ==
    ASSUME ClientsWellFormed, DInv, NEW c \in Callers \cup {Opener}, NEW m \in Measures, m.kind \in Kinds, NotOfPool(m),
           Measure(c, m), UNCHANGED <<notRecorder, stopChan, ppc, queue, prev, timeouts, cpc, closes>>,
           UNCHANGED <<client, pool>> \/ client = "none"
    PROVE  DInv'
  <1>1. c \in Recorders /\ c # Poller /\ Poller \in Recorders
    BY DEF ClientsWellFormed
  <1>2. /\ MInv' /\ mpc[c] = "idle" /\ mpc'[c] = "rlock" /\ mreq'[c] = m
        /\ \A k \in Recorders : k # c => mpc'[k] = mpc[k] /\ mreq'[k] = mreq[k]
    BY <1>1, MeasureM DEF DInv
  <1>3. SumsKept
    BY <1>1, <1>2, SumsSame DEF DInv, notRecorder
  <1>4. Balance'
    BY <1>3, BooksKept DEF DInv
  <1>5. QueueOnce'
    BY DEF DInv, QueueOnce
  <1>6. Life'
    BY <1>1, <1>2 DEF DInv, Life, PollerIdle
  <1> QED
    BY <1>2, <1>4, <1>5, <1>6 DEF DInv

\* The measurements that are not the poller's.
LEMMA OtherPoints ==
    ASSUME ClientsWellFormed
    PROVE  /\ \A n \in {"duration", "rpc"} : LET m == Duration(n) IN m \in Measures /\ m.kind \in Kinds /\ NotOfPool(m)
           /\ \A n \in {"Bad", "count"} : LET m == Point(n, "counter", "app", 1) IN
                                              m \in Measures /\ m.kind \in Kinds /\ NotOfPool(m)
  BY DEF ClientsWellFormed, Duration, Point, Measures, NotOfPool, Pooled

LEMMA CallNextInv == ASSUME ClientsWellFormed, DInv, CallNext PROVE DInv'
  <1> USE DEF rvars
  <1>1. PICK c \in Callers : \/ RedisCall(c) \/ NamedCall(c) \/ S3Call(c) \/ PresignCall(c)
                             \/ BindFails(c) \/ AppMeasures(c)
    BY DEF CallNext
  <1>2. CASE \E n \in {"duration", "rpc"} : Instrumented(c, n)
    <2>1. PICK n \in {"duration", "rpc"} : Instrumented(c, n)
      BY <1>2
    <2> QED
      BY <2>1, OtherPoints, OtherMeasures DEF Instrumented
  <1>3. CASE AppMeasures(c)
    <2>1. PICK n \in {"Bad", "count"} : Measure(c, Point(n, "counter", "app", 1))
      BY <1>3 DEF AppMeasures
    <2>2. UNCHANGED <<notRecorder, rvars>>
      BY <1>3 DEF AppMeasures
    <2> QED
      BY <2>1, <2>2, OtherPoints, OtherMeasures
  <1>4. CASE BindFails(c)
    <2>1. UNCHANGED <<mvars, rvars>>
      BY <1>4 DEF BindFails
    <2>2. MInv' /\ SumsKept
      BY <2>1, MetricsSame, SumsSameVars DEF DInv, mvars
    <2>3. Balance' /\ QueueOnce' /\ Life'
      BY <2>1, <2>2, BooksKept DEF DInv, QueueOnce, Life, PollerIdle, mvars
    <2> QED
      BY <2>1, <2>2, <2>3 DEF DInv
  <1> QED
    BY <1>1, <1>2, <1>3, <1>4 DEF RedisCall, NamedCall, S3Call, PresignCall

\* New, and Close after the poller is gone.
LEMMA RedisNextInv == ASSUME ClientsWellFormed, DInv, RedisNext PROVE DInv'
  <1>1. CASE NewPing
    BY <1>1, OtherPoints, OtherMeasures DEF NewPing
  <1>2. CASE NewRefused \/ NewReturn \/ \E x \in Closers : Close(x) \/ ClosePool(x)
    <2>1. UNCHANGED <<mvars, queue, prev, timeouts>>
      BY <1>2 DEF NewRefused, NewReturn, Close, ClosePool
    <2>2. MInv' /\ SumsKept
      BY <2>1, MetricsSame, SumsSameVars DEF DInv, mvars
    <2>3. Balance' /\ QueueOnce'
      BY <2>1, <2>2, BooksKept DEF DInv, QueueOnce
    <2>4. UNCHANGED mpc
      BY <2>1 DEF mvars
    <2>5. /\ cpc \in [Closers -> {"idle", "wait"}] /\ closes \in [Closers -> Seq({"nil", "closed"})]
      BY DEF DInv
    <2>6. CASE NewRefused \/ NewReturn
      <3>1. \A x \in Closers : closes[x] = <<>> /\ cpc[x] # "wait"
        BY <2>6 DEF DInv, Life, NewRefused, NewReturn
      <3>2. UNCHANGED <<cpc, closes>> /\ (ppc' # ppc => ppc' = "start")
        BY <2>6 DEF NewRefused, NewReturn
      <3>3. Life'
        BY <2>1, <2>4, <3>1, <3>2 DEF DInv, Life, PollerIdle
      <3> QED
        BY <2>2, <2>3, <2>5, <3>2, <3>3 DEF DInv
    <2>7. ASSUME NEW x \in Closers, Close(x) PROVE DInv'
      <3>1. client = "open" /\ UNCHANGED <<client, pool, ppc, closes>> /\ cpc' = [cpc EXCEPT ![x] = "wait"]
        BY <2>7 DEF Close
      <3>2. Life'
        BY <2>1, <2>4, <3>1 DEF DInv, Life, PollerIdle
      <3> QED
        BY <2>2, <2>3, <2>5, <3>1, <3>2 DEF DInv
    <2>8. ASSUME NEW x \in Closers, ClosePool(x) PROVE DInv'
      <3>1. /\ cpc[x] = "wait" /\ ppc \in {"none", "gone"} /\ pool' = "closed" /\ UNCHANGED <<client, ppc>>
            /\ cpc' = [cpc EXCEPT ![x] = "idle"]
            /\ closes' = [closes EXCEPT ![x] = Append(@, IF pool = "open" THEN "nil" ELSE "closed")]
        BY <2>8 DEF ClosePool, PollersDone
      <3>2. client = "open"
        BY <3>1 DEF DInv, Life
      <3>3. cpc' \in [Closers -> {"idle", "wait"}] /\ \A y \in Closers : cpc'[y] = "wait" => cpc[y] = "wait"
        BY <2>5, <3>1
      <3>4. closes' \in [Closers -> Seq({"nil", "closed"})]
        BY <2>5, <3>1
      <3>5. Life'
        BY <2>1, <2>4, <3>1, <3>2, <3>3 DEF DInv, Life, PollerIdle
      <3> QED
        BY <2>2, <2>3, <3>3, <3>4, <3>5 DEF DInv
    <2> QED
      BY <1>2, <2>6, <2>7, <2>8
  <1> QED
    BY <1>1, <1>2 DEF RedisNext

\* The steps of the metrics client, the poller's measurements included.
LEMMA MetricsStepInv ==
    ASSUME ClientsWellFormed, DInv, UNCHANGED <<rvars>>,
           (\E c \in Recorders : RecorderStep(c)) \/ (\E s \in Stoppers : StopperStep(s))
    PROVE  DInv'
  <1> USE DEF rvars
  <1>0. Poller \in Recorders
    BY DEF ClientsWellFormed
  <1>1. CASE \E c \in Recorders : RecorderStep(c)
    <2>1. PICK c \in Recorders : RecorderStep(c)
      BY <1>1
    <2>2. MInv' /\ SumsKept /\ mpc[c] # "idle" /\ \A k \in Recorders : k # c => mpc'[k] = mpc[k]
      BY <2>1, RecorderM DEF DInv
    <2>3. Balance' /\ QueueOnce'
      BY <2>2, BooksKept DEF DInv, QueueOnce
    <2>4. mpc[Poller] = "idle" => mpc'[Poller] = "idle"
      BY <1>0, <2>2
    <2>5. Life'
      BY <2>4 DEF DInv, Life, PollerIdle
    <2> QED
      BY <2>2, <2>3, <2>5 DEF DInv
  <1>2. CASE \E s \in Stoppers : StopperStep(s)
    <2>1. MInv' /\ UNCHANGED recorderVars
      BY <1>2, StopperM DEF DInv
    <2>2. SumsKept
      BY <2>1, SumsSameVars DEF DInv, recorderVars
    <2>3. Balance' /\ QueueOnce'
      BY <2>2, BooksKept DEF DInv, QueueOnce
    <2>4. Life'
      BY <2>1 DEF DInv, Life, PollerIdle, recorderVars
    <2> QED
      BY <2>1, <2>3, <2>4 DEF DInv
  <1> QED
    BY <1>1, <1>2

\* A new queue after an empty one: what was paid is v, and the queue makes it w.
LEMMA MakesMore ==
    ASSUME NEW x, NEW p, NEW v \in Int, NEW w \in Int, NEW d \in Int, d = w - v, NEW Q, Once(Q),
           Makes(<<>>, x, p, v), Makes(Q, x, 0, d)
    PROVE  Makes(Q, x, p, w)
  <1>1. p = v
    BY DEF Makes
  <1>2. \A i \in 1..Len(Q) : Q[i] \in Measures
    BY DEF Once
  <1>3. \A i \in 1..Len(Q) : Q[i].value \in Int
    BY <1>2 DEF Measures
  <1>4. (\A i \in 1..Len(Q) : Q[i].series # x) => p = w
    BY <1>1 DEF Makes
  <1>5. \A i \in 1..Len(Q) : Q[i].series = x => p + Q[i].value = w
    BY <1>1, <1>3 DEF Makes
  <1> QED
    BY <1>4, <1>5 DEF Makes

\* The poller's books after a poll or the withdrawal.
LEMMA BooksWritten ==
    ASSUME ClientsWellFormed, DInv, PollerIdle, UNCHANGED mvars,
           NEW idle \in Int, NEW used \in Int, NEW d \in Nat,
           timeouts' = timeouts + d, prev'.idle = idle, prev'.used = used,
           queue' = Pending(idle - prev.idle, used - prev.used, d)
    PROVE  MInv' /\ Balance' /\ QueueOnce'
  <1> DEFINE di == idle - prev.idle
             du == used - prev.used
  <1>1. MInv'
    BY MetricsSame DEF DInv
  <1>2. prev.idle \in Int /\ prev.used \in Int /\ timeouts \in Int /\ queue = <<>>
    BY DEF DInv, Life, PollerIdle
  <1>3. di \in Int /\ du \in Int /\ d \in Int /\ timeouts' \in Int /\ timeouts' - timeouts = d
    BY <1>2
  <1>4. queue' = Pending(di, du, d)
    OBVIOUS
  <1> HIDE DEF di, du
  <1>5. /\ Once(queue')
        /\ Makes(queue', "idle", 0, di) /\ Makes(queue', "used", 0, du) /\ Makes(queue', "timeouts", 0, d)
    BY <1>3, <1>4, PendingIs
  <1>6. UNCHANGED <<total, mpc, mreq, lost, instruments>> /\ \A x : Paid(x)' = Paid(x)
    BY DEF mvars, Paid
  <1>7. SumsTo("timeouts", timeouts) => SumsTo("timeouts", timeouts)'
    BY <1>2, <1>3, <1>5, <1>6, MakesMore DEF SumsTo
  <1>8. SumsTo("idle", prev.idle) => SumsTo("idle", prev.idle)'
    BY <1>2, <1>3, <1>5, <1>6, MakesMore DEF SumsTo, di
  <1>9. SumsTo("used", prev.used) => SumsTo("used", prev.used)'
    BY <1>2, <1>3, <1>5, <1>6, MakesMore DEF SumsTo, du
  <1>10. Balance'
    BY <1>6, <1>7, <1>8, <1>9 DEF DInv, Balance
  <1> QED
    BY <1>1, <1>5, <1>10 DEF QueueOnce

\* What is left of the invariant when the poller alone works on its books.
LEMMA PollerWorks ==
    ASSUME DInv, MInv', Balance', QueueOnce', UNCHANGED <<client, pool, cpc, closes>>,
           ppc \in {"start", "select"},
           prev' \in [idle : Int, used : Int, timeouts : Int], timeouts' \in Nat,
           ppc' \in {"select", "withdraw"}, ppc' = "withdraw" => prev'.idle = 0 /\ prev'.used = 0,
           prev'.timeouts = timeouts' % Uint32
    PROVE  DInv'
  <1>1. Life'
    BY DEF DInv, Life
  <1> QED
    BY <1>1 DEF DInv

\* The next measurement: it leaves the queue and is under way.
LEMMA PollerMeasuresInv == ASSUME ClientsWellFormed, DInv, PollerMeasures PROVE DInv'
  <1> DEFINE m == Head(queue)
  <1>1. /\ queue # <<>> /\ Measure(Poller, m) /\ queue' = Tail(queue) /\ UNCHANGED notRecorder
        /\ UNCHANGED <<client, ping, pool, stopChan, ppc, prev, timeouts, cpc, closes>>
    BY DEF PollerMeasures
  <1>2. queue \in Seq(Measures) /\ Poller \in Recorders
    BY DEF DInv, QueueOnce, Once, ClientsWellFormed
  <1>3. /\ Len(queue) \in Nat /\ Len(queue) >= 1 /\ m = queue[1] /\ m \in Measures
        /\ Len(queue') = Len(queue) - 1 /\ queue' \in Seq(Measures)
        /\ \A i \in 1..Len(queue') : i + 1 \in 1..Len(queue) /\ queue'[i] = queue[i + 1]
    BY <1>1, <1>2
  <1>4. 1 \in 1..Len(queue) /\ OfPool(m)
    BY <1>3 DEF DInv, QueueOnce, Once
  <1>5. m.kind \in Kinds /\ m.value \in Int
    BY <1>3, <1>4 DEF OfPool, ClientsWellFormed, Measures
  <1> HIDE DEF m
  <1>6. MInv' /\ mpc[Poller] = "idle" /\ mpc'[Poller] = "rlock" /\ mreq'[Poller] = m
    BY <1>1, <1>2, <1>3, <1>4, <1>5, MeasureM DEF DInv
  <1>7. QueueOnce'
    <2>1. \A i \in 1..Len(queue') : OfPool(queue'[i])
      BY <1>3 DEF DInv, QueueOnce, Once
    <2>2. \A i, j \in 1..Len(queue') : i # j => queue'[i].series # queue'[j].series
      <3> SUFFICES ASSUME NEW i \in 1..Len(queue'), NEW j \in 1..Len(queue'), i # j
                   PROVE  queue'[i].series # queue'[j].series
        OBVIOUS
      <3>1. i + 1 \in 1..Len(queue) /\ j + 1 \in 1..Len(queue) /\ i + 1 # j + 1
        BY <1>3
      <3> QED
        BY <1>3, <3>1 DEF DInv, QueueOnce, Once
    <2> QED
      BY <1>3, <2>1, <2>2 DEF QueueOnce, Once
  <1>8. \A i \in 1..Len(queue') : queue'[i].series # m.series
    <2> SUFFICES ASSUME NEW i \in 1..Len(queue') PROVE queue'[i].series # m.series
      OBVIOUS
    <2>1. i + 1 \in 1..Len(queue) /\ i + 1 # 1
      BY <1>3
    <2> QED
      BY <1>3, <1>4, <2>1 DEF DInv, QueueOnce, Once
  <1>9. UNCHANGED <<lost, instruments, total>>
    BY <1>1 DEF notRecorder
  <1>10. ASSUME NEW x \in Pooled, NEW v, SumsTo(x, v)
         PROVE  Makes(queue', x, Paid(x)', v)
    <2>1. total[x] \in Int
      BY DEF DInv, MInv, MTypeOK, ClientsWellFormed, Pooled
    <2>2. CASE m.series = x
      <3>1. Paid(x) = total[x] /\ Paid(x)' = total[x] + m.value
        BY <1>6, <1>9, <2>1, <2>2 DEF Paid
      <3>2. Paid(x) + m.value = v
        BY <1>3, <1>4, <1>10, <2>2 DEF SumsTo, Makes
      <3> QED
        BY <1>8, <2>2, <3>1, <3>2 DEF Makes
    <2>3. CASE m.series # x
      <3>1. Paid(x)' = Paid(x)
        BY <1>6, <1>9, <2>1, <2>3 DEF Paid
      <3>2. \A i \in 1..Len(queue') : queue'[i].series = x => Paid(x) + queue'[i].value = v
        BY <1>3, <1>10 DEF SumsTo, Makes
      <3>3. ASSUME \A i \in 1..Len(queue') : queue'[i].series # x PROVE Paid(x) = v
        <4>1. ASSUME NEW j \in 1..Len(queue) PROVE queue[j].series # x
          <5>1. CASE j = 1
            BY <1>3, <2>3, <5>1
          <5>2. CASE j # 1
            <6>1. j - 1 \in 1..Len(queue') /\ (j - 1) + 1 = j
              BY <1>3, <5>2
            <6> QED
              BY <1>3, <3>3, <6>1
          <5> QED
            BY <5>1, <5>2
        <4> QED
          BY <1>10, <4>1 DEF SumsTo, Makes
      <3> QED
        BY <3>1, <3>2, <3>3 DEF Makes
    <2> QED
      BY <2>2, <2>3
  <1>11. Balance'
    <2>1. "idle" \in Pooled /\ "used" \in Pooled /\ "timeouts" \in Pooled
      BY DEF Pooled
    <2>2. /\ SumsTo("timeouts", timeouts) => SumsTo("timeouts", timeouts)'
          /\ SumsTo("idle", prev.idle) => SumsTo("idle", prev.idle)'
          /\ SumsTo("used", prev.used) => SumsTo("used", prev.used)'
      BY <1>1, <1>10, <2>1 DEF SumsTo
    <2> QED
      BY <1>9, <2>2 DEF DInv, Balance
  <1>12. ppc \notin {"none", "gone"}
    BY <1>1 DEF DInv, Life, PollerIdle
  <1>13. Life'
    BY <1>1, <1>12 DEF DInv, Life
  <1> QED
    BY <1>1, <1>6, <1>7, <1>11, <1>13 DEF DInv

LEMMA PollNextInv == ASSUME ClientsWellFormed, DInv, PollNext PROVE DInv'
  <1>1. CASE poll
    <2>1. /\ ppc \in {"start", "select"} /\ PollerIdle /\ ppc' = "select" /\ UNCHANGED mvars
          /\ UNCHANGED <<client, pool, cpc, closes>>
      BY <1>1 DEF poll
    <2>2. CASE UNCHANGED <<timeouts, queue, prev>>
      <3>1. MInv'
        BY <2>1, MetricsSame DEF DInv
      <3>2. SumsKept
        BY <2>1, SumsSameVars DEF DInv, mvars
      <3>3. Balance' /\ QueueOnce'
        BY <2>2, <3>2, BooksKept DEF DInv, QueueOnce
      <3> QED
        BY <2>1, <2>2, <3>1, <3>3, PollerWorks DEF DInv, Life
    <2>3. ASSUME NEW idle \in 0..PoolSize, NEW used \in 0..PoolSize, NEW d \in 0..(Uint32 - 1),
                 timeouts' = timeouts + d,
                 queue' = Pending(idle - prev.idle, used - prev.used,
                                    Since((timeouts + d) % Uint32, prev.timeouts)),
                 prev' = [idle |-> idle, used |-> used, timeouts |-> (timeouts + d) % Uint32]
          PROVE  DInv'
      <3>1. Uint32 \in Nat \ {0} /\ PoolSize \in Nat
        BY DEF ClientsWellFormed
      <3>2. timeouts \in Nat /\ prev.timeouts = timeouts % Uint32
        BY DEF DInv, Life
      <3>3. Since((timeouts + d) % Uint32, prev.timeouts) = d
        BY <3>1, <3>2, WrapDelta DEF Since
      <3>4. idle \in Int /\ used \in Int /\ d \in Nat /\ timeouts' \in Nat /\ timeouts' % Uint32 \in Int
        BY <3>1, <3>2, <2>3
      <3>5. MInv' /\ Balance' /\ QueueOnce'
        BY <2>1, <2>3, <3>3, <3>4, BooksWritten
      <3>6. prev' \in [idle : Int, used : Int, timeouts : Int] /\ prev'.timeouts = timeouts' % Uint32
        BY <2>3, <3>4
      <3> QED
        BY <2>1, <3>4, <3>5, <3>6, PollerWorks
    <2> QED
      BY <1>1, <2>2, <2>3 DEF poll
  <1>2. CASE withdraw
    <2>1. /\ ppc = "select" /\ PollerIdle /\ ppc' = "withdraw" /\ UNCHANGED mvars
          /\ UNCHANGED <<client, pool, cpc, closes, timeouts>>
          /\ prev' = [prev EXCEPT !.idle = 0, !.used = 0]
          /\ queue' = Pending(-prev.idle, -prev.used, 0)
      BY <1>2 DEF withdraw
    <2>2. prev \in [idle : Int, used : Int, timeouts : Int] /\ timeouts \in Nat /\ prev.timeouts = timeouts % Uint32
      BY DEF DInv, Life
    <2>3. /\ prev' \in [idle : Int, used : Int, timeouts : Int]
          /\ prev'.idle = 0 /\ prev'.used = 0 /\ prev'.timeouts = prev.timeouts
      <3> DEFINE p == [prev EXCEPT !.idle = 0, !.used = 0]
      <3>1. p \in [idle : Int, used : Int, timeouts : Int] /\ p.idle = 0 /\ p.used = 0 /\ p.timeouts = prev.timeouts
        BY <2>2, 0 \in Int
      <3> QED
        BY <2>1, <3>1
    <2>4. -prev.idle = 0 - prev.idle /\ -prev.used = 0 - prev.used /\ timeouts' = timeouts + 0
      BY <2>1, <2>2
    <2>5. MInv' /\ Balance' /\ QueueOnce'
      BY <2>1, <2>3, <2>4, BooksWritten
    <2> QED
      BY <2>1, <2>2, <2>3, <2>5, PollerWorks
  <1>3. CASE PollerMeasures
    BY <1>3, PollerMeasuresInv
  <1>4. CASE PollerRecords
    <2>1. Poller \in Recorders /\ RecorderStep(Poller) /\ UNCHANGED rvars
      BY <1>4 DEF PollerRecords, rvars, ClientsWellFormed
    <2> QED
      BY <2>1, MetricsStepInv
  <1>5. CASE PollerExits
    <2>1. /\ ppc = "withdraw" /\ PollerIdle /\ ppc' = "gone" /\ UNCHANGED mvars
          /\ UNCHANGED <<client, pool, cpc, closes, queue, prev, timeouts>>
      BY <1>5 DEF PollerExits
    <2>2. MInv' /\ SumsKept
      BY <2>1, MetricsSame, SumsSameVars DEF DInv, mvars
    <2>3. Balance' /\ QueueOnce'
      BY <2>1, <2>2, BooksKept DEF DInv, QueueOnce
    <2>4. Life'
      BY <2>1 DEF DInv, Life, PollerIdle, mvars
    <2> QED
      BY <2>1, <2>2, <2>3, <2>4 DEF DInv
  <1> QED
    BY <1>1, <1>2, <1>3, <1>4, <1>5 DEF PollNext

LEMMA DataInit == ASSUME ClientsWellFormed, ClientsInit PROVE DInv
  <1> USE DEF ClientsInit, MInit
  <1>1. /\ NoEntry \notin MetricNames \cup Kinds \cup Summed /\ {"count", "timeouts"} \subseteq MetricNames
        /\ {"idle", "used", "timeouts"} \subseteq Summed /\ MaxStops \in Nat /\ Uint32 \in Nat \ {0}
        /\ Poller \in Recorders /\ "updown" # NoEntry
    BY DEF ClientsWellFormed
  <1>2. NoMeasure \in Measures /\ NotOfPool(NoMeasure)
    BY <1>1 DEF NoMeasure, Measures, NotOfPool, Pooled
  <1>3. MInv
    <2>1. MTypeOK /\ mreq \in [Recorders -> Measures]
      <3>1. total \in [Summed -> Int] /\ instruments \in [MetricNames -> Kinds \cup {NoEntry}]
        OBVIOUS
      <3>2. mpc \in [Recorders -> {"idle", "rlock", "load", "store", "write"}] /\ mreq \in [Recorders -> Measures]
        BY <1>2
      <3>3. spc \in [Stoppers -> {"idle", "lock", "shutdown"}] /\ stops \in [Stoppers -> 0..MaxStops]
        BY <1>1
      <3> QED
        BY <3>1, <3>2, <3>3 DEF MTypeOK
    <2>2. Locked
      BY DEF Locked
    <2>3. Entries
      BY <1>1, <1>2 DEF Entries
    <2> QED
      BY <2>1, <2>2, <2>3 DEF MInv
  <1>4. QueueOnce
    BY DEF QueueOnce, Once
  <1>5. Balance
    <2>1. Paid("idle") = 0 /\ Paid("used") = 0 /\ Paid("timeouts") = 0 /\ total["idle"] = 0 /\ total["used"] = 0
      BY <1>1 DEF Paid
    <2> QED
      BY <2>1 DEF Balance, SumsTo, Makes
  <1>6. Life
    <2>1. 0 % Uint32 = 0
      BY <1>1
    <2> QED
      BY <1>1, <2>1 DEF Life, PollerIdle
  <1> QED
    BY <1>3, <1>4, <1>5, <1>6 DEF DInv

LEMMA DataNext == ASSUME ClientsWellFormed, DInv, [ClientsNext]_cvars PROVE DInv'
  <1>1. CASE RedisNext
    BY <1>1, RedisNextInv
  <1>2. CASE PollNext
    BY <1>2, PollNextInv
  <1>3. CASE CallNext
    BY <1>3, CallNextInv
  <1>4. CASE MetricsNext
    <2>1. Callers \cup {Opener} \subseteq Recorders
      BY DEF ClientsWellFormed
    <2>2. /\ UNCHANGED rvars
          /\ (\E c \in Recorders : RecorderStep(c)) \/ (\E s \in Stoppers : StopperStep(s))
      BY <1>4, <2>1 DEF MetricsNext
    <2> QED
      BY <2>2, MetricsStepInv
  <1>5. CASE UNCHANGED cvars
    <2>1. UNCHANGED mvars /\ UNCHANGED rvars
      BY <1>5 DEF cvars
    <2>2. MInv' /\ SumsKept
      BY <2>1, MetricsSame, SumsSameVars DEF DInv, mvars
    <2>3. Balance' /\ QueueOnce'
      BY <2>1, <2>2, BooksKept DEF DInv, QueueOnce, rvars
    <2>4. Life'
      BY <2>1 DEF DInv, Life, PollerIdle, mvars, rvars
    <2> QED
      BY <2>1, <2>2, <2>3, <2>4 DEF DInv, rvars
  <1> QED
    BY <1>1, <1>2, <1>3, <1>4, <1>5 DEF ClientsNext

\* The invariant of the redis client and the metrics client: the lock has its
\* readers, the map its entries, and what the poller reported its balance.
THEOREM BooksBalance == ClientsSpec => []DInv
  <1> USE ClientsAssumption
  <1>1. ClientsInit => DInv
    BY DataInit
  <1>2. DInv /\ [ClientsNext]_cvars => DInv'
    BY DataNext
  <1> QED
    BY <1>1, <1>2, PTL DEF ClientsSpec

\* Where the client, its pool and the calls are.
Places ==
    /\ client \in {"none", "opening", "failed", "open"} /\ ping \in {"nil", "error"}
    /\ pool \in {"none", "open", "closed"} /\ stopChan \in {"none", "open", "closed"}
    /\ ppc \in {"none", "start", "select", "withdraw", "gone"}
    /\ timeouts \in 0..MaxTimeouts
    /\ call \in [Callers -> {"idle", "made"}]

LEMMA PlacesNext == ASSUME ClientsWellFormed, Places, [ClientsNext]_cvars PROVE Places'
  <1> USE DEF Places
  <1>1. CASE RedisNext
    <2>1. UNCHANGED <<call, timeouts>>
      BY <1>1 DEF RedisNext, NewRefused, NewPing, NewReturn, Close, ClosePool
    <2>2. /\ client' \in {"none", "opening", "failed", "open"} /\ ping' \in {"nil", "error"}
          /\ pool' \in {"none", "open", "closed"} /\ stopChan' \in {"none", "open", "closed"}
          /\ ppc' \in {"none", "start", "select", "withdraw", "gone"}
      BY <1>1 DEF RedisNext, NewRefused, NewPing, NewReturn, Close, ClosePool
    <2> QED
      BY <2>1, <2>2
  <1>2. CASE PollNext
    <2>1. UNCHANGED <<call, client, ping, pool, stopChan>>
      BY <1>2 DEF PollNext, poll, withdraw, PollerMeasures, PollerRecords, PollerExits
    <2>2. ppc' \in {"none", "start", "select", "withdraw", "gone"}
      BY <1>2 DEF PollNext, poll, withdraw, PollerMeasures, PollerRecords, PollerExits
    <2>3. timeouts' \in 0..MaxTimeouts
      <3>1. UNCHANGED timeouts \/ (\E d \in 0..(Uint32 - 1) : timeouts' = timeouts + d /\ timeouts + d <= MaxTimeouts)
        BY <1>2 DEF PollNext, poll, withdraw, PollerMeasures, PollerRecords, PollerExits
      <3> QED
        BY <3>1 DEF ClientsWellFormed
    <2> QED
      BY <2>1, <2>2, <2>3
  <1>3. CASE CallNext
    <2>1. PICK c \in Callers : call' = [call EXCEPT ![c] = "made"]
      BY <1>3 DEF CallNext, RedisCall, NamedCall, S3Call, PresignCall, Instrumented, BindFails, AppMeasures
    <2>2. UNCHANGED rvars
      BY <1>3 DEF CallNext, RedisCall, NamedCall, S3Call, PresignCall, Instrumented, BindFails, AppMeasures
    <2> QED
      BY <2>1, <2>2 DEF rvars
  <1>4. CASE MetricsNext \/ UNCHANGED cvars
    <2>1. UNCHANGED <<rvars, call>>
      BY <1>4 DEF MetricsNext, cvars
    <2> QED
      BY <2>1 DEF rvars
  <1> QED
    BY <1>1, <1>2, <1>3, <1>4 DEF ClientsNext

\* The state of the metrics client, the redis client and the calls is well typed;
\* the counts of connections and timeouts stay within their widths (New, poll,
\* Close, Record, Add, Stop).
THEOREM ClientsTyped == ClientsSpec => []ClientsTypeOK
  <1> USE ClientsAssumption
  <1>1. ClientsInit => Places
    BY DEF ClientsInit, Places, ClientsWellFormed
  <1>2. Places /\ [ClientsNext]_cvars => Places'
    BY PlacesNext
  <1>3. ASSUME DInv, Places PROVE ClientsTypeOK
    <2>1. prev.timeouts \in 0..(Uint32 - 1)
      BY <1>3 DEF DInv, Life, ClientsWellFormed
    <2> QED
      BY <1>3, <2>1 DEF DInv, MInv, Places, ClientsTypeOK
  <1> QED
    BY <1>1, <1>2, <1>3, BooksBalance, PTL DEF ClientsSpec

\* Once a Close has returned the pool counts no connections and is closed, and
\* between two polls the counter has every timeout, across every wrap of the
\* uint32, unless the metrics client could not serve the poller (Close, poll,
\* withdraw, addCount).
THEOREM PoolSettled == ClientsSpec => []PoolSettles
  <1> USE ClientsAssumption
  <1>1. ASSUME DInv PROVE PoolSettles
    <2> SUFFICES ASSUME Poller \notin lost PROVE PoolSettles
      BY DEF PoolSettles
    <2>0. total["idle"] \in Int /\ total["used"] \in Int /\ total["timeouts"] \in Int
      BY <1>1 DEF DInv, MInv, MTypeOK, ClientsWellFormed
    <2>1. ASSUME PollerIdle, NEW x \in Pooled, NEW v, SumsTo(x, v) PROVE total[x] = v
      BY <2>0, <2>1 DEF SumsTo, Makes, Paid, PollerIdle, Pooled
    <2>2. "idle" \in Pooled /\ "used" \in Pooled /\ "timeouts" \in Pooled
      BY DEF Pooled
    <2>3. PollerIdle => total["timeouts"] = timeouts
      BY <1>1, <2>1, <2>2 DEF DInv, Balance
    <2>4. ASSUME NEW y \in Closers, closes[y] # <<>>
          PROVE  total["idle"] = 0 /\ total["used"] = 0 /\ pool = "closed"
      <3>1. pool = "closed" /\ PollerIdle /\ prev.idle = 0 /\ prev.used = 0
        BY <1>1, <2>4 DEF DInv, Life
      <3>2. CASE instruments["count"] # "updown"
        BY <1>1, <3>1, <3>2 DEF DInv, Balance
      <3>3. CASE instruments["count"] = "updown"
        <4>1. SumsTo("idle", 0) /\ SumsTo("used", 0)
          BY <1>1, <3>1, <3>3 DEF DInv, Balance
        <4> QED
          BY <2>1, <2>2, <3>1, <4>1
      <3> QED
        BY <3>2, <3>3
    <2> QED
      BY <2>3, <2>4 DEF PoolSettles
  <1>2. ClientsSpec => []DInv
    BY BooksBalance
  <1> QED
    BY <1>1, <1>2, PTL

\* No measurement reaches a provider that was shut down: who is about to write
\* holds stopMu for reading, and Stop shuts the provider down with the lock to
\* itself (prepare, Stop).
THEOREM StopKeepsOut == ClientsSpec => NothingAfterStop
  <1> USE ClientsAssumption
  <1> DEFINE Safe == \A c \in Recorders : (mpc[c] = "write" /\ mpc'[c] = "idle") => (provider = "open")
  <1>1. DInv => Safe
    BY HoldsLock DEF DInv
  <1>2. ClientsSpec => []DInv
    BY BooksBalance
  <1>3. DInv => [Safe]_mvars
    BY <1>1
  <1> HIDE DEF Safe
  <1>4. ClientsSpec => [][Safe]_mvars
    BY <1>2, <1>3, PTL
  <1> QED
    BY <1>4 DEF NothingAfterStop, Safe

\* Who waits for what: the stoppers in Lock, the one that has the lock, and Close,
\* which has closed the poller's channel before it waits.
Waits ==
    /\ waiting = {s \in Stoppers : spc[s] = "lock"}
    /\ writer # Nobody => writer \in Stoppers /\ spc[writer] = "shutdown"
    /\ (\E x \in Closers : cpc[x] = "wait") => stopChan # "open"
    /\ ppc # "none" => stopChan # "none"
    /\ \A c \in Recorders : c \notin Active => mpc[c] = "idle"

LEMMA WaitsStop ==
    ASSUME ClientsWellFormed, DInv, Waits, NEW s \in Stoppers, StopperStep(s), UNCHANGED <<rvars, call>>
    PROVE  Waits'
  <1>1. spc \in [Stoppers -> {"idle", "lock", "shutdown"}] /\ Nobody \notin Stoppers
    BY DEF DInv, MInv, MTypeOK, ClientsWellFormed
  <1>2. UNCHANGED <<cpc, stopChan, ppc, mpc>>
    BY DEF StopperStep, Stop, StopLocked, StopShutdown, recorderVars, rvars
  <1>3. waiting' = {k \in Stoppers : spc'[k] = "lock"} /\ (writer' # Nobody => writer' \in Stoppers /\ spc'[writer'] = "shutdown")
    <2>1. CASE Stop(s)
      BY <1>1, <2>1 DEF Stop, Waits
    <2>2. CASE StopLocked(s)
      BY <1>1, <2>2 DEF StopLocked, Waits
    <2>3. CASE StopShutdown(s)
      BY <1>1, <2>3 DEF StopShutdown, Waits
    <2> QED
      BY <2>1, <2>2, <2>3 DEF StopperStep
  <1> QED
    BY <1>2, <1>3 DEF Waits

\* A step that moves one active recorder.
LEMMA WaitsRecord ==
    ASSUME ClientsWellFormed, DInv, Waits, NEW c \in Active,
           \A k \in Recorders : k # c => mpc'[k] = mpc[k],
           UNCHANGED <<waiting, writer, spc, cpc, stopChan, ppc>>
    PROVE  Waits'
  BY DEF Waits

LEMMA RecorderMoves ==
    ASSUME NEW c \in Recorders, RecorderStep(c), mpc \in [Recorders -> {"idle", "rlock", "load", "store", "write"}]
    PROVE  (\A k \in Recorders : k # c => mpc'[k] = mpc[k]) /\ UNCHANGED <<waiting, writer, spc>>
  BY DEF RecorderStep, prepare, LoadInstrument, LoadOrStore, RecordPoint, Fail, lockVars

LEMMA WaitsNext == ASSUME ClientsWellFormed, DInv, Waits, Places, [ClientsNext]_cvars PROVE Waits'
  <1>0. mpc \in [Recorders -> {"idle", "rlock", "load", "store", "write"}] /\ cpc \in [Closers -> {"idle", "wait"}]
        /\ Active \subseteq Recorders
    BY DEF DInv, MInv, MTypeOK, ClientsWellFormed, Active
  <1>1. CASE RedisNext
    <2>1. CASE NewRefused
      BY <2>1 DEF NewRefused, Waits, mvars
    <2>2. CASE NewPing
      <3>1. Opener \in Active /\ (\A k \in Recorders : k # Opener => mpc'[k] = mpc[k])
        BY <1>0, <2>2 DEF NewPing, Measure, Active
      <3>2. UNCHANGED <<waiting, writer, spc, cpc, stopChan, ppc>>
        BY <2>2 DEF NewPing, notRecorder
      <3> QED
        BY <3>1, <3>2, WaitsRecord
    <2>3. CASE NewReturn
      <3>1. \A x \in Closers : cpc[x] # "wait"
        BY <2>3 DEF NewReturn, DInv, Life
      <3>2. UNCHANGED <<waiting, writer, spc, mpc, cpc>>
        BY <2>3 DEF NewReturn, mvars
      <3>3. ppc' # "none" => stopChan' # "none"
        BY <2>3 DEF NewReturn, Waits
      <3> QED
        BY <3>1, <3>2, <3>3 DEF Waits
    <2>4. ASSUME NEW x \in Closers, Close(x) PROVE Waits'
      <3>1. UNCHANGED <<waiting, writer, spc, mpc, ppc>> /\ stopChan' # "open" /\ (stopChan # "none" => stopChan' # "none")
        BY <2>4 DEF Close, mvars
      <3> QED
        BY <3>1 DEF Waits
    <2>5. ASSUME NEW x \in Closers, ClosePool(x) PROVE Waits'
      <3>1. UNCHANGED <<waiting, writer, spc, mpc, ppc, stopChan>>
        BY <2>5 DEF ClosePool, mvars
      <3>2. \A z \in Closers : cpc'[z] = "wait" => cpc[z] = "wait"
        BY <1>0, <2>5 DEF ClosePool
      <3> QED
        BY <3>1, <3>2 DEF Waits
    <2> QED
      BY <1>1, <2>1, <2>2, <2>3, <2>4, <2>5 DEF RedisNext
  <1>2. CASE PollNext
    <2>0. Poller \in Active /\ Poller \in Recorders
      BY DEF Active, ClientsWellFormed
    <2>1. CASE poll \/ withdraw \/ PollerExits
      <3>1. UNCHANGED <<waiting, writer, spc, mpc, cpc, stopChan>> /\ ppc # "none"
        BY <2>1 DEF poll, withdraw, PollerExits, mvars
      <3> QED
        BY <3>1 DEF Waits
    <2>2. CASE PollerMeasures
      <3>1. \A k \in Recorders : k # Poller => mpc'[k] = mpc[k]
        BY <1>0, <2>2 DEF PollerMeasures, Measure
      <3>2. UNCHANGED <<waiting, writer, spc, cpc, stopChan, ppc>>
        BY <2>2 DEF PollerMeasures, notRecorder
      <3> QED
        BY <2>0, <3>1, <3>2, WaitsRecord
    <2>3. CASE PollerRecords
      <3>1. (\A k \in Recorders : k # Poller => mpc'[k] = mpc[k]) /\ UNCHANGED <<waiting, writer, spc>>
        BY <1>0, <2>0, <2>3, RecorderMoves DEF PollerRecords
      <3>2. UNCHANGED <<cpc, stopChan, ppc>>
        BY <2>3 DEF PollerRecords
      <3> QED
        BY <2>0, <3>1, <3>2, WaitsRecord
    <2> QED
      BY <1>2, <2>1, <2>2, <2>3 DEF PollNext
  <1>3. CASE CallNext
    <2>1. PICK c \in Callers : \/ RedisCall(c) \/ NamedCall(c) \/ S3Call(c) \/ PresignCall(c)
                              \/ BindFails(c) \/ AppMeasures(c)
      BY <1>3 DEF CallNext
    <2>2. c \in Active /\ c \in Recorders
      BY DEF Active, ClientsWellFormed
    <2>3. CASE BindFails(c)
      BY <2>3 DEF BindFails, mvars, rvars, Waits
    <2>4. CASE ~BindFails(c)
      <3>1. (\E m : Measure(c, m)) /\ UNCHANGED <<notRecorder, rvars>>
        BY <2>1, <2>4 DEF RedisCall, NamedCall, S3Call, PresignCall, Instrumented, AppMeasures
      <3>2. \A k \in Recorders : k # c => mpc'[k] = mpc[k]
        BY <1>0, <3>1 DEF Measure
      <3>3. UNCHANGED <<waiting, writer, spc, cpc, stopChan, ppc>>
        BY <3>1 DEF notRecorder, rvars
      <3> QED
        BY <2>2, <3>2, <3>3, WaitsRecord
    <2> QED
      BY <2>3, <2>4
  <1>4. CASE MetricsNext
    <2>1. CASE \E c \in Callers \cup {Opener} : RecorderStep(c) /\ UNCHANGED <<rvars, call>>
      <3>1. PICK c \in Callers \cup {Opener} : RecorderStep(c) /\ UNCHANGED <<rvars, call>>
        BY <2>1
      <3>2. c \in Active /\ c \in Recorders
        BY <1>0 DEF Active
      <3>3. (\A k \in Recorders : k # c => mpc'[k] = mpc[k]) /\ UNCHANGED <<waiting, writer, spc>>
        BY <1>0, <3>1, <3>2, RecorderMoves
      <3>4. UNCHANGED <<cpc, stopChan, ppc>>
        BY <3>1 DEF rvars
      <3> QED
        BY <3>2, <3>3, <3>4, WaitsRecord
    <2>2. CASE \E s \in Stoppers : StopperStep(s) /\ UNCHANGED <<rvars, call>>
      BY <2>2, WaitsStop
    <2> QED
      BY <1>4, <2>1, <2>2 DEF MetricsNext
  <1>5. CASE UNCHANGED cvars
    BY <1>5 DEF cvars, mvars, rvars, Waits
  <1> QED
    BY <1>1, <1>2, <1>3, <1>4, <1>5 DEF ClientsNext

\* Who holds stopMu, or waits for it, sees somebody go on.
LEMMA LockGoesOn ==
    ASSUME ClientsWellFormed, DInv, Waits,
           (\E c \in Active : mpc[c] # "idle") \/ (\E s \in Stoppers : spc[s] # "idle")
    PROVE  CanGoOn
  <1>1. /\ mpc \in [Recorders -> {"idle", "rlock", "load", "store", "write"}] /\ readers \subseteq Recorders
        /\ spc \in [Stoppers -> {"idle", "lock", "shutdown"}] /\ Active \subseteq Recorders
        /\ writer \in Stoppers \cup {Nobody}
    BY DEF DInv, MInv, MTypeOK, ClientsWellFormed, Active
  <1>2. \A c \in Recorders : c \in readers => mpc[c] \in {"load", "store", "write"}
    BY DEF DInv, MInv, Locked
  <1>3. CASE writer # Nobody
    BY <1>3 DEF Waits, CanGoOn
  <1>4. CASE readers # {}
    <2>1. PICK c \in readers : TRUE
      BY <1>4
    <2>2. c \in Recorders /\ mpc[c] \in {"load", "store", "write"}
      BY <1>1, <1>2, <2>1
    <2>3. c \in Active
      BY <2>2 DEF Waits
    <2> QED
      BY <2>2, <2>3 DEF CanGoOn
  <1>5. CASE writer = Nobody /\ readers = {} /\ \E s \in Stoppers : spc[s] # "idle"
    BY <1>1, <1>5 DEF CanGoOn
  <1>6. CASE writer = Nobody /\ readers = {} /\ \A s \in Stoppers : spc[s] = "idle"
    <2>1. Readable
      BY <1>6 DEF Readable, Waits
    <2> QED
      BY <1>1, <1>6, <2>1 DEF CanGoOn
  <1> QED
    BY <1>3, <1>4, <1>5, <1>6

(* While New, Close, Stop or a call of the application is under way, some  *)
(* goroutine can take its next step: the read lock of the recorders, the   *)
(* write lock of Stop and Close's wait for the poller never close a circle *)
(* (prepare, Stop, Close, poll).                                           *)
THEOREM NoOneIsStuck == ClientsSpec => []NoOneStuck
  <1> USE ClientsAssumption
  <1>1. ClientsInit => Waits /\ Places
    BY DEF ClientsInit, MInit, Waits, Places, ClientsWellFormed
  <1>2. DInv /\ Waits /\ Places /\ [ClientsNext]_cvars => Waits' /\ Places'
    BY WaitsNext, PlacesNext
  <1>3. ASSUME DInv, Waits, Places PROVE NoOneStuck
    <2> SUFFICES ASSUME UnderWay PROVE CanGoOn
      BY DEF NoOneStuck
    <2>0. Opener \in Active /\ Poller \in Active
      BY DEF Active
    <2>1. CASE (\E c \in Active : mpc[c] # "idle") \/ (\E s \in Stoppers : spc[s] # "idle")
      BY <1>3, <2>1, LockGoesOn
    <2>2. CASE client = "opening" /\ \A c \in Active : mpc[c] = "idle"
      BY <2>0, <2>2 DEF CanGoOn
    <2>3. CASE (\E x \in Closers : cpc[x] = "wait") /\ \A c \in Active : mpc[c] = "idle"
      <3>1. mpc[Poller] = "idle" /\ stopChan # "open"
        BY <1>3, <2>0, <2>3 DEF Waits
      <3>2. CASE ppc \in {"none", "gone"}
        BY <2>3, <3>2 DEF CanGoOn, PollersDone
      <3>3. CASE queue # <<>>
        BY <3>1, <3>3 DEF CanGoOn
      <3>4. CASE queue = <<>> /\ ppc \notin {"none", "gone"}
        <4>1. PollerIdle /\ ppc \in {"start", "select", "withdraw"} /\ stopChan = "closed"
          BY <1>3, <3>1, <3>4 DEF PollerIdle, Places, Waits
        <4> QED
          BY <4>1 DEF CanGoOn
      <3> QED
        BY <3>2, <3>3, <3>4
    <2> QED
      BY <2>1, <2>2, <2>3 DEF UnderWay
  <1>4. ClientsSpec => []DInv
    BY BooksBalance
  <1> QED
    BY <1>1, <1>2, <1>3, <1>4, PTL DEF ClientsSpec

-----------------------------------------------------------------------------
(* The telemetry of a call.                                                *)

LEMMA EarliestIn ==
    ASSUME NEW S \in SUBSET Nat, S # {}
    PROVE  Earliest(S) \in S /\ \A j \in S : Earliest(S) <= j
  <1> DEFINE R == {p \in Nat \X Nat : p[1] < p[2]}
  <1>1. IsWellFoundedOn(R, Nat)
    BY NatLessThanWellFounded DEF OpToRel
  <1>2. PICK n \in S : \A k \in S : ~(<<k, n>> \in R)
    <2> HIDE DEF R
    <2> QED
      BY <1>1, WFMin
  <1>3. ASSUME NEW k \in S PROVE n <= k
    <2>1. k \in Nat /\ n \in Nat
      OBVIOUS
    <2>2. k < n => <<k, n>> \in R
      BY <2>1
    <2> QED
      BY <1>2, <2>1, <2>2
  <1> QED
    BY <1>3 DEF Earliest

\* attrs leaves out what has no value.
LEMMA AttrsOf ==
    ASSUME NEW values, NEW k
    PROVE  /\ k \in DOMAIN attrs(values) <=> k \in DOMAIN values /\ values[k] # ""
           /\ k \in DOMAIN attrs(values) => attrs(values)[k] = values[k]
  BY DEF attrs

LEMMA RedisAttrs ==
    ASSUME NEW e
    PROVE  LET t == redisAttrs(e) IN
           /\ ("type" \in DOMAIN t) <=> (e # {})
           /\ e # {} => t.type = redisErrorType(e)
           /\ "code" \in DOMAIN t => "server" \in e
           /\ "bucket" \notin DOMAIN t
  <1> DEFINE values == [type |-> IF e = {} THEN "" ELSE redisErrorType(e), code |-> redisErrorCode(e)]
             t == attrs(values)
  <1>1. redisErrorType(e) # "" /\ (redisErrorCode(e) # "" => "server" \in e)
    BY DEF redisErrorType, redisErrorCode
  <1>2. /\ DOMAIN values = {"type", "code"} /\ values["code"] = redisErrorCode(e)
        /\ values["type"] = IF e = {} THEN "" ELSE redisErrorType(e)
    OBVIOUS
  <1> HIDE DEF values
  <1>3. /\ ("type" \in DOMAIN t) <=> (e # {})
        /\ e # {} => t["type"] = redisErrorType(e)
        /\ "code" \in DOMAIN t => "server" \in e
        /\ "bucket" \notin DOMAIN t
    <2>1. \A k : /\ k \in DOMAIN t <=> k \in DOMAIN values /\ values[k] # ""
                 /\ k \in DOMAIN t => t[k] = values[k]
      BY AttrsOf
    <2> HIDE DEF t
    <2>2. "bucket" \notin DOMAIN values
      BY <1>2, Zenon
    <2> QED
      BY <1>1, <1>2, <2>1, <2>2
  <1> QED
    BY <1>3 DEF redisAttrs, values

LEMMA DbAttrs ==
    ASSUME NEW e
    PROVE  LET t == dbAttrs(e) IN
           /\ ("type" \in DOMAIN t) <=> (e # {})
           /\ e # {} => t.type = dbErrorType(e)
           /\ "code" \in DOMAIN t => "server" \in e
           /\ "bucket" \notin DOMAIN t
  <1> DEFINE values == [type |-> IF e = {} THEN "" ELSE dbErrorType(e), code |-> dbErrorCode(e)]
             t == attrs(values)
  <1>1. dbErrorType(e) # "" /\ (dbErrorCode(e) # "" => "server" \in e)
    BY DEF dbErrorType, dbErrorCode
  <1>2. /\ DOMAIN values = {"type", "code"} /\ values["code"] = dbErrorCode(e)
        /\ values["type"] = IF e = {} THEN "" ELSE dbErrorType(e)
    OBVIOUS
  <1> HIDE DEF values
  <1>3. /\ ("type" \in DOMAIN t) <=> (e # {})
        /\ e # {} => t["type"] = dbErrorType(e)
        /\ "code" \in DOMAIN t => "server" \in e
        /\ "bucket" \notin DOMAIN t
    <2>1. \A k : /\ k \in DOMAIN t <=> k \in DOMAIN values /\ values[k] # ""
                 /\ k \in DOMAIN t => t[k] = values[k]
      BY AttrsOf
    <2> HIDE DEF t
    <2>2. "bucket" \notin DOMAIN values
      BY <1>2, Zenon
    <2> QED
      BY <1>1, <1>2, <2>1, <2>2
  <1> QED
    BY <1>3 DEF dbAttrs, values

LEMMA S3Attrs ==
    ASSUME NEW e, NEW inp \in [shape : {"listed", "unlisted", "fieldless", "nil"}, bucket : {"", "bucket"}],
           inp.shape \in {"fieldless", "nil"} => inp.bucket = ""
    PROVE  LET t == s3Attrs(e, inp) IN
           /\ ("type" \in DOMAIN t) <=> (e # {})
           /\ e # {} => t.type = s3ErrorType(e)
           /\ "code" \notin DOMAIN t
           /\ ("bucket" \in DOMAIN t) <=> (inp.bucket # "")
  <1> DEFINE values == [type |-> IF e = {} THEN "" ELSE s3ErrorType(e), bucket |-> extractBucket(inp)]
             t == attrs(values)
  <1>1. s3ErrorType(e) # ""
    BY DEF s3ErrorType
  <1>2. extractBucket(inp) = inp.bucket
    BY DEF extractBucket, reflectBucket
  <1>3. /\ DOMAIN values = {"type", "bucket"} /\ values["bucket"] = inp.bucket
        /\ values["type"] = IF e = {} THEN "" ELSE s3ErrorType(e)
    BY <1>2
  <1> HIDE DEF values
  <1>4. /\ ("type" \in DOMAIN t) <=> (e # {})
        /\ e # {} => t["type"] = s3ErrorType(e)
        /\ "code" \notin DOMAIN t
        /\ ("bucket" \in DOMAIN t) <=> (inp.bucket # "")
    <2>1. \A k : /\ k \in DOMAIN t <=> k \in DOMAIN values /\ values[k] # ""
                 /\ k \in DOMAIN t => t[k] = values[k]
      BY AttrsOf
    <2> HIDE DEF t
    <2>2. "code" \notin DOMAIN values
      BY <1>3, Zenon
    <2> QED
      BY <1>1, <1>3, <2>1, <2>2
  <1> QED
    BY <1>4 DEF s3Attrs, values

\* errToReport is the first failure, whatever absent values come before it.
LEMMA PipelineReports ==
    ASSUME NEW results, DOMAIN results \subseteq Nat,
           NEW own, own = {i \in DOMAIN results : Failure(results[i])}
    PROVE  ReportedOfPipeline(results) = IF own = {} THEN {} ELSE results[Earliest(own)]
  <1> DEFINE failed == {i \in DOMAIN results : results[i] # {}}
             i == Earliest(failed)
  <1>1. CASE Failure(FirstError(results))
    <2>1. failed # {} /\ FirstError(results) = results[i]
      BY <1>1 DEF FirstError, Failure
    <2>2. i \in failed /\ \A j \in failed : i <= j
      <3>1. failed \in SUBSET Nat
        OBVIOUS
      <3> HIDE DEF failed
      <3> QED
        BY <2>1, <3>1, EarliestIn
    <2>3. i \in own /\ own \subseteq failed /\ own \in SUBSET Nat
      BY <1>1, <2>1, <2>2 DEF Failure
    <2>4. Earliest(own) \in own /\ Earliest(own) <= i
      BY <2>3, EarliestIn
    <2> HIDE DEF failed, i
    <2>5. Earliest(own) = i
      BY <2>2, <2>3, <2>4
    <2> QED
      BY <1>1, <2>1, <2>3, <2>5 DEF ReportedOfPipeline
  <1>2. CASE ~Failure(FirstError(results))
    BY <1>2 DEF ReportedOfPipeline
  <1> QED
    BY <1>1, <1>2

LEMMA OneResult == ASSUME NEW e PROVE DOMAIN <<e>> = {1} /\ <<e>>[1] = e /\ {1} \in SUBSET Nat
  <1>1. DOMAIN <<e>> = 1..1 /\ <<e>>[1] = e
    OBVIOUS
  <1>2. 1..1 = {1}
    OBVIOUS
  <1>3. {1} \in SUBSET Nat
    BY 1 \in Nat, Zenon
  <1> QED
    BY <1>1, <1>2, <1>3

\* A call of one command, statement or operation.
LEMMA CallReports ==
    ASSUME NEW kind \in {"cmd", "db", "s3"}, NEW e,
           NEW inp \in [shape : {"listed", "unlisted", "fieldless", "nil"}, bucket : {"", "bucket"}],
           inp.shape \in {"fieldless", "nil"} => inp.bucket = ""
    PROVE  ReportsFirstFailure(kind, <<e>>, inp)
  <1> DEFINE failed == {i \in DOMAIN <<e>> : <<e>>[i] # {} /\ (kind = "s3" \/ "absent" \notin <<e>>[i])}
  <1>1. DOMAIN <<e>> = {1} /\ <<e>>[1] = e
    BY OneResult
  <1>2. /\ failed = IF e # {} /\ (kind = "s3" \/ "absent" \notin e) THEN {1} ELSE {}
        /\ failed # {} => <<e>>[Earliest(failed)] = e
    <2>1. failed = IF e # {} /\ (kind = "s3" \/ "absent" \notin e) THEN {1} ELSE {}
      BY <1>1
    <2>2. failed # {} => Earliest(failed) = 1
      <3>1. {1} \in SUBSET Nat
        BY OneResult
      <3>2. failed # {} => failed = {1}
        BY <2>1
      <3> HIDE DEF failed
      <3> QED
        BY <3>1, <3>2, EarliestIn
    <2> HIDE DEF failed
    <2> QED
      BY <1>1, <2>1, <2>2
  <1> HIDE DEF failed
  <1>3. CASE kind = "cmd"
    <2>1. Telemetry(kind, <<e>>, inp) = redisAttrs(Reported(e))
      BY <1>1, <1>3 DEF Telemetry
    <2>2. Reported(e) = IF failed = {} THEN {} ELSE e
      BY <1>2, <1>3 DEF Reported, Failure
    <2> QED
      BY <1>2, <1>3, <2>1, <2>2, RedisAttrs DEF ReportsFirstFailure, failed
  <1>4. CASE kind = "db"
    <2>1. Telemetry(kind, <<e>>, inp) = dbAttrs(Reported(e))
      BY <1>1, <1>4 DEF Telemetry
    <2>2. Reported(e) = IF failed = {} THEN {} ELSE e
      BY <1>2, <1>4 DEF Reported, Failure
    <2> QED
      BY <1>2, <1>4, <2>1, <2>2, DbAttrs DEF ReportsFirstFailure, failed
  <1>5. CASE kind = "s3"
    <2>1. Telemetry(kind, <<e>>, inp) = s3Attrs(e, inp)
      BY <1>1, <1>5 DEF Telemetry
    <2> DEFINE t == s3Attrs(e, inp)
    <2>2. /\ ("type" \in DOMAIN t) <=> (failed # {})
          /\ failed # {} => t.type = s3ErrorType(<<e>>[Earliest(failed)])
          /\ "code" \notin DOMAIN t
          /\ ("bucket" \in DOMAIN t) <=> (inp.bucket # "")
      <3>1. /\ ("type" \in DOMAIN t) <=> (e # {})
            /\ e # {} => t.type = s3ErrorType(e)
            /\ "code" \notin DOMAIN t
            /\ ("bucket" \in DOMAIN t) <=> (inp.bucket # "")
        BY S3Attrs
      <3> HIDE DEF t
      <3> QED
        BY <1>2, <1>5, <3>1
    <2> HIDE DEF t
    <2> QED
      BY <1>5, <2>1, <2>2 DEF ReportsFirstFailure, failed, t
  <1> QED
    BY <1>3, <1>4, <1>5

LEMMA PipelineTold ==
    ASSUME NEW n \in Nat, NEW results, DOMAIN results = 1..n
    PROVE  ReportsFirstFailure("pipeline", results, [shape |-> "nil", bucket |-> ""])
  <1> DEFINE own == {i \in DOMAIN results : Failure(results[i])}
             r == IF own = {} THEN {} ELSE results[Earliest(own)]
             inp == [shape |-> "nil", bucket |-> ""]
             t == Telemetry("pipeline", results, inp)
  <1>1. own = {i \in DOMAIN results : results[i] # {} /\ ("pipeline" = "s3" \/ "absent" \notin results[i])}
    BY DEF Failure
  <1>2. ReportedOfPipeline(results) = r
    <2>1. DOMAIN results \subseteq Nat
      OBVIOUS
    <2> QED
      BY <2>1, PipelineReports
  <1>3. own # {} => r = results[Earliest(own)] /\ r # {}
    <2>1. own \in SUBSET Nat
      OBVIOUS
    <2>2. own # {} => Earliest(own) \in own
      <3> HIDE DEF own
      <3> QED
        BY <2>1, EarliestIn
    <2> QED
      BY <2>2 DEF Failure
  <1>4. own = {} => r = {}
    OBVIOUS
  <1> HIDE DEF own, r
  <1>5. t = redisAttrs(r)
    BY <1>2 DEF Telemetry
  <1>6. /\ ("type" \in DOMAIN t) <=> (r # {})
        /\ r # {} => t.type = redisErrorType(r)
        /\ "code" \in DOMAIN t => "server" \in r
        /\ "bucket" \notin DOMAIN t
    BY <1>5, RedisAttrs
  <1> HIDE DEF t
  <1>7. /\ ("type" \in DOMAIN t) <=> (own # {})
        /\ own # {} => t.type = redisErrorType(results[Earliest(own)])
        /\ "code" \in DOMAIN t => "server" \in results[Earliest(own)]
    BY <1>3, <1>4, <1>6
  <1> QED
    BY <1>1, <1>6, <1>7 DEF ReportsFirstFailure, t

LEMMA ClassesTold == ASSUME NEW e PROVE ClassesAgree(e)
  <1> DEFINE late == e \cap {"deadline", "nettimeout"} # {}
             class == IF late THEN "timeout" ELSE "canceled"
  <1>1. ASSUME late \/ "canceled" \in e, e \cap {"server", "coded", "panic"} = {},
               ("canceled" \in e /\ e \cap {"nettimeout", "natstimeout"} # {}) => "deadline" \in e
        PROVE  {redisErrorType(e), dbErrorType(e), s3ErrorType(e), natsErrorType(e)} = {class}
    <2>1. /\ "server" \notin e /\ "coded" \notin e /\ "panic" \notin e
          /\ late <=> "deadline" \in e \/ "nettimeout" \in e
          /\ "canceled" \in e /\ ("nettimeout" \in e \/ "natstimeout" \in e) => "deadline" \in e
          /\ "deadline" \in e \/ "nettimeout" \in e \/ "canceled" \in e
      BY <1>1
    <2>2. redisErrorType(e) = class
      <3>1. "nettimeout" \in e => e \cap {"nettimeout", "pooltimeout"} # {}
        OBVIOUS
      <3> QED
        BY <2>1, <3>1 DEF redisErrorType
    <2>3. dbErrorType(e) = class
      BY <2>1 DEF dbErrorType
    <2>4. s3ErrorType(e) = class
      BY <2>1 DEF s3ErrorType
    <2>5. natsErrorType(e) = class
      <3>1. e \cap {"coded", "server"} = {}
        BY <2>1
      <3>2. late <=> e \cap {"deadline", "natstimeout", "nettimeout"} # {}
        BY <2>1
      <3> QED
        BY <2>1, <3>1, <3>2 DEF natsErrorType
    <2> QED
      BY <2>2, <2>3, <2>4, <2>5
  <1> QED
    BY <1>1 DEF ClassesAgree

\* Every call, and every pipeline of any length and with any results, is reported
\* as it ended, and the four clients agree on the class of every error
\* (instrument, instrumentPipeline, finish, errorType).
THEOREM CallsAreTold == CallsTold
  <1> USE TelemetryAssumption
  <1>1. ASSUME NEW kind \in {"cmd", "db", "s3"}, NEW e \in Errors, NEW inp \in Inputs
        PROVE  ReportsFirstFailure(kind, <<e>>, inp)
    <2>1. /\ inp \in [shape : {"listed", "unlisted", "fieldless", "nil"}, bucket : {"", "bucket"}]
          /\ inp.shape \in {"fieldless", "nil"} => inp.bucket = ""
      BY DEF InputsWellFormed
    <2> QED
      BY <2>1, CallReports
  <1>2. ASSUME NEW n \in 1..MaxCommands, NEW results \in [1..n -> Errors]
        PROVE  ReportsFirstFailure("pipeline", results, [shape |-> "nil", bucket |-> ""])
    <2>1. MaxCommands \in Nat
      BY DEF InputsWellFormed
    <2>2. n \in Nat /\ DOMAIN results = 1..n
      BY <2>1
    <2> QED
      BY <2>2, PipelineTold
  <1> QED
    BY <1>1, <1>2, ClassesTold DEF CallsTold

\* The same of the data clients: at the start, so for good (the formula is of
\* constants only).
THEOREM CallsAreReported == ClientsSpec => []CallsReported
  <1> USE TelemetryAssumption
  <1>1. CallsReported
    BY CallsAreTold DEF CallsReported
  <1> QED
    BY <1>1, PTL
-----------------------------------------------------------------------------
(* Binding a query, for every text: a set of naturals that begins at 0 and *)
(* goes on is Nat, which stands in for induction; the two loops of bind.go *)
(* end; and what they write.                                               *)

\* A set of naturals that has 0 and with every n its successor, is Nat.
LEMMA SetInduction ==
    ASSUME NEW S \in SUBSET Nat, 0 \in S, \A n \in S : n + 1 \in S
    PROVE  S = Nat
  <1> DEFINE R == {p \in Nat \X Nat : p[1] < p[2]}
             T == Nat \ S
  <1>1. IsWellFoundedOn(R, Nat)
    BY NatLessThanWellFounded DEF OpToRel
  <1>2. SUFFICES ASSUME T # {} PROVE FALSE
    OBVIOUS
  <1>3. PICK n \in T : \A k \in T : ~(<<k, n>> \in R)
    <2>1. T \subseteq Nat
      OBVIOUS
    <2> HIDE DEF R, T
    <2> QED
      BY <1>1, <1>2, <2>1, WFMin
  <1>4. n \in Nat /\ n # 0 /\ n - 1 \in Nat /\ (n - 1) + 1 = n
    OBVIOUS
  <1>5. n - 1 \notin S
    BY <1>4
  <1>6. n - 1 \in T /\ <<n - 1, n>> \in R
    BY <1>4, <1>5
  <1> QED
    BY <1>3, <1>6

\* What the recursive function of Until is.
Lasts(S, done, next, f) == f = [y \in S |-> IF y \in done THEN y ELSE f[next[y]]]

\* A loop that comes nearer to its end with every step.
Nears(S, done, next, rank) ==
    /\ rank \in [S -> Nat]
    /\ \A x \in S \ done : next[x] \in S /\ rank[next[x]] < rank[x]
\* Such a function exists when every step comes nearer to the end.
LEMMA LastsExists ==
    ASSUME NEW S, NEW done, NEW next, NEW most \in Nat, NEW rank, Nears(S, done, next, rank),
           \A x \in S : rank[x] <= most
    PROVE  \E f : Lasts(S, done, next, f)
  <1> DEFINE Eq(g, y) == g[y] = IF y \in done THEN y ELSE g[next[y]]
             K == {k \in Nat : \E g : \A y \in S : rank[y] <= k => Eq(g, y)}
  <1>1. 0 \in K
    <2>1. \A y \in S : rank[y] <= 0 => Eq([x \in S |-> x], y)
      BY DEF Nears
    <2> QED
      BY <2>1
  <1>2. ASSUME NEW k \in K PROVE k + 1 \in K
    <2>1. k \in Nat
      OBVIOUS
    <2>2. PICK g : \A y \in S : rank[y] <= k => Eq(g, y)
      OBVIOUS
    <2> DEFINE now == [y \in S |-> IF y \in done THEN y ELSE g[next[y]]]
    <2>3. ASSUME NEW y \in S, rank[y] <= k + 1 PROVE Eq(now, y)
      <3>1. CASE y \in done
        BY <3>1
      <3>2. CASE y \notin done
        <4>1. next[y] \in S /\ rank[next[y]] <= k
          BY <2>1, <2>3, <3>2 DEF Nears
        <4>2. now[next[y]] = g[next[y]]
          BY <2>2, <4>1
        <4> QED
          BY <3>2, <4>2
      <3> QED
        BY <3>1, <3>2
    <2> HIDE DEF now, Eq
    <2>4. \E f : \A y \in S : rank[y] <= k + 1 => Eq(f, y)
      BY <2>3
    <2> QED
      BY <2>1, <2>4
  <1>3. K = Nat
    <2>1. K \in SUBSET Nat
      OBVIOUS
    <2> HIDE DEF K
    <2> QED
      BY <1>1, <1>2, <2>1, SetInduction
  <1>4. PICK g : \A y \in S : Eq(g, y)
    <2> HIDE DEF Eq
    <2>1. most \in K
      BY <1>3
    <2> QED
      BY <2>1
  <1> DEFINE f == [y \in S |-> g[y]]
  <1>5. \A y \in S : f[y] = IF y \in done THEN y ELSE f[next[y]]
    BY <1>4 DEF Nears
  <1>6. f = [y \in S |-> IF y \in done THEN y ELSE f[next[y]]]
    <2> HIDE DEF f
    <2>1. f = [y \in S |-> f[y]]
      BY DEF f
    <2> QED
      BY <1>5, <2>1
  <1> QED
    BY <1>6 DEF Lasts

\* A loop ends where it is done.
LEMMA UntilDone ==
    ASSUME NEW S, NEW done, NEW next, NEW most \in Nat, NEW rank, Nears(S, done, next, rank),
           \A x \in S : rank[x] <= most, NEW x \in S
    PROVE  Until(S, done, next, x) \in S \cap done
  <1> DEFINE f == CHOOSE g : g = [y \in S |-> IF y \in done THEN y ELSE g[next[y]]]
  <1>1. f = [y \in S |-> IF y \in done THEN y ELSE f[next[y]]]
    <2>1. \E g : Lasts(S, done, next, g)
      <3> HIDE DEF f
      <3> QED
        BY LastsExists
    <2>2. \E g : g = [y \in S |-> IF y \in done THEN y ELSE g[next[y]]]
      BY <2>1 DEF Lasts
    <2> QED
      BY <2>2, Zenon
  <1>2. Until(S, done, next, x) = f[x]
    BY DEF Until
  <1> HIDE DEF f
  <1> DEFINE K == {k \in Nat : \A y \in S : rank[y] <= k => f[y] \in S \cap done}
  <1>3. 0 \in K
    BY <1>1 DEF Nears
  <1>4. ASSUME NEW k \in K PROVE k + 1 \in K
    <2>1. k \in Nat /\ \A y \in S : rank[y] <= k => f[y] \in S \cap done
      OBVIOUS
    <2>2. ASSUME NEW y \in S, rank[y] <= k + 1 PROVE f[y] \in S \cap done
      <3>1. CASE y \in done
        BY <1>1, <3>1
      <3>2. CASE y \notin done
        <4>1. next[y] \in S /\ rank[next[y]] <= k
          BY <2>1, <2>2, <3>2 DEF Nears
        <4>2. f[y] = f[next[y]]
          BY <1>1, <3>2
        <4> QED
          BY <2>1, <4>1, <4>2
      <3> QED
        BY <3>1, <3>2
    <2> QED
      BY <2>1, <2>2
  <1>5. K = Nat
    <2>1. K \in SUBSET Nat
      OBVIOUS
    <2> HIDE DEF K
    <2> QED
      BY <1>3, <1>4, <2>1, SetInduction
  <1>6. rank[x] \in K
    BY <1>5 DEF Nears
  <1> QED
    BY <1>2, <1>6 DEF Nears

\* Characters are strings; the four that the functions write are named, as the
\* provers do not know of a string that it is one.
Chars == STRING \cup {":", "?", "CAST", "COLON"}
Text == Seq(Chars)
\* skipQuoted, skipLineComment, skipBlockComment and skipDollarQuoted end within
\* the query and not before they began.
LEMMA QuotedEnds ==
    ASSUME NEW q \in Text, NEW start \in 1..Len(q), NEW quote, NEW backslash
    PROVE  skipQuoted(q, start, quote, backslash) \in (start + 1)..(Len(q) + 1)
  <1> DEFINE n == Len(q)
             twice == [i \in 1..n |-> (backslash /\ q[i] = "bs") \/ (q[i] = quote /\ At(q, i + 1, quote))]
             shut == {i \in 1..n : q[i] = quote /\ ~twice[i]}
             S == (start + 1)..(n + 2)
             done == shut \cup {n + 1, n + 2}
             next == [i \in 1..n |-> IF twice[i] THEN i + 2 ELSE i + 1]
             rank == [i \in S |-> n + 2 - i]
             last == Until(S, done, next, start + 1)
  <1>1. n \in Nat /\ start \in Nat /\ start >= 1 /\ start <= n
    BY DEF Text
  <1>2. \A i \in 1..n : next[i] \in {i + 1, i + 2}
    OBVIOUS
  <1>3. skipQuoted(q, start, quote, backslash) = IF last \in shut THEN last + 1 ELSE n + 1
    BY DEF skipQuoted
  <1> HIDE DEF n, twice, next
  <1>4. Nears(S, done, next, rank)
    <2>1. rank \in [S -> Nat]
      BY <1>1
    <2>2. ASSUME NEW x \in S \ done PROVE next[x] \in S /\ rank[next[x]] < rank[x]
      <3>1. x \in 1..n
        BY <1>1
      <3> QED
        BY <1>1, <1>2, <3>1
    <2> QED
      BY <2>1, <2>2 DEF Nears
  <1>5. /\ n + 2 \in Nat /\ start + 1 \in S
        /\ \A x \in S : rank[x] <= n + 2
    BY <1>1
  <1>6. last \in S \cap done
    <2> HIDE DEF S, done, rank
    <2> QED
      BY <1>4, <1>5, UntilDone
  <1>7. last \in shut => last \in S /\ last \in 1..n
    BY <1>6
  <1> QED
    BY <1>1, <1>3, <1>7 DEF n

LEMMA LineEnds ==
    ASSUME NEW q \in Text, NEW start \in 1..(Len(q) + 1)
    PROVE  skipLineComment(q, start) \in start..(Len(q) + 1)
  <1> DEFINE n == Len(q)
             S == {i \in start..n : q[i] = "nl"} \cup {n + 1}
             m == IndexFrom(q, start, "nl")
  <1>1. n \in Nat /\ start \in 1..(n + 1)
    BY DEF Text
  <1>2. m \in S /\ \A y \in S : m <= y
    <2>1. S \in SUBSET Nat /\ S # {}
      BY <1>1
    <2>2. m = Min(S)
      BY DEF IndexFrom
    <2> HIDE DEF S, m
    <2> QED
      BY <2>1, <2>2, LeastIs
  <1>3. m \in start..(n + 1)
    BY <1>1, <1>2
  <1>4. skipLineComment(q, start) = Min({m, n}) + 1
    BY DEF skipLineComment
  <1>5. Min({m, n}) \in {m, n} /\ Min({m, n}) <= n
    <2>1. {m, n} \in SUBSET Nat /\ {m, n} # {}
      BY <1>1, <1>3
    <2> HIDE DEF m, n
    <2> QED
      BY <2>1, LeastIs
  <1> HIDE DEF m
  <1> QED
    BY <1>1, <1>3, <1>4, <1>5

LEMMA BlockEnds ==
    ASSUME NEW q \in Text, NEW start \in 1..(Len(q) + 1), NEW nested
    PROVE  skipBlockComment(q, start, nested) \in start..(Len(q) + 1)
  <1> DEFINE n == Len(q)
             S == (start..(n + 1)) \X Nat
             opens(i) == Nests(nested) /\ q[i] = "/" /\ At(q, i + 1, "*")
             shuts(i) == q[i] = "*" /\ At(q, i + 1, "/")
             done == {x \in S : x[1] = n + 1 \/ x[2] = 0}
             next == [x \in S |-> IF shuts(x[1]) THEN <<x[1] + 2, x[2] - 1>>
                                  ELSE IF opens(x[1]) THEN <<x[1] + 2, x[2] + 1>>
                                  ELSE <<x[1] + 1, x[2]>>]
             rank == [x \in S |-> n + 1 - x[1]]
             last == Until(S, done, next, <<start, 1>>)
  <1>1. n \in Nat /\ start \in Nat /\ start >= 1 /\ start <= n + 1
    BY DEF Text
  <1>2. skipBlockComment(q, start, nested) = last[1]
    BY DEF skipBlockComment
  <1>3. \A i \in 1..n : (opens(i) \/ shuts(i)) => i + 1 <= n
    BY <1>1 DEF At
  <1> HIDE DEF n, opens, shuts
  <1>4. Nears(S, done, next, rank)
    <2>1. rank \in [S -> Nat]
      BY <1>1
    <2>2. ASSUME NEW x \in S \ done PROVE next[x] \in S /\ rank[next[x]] < rank[x]
      <3>1. x[1] \in start..n /\ x[1] \in 1..n /\ x[2] \in Nat /\ x[2] # 0
        BY <1>1
      <3>2. CASE shuts(x[1])
        <4>1. next[x] = <<x[1] + 2, x[2] - 1>>
          BY <3>2
        <4> QED
          BY <1>1, <1>3, <3>1, <3>2, <4>1, SMTT(30)
      <3>3. CASE ~shuts(x[1]) /\ opens(x[1])
        <4>1. next[x] = <<x[1] + 2, x[2] + 1>>
          BY <3>3
        <4> QED
          BY <1>1, <1>3, <3>1, <3>3, <4>1
      <3>4. CASE ~shuts(x[1]) /\ ~opens(x[1])
        <4>1. next[x] = <<x[1] + 1, x[2]>>
          BY <3>4
        <4> QED
          BY <1>1, <3>1, <4>1
      <3> QED
        BY <3>2, <3>3, <3>4
    <2> QED
      BY <2>1, <2>2 DEF Nears
  <1>5. /\ n + 1 \in Nat /\ <<start, 1>> \in S
        /\ \A x \in S : rank[x] <= n + 1
    BY <1>1
  <1>6. last \in S
    <2> HIDE DEF S, done, rank, next
    <2> QED
      BY <1>4, <1>5, UntilDone
  <1> QED
    BY <1>2, <1>6 DEF n

LEMMA DollarEnds ==
    ASSUME NEW q \in Text, NEW start \in 1..Len(q)
    PROVE  skipDollarQuoted(q, start) \in start..(Len(q) + 1)
  <1> DEFINE n == Len(q)
             T == {i \in (start + 1)..n : ~isDollarTagChar(q[i])} \cup {n + 1}
             j == Min(T)
             delim == SubSeq(q, start, j)
             found == {k \in (j + 1)..(n - Len(delim) + 1) : SubSeq(q, k, k + Len(delim) - 1) = delim}
  <1>1. n \in Nat /\ start \in 1..n
    BY DEF Text
  <1>2. j \in (start + 1)..(n + 1)
    <2>1. T \in SUBSET Nat /\ T # {} /\ T \subseteq (start + 1)..(n + 1)
      BY <1>1
    <2> HIDE DEF T
    <2> QED
      BY <2>1, LeastIs
  <1>3. \/ skipDollarQuoted(q, start) = start
        \/ At(q, j, "$") /\ skipDollarQuoted(q, start) = IF found = {} THEN n + 1 ELSE Min(found) + Len(delim)
    BY DEF skipDollarQuoted
  <1> HIDE DEF j
  <1>4. CASE At(q, j, "$") /\ found # {} /\ skipDollarQuoted(q, start) = Min(found) + Len(delim)
    <2>1. j \in 1..n
      BY <1>4 DEF At
    <2>2. Len(delim) = j - start + 1
      BY <1>1, <1>2, <2>1 DEF Text
    <2> HIDE DEF delim
    <2>3. found \in SUBSET Nat /\ found \subseteq (j + 1)..(n - Len(delim) + 1)
      BY <1>1, <1>2, <2>2
    <2> HIDE DEF found
    <2>4. Min(found) \in (j + 1)..(n - Len(delim) + 1)
      BY <1>4, <2>3, LeastIs
    <2>5. \A m \in (j + 1)..(n - Len(delim) + 1) : m + Len(delim) \in start..(n + 1)
      BY <1>1, <1>2, <2>2
    <2> QED
      BY <1>4, <2>4, <2>5
  <1>5. CASE skipDollarQuoted(q, start) = start \/ skipDollarQuoted(q, start) = n + 1
    BY <1>1, <1>5
  <1> QED
    BY <1>3, <1>4, <1>5

\* literalEnd: the scanner never goes back and never leaves the query.
LEMMA LiteralEnds ==
    ASSUME NEW q \in Text, NEW i \in 1..Len(q), NEW d
    PROVE  literalEnd(q, i, d) \in i..(Len(q) + 1)
  <1> DEFINE n == Len(q)
  <1>1. n \in Nat /\ i \in Nat /\ i >= 1 /\ i <= n
    BY DEF Text
  <1>2. \A quote, b : skipQuoted(q, i, quote, b) \in i..(n + 1)
    <2>1. \A quote, b : skipQuoted(q, i, quote, b) \in (i + 1)..(n + 1)
      BY QuotedEnds
    <2> QED
      BY <1>1, <2>1
  <1>3. skipLineComment(q, i + 1) \in i..(n + 1)
    <2>1. i + 1 \in 1..(Len(q) + 1)
      BY <1>1
    <2>2. skipLineComment(q, i + 1) \in (i + 1)..(n + 1)
      BY <2>1, LineEnds
    <2> QED
      BY <1>1, <2>2
  <1>4. \A c : At(q, i + 1, c) => /\ skipLineComment(q, i + 2) \in i..(n + 1)
                                  /\ \A b : skipBlockComment(q, i + 2, b) \in i..(n + 1)
    <2> SUFFICES ASSUME NEW c, At(q, i + 1, c)
                 PROVE  /\ skipLineComment(q, i + 2) \in i..(n + 1)
                        /\ \A b : skipBlockComment(q, i + 2, b) \in i..(n + 1)
      OBVIOUS
    <2>1. i + 2 \in 1..(Len(q) + 1)
      BY <1>1 DEF At
    <2>2. /\ skipLineComment(q, i + 2) \in (i + 2)..(n + 1)
          /\ \A b : skipBlockComment(q, i + 2, b) \in (i + 2)..(n + 1)
      BY <2>1, LineEnds, BlockEnds
    <2> QED
      BY <1>1, <2>2
  <1>5. skipDollarQuoted(q, i) \in i..(n + 1)
    BY DollarEnds
  <1>6. i \in i..(n + 1)
    BY <1>1
  <1> HIDE DEF n
  <1>7. literalEnd(q, i, d) \in i..(n + 1)
    BY <1>2, <1>3, <1>4, <1>5, <1>6 DEF literalEnd
  <1> QED
    BY <1>7 DEF n

\* The steps of a walk.
Forward(n, next) == next \in [1..n -> 1..(n + 1)] /\ \A i \in 1..n : next[i] > i

\* bindQuery: each step of the scanner, and of sqlx.Named, goes forward and stays
\* within the query, whatever the text and the dialect: every loop of bind.go
\* ends, and no index or slice is out of range.
THEOREM ScannerAdvances ==
    ASSUME NEW q \in Text, NEW d PROVE Forward(Len(q), Past(q, d)) /\ Forward(Len(q), PastName(q))
  <1> DEFINE n == Len(q)
  <1>1. n \in Nat
    BY DEF Text
  <1>2. ASSUME NEW i \in 1..n PROVE Past(q, d)[i] \in 1..(n + 1) /\ Past(q, d)[i] > i
    <2>1. literalEnd(q, i, d) \in i..(n + 1)
      BY LiteralEnds
    <2>2. Past(q, d)[i] = IF literalEnd(q, i, d) > i THEN literalEnd(q, i, d) ELSE i + 1
      BY DEF Past
    <2> QED
      BY <1>1, <2>1, <2>2
  <1>3. ASSUME NEW i \in 1..n PROVE PastName(q)[i] \in 1..(n + 1) /\ PastName(q)[i] > i
    <2> DEFINE S == {j \in (i + 1)..n : ~isDollarTagChar(q[j])} \cup {n + 1}
    <2>1. S \in SUBSET Nat /\ S # {} /\ S \subseteq (i + 1)..(n + 1)
      BY <1>1
    <2>2. NameEnd(q, i) = Min(S)
      BY DEF NameEnd
    <2> HIDE DEF S
    <2>3. NameEnd(q, i) \in (i + 1)..(n + 1)
      BY <2>1, <2>2, LeastIs
    <2>4. PastName(q)[i] = IF q[i] = ":" THEN NameEnd(q, i) ELSE i + 1
      BY DEF PastName
    <2> QED
      BY <1>1, <2>3, <2>4
  <1>4. DOMAIN Past(q, d) = 1..n /\ DOMAIN PastName(q) = 1..n
    BY DEF Past, PastName
  <1>5. Past(q, d) = [i \in 1..n |-> Past(q, d)[i]] /\ PastName(q) = [i \in 1..n |-> PastName(q)[i]]
    BY DEF Past, PastName
  <1> QED
    BY <1>2, <1>3, <1>5 DEF Forward

\* What a walk leaves from each place on.
Leaves(n, next, item, out) ==
    out[n + 1] = <<>> /\ \A i \in 1..n : out[i] = item[i] \o out[next[i]]

\* There is only one such function.
LEMMA LeavesAgree ==
    ASSUME NEW n \in Nat, NEW next, Forward(n, next), NEW item, NEW f, NEW g,
           Leaves(n, next, item, f), Leaves(n, next, item, g)
    PROVE  \A i \in 1..(n + 1) : f[i] = g[i]
  <1> DEFINE K == {k \in Nat : \A i \in 1..(n + 1) : n + 1 - i <= k => f[i] = g[i]}
  <1>1. 0 \in K
    <2>1. \A i \in 1..(n + 1) : n + 1 - i <= 0 => i = n + 1
      OBVIOUS
    <2> QED
      BY <2>1 DEF Leaves
  <1>2. ASSUME NEW k \in K PROVE k + 1 \in K
    <2>1. k \in Nat /\ \A i \in 1..(n + 1) : n + 1 - i <= k => f[i] = g[i]
      OBVIOUS
    <2>2. ASSUME NEW i \in 1..(n + 1), n + 1 - i <= k + 1 PROVE f[i] = g[i]
      <3>1. CASE i = n + 1
        BY <3>1 DEF Leaves
      <3>2. CASE i # n + 1
        <4>1. i \in 1..n /\ next[i] \in 1..(n + 1) /\ next[i] > i
          BY <3>2 DEF Forward
        <4>2. n + 1 - next[i] <= k
          BY <2>1, <2>2, <4>1
        <4>3. f[next[i]] = g[next[i]]
          BY <2>1, <4>1, <4>2
        <4> QED
          BY <4>1, <4>3 DEF Leaves
      <3> QED
        BY <3>1, <3>2
    <2> QED
      BY <2>1, <2>2
  <1>3. K = Nat
    <2>1. K \in SUBSET Nat
      OBVIOUS
    <2> HIDE DEF K
    <2> QED
      BY <1>1, <1>2, <2>1, SetInduction
  <1>4. n + 1 \in K
    BY <1>3
  <1> QED
    BY <1>4
\* And there is one.
LEMMA LeavesExists ==
    ASSUME NEW n \in Nat, NEW next, Forward(n, next), NEW V, NEW item \in [1..n -> Seq(V)]
    PROVE  \E out \in [1..(n + 1) -> Seq(V)] : Leaves(n, next, item, out)
  <1> DEFINE D == 1..(n + 1)
             Eq(g, i) == g[i] = IF i = n + 1 THEN <<>> ELSE item[i] \o g[next[i]]
             K == {k \in Nat : \E g \in [D -> Seq(V)] : \A i \in D : n + 1 - i <= k => Eq(g, i)}
  <1>0. \A i \in D : i # n + 1 => i \in 1..n /\ next[i] \in D /\ next[i] > i
    BY DEF Forward
  <1>1. 0 \in K
    <2>1. [i \in D |-> <<>>] \in [D -> Seq(V)]
      OBVIOUS
    <2>2. \A i \in D : n + 1 - i <= 0 => i = n + 1
      OBVIOUS
    <2>3. \A i \in D : n + 1 - i <= 0 => Eq([j \in D |-> <<>>], i)
      BY <2>2
    <2> QED
      BY <2>1, <2>3
  <1>2. ASSUME NEW k \in K PROVE k + 1 \in K
    <2>1. k \in Nat
      OBVIOUS
    <2>2. PICK g \in [D -> Seq(V)] : \A i \in D : n + 1 - i <= k => Eq(g, i)
      OBVIOUS
    <2> DEFINE now == [i \in D |-> IF i = n + 1 THEN <<>> ELSE item[i] \o g[next[i]]]
    <2>3. now \in [D -> Seq(V)]
      <3>1. ASSUME NEW i \in D PROVE (IF i = n + 1 THEN <<>> ELSE item[i] \o g[next[i]]) \in Seq(V)
        <4>1. CASE i = n + 1
          BY <4>1
        <4>2. CASE i # n + 1
          <5>1. item[i] \in Seq(V) /\ g[next[i]] \in Seq(V)
            BY <1>0, <4>2
          <5> QED
            BY <4>2, <5>1, ConcatProperties
        <4> QED
          BY <4>1, <4>2
      <3> QED
        BY <3>1
    <2>4. ASSUME NEW i \in D, n + 1 - i <= k + 1 PROVE Eq(now, i)
      <3>1. CASE i = n + 1
        BY <3>1
      <3>2. CASE i # n + 1
        <4>1. i \in 1..n /\ next[i] \in D /\ next[i] > i
          BY <1>0, <3>2
        <4>2. n + 1 - next[i] <= k
          BY <2>1, <2>4, <4>1, SMTT(30)
        <4>3. now[next[i]] = g[next[i]]
          BY <2>2, <4>1, <4>2
        <4> QED
          BY <3>2, <4>3
      <3> QED
        BY <3>1, <3>2
    <2> HIDE DEF now, Eq
    <2>5. \E f \in [D -> Seq(V)] : \A i \in D : n + 1 - i <= k + 1 => Eq(f, i)
      BY <2>3, <2>4
    <2>6. k + 1 \in Nat
      BY <2>1
    <2> QED
      BY <2>5, <2>6
  <1>3. K = Nat
    <2>1. K \in SUBSET Nat
      OBVIOUS
    <2> HIDE DEF K
    <2> QED
      BY <1>1, <1>2, <2>1, SetInduction
  <1>4. n + 1 \in K
    <2> HIDE DEF K
    <2> QED
      BY <1>3
  <1>5. PICK g \in [D -> Seq(V)] : \A i \in D : n + 1 - i <= n + 1 => Eq(g, i)
    <2> HIDE DEF Eq, D
    <2> QED
      BY <1>4
  <1>6. Leaves(n, next, item, g)
    <2>1. Eq(g, n + 1)
      <3>1. n + 1 \in D /\ n + 1 - (n + 1) <= n + 1
        OBVIOUS
      <3> HIDE DEF Eq, D
      <3> QED
        BY <1>5, <3>1
    <2>2. ASSUME NEW i \in 1..n PROVE g[i] = item[i] \o g[next[i]]
      <3>1. i \in D /\ n + 1 - i <= n + 1 /\ i # n + 1
        OBVIOUS
      <3>2. Eq(g, i)
        <4> HIDE DEF Eq, D
        <4> QED
          BY <1>5, <3>1
      <3> QED
        BY <3>1, <3>2
    <2> QED
      BY <2>1, <2>2 DEF Leaves
  <1> QED
    BY <1>6

\* A walk leaves what it leaves from its first place on.
LEMMA WalkLeaves ==
    ASSUME NEW n \in Nat, NEW next, Forward(n, next), NEW V, NEW item \in [1..n -> Seq(V)]
    PROVE  /\ Walk(n, next, item) \in Seq(V)
           /\ \A out : Leaves(n, next, item, out) => Walk(n, next, item) = out[1]
  <1> DEFINE f == CHOOSE g : g = [i \in 1..(n + 1) |-> IF i = n + 1 THEN <<>> ELSE item[i] \o g[next[i]]]
  <1>1. Walk(n, next, item) = f[1]
    BY DEF Walk
  <1>2. PICK out \in [1..(n + 1) -> Seq(V)] : Leaves(n, next, item, out)
    BY LeavesExists
  <1>3. out = [i \in 1..(n + 1) |-> IF i = n + 1 THEN <<>> ELSE item[i] \o out[next[i]]]
    <2>1. \A i \in 1..(n + 1) : out[i] = IF i = n + 1 THEN <<>> ELSE item[i] \o out[next[i]]
      <3>1. \A i \in 1..(n + 1) : i = n + 1 \/ i \in 1..n
        OBVIOUS
      <3>2. \A i \in 1..n : i # n + 1
        OBVIOUS
      <3> QED
        BY <1>2, <3>1, <3>2 DEF Leaves
    <2>2. out = [i \in 1..(n + 1) |-> out[i]]
      BY <1>2
    <2> QED
      BY <2>1, <2>2
  <1>4. f = [i \in 1..(n + 1) |-> IF i = n + 1 THEN <<>> ELSE item[i] \o f[next[i]]]
    BY <1>3
  <1> HIDE DEF f
  <1>5. Leaves(n, next, item, f)
    <2>1. f[n + 1] = <<>>
      BY <1>4
    <2>2. ASSUME NEW i \in 1..n PROVE f[i] = item[i] \o f[next[i]]
      <3>1. i \in 1..(n + 1) /\ i # n + 1
        OBVIOUS
      <3> QED
        BY <1>4, <3>1
    <2> QED
      BY <2>1, <2>2 DEF Leaves
  <1>6. 1 \in 1..(n + 1)
    OBVIOUS
  <1>7. f[1] = out[1]
    BY <1>2, <1>5, <1>6, LeavesAgree
  <1>8. \A o : Leaves(n, next, item, o) => f[1] = o[1]
    BY <1>5, <1>6, LeavesAgree
  <1> QED
    BY <1>1, <1>2, <1>6, <1>7, <1>8
\* A query that holds no sentinel.
Clean(q) == \A i \in 1..Len(q) : q[i] \notin {"CAST", "COLON"}
\* Sequences of none, one and two.
LEMMA ShortSeqs ==
    ASSUME NEW S, NEW a \in S, NEW b \in S
    PROVE  /\ <<>> \in Seq(S) /\ Len(<<>>) = 0
           /\ <<a>> \in Seq(S) /\ Len(<<a>>) = 1 /\ <<a>>[1] = a
           /\ <<a, b>> \in Seq(S) /\ Len(<<a, b>>) = 2 /\ <<a, b>>[1] = a /\ <<a, b>>[2] = b
  OBVIOUS

LEMMA SubSeqOne == ASSUME NEW S, NEW s \in Seq(S), NEW i \in 1..Len(s) PROVE SubSeq(s, i, i) = <<s[i]>>
  <1>1. Len(s) \in Nat /\ i \in i..Len(s) /\ s[i] \in S
    OBVIOUS
  <1>2. SubSeq(s, i, i) = <<s[i]>> \o SubSeq(s, i + 1, i)
    BY <1>1, SubSeqRecursiveFirst
  <1>3. SubSeq(s, i + 1, i) = <<>>
    BY <1>1, SubSeqEmpty
  <1>4. <<s[i]>> \o <<>> = <<s[i]>>
    BY <1>1, ShortSeqs, ConcatEmptySeq
  <1> QED
    BY <1>2, <1>3, <1>4
\* restore writes characters.
LEMMA PlainText == ASSUME NEW c \in Chars PROVE plain(c) \in Text
  <1>1. ":" \in Chars
    BY DEF Chars
  <1>2. <<":", ":">> \in Seq(Chars) /\ <<":">> \in Seq(Chars) /\ <<c>> \in Seq(Chars)
    BY <1>1, ShortSeqs
  <1> QED
    BY <1>2, Zenon DEF plain, Text

\* restore is a walk over one character at a time.
LEMMA RestoreWalks ==
    ASSUME NEW q \in Text
    PROVE  /\ Len(q) \in Nat
           /\ Forward(Len(q), [i \in 1..Len(q) |-> i + 1])
           /\ [i \in 1..Len(q) |-> plain(q[i])] \in [1..Len(q) -> Seq(Chars)]
  <1>1. Len(q) \in Nat
    BY DEF Text
  <1>2. \A i \in 1..Len(q) : q[i] \in Chars
    BY DEF Text
  <1>3. \A i \in 1..Len(q) : plain(q[i]) \in Seq(Chars)
    BY <1>2, PlainText DEF Text
  <1>4. \A i \in 1..Len(q) : i + 1 \in 1..(Len(q) + 1) /\ i + 1 > i
    BY <1>1
  <1> QED
    BY <1>1, <1>3, <1>4 DEF Forward

LEMMA RestoreText == ASSUME NEW q \in Text PROVE restore(q) \in Text
  BY RestoreWalks, WalkLeaves DEF restore, Text
\* restore goes through a concatenation.
LEMMA RestoreConcat ==
    ASSUME NEW a \in Text, NEW b \in Text
    PROVE  restore(a \o b) = restore(a) \o restore(b)
  <1> DEFINE c == a \o b
             m == Len(a)
             n == Len(c)
             succ(k) == [i \in 1..k |-> i + 1]
             item(x) == [i \in 1..Len(x) |-> plain(x[i])]
  <1>1. /\ c \in Text /\ m \in Nat /\ Len(b) \in Nat /\ n = m + Len(b)
        /\ \A i \in 1..n : c[i] = IF i <= m THEN a[i] ELSE b[i - m]
    BY ConcatProperties DEF Text
  <1>2. PICK oa \in [1..(m + 1) -> Seq(Chars)] : Leaves(m, succ(m), item(a), oa)
    BY RestoreWalks, LeavesExists
  <1>3. PICK ob \in [1..(Len(b) + 1) -> Seq(Chars)] : Leaves(Len(b), succ(Len(b)), item(b), ob)
    BY RestoreWalks, LeavesExists
  <1>4. restore(a) = oa[1] /\ restore(b) = ob[1]
    BY <1>2, <1>3, RestoreWalks, WalkLeaves DEF restore
  <1> DEFINE g == [i \in 1..(n + 1) |-> IF i <= m THEN oa[i] \o ob[1] ELSE ob[i - m]]
  <1>5. oa[m + 1] = <<>> /\ ob[Len(b) + 1] = <<>>
    BY <1>2, <1>3 DEF Leaves
  <1>6. \A i \in 1..m : oa[i] = plain(a[i]) \o oa[i + 1]
    BY <1>2 DEF Leaves
  <1>7. \A i \in 1..Len(b) : ob[i] = plain(b[i]) \o ob[i + 1]
    BY <1>3 DEF Leaves
  <1> HIDE DEF c, m, n
  <1>8. ASSUME NEW i \in 1..n PROVE g[i] = plain(c[i]) \o g[i + 1]
    <2>0. i \in 1..(n + 1) /\ i + 1 \in 1..(n + 1) /\ n \in Nat
      BY <1>1
    <2>1. CASE i <= m
      <3>1. i \in 1..m /\ c[i] = a[i] /\ i + 1 \in 1..(m + 1) /\ 1 \in 1..(Len(b) + 1)
        BY <1>1, <2>1
      <3>2. g[i] = (plain(a[i]) \o oa[i + 1]) \o ob[1]
        BY <1>6, <2>0, <2>1, <3>1
      <3>3. a[i] \in Chars
        BY <3>1 DEF m, Text
      <3>4. plain(a[i]) \in Seq(Chars) /\ oa[i + 1] \in Seq(Chars) /\ ob[1] \in Seq(Chars)
        BY <1>2, <1>3, <3>1, <3>3, PlainText DEF Text
      <3>5. g[i] = plain(a[i]) \o (oa[i + 1] \o ob[1])
        <4> HIDE DEF g
        <4>1. (plain(a[i]) \o oa[i + 1]) \o ob[1] = plain(a[i]) \o (oa[i + 1] \o ob[1])
          <5>1. \A x, y, z \in Seq(Chars) : (x \o y) \o z = x \o (y \o z)
            BY ConcatAssociative, SMTT(30)
          <5> QED
            BY <3>4, <5>1, Zenon
        <4> QED
          BY <3>2, <4>1
      <3>6. g[i + 1] = oa[i + 1] \o ob[1]
        <4>1. CASE i + 1 <= m
          BY <2>0, <4>1
        <4>2. CASE ~(i + 1 <= m)
          <5>1. i + 1 = m + 1 /\ (i + 1) - m = 1
            BY <1>1, <2>0, <2>1, <4>2
          <5>2. g[i + 1] = ob[1]
            BY <2>0, <4>2, <5>1
          <5>3. <<>> \o ob[1] = ob[1]
            BY <3>4, ConcatEmptySeq
          <5> QED
            BY <1>5, <5>1, <5>2, <5>3
        <4> QED
          BY <4>1, <4>2
      <3> HIDE DEF g
      <3> QED
        BY <3>1, <3>5, <3>6
    <2>2. CASE ~(i <= m)
      <3>1. i - m \in 1..Len(b) /\ c[i] = b[i - m] /\ (i - m) + 1 = (i + 1) - m /\ ~(i + 1 <= m)
        BY <1>1, <2>2
      <3>2. g[i] = ob[i - m] /\ g[i + 1] = ob[(i + 1) - m]
        BY <2>0, <2>2, <3>1
      <3> HIDE DEF g
      <3> QED
        BY <1>7, <3>1, <3>2
    <2> QED
      BY <2>1, <2>2
  <1>9. g[n + 1] = <<>>
    <2>1. n + 1 \in 1..(n + 1) /\ ~(n + 1 <= m) /\ (n + 1) - m = Len(b) + 1
      BY <1>1
    <2>2. g[n + 1] = ob[(n + 1) - m]
      BY <2>1
    <2> HIDE DEF g
    <2> QED
      BY <1>5, <2>1, <2>2
  <1>10. Leaves(n, succ(n), item(c), g)
    <2> HIDE DEF g
    <2> QED
      BY <1>8, <1>9 DEF Leaves, n
  <1>11. restore(c) = g[1]
    <2> HIDE DEF g
    <2> QED
      BY <1>1, <1>10, RestoreWalks, WalkLeaves DEF restore, n
  <1>12. g[1] = oa[1] \o ob[1]
    <2>0. 1 \in 1..(n + 1) /\ 1 \in 1..(m + 1) /\ 1 \in 1..(Len(b) + 1)
      BY <1>1
    <2>1. CASE 1 <= m
      BY <2>0, <2>1
    <2>2. CASE ~(1 <= m)
      <3>1. m = 0 /\ 1 - m = 1 /\ m + 1 = 1
        BY <1>1, <2>2
      <3>2. g[1] = ob[1]
        BY <2>0, <2>2, <3>1
      <3>3. <<>> \o ob[1] = ob[1]
        BY <1>3, <2>0, ConcatEmptySeq
      <3> QED
        BY <1>5, <3>1, <3>2, <3>3
    <2> QED
      BY <2>1, <2>2
  <1> QED
    BY <1>4, <1>11, <1>12 DEF c
\* restore of one character, and of none.
LEMMA RestoreOne ==
    ASSUME NEW c \in Chars PROVE restore(<<c>>) = plain(c) /\ restore(<<>>) = <<>>
  <1> DEFINE q == <<c>>
             e == <<>>
             out == [i \in 1..2 |-> IF i = 1 THEN plain(c) ELSE <<>>]
             none == [i \in 1..1 |-> <<>>]
  <1>1. q \in Text /\ Len(q) = 1 /\ q[1] = c /\ e \in Text /\ Len(e) = 0
    BY ShortSeqs, Zenon DEF Text
  <1>2. plain(c) \o <<>> = plain(c)
    BY PlainText, ConcatEmptySeq DEF Text
  <1> HIDE DEF q, e
  <1>3. Leaves(1, [i \in 1..1 |-> i + 1], [i \in 1..1 |-> plain(q[i])], out)
    <2>1. out[1] = plain(c) /\ out[2] = <<>>
      OBVIOUS
    <2>2. \A i \in 1..1 : i = 1
      OBVIOUS
    <2>3. [i \in 1..1 |-> i + 1][1] = 2 /\ [i \in 1..1 |-> plain(q[i])][1] = plain(c) /\ 1 + 1 = 2
      <3>1. \A x : x = c => plain(x) = plain(c)
        OBVIOUS
      <3> QED
        BY <1>1, <3>1
    <2> HIDE DEF out
    <2>4. out[1] = plain(c) \o out[2]
      BY <1>2, <2>1
    <2> QED
      BY <2>1, <2>2, <2>3, <2>4 DEF Leaves
  <1>4. Leaves(0, [i \in 1..0 |-> i + 1], [i \in 1..0 |-> plain(e[i])], none)
    BY DEF Leaves
  <1>5. restore(q) = out[1]
    <2> HIDE DEF out
    <2>1. /\ Forward(1, [i \in 1..1 |-> i + 1])
          /\ [i \in 1..1 |-> plain(q[i])] \in [1..1 -> Seq(Chars)]
          /\ restore(q) = Walk(1, [i \in 1..1 |-> i + 1], [i \in 1..1 |-> plain(q[i])])
      BY <1>1, RestoreWalks DEF restore
    <2> QED
      BY <1>3, <2>1, WalkLeaves
  <1>6. restore(e) = none[1]
    <2> HIDE DEF none
    <2>1. /\ Forward(0, [i \in 1..0 |-> i + 1])
          /\ [i \in 1..0 |-> plain(e[i])] \in [1..0 -> Seq(Chars)]
          /\ restore(e) = Walk(0, [i \in 1..0 |-> i + 1], [i \in 1..0 |-> plain(e[i])])
      BY <1>1, RestoreWalks DEF restore
    <2> QED
      BY <1>4, <2>1, WalkLeaves
  <1> QED
    BY <1>5, <1>6 DEF q, e
\* Texts whose characters restore to the same restore to the same.
LEMMA RestoreSame ==
    ASSUME NEW a \in Text, NEW b \in Text, Len(a) = Len(b), \A i \in 1..Len(a) : plain(a[i]) = plain(b[i])
    PROVE  restore(a) = restore(b)
  <1>1. [i \in 1..Len(a) |-> plain(a[i])] = [i \in 1..Len(b) |-> plain(b[i])]
    OBVIOUS
  <1> QED
    BY <1>1 DEF restore

\* restore goes through a walk.
LEMMA RestoreWalk ==
    ASSUME NEW n \in Nat, NEW next, Forward(n, next), NEW item \in [1..n -> Text]
    PROVE  /\ [i \in 1..n |-> restore(item[i])] \in [1..n -> Text]
           /\ Walk(n, next, item) \in Text
           /\ restore(Walk(n, next, item)) = Walk(n, next, [i \in 1..n |-> restore(item[i])])
  <1> DEFINE new == [i \in 1..n |-> restore(item[i])]
  <1>1. new \in [1..n -> Text] /\ item \in [1..n -> Seq(Chars)] /\ new \in [1..n -> Seq(Chars)]
    BY RestoreText DEF Text
  <1>2. PICK out \in [1..(n + 1) -> Seq(Chars)] : Leaves(n, next, item, out)
    BY <1>1, LeavesExists
  <1> DEFINE now == [i \in 1..(n + 1) |-> restore(out[i])]
  <1>3. \A i \in 1..n : next[i] \in 1..(n + 1)
    BY DEF Forward
  <1>4. now[n + 1] = <<>>
    <2>1. n + 1 \in 1..(n + 1) /\ out[n + 1] = <<>>
      BY <1>2 DEF Leaves
    <2>2. restore(<<>>) = <<>>
      <3>1. ":" \in Chars
        BY DEF Chars
      <3> QED
        BY <3>1, RestoreOne
    <2> QED
      BY <2>1, <2>2
  <1>5. ASSUME NEW i \in 1..n PROVE now[i] = new[i] \o now[next[i]]
    <2>1. i \in 1..(n + 1) /\ next[i] \in 1..(n + 1)
      BY <1>3
    <2>2. out[i] = item[i] \o out[next[i]]
      BY <1>2 DEF Leaves
    <2>3. item[i] \in Text /\ out[next[i]] \in Text
      BY <1>2, <2>1 DEF Text
    <2>4. restore(item[i] \o out[next[i]]) = restore(item[i]) \o restore(out[next[i]])
      BY <2>3, RestoreConcat
    <2>5. now[i] = restore(out[i]) /\ now[next[i]] = restore(out[next[i]]) /\ new[i] = restore(item[i])
      BY <2>1
    <2> HIDE DEF now, new
    <2> QED
      BY <2>2, <2>4, <2>5
  <1>6. Leaves(n, next, new, now)
    <2> HIDE DEF now, new
    <2> QED
      BY <1>4, <1>5 DEF Leaves
  <1>7. now[1] = restore(out[1])
    OBVIOUS
  <1> HIDE DEF now, new
  <1>8. Walk(n, next, new) = now[1] /\ Walk(n, next, item) = out[1] /\ Walk(n, next, item) \in Text
    BY <1>1, <1>2, <1>6, WalkLeaves DEF Text
  <1> QED
    BY <1>1, <1>7, <1>8 DEF new

\* The pieces that a walk cuts a text into are the text.
LEMMA WalkPieces ==
    ASSUME NEW q \in Text, NEW next, Forward(Len(q), next)
    PROVE  /\ [i \in 1..Len(q) |-> SubSeq(q, i, next[i] - 1)] \in [1..Len(q) -> Text]
           /\ Walk(Len(q), next, [i \in 1..Len(q) |-> SubSeq(q, i, next[i] - 1)]) = q
  <1> DEFINE n == Len(q)
             item == [i \in 1..n |-> SubSeq(q, i, next[i] - 1)]
             out == [i \in 1..(n + 1) |-> SubSeq(q, i, n)]
  <1>1. n \in Nat /\ q \in Seq(Chars) /\ \A i \in 1..n : next[i] \in 1..(n + 1) /\ next[i] > i
    BY DEF Text, Forward
  <1>2. item \in [1..n -> Seq(Chars)]
    <2>1. ASSUME NEW i \in 1..n PROVE SubSeq(q, i, next[i] - 1) \in Seq(Chars)
      <3>1. i \in Int /\ next[i] - 1 \in Int /\ \A k \in i..(next[i] - 1) : k \in 1..n
        BY <1>1
      <3>2. \A k \in i..(next[i] - 1) : q[k] \in Chars
        BY <1>1, <3>1
      <3> QED
        BY <3>1, <3>2, SubSeqProperties
    <2> QED
      BY <2>1
  <1>3. out[n + 1] = <<>>
    <2>1. SubSeq(q, n + 1, n) = <<>>
      BY <1>1, SubSeqEmpty
    <2> QED
      BY <1>1, <2>1
  <1>4. ASSUME NEW i \in 1..n PROVE out[i] = item[i] \o out[next[i]]
    <2> DEFINE k == next[i] - 1
    <2>1. i \in 1..(n + 1) /\ next[i] \in 1..(n + 1) /\ k \in (i - 1)..n /\ n \in k..n /\ k + 1 = next[i]
      BY <1>1
    <2>2. SubSeq(q, i, k) \o SubSeq(q, k + 1, n) = SubSeq(q, i, n)
      <3> HIDE DEF k
      <3> QED
        BY <1>1, <2>1, ConcatAdjacentSubSeq
    <2>3. out[i] = SubSeq(q, i, n) /\ out[next[i]] = SubSeq(q, next[i], n) /\ item[i] = SubSeq(q, i, k)
      BY <2>1
    <2> HIDE DEF k, out, item
    <2> QED
      BY <2>1, <2>2, <2>3
  <1>5. out[1] = q
    <2>1. SubSeq(q, 1, n) = q
      BY <1>1, SubSeqFull
    <2> QED
      BY <1>1, <2>1
  <1>6. Leaves(n, next, item, out)
    <2> HIDE DEF out, item
    <2> QED
      BY <1>3, <1>4 DEF Leaves
  <1>7. Walk(n, next, item) = out[1]
    <2> HIDE DEF out, item
    <2> QED
      BY <1>1, <1>2, <1>6, WalkLeaves
  <1> QED
    BY <1>2, <1>5, <1>7 DEF Text

\* A walk whose items restore to the pieces of the text it reads, restores to the text.
LEMMA RestorePieces ==
    ASSUME NEW q \in Text, NEW next, Forward(Len(q), next), NEW item \in [1..Len(q) -> Text],
           \A i \in 1..Len(q) : restore(item[i]) = restore(SubSeq(q, i, next[i] - 1))
    PROVE  restore(Walk(Len(q), next, item)) = restore(q)
  <1> DEFINE piece == [i \in 1..Len(q) |-> SubSeq(q, i, next[i] - 1)]
  <1>1. Len(q) \in Nat
    BY DEF Text
  <1>2. piece \in [1..Len(q) -> Text] /\ Walk(Len(q), next, piece) = q
    BY WalkPieces
  <1>3. \A i \in 1..Len(q) : restore(item[i]) = restore(piece[i])
    OBVIOUS
  <1> HIDE DEF piece
  <1>4. [i \in 1..Len(q) |-> restore(item[i])] = [i \in 1..Len(q) |-> restore(piece[i])]
    BY <1>3
  <1>5. restore(Walk(Len(q), next, item)) = Walk(Len(q), next, [i \in 1..Len(q) |-> restore(item[i])])
    BY <1>1, RestoreWalk
  <1>6. restore(Walk(Len(q), next, piece)) = Walk(Len(q), next, [i \in 1..Len(q) |-> restore(piece[i])])
    BY <1>1, <1>2, RestoreWalk
  <1> QED
    BY <1>2, <1>4, <1>5, <1>6
\* The three protections, undone by restore.
LEMMA StraysRestored ==
    ASSUME NEW q \in Text
    PROVE  /\ protectStrayColons(q) \in Text /\ Len(protectStrayColons(q)) = Len(q)
           /\ restore(protectStrayColons(q)) = restore(q)
  <1> DEFINE p == protectStrayColons(q)
             n == Len(q)
             stray(i) == q[i] = ":" /\ (i = n \/ ~isNameStart(q[i + 1]))
  <1>1. n \in Nat /\ \A i \in 1..n : q[i] \in Chars
    BY DEF Text
  <1>2. p = [i \in 1..n |-> IF stray(i) THEN "COLON" ELSE q[i]]
    BY DEF protectStrayColons
  <1>3. \A i \in 1..n : stray(i) => q[i] = ":"
    OBVIOUS
  <1> HIDE DEF stray, p, n
  <1>4. "COLON" \in Chars
    BY DEF Chars
  <1>5. p \in [1..n -> Chars]
    BY <1>1, <1>2, <1>4
  <1>6. p \in Seq(Chars) /\ Len(p) = n
    BY <1>1, <1>5
  <1>7. plain("COLON") = plain(":")
    BY DEF plain
  <1>8. ASSUME NEW i \in 1..n PROVE plain(p[i]) = plain(q[i])
    <2>1. CASE stray(i)
      <3>1. p[i] = "COLON" /\ q[i] = ":"
        BY <1>2, <1>3, <2>1
      <3> QED
        BY <1>7, <3>1
    <2>2. CASE ~stray(i)
      <3>1. p[i] = q[i]
        BY <1>2, <2>2
      <3> QED
        BY <3>1
    <2> QED
      BY <2>1, <2>2
  <1>9. restore(p) = restore(q)
    BY <1>6, <1>8, RestoreSame DEF n, Text
  <1> QED
    BY <1>6, <1>9 DEF p, n, Text

LEMMA ColonsRestored ==
    ASSUME NEW q \in Text, NEW d
    PROVE  protectColons(q, d) \in Text /\ restore(protectColons(q, d)) = restore(q)
  <1> DEFINE n == Len(q)
             next == Past(q, d)
             lit(i) == literalEnd(q, i, d) > i
             item == [i \in 1..n |-> [k \in 1..(next[i] - i) |-> IF lit(i) THEN hide(q[i + k - 1]) ELSE q[i]]]
  <1>1. n \in Nat /\ \A i \in 1..n : q[i] \in Chars
    BY DEF Text
  <1>2. Forward(n, next)
    BY ScannerAdvances
  <1>3. protectColons(q, d) = Walk(n, next, item)
    BY DEF protectColons
  <1>4. \A i \in 1..n : ~lit(i) => next[i] = i + 1
    BY DEF Past
  <1>5. \A c \in Chars : hide(c) \in Chars /\ plain(hide(c)) = plain(c)
    BY DEF hide, plain, Chars
  <1>6. \A i \in 1..n : next[i] \in 1..(n + 1) /\ next[i] > i
    BY <1>2 DEF Forward
  <1> HIDE DEF n, next, lit
  <1>7. ASSUME NEW i \in 1..n
        PROVE  item[i] \in Text /\ restore(item[i]) = restore(SubSeq(q, i, next[i] - 1))
    <2> DEFINE a == item[i]
               b == SubSeq(q, i, next[i] - 1)
               m == next[i] - i
    <2>1. m \in Nat /\ i \in Nat /\ next[i] - 1 \in Int /\ i <= next[i] - 1 /\ (next[i] - 1) - i + 1 = m
      BY <1>1, <1>6
    <2>2. \A k \in 1..m : i + k - 1 \in 1..n
      BY <1>1, <1>6
    <2>3. a = [k \in 1..m |-> IF lit(i) THEN hide(q[i + k - 1]) ELSE q[i]]
      OBVIOUS
    <2>4. a \in [1..m -> Chars]
      <3> HIDE DEF a, m
      <3> QED
        BY <1>1, <1>5, <2>2, <2>3
    <2>5. a \in Text /\ Len(a) = m
      <3> HIDE DEF a, m
      <3> QED
        BY <2>1, <2>4 DEF Text
    <2>6. b \in Text /\ Len(b) = m /\ \A k \in 1..m : b[k] = q[i + k - 1]
      <3>1. \A k \in i..(next[i] - 1) : q[k] \in Chars
        BY <1>1, <1>6
      <3> QED
        BY <2>1, <3>1, SubSeqProperties DEF Text
    <2>7. ASSUME NEW k \in 1..m PROVE plain(a[k]) = plain(b[k])
      <3>1. q[i + k - 1] \in Chars /\ b[k] = q[i + k - 1]
        BY <1>1, <2>2, <2>6
      <3>2. CASE lit(i)
        <4>1. a[k] = hide(q[i + k - 1])
          BY <2>3, <3>2
        <4> HIDE DEF a, b, m
        <4> QED
          BY <1>5, <3>1, <4>1
      <3>3. CASE ~lit(i)
        <4>1. k = 1 /\ i + k - 1 = i
          BY <1>1, <1>4, <3>3
        <4>2. a[k] = q[i]
          BY <2>3, <3>3
        <4> HIDE DEF a, b, m
        <4> QED
          BY <3>1, <4>1, <4>2
      <3> QED
        BY <3>2, <3>3
    <2>8. restore(a) = restore(b)
      <3> HIDE DEF a, b, m
      <3> QED
        BY <2>5, <2>6, <2>7, RestoreSame
    <2> QED
      BY <2>5, <2>8
  <1>8. item \in [1..n -> Text]
    <2>1. item = [i \in 1..n |-> item[i]]
      OBVIOUS
    <2> HIDE DEF item
    <2> QED
      BY <1>7, <2>1
  <1> HIDE DEF item
  <1>9. restore(Walk(n, next, item)) = restore(q)
    BY <1>2, <1>7, <1>8, RestorePieces DEF n
  <1>10. Walk(n, next, item) \in Text
    BY <1>1, <1>2, <1>8, RestoreWalk
  <1> QED
    BY <1>3, <1>9, <1>10

LEMMA CastsRestored ==
    ASSUME NEW q \in Text
    PROVE  protectCasts(q) \in Text /\ restore(protectCasts(q)) = restore(q)
  <1> DEFINE n == Len(q)
             next == [i \in 1..n |-> IF isCast(q, i) THEN i + 2 ELSE i + 1]
             item == [i \in 1..n |-> IF isCast(q, i) THEN <<"CAST">> ELSE <<q[i]>>]
  <1>1. n \in Nat /\ \A i \in 1..n : q[i] \in Chars
    BY DEF Text
  <1>2. \A i \in 1..n : isCast(q, i) => i + 1 <= n /\ i + 1 \in 1..n /\ q[i] = ":" /\ q[i + 1] = ":"
    BY <1>1 DEF isCast, At
  <1>3. Forward(n, next)
    BY <1>1, <1>2 DEF Forward
  <1>4. protectCasts(q) = Walk(n, next, item)
    BY DEF protectCasts
  <1>5. "CAST" \in Chars /\ ":" \in Chars
    BY DEF Chars
  <1>6. item \in [1..n -> Text]
    <2>1. <<"CAST">> \in Text /\ \A i \in 1..n : <<q[i]>> \in Text
      BY <1>1, <1>5, ShortSeqs DEF Text
    <2> QED
      BY <2>1
  <1> HIDE DEF n
  <1>7. ASSUME NEW i \in 1..n PROVE restore(item[i]) = restore(SubSeq(q, i, next[i] - 1))
    <2>0. i \in Int /\ i + 1 \in Int /\ q \in Seq(Chars)
      BY <1>1 DEF Text
    <2>1. CASE isCast(q, i)
      <3>1. item[i] = <<"CAST">> /\ next[i] - 1 = i + 1
        BY <1>1, <2>1
      <3>2. SubSeq(q, i, i + 1) = <<":">> \o <<":">>
        <4>1. i + 1 \in 1..Len(q) /\ i \in 1..Len(q) /\ i \in i..Len(q) /\ i + 1 \in i..Len(q)
              /\ i \in (i - 1)..Len(q) /\ (i + 1) - 1 = i
          BY <1>1, <1>2, <2>1 DEF n
        <4>2. SubSeq(q, i, i + 1) = SubSeq(q, i, i) \o <<q[i + 1]>>
          BY <2>0, <4>1, SubSeqRecursiveSecond
        <4>3. SubSeq(q, i, i) = <<q[i]>>
          BY <2>0, <4>1, SubSeqOne
        <4> QED
          BY <1>2, <2>1, <4>2, <4>3
      <3>3. restore(<<":">> \o <<":">>) = restore(<<":">>) \o restore(<<":">>)
        BY <1>5, ShortSeqs, RestoreConcat DEF Text
      <3>4. restore(<<":">>) = <<":">> /\ restore(<<"CAST">>) = <<":", ":">>
        BY <1>5, RestoreOne DEF plain
      <3>5. <<":", ":">> = <<":">> \o <<":">>
        BY <1>5
      <3> QED
        BY <3>1, <3>2, <3>3, <3>4, <3>5
    <2>2. CASE ~isCast(q, i)
      <3>1. item[i] = <<q[i]>> /\ next[i] - 1 = i
        BY <1>1, <2>2
      <3>2. SubSeq(q, i, i) = <<q[i]>>
        BY <2>0, SubSeqOne DEF n
      <3> QED
        BY <3>1, <3>2
    <2> QED
      BY <2>1, <2>2
  <1> HIDE DEF item, next
  <1>8. restore(Walk(n, next, item)) = restore(q)
    BY <1>3, <1>6, <1>7, RestorePieces DEF n
  <1>9. Walk(n, next, item) \in Text
    BY <1>1, <1>3, <1>6, RestoreWalk
  <1> QED
    BY <1>4, <1>8, <1>9

\* A query without a sentinel has nothing to restore.
LEMMA CleanRestored ==
    ASSUME NEW q \in Text, Clean(q) PROVE restore(q) = q
  <1> DEFINE n == Len(q)
             next == [i \in 1..n |-> i + 1]
  <1>1. n \in Nat /\ \A i \in 1..n : q[i] \in Chars
    BY DEF Text
  <1>2. Forward(n, next) /\ restore(q) = Walk(n, next, [i \in 1..n |-> plain(q[i])])
    BY RestoreWalks DEF restore
  <1>3. \A i \in 1..n : SubSeq(q, i, next[i] - 1) = plain(q[i])
    <2> SUFFICES ASSUME NEW i \in 1..n PROVE SubSeq(q, i, next[i] - 1) = plain(q[i])
      OBVIOUS
    <2>1. next[i] - 1 = i /\ i \in 1..Len(q)
      BY <1>1
    <2>2. SubSeq(q, i, i) = <<q[i]>>
      BY <2>1, SubSeqOne DEF Text
    <2>3. plain(q[i]) = <<q[i]>>
      BY <2>1 DEF Clean, plain
    <2> QED
      BY <2>1, <2>2, <2>3
  <1>4. [i \in 1..n |-> SubSeq(q, i, next[i] - 1)] = [i \in 1..n |-> plain(q[i])]
    BY <1>3
  <1>5. Walk(n, next, [i \in 1..n |-> SubSeq(q, i, next[i] - 1)]) = q
    <2> HIDE DEF next
    <2> QED
      BY <1>2, WalkPieces
  <1> QED
    BY <1>2, <1>4, <1>5
\* restore undoes protectCasts, protectColons and protectStrayColons: a query
\* without a sentinel in it comes back with every character, in both dialects.
THEOREM ProtectRestored ==
    ASSUME NEW q \in Text, Clean(q), NEW d
    PROVE  protect(q, d) \in Text /\ restore(protect(q, d)) = q
  BY CastsRestored, ColonsRestored, StraysRestored, CleanRestored DEF protect

\* A step forward comes nearer to the end.
LEMMA StepsNearer ==
    ASSUME NEW n \in Nat, NEW m \in Nat, NEW x \in 1..n, NEW y \in 1..(n + 1), y > x, n + 1 - x <= m + 1
    PROVE  y \in 1..(n + 1) /\ n + 1 - y <= m
  OBVIOUS

\* Two walks show at k what their items show for the same step.
Together(n, next, a, b) ==
    /\ Len(Walk(n, next, a)) = n /\ Len(Walk(n, next, b)) = n
    /\ \A k \in 1..n : \E i \in 1..k :
          next[i] > k /\ Walk(n, next, a)[k] = a[i][k - i + 1] /\ Walk(n, next, b)[k] = b[i][k - i + 1]
\* Walks whose items are as long as what they stand for keep every place.
LEMMA WalkTogether ==
    ASSUME NEW n \in Nat, NEW next, Forward(n, next), NEW V, NEW W,
           NEW a \in [1..n -> Seq(V)], NEW b \in [1..n -> Seq(W)],
           \A i \in 1..n : Len(a[i]) = next[i] - i /\ Len(b[i]) = next[i] - i
    PROVE  Together(n, next, a, b)
  <1>1. PICK f \in [1..(n + 1) -> Seq(V)] : Leaves(n, next, a, f)
    BY LeavesExists
  <1>2. PICK g \in [1..(n + 1) -> Seq(W)] : Leaves(n, next, b, g)
    BY LeavesExists
  <1>3. Walk(n, next, a) = f[1] /\ Walk(n, next, b) = g[1]
    BY <1>1, <1>2, WalkLeaves
  <1>4. \A x \in 1..n : next[x] \in 1..(n + 1) /\ next[x] > x
    BY DEF Forward
  <1> DEFINE Same(x, k) == \E i \in x..k : next[i] > k /\ f[x][k - x + 1] = a[i][k - i + 1]
                                                     /\ g[x][k - x + 1] = b[i][k - i + 1]
             Good(x) == Len(f[x]) = n + 1 - x /\ Len(g[x]) = n + 1 - x /\ \A k \in x..n : Same(x, k)
             K == {m \in Nat : \A x \in 1..(n + 1) : n + 1 - x <= m => Good(x)}
  <1>5. Good(n + 1)
    BY <1>1, <1>2 DEF Leaves
  <1>6. ASSUME NEW x \in 1..n, Good(next[x]) PROVE Good(x)
    <2> DEFINE y == next[x]
    <2>0. y \in 1..(n + 1) /\ y > x /\ x \in Nat /\ y \in Nat
      BY <1>4
    <2>1. f[x] = a[x] \o f[y] /\ g[x] = b[x] \o g[y]
      BY <1>1, <1>2 DEF Leaves
    <2>2. /\ f[y] \in Seq(V) /\ g[y] \in Seq(W) /\ a[x] \in Seq(V) /\ b[x] \in Seq(W)
          /\ Len(a[x]) = y - x /\ Len(b[x]) = y - x /\ Len(f[y]) = n + 1 - y /\ Len(g[y]) = n + 1 - y
      BY <1>6, <2>0
    <2>3. /\ Len(f[x]) = n + 1 - x
          /\ \A j \in 1..(n + 1 - x) : f[x][j] = IF j <= y - x THEN a[x][j] ELSE f[y][j - (y - x)]
      <3> HIDE DEF y
      <3>1. Len(a[x]) + Len(f[y]) = n + 1 - x
        BY <2>0, <2>2
      <3>2. /\ Len(a[x] \o f[y]) = Len(a[x]) + Len(f[y])
            /\ \A j \in 1..(Len(a[x]) + Len(f[y])) :
                  (a[x] \o f[y])[j] = IF j <= Len(a[x]) THEN a[x][j] ELSE f[y][j - Len(a[x])]
        BY <2>2, ConcatProperties
      <3> QED
        BY <2>1, <2>2, <3>1, <3>2
    <2>4. /\ Len(g[x]) = n + 1 - x
          /\ \A j \in 1..(n + 1 - x) : g[x][j] = IF j <= y - x THEN b[x][j] ELSE g[y][j - (y - x)]
      <3> HIDE DEF y
      <3>1. Len(b[x]) + Len(g[y]) = n + 1 - x
        BY <2>0, <2>2
      <3>2. /\ Len(b[x] \o g[y]) = Len(b[x]) + Len(g[y])
            /\ \A j \in 1..(Len(b[x]) + Len(g[y])) :
                  (b[x] \o g[y])[j] = IF j <= Len(b[x]) THEN b[x][j] ELSE g[y][j - Len(b[x])]
        BY <2>2, ConcatProperties
      <3> QED
        BY <2>1, <2>2, <3>1, <3>2
    <2>5. ASSUME NEW k \in x..n PROVE Same(x, k)
      <3>0. k - x + 1 \in 1..(n + 1 - x) /\ k \in Nat
        BY <2>0
      <3>1. CASE k < y
        <4>1. k - x + 1 <= y - x /\ x \in x..k
          BY <2>0, <3>0, <3>1, SMTT(30)
        <4>2. f[x][k - x + 1] = a[x][k - x + 1] /\ g[x][k - x + 1] = b[x][k - x + 1]
          BY <2>3, <2>4, <3>0, <4>1
        <4> QED
          BY <3>1, <4>1, <4>2
      <3>2. CASE ~(k < y)
        <4>1. k \in y..n /\ ~(k - x + 1 <= y - x) /\ (k - x + 1) - (y - x) = k - y + 1
          <5> HIDE DEF y
          <5> QED
            BY <2>0, <3>0, <3>2
        <4>2. PICK i \in y..k : next[i] > k /\ f[y][k - y + 1] = a[i][k - i + 1] /\ g[y][k - y + 1] = b[i][k - i + 1]
          BY <1>6, <4>1
        <4>3. f[x][k - x + 1] = f[y][k - y + 1] /\ g[x][k - x + 1] = g[y][k - y + 1]
          <5> HIDE DEF y
          <5>1. f[x][k - x + 1] = f[y][(k - x + 1) - (y - x)] /\ g[x][k - x + 1] = g[y][(k - x + 1) - (y - x)]
            BY <2>3, <2>4, <3>0, <4>1, Zenon
          <5> QED
            BY <4>1, <5>1
        <4>4. i \in x..k
          BY <2>0, <3>0
        <4> HIDE DEF y
        <4> QED
          BY <4>2, <4>3, <4>4
      <3> QED
        BY <3>1, <3>2
    <2> HIDE DEF Same
    <2> QED
      BY <2>3, <2>4, <2>5
  <1> HIDE DEF Good
  <1>7. 0 \in K
    <2>1. \A x \in 1..(n + 1) : n + 1 - x <= 0 => x = n + 1
      OBVIOUS
    <2> QED
      BY <1>5, <2>1
  <1>8. ASSUME NEW m \in K PROVE m + 1 \in K
    <2>1. m \in Nat /\ \A x \in 1..(n + 1) : n + 1 - x <= m => Good(x)
      OBVIOUS
    <2>2. ASSUME NEW x \in 1..(n + 1), n + 1 - x <= m + 1 PROVE Good(x)
      <3>1. CASE x = n + 1
        BY <1>5, <3>1
      <3>2. CASE x # n + 1
        <4>1. x \in 1..n
          BY <3>2
        <4>2. next[x] \in 1..(n + 1) /\ n + 1 - next[x] <= m
          <5>1. next[x] \in 1..(n + 1) /\ next[x] > x
            BY <1>4, <4>1
          <5>2. m \in Nat
            BY <2>1
          <5> QED
            BY <2>2, <4>1, <5>1, <5>2, StepsNearer, Zenon
        <4> QED
          BY <1>6, <2>1, <4>1, <4>2
      <3> QED
        BY <3>1, <3>2
    <2> QED
      BY <2>1, <2>2
  <1>9. K = Nat
    <2>1. K \in SUBSET Nat
      OBVIOUS
    <2> HIDE DEF K
    <2> QED
      BY <1>7, <1>8, <2>1, SetInduction
  <1>10. Good(1)
    <2>1. n + 1 \in K
      <3> HIDE DEF K
      <3> QED
        BY <1>9
    <2> QED
      BY <2>1
  <1>11. Len(f[1]) = n /\ Len(g[1]) = n /\ \A k \in 1..n : Same(1, k)
    BY <1>10 DEF Good
  <1>12. \A k \in 1..n : k - 1 + 1 = k
    OBVIOUS
  <1> QED
    BY <1>3, <1>11, <1>12 DEF Together

\* protectColons keeps every place, and hides the colons of literals only.
LEMMA ColonsAt ==
    ASSUME NEW q \in Text, NEW d
    PROVE  /\ Len(protectColons(q, d)) = Len(q)
           /\ \A k \in 1..Len(q) : protectColons(q, d)[k] = IF InLiteral(q, d)[k] THEN hide(q[k]) ELSE q[k]
  <1> DEFINE n == Len(q)
             next == Past(q, d)
             lit(i) == literalEnd(q, i, d) > i
             a == [i \in 1..n |-> [k \in 1..(next[i] - i) |-> IF lit(i) THEN hide(q[i + k - 1]) ELSE q[i]]]
             b == [i \in 1..n |-> [k \in 1..(next[i] - i) |-> lit(i)]]
  <1>1. n \in Nat /\ \A i \in 1..n : q[i] \in Chars
    BY DEF Text
  <1>2. Forward(n, next)
    BY ScannerAdvances
  <1>3. protectColons(q, d) = Walk(n, next, a) /\ InLiteral(q, d) = Walk(n, next, b)
    BY DEF protectColons, InLiteral
  <1>4. \A i \in 1..n : lit(i) \in BOOLEAN /\ (~lit(i) => next[i] = i + 1)
    BY DEF Past
  <1>5. \A c \in Chars : hide(c) \in Chars
    BY DEF hide, Chars
  <1>6. \A i \in 1..n : next[i] \in 1..(n + 1) /\ next[i] > i /\ next[i] - i \in Nat
    BY <1>1, <1>2 DEF Forward
  <1> HIDE DEF n, next, lit
  <1>7. ASSUME NEW i \in 1..n
        PROVE  /\ a[i] \in Seq(Chars) /\ Len(a[i]) = next[i] - i
               /\ b[i] \in Seq(BOOLEAN) /\ Len(b[i]) = next[i] - i
    <2> DEFINE m == next[i] - i
    <2>1. m \in Nat /\ \A k \in 1..m : i + k - 1 \in 1..n
      BY <1>1, <1>6
    <2>2. a[i] = [k \in 1..m |-> IF lit(i) THEN hide(q[i + k - 1]) ELSE q[i]] /\ b[i] = [k \in 1..m |-> lit(i)]
      OBVIOUS
    <2> HIDE DEF a, b
    <2>3. a[i] \in [1..m -> Chars] /\ b[i] \in [1..m -> BOOLEAN]
      <3> HIDE DEF m
      <3> QED
        BY <1>1, <1>4, <1>5, <2>1, <2>2, SMTT(30)
    <2>4. \A S : \A s \in [1..m -> S] : s \in Seq(S) /\ Len(s) = m
      <3> HIDE DEF m
      <3> QED
        BY <2>1
    <2> QED
      BY <2>3, <2>4, Zenon
  <1>8. a \in [1..n -> Seq(Chars)] /\ b \in [1..n -> Seq(BOOLEAN)]
    <2>1. a = [i \in 1..n |-> a[i]] /\ b = [i \in 1..n |-> b[i]]
      OBVIOUS
    <2> HIDE DEF a, b
    <2> QED
      BY <1>7, <2>1
  <1>9. \A i \in 1..n : \A k \in 1..(next[i] - i) :
           a[i][k] = (IF lit(i) THEN hide(q[i + k - 1]) ELSE q[i]) /\ b[i][k] = lit(i)
    OBVIOUS
  <1> HIDE DEF a, b
  <1>10. Together(n, next, a, b)
    <2>1. \A i \in 1..n : Len(a[i]) = next[i] - i /\ Len(b[i]) = next[i] - i
      BY <1>7
    <2> QED
      BY <1>1, <1>2, <1>8, <2>1, WalkTogether, Zenon
  <1>11. ASSUME NEW k \in 1..n
         PROVE  Walk(n, next, a)[k] = IF Walk(n, next, b)[k] THEN hide(q[k]) ELSE q[k]
    <2>1. PICK i \in 1..k : next[i] > k /\ Walk(n, next, a)[k] = a[i][k - i + 1] /\ Walk(n, next, b)[k] = b[i][k - i + 1]
      BY <1>10 DEF Together
    <2>2. i \in 1..n /\ k - i + 1 \in 1..(next[i] - i) /\ i + (k - i + 1) - 1 = k
      BY <1>1, <1>6, <2>1
    <2>3. a[i][k - i + 1] = (IF lit(i) THEN hide(q[k]) ELSE q[i]) /\ b[i][k - i + 1] = lit(i)
      BY <1>9, <2>2
    <2>4. ~lit(i) => i = k
      BY <1>1, <1>4, <2>1, <2>2
    <2> QED
      BY <2>1, <2>3, <2>4, Zenon
  <1> QED
    BY <1>3, <1>10, <1>11 DEF n, Together
\* protect, for every query: sqlx sees a name exactly where a colon outside of
\* literals, quoted names, comments and casts begins one.
THEOREM NamesFound ==
    ASSUME NEW q \in Text, NEW d PROVE NamesAreCode(q, d)
  <1> DEFINE c == protectCasts(q)
             now == protectColons(c, d)
             p == protect(q, d)
             in == InLiteral(c, d)
             n == Len(c)
  <1>1. c \in Text /\ now \in Text /\ n \in Nat
    BY CastsRestored, ColonsRestored DEF Text
  <1>2. Len(now) = n /\ \A k \in 1..n : now[k] = IF in[k] THEN hide(c[k]) ELSE c[k]
    BY <1>1, ColonsAt
  <1>3. Len(p) = n /\ p = [k \in 1..n |-> IF now[k] = ":" /\ (k = n \/ ~isNameStart(now[k + 1])) THEN "COLON" ELSE now[k]]
    BY <1>1, <1>2, StraysRestored DEF protect, protectStrayColons
  <1>4. NamesAreCode(q, d) <=>
           Len(p) = n /\ \A k \in 1..Len(p) : p[k] = ":" <=> c[k] = ":" /\ ~in[k] /\ k < n /\ isNameStart(c[k + 1])
    BY DEF NamesAreCode
  <1> HIDE DEF c, now, p, in, n
  <1>5. \A x : hide(x) # ":" /\ (isNameStart(hide(x)) <=> isNameStart(x))
    BY DEF hide, isNameStart
  <1>6. \A k \in 1..n : (now[k] = ":" <=> c[k] = ":" /\ ~in[k]) /\ (isNameStart(now[k]) <=> isNameStart(c[k]))
    <2> SUFFICES ASSUME NEW k \in 1..n
                 PROVE  (now[k] = ":" <=> c[k] = ":" /\ ~in[k]) /\ (isNameStart(now[k]) <=> isNameStart(c[k]))
      OBVIOUS
    <2>1. CASE in[k]
      BY <1>2, <1>5, <2>1
    <2>2. CASE ~in[k]
      BY <1>2, <2>2
    <2> QED
      BY <2>1, <2>2
  <1>7. ASSUME NEW k \in 1..n PROVE p[k] = ":" <=> c[k] = ":" /\ ~in[k] /\ k < n /\ isNameStart(c[k + 1])
    <2>1. p[k] = IF now[k] = ":" /\ (k = n \/ ~isNameStart(now[k + 1])) THEN "COLON" ELSE now[k]
      BY <1>3
    <2>2. p[k] = ":" <=> now[k] = ":" /\ k # n /\ isNameStart(now[k + 1])
      BY <2>1
    <2>3. k # n <=> k < n
      BY <1>1
    <2>4. k # n => k + 1 \in 1..n
      BY <1>1
    <2> QED
      BY <1>6, <2>2, <2>3, <2>4
  <1> QED
    BY <1>3, <1>4, <1>7

\* A name is one colon and letters or digits.
LEMMA NameIsClean ==
    ASSUME NEW p \in Text, NEW i \in 1..Len(p), p[i] = ":"
    PROVE  restore(SubSeq(p, i, PastName(p)[i] - 1)) = SubSeq(p, i, PastName(p)[i] - 1)
  <1> DEFINE n == Len(p)
             e == PastName(p)[i]
             S == {j \in (i + 1)..n : ~isDollarTagChar(p[j])} \cup {n + 1}
             w == SubSeq(p, i, e - 1)
  <1>1. n \in Nat /\ i \in 1..n /\ \A k \in 1..n : p[k] \in Chars
    BY DEF Text
  <1>2. e = Min(S)
    BY DEF PastName, NameEnd
  <1>3. S \in SUBSET Nat /\ S # {} /\ S \subseteq (i + 1)..(n + 1)
    BY <1>1
  <1>4. e \in S /\ \A y \in S : e <= y
    <2> HIDE DEF S, e
    <2> QED
      BY <1>2, <1>3, LeastIs
  <1>5. e \in (i + 1)..(n + 1)
    BY <1>3, <1>4
  <1>6. \A j \in (i + 1)..(e - 1) : j \in 1..n /\ isDollarTagChar(p[j])
    <2> SUFFICES ASSUME NEW j \in (i + 1)..(e - 1) PROVE j \in 1..n /\ isDollarTagChar(p[j])
      OBVIOUS
    <2> HIDE DEF e, n
    <2>1. j \in (i + 1)..n /\ j \in 1..n /\ ~(e <= j)
      BY <1>1, <1>5
    <2>2. j \notin S
      <3> HIDE DEF S
      <3> QED
        BY <1>4, <2>1
    <2> QED
      BY <2>1, <2>2
  <1> HIDE DEF e, n
  <1>7. w \in Seq(Chars) /\ Len(w) = e - i /\ \A k \in 1..(e - i) : w[k] = p[i + k - 1]
    <2>1. \A j \in i..(e - 1) : p[j] \in Chars
      BY <1>1, <1>5
    <2>2. i \in Int /\ e - 1 \in Int /\ (e - 1) - i + 1 = e - i /\ i <= e - 1
      BY <1>1, <1>5
    <2> QED
      BY <2>1, <2>2, SubSeqProperties
  <1>8. ASSUME NEW k \in 1..Len(w) PROVE w[k] \notin {"CAST", "COLON"}
    <2>1. k \in 1..(e - i) /\ w[k] = p[i + k - 1]
      <3> HIDE DEF w
      <3> QED
        BY <1>7
    <2>2. CASE k = 1
      <3>1. i + k - 1 = i
        BY <1>1, <2>2
      <3> QED
        BY <2>1, <3>1
    <2>3. CASE k # 1
      <3>1. i + k - 1 \in (i + 1)..(e - 1)
        BY <1>1, <1>5, <2>1, <2>3
      <3>2. isDollarTagChar(p[i + k - 1])
        BY <1>6, <3>1
      <3> HIDE DEF w
      <3> QED
        BY <2>1, <3>2 DEF isDollarTagChar
    <2> QED
      BY <2>2, <2>3
  <1>9. restore(w) = w
    <2> HIDE DEF w
    <2> QED
      BY <1>7, <1>8, CleanRestored DEF Text, Clean
  <1> QED
    BY <1>9 DEF e
\* bindQuery, for every query without a sentinel: what sqlx makes of the protected
\* query, restored, is the query with every name replaced by one ?, and nothing
\* else of it has changed.
THEOREM TextKept ==
    ASSUME NEW q \in Text, Clean(q), NEW d PROVE OnlyNamesChange(q, d)
  <1> DEFINE p == protect(q, d)
             n == Len(p)
             next == PastName(p)
             with(name) == Walk(n, next, [i \in 1..n |-> IF p[i] = ":" THEN name[i] ELSE plain(p[i])])
             piece == [i \in 1..n |-> SubSeq(p, i, next[i] - 1)]
             mark == [i \in 1..n |-> <<"?">>]
             item == [i \in 1..n |-> IF p[i] = ":" THEN <<"?">> ELSE <<p[i]>>]
  <1>1. p \in Text /\ restore(p) = q /\ n \in Nat /\ \A i \in 1..n : p[i] \in Chars
    BY ProtectRestored DEF Text
  <1>2. q = with(piece) /\ restore(Walk(n, next, item)) = with(mark) => OnlyNamesChange(q, d)
    BY DEF OnlyNamesChange, compileNamedQuery, Bound, Refused
  <1>3. \A i \in 1..n : p[i] # ":" => next[i] - 1 = i
    BY <1>1 DEF PastName
  <1> HIDE DEF p, n, next
  <1>4. Forward(n, next)
    BY <1>1, ScannerAdvances DEF n, next
  <1>5. q = with(piece)
    <2>1. piece \in [1..n -> Text] /\ Walk(n, next, piece) = p
      BY <1>1, <1>4, WalkPieces DEF n
    <2>2. \A i \in 1..n : restore(piece[i]) = IF p[i] = ":" THEN piece[i] ELSE plain(p[i])
      <3> SUFFICES ASSUME NEW i \in 1..n
                   PROVE  restore(piece[i]) = IF p[i] = ":" THEN piece[i] ELSE plain(p[i])
        OBVIOUS
      <3>0. piece[i] = SubSeq(p, i, next[i] - 1)
        OBVIOUS
      <3> HIDE DEF piece
      <3>1. CASE p[i] = ":"
        BY <1>1, <3>0, <3>1, NameIsClean DEF n, next
      <3>2. CASE p[i] # ":"
        <4>1. SubSeq(p, i, i) = <<p[i]>>
          BY <1>1, SubSeqOne DEF n, Text
        <4>2. restore(<<p[i]>>) = plain(p[i])
          BY <1>1, RestoreOne
        <4>3. piece[i] = <<p[i]>>
          BY <1>3, <3>0, <3>2, <4>1
        <4> QED
          BY <3>2, <4>2, <4>3
      <3> QED
        BY <3>1, <3>2
    <2> HIDE DEF piece
    <2>3. [i \in 1..n |-> restore(piece[i])] = [i \in 1..n |-> IF p[i] = ":" THEN piece[i] ELSE plain(p[i])]
      BY <2>2
    <2>4. restore(Walk(n, next, piece)) = Walk(n, next, [i \in 1..n |-> restore(piece[i])])
      BY <1>1, <1>4, <2>1, RestoreWalk
    <2> QED
      BY <1>1, <2>1, <2>3, <2>4
  <1>6. restore(Walk(n, next, item)) = with(mark)
    <2>0. "?" \in Chars
      BY DEF Chars
    <2>1. <<"?">> \in Text /\ \A i \in 1..n : <<p[i]>> \in Text
      BY <1>1, <2>0, ShortSeqs DEF Text
    <2>2. item \in [1..n -> Text]
      BY <2>1
    <2>3. restore(<<"?">>) = <<"?">>
      BY <2>0, RestoreOne DEF plain
    <2>4. \A i \in 1..n : restore(item[i]) = IF p[i] = ":" THEN mark[i] ELSE plain(p[i])
      <3> SUFFICES ASSUME NEW i \in 1..n
                   PROVE  restore(item[i]) = IF p[i] = ":" THEN mark[i] ELSE plain(p[i])
        OBVIOUS
      <3>1. item[i] = (IF p[i] = ":" THEN <<"?">> ELSE <<p[i]>>) /\ mark[i] = <<"?">>
        OBVIOUS
      <3>2. restore(<<p[i]>>) = plain(p[i])
        BY <1>1, RestoreOne
      <3> HIDE DEF item, mark
      <3>3. CASE p[i] = ":"
        <4>1. item[i] = <<"?">>
          BY <3>1, <3>3
        <4> QED
          BY <2>3, <3>1, <3>3, <4>1
      <3>4. CASE p[i] # ":"
        <4>1. item[i] = <<p[i]>>
          BY <3>1, <3>4
        <4> QED
          BY <3>2, <3>4, <4>1
      <3> QED
        BY <3>3, <3>4
    <2> HIDE DEF item, mark
    <2>5. [i \in 1..n |-> restore(item[i])] = [i \in 1..n |-> IF p[i] = ":" THEN mark[i] ELSE plain(p[i])]
      BY <2>4
    <2>6. restore(Walk(n, next, item)) = Walk(n, next, [i \in 1..n |-> restore(item[i])])
      BY <1>1, <1>4, <2>2, RestoreWalk
    <2> QED
      BY <2>5, <2>6
  <1> QED
    BY <1>2, <1>5, <1>6
\* A sequence of rising numbers, and the numbers on it.
Rising(s) == \A j, k \in 1..Len(s) : j < k => s[j] < s[k]
Listed(s) == {s[k] : k \in 1..Len(s)}

\* A smaller number before a rising sequence.
LEMMA RisingBefore ==
    ASSUME NEW s \in Seq(Nat), Rising(s), NEW x \in Nat, \A v \in Listed(s) : x < v
    PROVE  <<x>> \o s \in Seq(Nat) /\ Rising(<<x>> \o s) /\ Listed(<<x>> \o s) = {x} \cup Listed(s)
  <1> DEFINE t == <<x>> \o s
             m == Len(s)
  <1>1. <<x>> \in Seq(Nat) /\ Len(<<x>>) = 1 /\ <<x>>[1] = x
    BY ShortSeqs
  <1>2. m \in Nat /\ \A k \in 1..m : s[k] \in Nat
    OBVIOUS
  <1>3. /\ t \in Seq(Nat) /\ Len(t) = m + 1
        /\ \A k \in 1..(m + 1) : t[k] = IF k <= 1 THEN <<x>>[k] ELSE s[k - 1]
    <2>1. /\ t \in Seq(Nat) /\ Len(t) = Len(<<x>>) + m
          /\ \A k \in 1..(Len(<<x>>) + m) : t[k] = IF k <= Len(<<x>>) THEN <<x>>[k] ELSE s[k - Len(<<x>>)]
      BY <1>1, ConcatProperties
    <2>2. Len(<<x>>) + m = m + 1
      BY <1>1, <1>2
    <2> HIDE DEF t, m
    <2> QED
      BY <1>1, <2>1, <2>2
  <1> HIDE DEF t
  <1>4. t[1] = x /\ \A k \in 2..(m + 1) : t[k] = s[k - 1] /\ k - 1 \in 1..m
    <2>1. 1 \in 1..(m + 1) /\ \A k \in 2..(m + 1) : k \in 1..(m + 1) /\ ~(k <= 1) /\ k - 1 \in 1..m
      BY <1>2
    <2> QED
      BY <1>1, <1>3, <2>1
  <1>5. \A k \in 1..(m + 1) : k = 1 \/ k \in 2..(m + 1)
    BY <1>2
  <1>6. Rising(t)
    <2> SUFFICES ASSUME NEW j \in 1..(m + 1), NEW k \in 1..(m + 1), j < k PROVE t[j] < t[k]
      BY <1>3 DEF Rising
    <2>1. k \in 2..(m + 1) /\ t[k] = s[k - 1] /\ k - 1 \in 1..m
      BY <1>2, <1>4
    <2>2. CASE j = 1
      <3>1. s[k - 1] \in Listed(s)
        BY <2>1 DEF Listed
      <3> QED
        BY <1>4, <2>1, <2>2, <3>1
    <2>3. CASE j # 1
      <3>1. t[j] = s[j - 1] /\ j - 1 \in 1..m /\ j - 1 < k - 1
        BY <1>4, <1>5, <2>1, <2>3
      <3> QED
        BY <2>1, <3>1 DEF Rising
    <2> QED
      BY <2>2, <2>3
  <1>7. Listed(t) = {x} \cup Listed(s)
    <2>1. ASSUME NEW v \in Listed(t) PROVE v \in {x} \cup Listed(s)
      <3>1. PICK k \in 1..(m + 1) : v = t[k]
        BY <1>3 DEF Listed
      <3> QED
        BY <1>4, <1>5, <3>1 DEF Listed
    <2>2. x \in Listed(t)
      BY <1>2, <1>3, <1>4 DEF Listed
    <2>3. ASSUME NEW v \in Listed(s) PROVE v \in Listed(t)
      <3>1. PICK k \in 1..m : v = s[k]
        BY DEF Listed
      <3>2. k + 1 \in 2..(m + 1) /\ (k + 1) - 1 = k /\ k + 1 \in 1..(m + 1)
        BY <1>2
      <3>3. v = t[k + 1]
        BY <1>4, <3>1, <3>2
      <3> QED
        BY <1>3, <3>2, <3>3 DEF Listed
    <2> QED
      BY <2>1, <2>2, <2>3
  <1> QED
    BY <1>3, <1>6, <1>7 DEF t
\* placeholderIndexes, for every text: each ? outside of literals once, from left
\* to right, and nothing else; expandSlices and rebind count on it.
THEOREM PlaceholdersFound ==
    ASSUME NEW q \in Text, NEW d PROVE IndexesInOrder(q, d)
  <1> DEFINE n == Len(q)
             next == Past(q, d)
             lit(i) == literalEnd(q, i, d) > i
             a == [i \in 1..n |-> IF q[i] = "?" /\ literalEnd(q, i, d) = i THEN <<i>> ELSE <<>>]
             b == [i \in 1..n |-> [k \in 1..(next[i] - i) |-> lit(i)]]
  <1>1. n \in Nat
    BY DEF Text
  <1>2. Forward(n, next)
    BY ScannerAdvances
  <1>3. placeholderIndexes(q, d) = Walk(n, next, a) /\ InLiteral(q, d) = Walk(n, next, b)
    BY DEF placeholderIndexes, InLiteral
  <1>4. \A i \in 1..n : lit(i) \in BOOLEAN /\ (~lit(i) => next[i] = i + 1 /\ literalEnd(q, i, d) = i)
    <2> SUFFICES ASSUME NEW i \in 1..n
                 PROVE  lit(i) \in BOOLEAN /\ (~lit(i) => next[i] = i + 1 /\ literalEnd(q, i, d) = i)
      OBVIOUS
    <2>1. literalEnd(q, i, d) \in i..(n + 1)
      BY LiteralEnds
    <2>2. next[i] = IF lit(i) THEN literalEnd(q, i, d) ELSE i + 1
      BY DEF Past
    <2> QED
      BY <1>1, <2>1, <2>2
  <1>5. \A i \in 1..n : lit(i) => literalEnd(q, i, d) # i
    BY <1>1
  <1>6. \A i \in 1..n : next[i] \in 1..(n + 1) /\ next[i] > i /\ next[i] - i \in Nat
    BY <1>1, <1>2 DEF Forward
  <1>7. \A i \in 1..n : a[i] = IF q[i] = "?" /\ ~lit(i) THEN <<i>> ELSE <<>>
    <2> HIDE DEF lit
    <2> QED
      BY <1>4, <1>5
  <1>8. a \in [1..n -> Seq(Nat)]
    <2>1. \A i \in 1..n : <<i>> \in Seq(Nat) /\ <<>> \in Seq(Nat)
      BY ShortSeqs
    <2> QED
      BY <2>1
  <1> HIDE DEF n, next, lit
  <1>9. \A i \in 1..n : b[i] \in Seq(BOOLEAN) /\ Len(b[i]) = next[i] - i /\ \A k \in 1..(next[i] - i) : b[i][k] = lit(i)
    <2> SUFFICES ASSUME NEW i \in 1..n
                 PROVE  b[i] \in Seq(BOOLEAN) /\ Len(b[i]) = next[i] - i /\ \A k \in 1..(next[i] - i) : b[i][k] = lit(i)
      OBVIOUS
    <2> DEFINE m == next[i] - i
    <2>1. m \in Nat /\ lit(i) \in BOOLEAN
      BY <1>4, <1>6
    <2>2. b[i] = [k \in 1..m |-> lit(i)]
      OBVIOUS
    <2> HIDE DEF b, m
    <2>3. b[i] \in [1..m -> BOOLEAN]
      BY <2>1, <2>2
    <2>4. \A S : \A s \in [1..m -> S] : s \in Seq(S) /\ Len(s) = m
      BY <2>1
    <2> QED
      BY <2>2, <2>3, <2>4, Zenon DEF m
  <1>10. b \in [1..n -> Seq(BOOLEAN)]
    <2>1. b = [i \in 1..n |-> b[i]]
      OBVIOUS
    <2> HIDE DEF b
    <2> QED
      BY <1>9, <2>1
  <1> HIDE DEF a, b
  <1>11. PICK f \in [1..(n + 1) -> Seq(Nat)] : Leaves(n, next, a, f)
    BY <1>1, <1>2, <1>8, LeavesExists
  <1>12. PICK g \in [1..(n + 1) -> Seq(BOOLEAN)] : Leaves(n, next, b, g)
    BY <1>1, <1>2, <1>10, LeavesExists
  <1>13. Walk(n, next, a) = f[1] /\ Walk(n, next, b) = g[1]
    BY <1>1, <1>2, <1>8, <1>10, <1>11, <1>12, WalkLeaves
  <1> DEFINE Marks(x) == {k \in x..n : q[k] = "?" /\ ~g[x][k - x + 1]}
             Good(x) == Len(g[x]) = n + 1 - x /\ Rising(f[x]) /\ Listed(f[x]) = Marks(x)
             K == {m \in Nat : \A x \in 1..(n + 1) : n + 1 - x <= m => Good(x)}
  <1>14. Good(n + 1)
    <2>1. f[n + 1] = <<>> /\ g[n + 1] = <<>> /\ Len(<<>>) = 0
      BY <1>11, <1>12, ShortSeqs DEF Leaves
    <2>2. Rising(<<>>) /\ Listed(<<>>) = {}
      BY <2>1 DEF Rising, Listed
    <2>3. Marks(n + 1) = {}
      BY <1>1
    <2> QED
      BY <1>1, <2>1, <2>2, <2>3
  <1>15. ASSUME NEW x \in 1..n, Good(next[x]) PROVE Good(x)
    <2> DEFINE y == next[x]
    <2>0. y \in 1..(n + 1) /\ y > x /\ x \in Nat /\ y \in Nat
      BY <1>1, <1>6
    <2>1. f[x] = a[x] \o f[y] /\ g[x] = b[x] \o g[y]
      BY <1>11, <1>12 DEF Leaves
    <2>2. /\ f[y] \in Seq(Nat) /\ g[y] \in Seq(BOOLEAN) /\ b[x] \in Seq(BOOLEAN)
          /\ Len(b[x]) = y - x /\ Len(g[y]) = n + 1 - y
      BY <1>9, <1>15, <2>0
    <2> HIDE DEF y
    <2>3. /\ Len(g[x]) = n + 1 - x
          /\ \A j \in 1..(n + 1 - x) : g[x][j] = IF j <= y - x THEN b[x][j] ELSE g[y][j - (y - x)]
      <3>1. Len(b[x]) + Len(g[y]) = n + 1 - x
        BY <1>1, <2>0, <2>2
      <3>2. /\ Len(b[x] \o g[y]) = Len(b[x]) + Len(g[y])
            /\ \A j \in 1..(Len(b[x]) + Len(g[y])) :
                  (b[x] \o g[y])[j] = IF j <= Len(b[x]) THEN b[x][j] ELSE g[y][j - Len(b[x])]
        BY <2>2, ConcatProperties
      <3> QED
        BY <2>1, <2>2, <3>1, <3>2
    <2>4. \A k \in x..n : k < y => g[x][k - x + 1] = lit(x)
      <3> SUFFICES ASSUME NEW k \in x..n, k < y PROVE g[x][k - x + 1] = lit(x)
        OBVIOUS
      <3>1. k - x + 1 \in 1..(n + 1 - x) /\ k - x + 1 <= y - x /\ k - x + 1 \in 1..(y - x)
        BY <1>1, <2>0
      <3> QED
        BY <1>9, <2>3, <3>1 DEF y
    <2>5. \A k \in x..n : ~(k < y) => k \in y..n /\ g[x][k - x + 1] = g[y][k - y + 1]
      <3> SUFFICES ASSUME NEW k \in x..n, ~(k < y) PROVE k \in y..n /\ g[x][k - x + 1] = g[y][k - y + 1]
        OBVIOUS
      <3>1. /\ k - x + 1 \in 1..(n + 1 - x) /\ ~(k - x + 1 <= y - x) /\ (k - x + 1) - (y - x) = k - y + 1
            /\ k \in y..n
        BY <1>1, <2>0
      <3>2. g[x][k - x + 1] = g[y][(k - x + 1) - (y - x)]
        BY <2>3, <3>1, Zenon
      <3> QED
        BY <3>1, <3>2
    <2>6. Rising(f[y]) /\ Listed(f[y]) = Marks(y) /\ \A v \in Listed(f[y]) : x < v /\ v \in Nat
      <3>1. Rising(f[y]) /\ Listed(f[y]) = Marks(y)
        BY <1>15 DEF y
      <3>2. \A v \in Marks(y) : v \in y..n
        OBVIOUS
      <3>3. \A v \in y..n : x < v /\ v \in Nat
        BY <1>1, <2>0
      <3> HIDE DEF Marks
      <3> QED
        BY <3>1, <3>2, <3>3
    <2>7. y..n \subseteq x..n /\ \A k \in y..n : ~(k < y)
      BY <1>1, <2>0
    <2>8. Marks(x) = (IF q[x] = "?" /\ ~lit(x) THEN {x} ELSE {}) \cup Marks(y)
      <3>1. CASE lit(x)
        <4>1. ASSUME NEW k \in Marks(x) PROVE k \in Marks(y)
          BY <2>4, <2>5, <3>1, <4>1
        <4>2. ASSUME NEW k \in Marks(y) PROVE k \in Marks(x)
          BY <2>5, <2>7, <4>2
        <4> QED
          BY <3>1, <4>1, <4>2
      <3>2. CASE ~lit(x)
        <4>0. y = x + 1 /\ x \in x..n /\ x < y /\ \A k \in x..n : k < y => k = x
          BY <1>1, <1>4, <2>0, <3>2 DEF y
        <4>1. ASSUME NEW k \in Marks(x), k # x PROVE k \in Marks(y)
          BY <2>5, <4>0, <4>1
        <4>2. ASSUME NEW k \in Marks(y) PROVE k \in Marks(x)
          BY <2>5, <2>7, <4>2
        <4>3. x \in Marks(x) <=> q[x] = "?"
          BY <2>4, <3>2, <4>0
        <4>4. x \notin Marks(y)
          BY <2>0
        <4> HIDE DEF Marks
        <4> QED
          BY <3>2, <4>1, <4>2, <4>3, <4>4
      <3> QED
        BY <3>1, <3>2
    <2> HIDE DEF Marks
    <2>9. Rising(f[x]) /\ Listed(f[x]) = Marks(x)
      <3>1. CASE q[x] = "?" /\ ~lit(x)
        <4>1. f[x] = <<x>> \o f[y]
          BY <1>7, <2>1, <3>1
        <4>2. Rising(<<x>> \o f[y]) /\ Listed(<<x>> \o f[y]) = {x} \cup Listed(f[y])
          BY <2>0, <2>2, <2>6, RisingBefore
        <4> QED
          BY <2>6, <2>8, <3>1, <4>1, <4>2
      <3>2. CASE ~(q[x] = "?" /\ ~lit(x))
        <4>1. f[x] = f[y]
          <5>1. a[x] = <<>>
            BY <1>7, <3>2
          <5>2. <<>> \o f[y] = f[y]
            BY <2>2, ConcatEmptySeq
          <5> QED
            BY <2>1, <5>1, <5>2
        <4> QED
          BY <2>6, <2>8, <3>2, <4>1
      <3> QED
        BY <3>1, <3>2
    <2> QED
      BY <2>3, <2>9
  <1> HIDE DEF Good
  <1>16. 0 \in K
    <2>1. \A x \in 1..(n + 1) : n + 1 - x <= 0 => x = n + 1
      BY <1>1
    <2> QED
      BY <1>14, <2>1
  <1>17. ASSUME NEW m \in K PROVE m + 1 \in K
    <2>1. m \in Nat /\ \A x \in 1..(n + 1) : n + 1 - x <= m => Good(x)
      OBVIOUS
    <2>2. ASSUME NEW x \in 1..(n + 1), n + 1 - x <= m + 1 PROVE Good(x)
      <3>1. CASE x = n + 1
        BY <1>14, <3>1
      <3>2. CASE x # n + 1
        <4>1. x \in 1..n
          BY <1>1, <3>2
        <4>2. next[x] \in 1..(n + 1) /\ n + 1 - next[x] <= m
          BY <1>1, <1>6, <2>1, <2>2, <4>1, SMTT(30)
        <4> QED
          BY <1>15, <2>1, <4>1, <4>2
      <3> QED
        BY <3>1, <3>2
    <2> QED
      BY <2>1, <2>2
  <1>18. K = Nat
    <2>1. K \in SUBSET Nat
      OBVIOUS
    <2> HIDE DEF K
    <2> QED
      BY <1>16, <1>17, <2>1, SetInduction
  <1>19. Good(1)
    <2>1. n + 1 \in K
      <3> HIDE DEF K
      <3> QED
        BY <1>1, <1>18
    <2> QED
      BY <1>1, <2>1
  <1>20. Rising(f[1]) /\ Listed(f[1]) = {k \in 1..n : q[k] = "?" /\ ~g[1][k]}
    <2>1. \A k \in 1..n : k - 1 + 1 = k
      OBVIOUS
    <2> QED
      BY <1>19, <2>1 DEF Good
  <1> QED
    BY <1>3, <1>13, <1>20 DEF IndexesInOrder, Rising, Listed, n

\* FlattenSeq of sequences of one.
LEMMA FlattenOnes ==
    ASSUME NEW V, NEW v \in Seq(V)
    PROVE  FlattenSeq([i \in 1..Len(v) |-> <<v[i]>>]) = v
  <1> DEFINE n == Len(v)
             s == [i \in 1..n |-> <<v[i]>>]
             g == [i \in 1..n |-> SubSeq(v, 1, i)]
             ff == CHOOSE f : f = [i \in 1..n |-> IF i = 1 THEN s[i] ELSE f[i - 1] \o s[i]]
  <1>1. n \in Nat /\ \A i \in 1..n : v[i] \in V
    OBVIOUS
  <1>2. Len(s) = n
    <2>1. \A i \in 1..n : <<v[i]>> \in Seq(V)
      BY <1>1, ShortSeqs
    <2> QED
      BY <1>1, <2>1
  <1>3. CASE n = 0
    <2>1. FlattenSeq(s) = s
      <3> HIDE DEF s, n
      <3> QED
        BY <1>2, <1>3 DEF FlattenSeq
    <2>2. s = v
      BY <1>3
    <2> QED
      BY <2>1, <2>2
  <1>4. CASE n # 0
    <2>1. FlattenSeq(s) = ff[n]
      <3> HIDE DEF s, n
      <3> QED
        BY <1>2, <1>4 DEF FlattenSeq
    <2>2. \A i \in 1..n : SubSeq(v, 1, i) = IF i = 1 THEN <<v[i]>> ELSE SubSeq(v, 1, i - 1) \o <<v[i]>>
      <3> SUFFICES ASSUME NEW i \in 1..n
                   PROVE  SubSeq(v, 1, i) = IF i = 1 THEN <<v[i]>> ELSE SubSeq(v, 1, i - 1) \o <<v[i]>>
        OBVIOUS
      <3>1. 1 \in 1..Len(v) /\ i \in 1..Len(v)
        BY <1>1
      <3>2. SubSeq(v, 1, 1) = <<v[1]>>
        BY <3>1, SubSeqOne
      <3>3. SubSeq(v, 1, i) = SubSeq(v, 1, i - 1) \o <<v[i]>>
        BY <3>1, SubSeqRecursiveSecond
      <3> QED
        BY <3>2, <3>3
    <2>3. g = [i \in 1..n |-> IF i = 1 THEN s[i] ELSE g[i - 1] \o s[i]]
      <3>1. \A i \in 1..n : g[i] = IF i = 1 THEN s[i] ELSE g[i - 1] \o s[i]
        <4> SUFFICES ASSUME NEW i \in 1..n PROVE g[i] = IF i = 1 THEN s[i] ELSE g[i - 1] \o s[i]
          OBVIOUS
        <4>1. s[i] = <<v[i]>> /\ g[i] = SubSeq(v, 1, i)
          OBVIOUS
        <4>2. i # 1 => g[i - 1] = SubSeq(v, 1, i - 1)
          BY <1>1
        <4> HIDE DEF g, s
        <4> QED
          BY <2>2, <4>1, <4>2
      <3>2. g = [i \in 1..n |-> g[i]]
        OBVIOUS
      <3> HIDE DEF g, s, n
      <3> QED
        BY <3>1, <3>2
    <2>4. ff = [i \in 1..n |-> IF i = 1 THEN s[i] ELSE ff[i - 1] \o s[i]]
      <3> HIDE DEF g, s, n
      <3>1. \E f : f = [i \in 1..n |-> IF i = 1 THEN s[i] ELSE f[i - 1] \o s[i]]
        BY <2>3
      <3> QED
        BY <3>1, Zenon
    <2> HIDE DEF ff, s
    <2> DEFINE K == {k \in Nat : \A i \in 1..n : i <= k => ff[i] = g[i]}
    <2>5. 0 \in K
      BY <1>1
    <2>6. ASSUME NEW k \in K PROVE k + 1 \in K
      <3>1. k \in Nat /\ \A i \in 1..n : i <= k => ff[i] = g[i]
        OBVIOUS
      <3>2. ASSUME NEW i \in 1..n, i <= k + 1 PROVE ff[i] = g[i]
        <4>1. ff[i] = (IF i = 1 THEN s[i] ELSE ff[i - 1] \o s[i])
          BY <2>4
        <4>2. g[i] = (IF i = 1 THEN s[i] ELSE g[i - 1] \o s[i])
          <5> HIDE DEF g
          <5> QED
            BY <2>3
        <4>3. i # 1 => i - 1 \in 1..n /\ i - 1 <= k
          BY <1>1, <3>1, <3>2
        <4> HIDE DEF g, n
        <4> QED
          BY <3>1, <4>1, <4>2, <4>3
      <3> QED
        BY <3>1, <3>2
    <2>7. K = Nat
      <3>1. K \in SUBSET Nat
        OBVIOUS
      <3> HIDE DEF K
      <3> QED
        BY <2>5, <2>6, <3>1, SetInduction
    <2>8. ff[n] = g[n]
      <3>1. n \in K
        <4> HIDE DEF K
        <4> QED
          BY <1>1, <2>7
      <3>2. n \in 1..n /\ n <= n
        BY <1>1, <1>4
      <3> HIDE DEF g, n
      <3> QED
        BY <3>1, <3>2
    <2>9. g[n] = v
      <3>1. g[n] = SubSeq(v, 1, n)
        BY <1>1, <1>4
      <3>2. SubSeq(v, 1, n) = v
        BY SubSeqFull
      <3> QED
        BY <3>1, <3>2
    <2> QED
      BY <2>1, <2>8, <2>9 DEF s
  <1> QED
    BY <1>3, <1>4

\* The indexes are numbers.
LEMMA IndexesText == ASSUME NEW q \in Text, NEW d PROVE placeholderIndexes(q, d) \in Seq(Nat)
  <1> DEFINE n == Len(q)
             a == [i \in 1..n |-> IF q[i] = "?" /\ literalEnd(q, i, d) = i THEN <<i>> ELSE <<>>]
  <1>1. n \in Nat /\ Forward(n, Past(q, d))
    BY ScannerAdvances DEF Text
  <1>2. a \in [1..n -> Seq(Nat)]
    <2>1. \A i \in 1..n : <<i>> \in Seq(Nat) /\ <<>> \in Seq(Nat)
      BY ShortSeqs
    <2> QED
      BY <2>1
  <1>3. placeholderIndexes(q, d) = Walk(n, Past(q, d), a)
    BY DEF placeholderIndexes
  <1> HIDE DEF n, a
  <1> QED
    BY <1>1, <1>2, <1>3, WalkLeaves

\* In a rising sequence, as many values as k are not above the k-th.
LEMMA RisingCount ==
    ASSUME NEW m \in Nat, NEW f, \A j \in 1..m : f[j] \in Nat \ {0},
           \A i, j \in 1..m : i < j => f[i] < f[j], NEW k \in 1..m
    PROVE  Cardinality({f[j] : j \in 1..m} \cap 1..f[k]) = k
  <1> DEFINE S == 1..k
             T == {f[j] : j \in 1..m} \cap 1..f[k]
             g == [j \in S |-> f[j]]
  <1>1. k \in Nat /\ S \subseteq 1..m
    OBVIOUS
  <1>2. \A j \in S : f[j] \in T
    <2> SUFFICES ASSUME NEW j \in S PROVE f[j] \in T
      OBVIOUS
    <2>1. j = k \/ j < k
      BY <1>1
    <2>2. j \in 1..m /\ f[j] \in Nat \ {0} /\ f[k] \in Nat \ {0} /\ f[j] <= f[k]
      BY <1>1, <2>1
    <2> QED
      BY <2>2
  <1>3. \A t \in T : \E j \in S : f[j] = t
    <2> SUFFICES ASSUME NEW t \in T PROVE \E j \in S : f[j] = t
      OBVIOUS
    <2>1. PICK j \in 1..m : f[j] = t
      OBVIOUS
    <2>2. f[j] <= f[k] /\ f[j] \in Nat /\ f[k] \in Nat
      BY <2>1
    <2>3. ~(k < j)
      BY <2>2
    <2> QED
      BY <1>1, <2>1, <2>3
  <1>4. \A i, j \in S : f[i] = f[j] => i = j
    <2> SUFFICES ASSUME NEW i \in S, NEW j \in S, f[i] = f[j] PROVE i = j
      OBVIOUS
    <2>1. i \in 1..m /\ j \in 1..m /\ f[i] \in Nat
      BY <1>1
    <2>2. ~(i < j) /\ ~(j < i)
      BY <2>1
    <2> QED
      BY <2>2
  <1> HIDE DEF S, T
  <1>5. ExistsBijection(S, T)
    <2>1. g \in [S -> T] /\ \A i, j \in S : g[i] = g[j] => i = j
      BY <1>2, <1>4
    <2>2. \A t \in T : \E j \in S : g[j] = t
      BY <1>3
    <2> HIDE DEF g
    <2>3. g \in Bijection(S, T)
      BY <2>1, <2>2 DEF Bijection, Injection, Surjection, IsInjective
    <2> QED
      BY <2>3 DEF ExistsBijection
  <1>6. IsFiniteSet(S) /\ Cardinality(S) = k
    BY <1>1, FS_Interval DEF S
  <1>7. Cardinality(T) = Cardinality(S)
    BY <1>5, <1>6, FS_Bijection
  <1> QED
    BY <1>6, <1>7 DEF T

(* For every driver and every text, a ? outside of literals becomes the    *)
(* mark, in the driver's syntax, that has its number among them, and no    *)
(* other character is touched (rebind, driven by placeholderIndexes).      *)
THEOREM PlaceholdersNumbered ==
    ASSUME NEW q \in Text, NEW driver PROVE NumberedInOrder(q, driver)
  <1> DEFINE d == driver.dialect
             mark(k) == Mark(driver.bind, k)
             idx == placeholderIndexes(q, d)
             n == Len(q)
             m == Len(idx)
             ph == {k \in 1..n : q[k] = "?" /\ ~InLiteral(q, d)[k]}
             new == [k \in 1..m |-> <<mark(k)>>]
             which(i) == SelectInSeq(idx, LAMBDA j : j = i)
             item == [i \in 1..n |-> IF i \in ToSet(idx) THEN new[which(i)] ELSE <<q[i]>>]
             v == [i \in 1..n |-> IF i \in ToSet(idx) THEN mark(which(i)) ELSE q[i]]
             V == {v[i] : i \in 1..n}
             r == rebind(q, driver)
  <1>1. n \in Nat
    BY DEF Text
  <1>2. driver.bind # "question" => r = FlattenSeq(item)
    BY DEF rebind, ReplacePlaceholders
  <1>3. IndexesInOrder(q, d)
    BY PlaceholdersFound
  <1>4. idx \in Seq(Nat)
    BY IndexesText
  <1>5. /\ \A j, k \in 1..m : j < k => idx[j] < idx[k]
        /\ {idx[k] : k \in 1..m} = ph
        /\ \A k \in 1..m : idx[k] \in 1..n
    BY <1>3 DEF IndexesInOrder
  <1>6. m \in Nat /\ DOMAIN idx = 1..m /\ \A k \in 1..m : idx[k] \in Nat
    BY <1>4
  <1> HIDE DEF idx, n, m
  <1>7. ToSet(idx) = {idx[k] : k \in 1..m}
    BY <1>6 DEF ToSet
  <1>8. ASSUME NEW k \in 1..m PROVE which(idx[k]) = k
    <2> DEFINE I == {j \in 1..m : idx[j] = idx[k]}
    <2>1. I = {k}
      <3>1. ASSUME NEW j \in 1..m, idx[j] = idx[k] PROVE j = k
        <4>1. ~(j < k) /\ ~(k < j)
          BY <1>5, <1>6, <3>1
        <4> QED
          BY <1>6, <4>1
      <3> QED
        BY <3>1
    <2>2. which(idx[k]) = Min(I)
      BY <2>1 DEF SelectInSeq, m
    <2>3. Min(I) \in I
      <3>1. I \in SUBSET Nat /\ I # {}
        BY <1>6, <2>1
      <3> HIDE DEF I
      <3> QED
        BY <3>1, LeastIs
    <2> QED
      BY <2>1, <2>2, <2>3
  <1> HIDE DEF which
  <1>9. item = [i \in 1..n |-> <<v[i]>>]
    <2>1. ASSUME NEW i \in 1..n PROVE (IF i \in ToSet(idx) THEN new[which(i)] ELSE <<q[i]>>) = <<v[i]>>
      <3>1. CASE i \in ToSet(idx)
        <4>1. PICK k \in 1..m : i = idx[k]
          BY <1>7, <3>1
        <4>2. which(i) = k
          BY <1>8, <4>1
        <4> QED
          BY <3>1, <4>2
      <3>2. CASE i \notin ToSet(idx)
        BY <3>2
      <3> QED
        BY <3>1, <3>2
    <2> HIDE DEF v, new
    <2> QED
      BY <2>1
  <1>10. v \in Seq(V) /\ Len(v) = n
    <2>1. v \in [1..n -> V]
      OBVIOUS
    <2> HIDE DEF v, V
    <2> QED
      BY <1>1, <2>1
  <1>11. FlattenSeq([i \in 1..Len(v) |-> <<v[i]>>]) = v
    <2> HIDE DEF v, V
    <2> QED
      BY <1>10, FlattenOnes
  <1>12. driver.bind # "question" => r = v
    <2> HIDE DEF v, V, item, r
    <2> QED
      BY <1>2, <1>9, <1>10, <1>11
  <1>13. ASSUME NEW i \in 1..n PROVE v[i] = IF i \in ph THEN mark(Cardinality(ph \cap 1..i)) ELSE q[i]
    <2>1. CASE i \in ph
      <3>1. PICK k \in 1..m : i = idx[k]
        BY <1>5, <2>1
      <3>2. which(i) = k /\ i \in ToSet(idx)
        BY <1>7, <1>8, <3>1
      <3>3. \A j \in 1..m : idx[j] \in Nat \ {0}
        BY <1>1, <1>5
      <3> HIDE DEF ph
      <3>4. Cardinality({idx[j] : j \in 1..m} \cap 1..idx[k]) = k
        BY <1>5, <1>6, <3>3, RisingCount
      <3>5. Cardinality(ph \cap 1..i) = k
        BY <1>5, <3>1, <3>4
      <3> QED
        BY <2>1, <3>2, <3>5
    <2>2. CASE i \notin ph
      <3>1. i \notin ToSet(idx)
        BY <1>5, <1>7, <2>2
      <3> QED
        BY <2>2, <3>1
    <2> QED
      BY <2>1, <2>2
  <1> HIDE DEF v
  <1>14. CASE driver.bind # "question"
    <2>1. r = v
      BY <1>12, <1>14
    <2> HIDE DEF r
    <2> QED
      BY <1>10, <1>13, <2>1 DEF NumberedInOrder, n, r
  <1>15. CASE driver.bind = "question"
    <2>1. r = q
      BY <1>15 DEF rebind
    <2>2. \A k : mark(k) = "?"
      BY <1>15 DEF Mark
    <2>3. \A i \in ph : q[i] = "?"
      OBVIOUS
    <2> HIDE DEF r
    <2> QED
      BY <2>1, <2>2, <2>3 DEF NumberedInOrder, n, r
  <1> QED
    BY <1>14, <1>15
=============================================================================
