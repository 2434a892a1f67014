--------------------------- MODULE MetricsClient ---------------------------
(***************************************************************************)
(* The metrics client (observability/metrics): measurements of many        *)
(* goroutines and Stop meet at stopMu, a read-write lock, and at the map   *)
(* of instruments, which is read and written without a lock of its own.    *)
(*                                                                         *)
(* A measurement is a record [name, kind, series, value]: kind stands for  *)
(* the kind, the unit and the description that must agree, series for the  *)
(* attributes.  total is what the meter provider has been given.  What     *)
(* Stop and the measurements return is left out: no client looks at it.    *)
(***************************************************************************)
EXTENDS Integers, FiniteSets

CONSTANTS Recorders,    \* goroutines that record measurements
          Stoppers,     \* goroutines that call Stop
          MaxStops,     \* bound: calls of Stop of each
          MetricNames,        \* names of instruments that are valid
          Kinds,
          Summed,       \* the series whose sum is of interest
          Watched,      \* the recorders whose losses lost tells
          NoEntry, Nobody

VARIABLES
    shutdown,      \* c.shutdown: "nil" for a client of Wrap, else "provider"
    provider,      \* the meter provider: "open" or "shut"
    total,         \* the sum of what the provider was given for those series
    instruments,   \* name -> the kind of its entry, or NoEntry
    readers,       \* the recorders that hold stopMu for reading
    waiting,       \* the stoppers in stopMu.Lock
    writer,        \* the stopper that holds stopMu, or Nobody
    stopped,
    mpc,           \* where each recorder is in its measurement
    mreq,          \* its measurement
    lost,          \* the watched recorders that the client could not serve once,
                   \* because it was stopped or the instrument was not created
    spc, stops     \* where each stopper is, and how often it called Stop

mvars == <<shutdown, provider, total, instruments, readers, waiting, writer,
           stopped, mpc, mreq, lost, spc, stops>>

lockVars == <<waiting, writer, stopped, spc, stops, provider>>

NoMeasure == [name |-> NoEntry, kind |-> NoEntry, series |-> NoEntry, value |-> 0]

MTypeOK ==
    /\ shutdown \in {"nil", "provider"} /\ provider \in {"open", "shut"}
    /\ total \in [Summed -> Int]
    /\ instruments \in [MetricNames -> Kinds \cup {NoEntry}]
    /\ readers \subseteq Recorders /\ waiting \subseteq Stoppers
    /\ writer \in Stoppers \cup {Nobody}
    /\ stopped \in BOOLEAN /\ lost \subseteq Watched
    /\ mpc \in [Recorders -> {"idle", "rlock", "load", "store", "write"}]
    /\ spc \in [Stoppers -> {"idle", "lock", "shutdown"}]
    /\ stops \in [Stoppers -> 0..MaxStops]

\* newInstrumentClient, for New (with the provider's Shutdown) or for Wrap.
MInit ==
    /\ shutdown \in {"nil", "provider"} /\ provider = "open"
    /\ total = [x \in Summed |-> 0]
    /\ instruments = [n \in MetricNames |-> NoEntry]
    /\ readers = {} /\ waiting = {} /\ writer = Nobody
    /\ stopped = FALSE /\ lost = {}
    /\ mpc = [c \in Recorders |-> "idle"]
    /\ mreq = [c \in Recorders |-> NoMeasure]
    /\ spc = [s \in Stoppers |-> "idle"] /\ stops = [s \in Stoppers |-> 0]

-----------------------------------------------------------------------------
(* Add, Record, AddUpDown and RecordGauge.                                 *)

\* A goroutine calls one of them.
Measure(c, m) ==
    /\ mpc[c] = "idle"
    /\ mpc' = [mpc EXCEPT ![c] = "rlock"]
    /\ mreq' = [mreq EXCEPT ![c] = m]

\* Seeded bug: prepare returns the error of instrument and keeps the lock.
FailLocked(c, err) ==
    /\ mpc' = [mpc EXCEPT ![c] = "idle"]
    /\ mreq' = [mreq EXCEPT ![c] = NoMeasure]
    /\ lost' = IF err \in {"stopped", "create"} THEN lost \cup ({c} \cap Watched) ELSE lost
    /\ UNCHANGED readers

\* prepare returns an error, and stopMu is released.
Fail(c, err) ==
    /\ mpc' = [mpc EXCEPT ![c] = "idle"]
    /\ mreq' = [mreq EXCEPT ![c] = NoMeasure]
    /\ lost' = IF err \in {"stopped", "create"} THEN lost \cup ({c} \cap Watched) ELSE lost
    /\ readers' = readers \ {c}

\* stopMu.RLock: a waiting writer keeps new readers out.
Readable == writer = Nobody /\ waiting = {}

\* Seeded bug: prepare does not look at stopped.
StoppedUnread == FALSE
Stopped == stopped

\* prepare up to the map: the read lock, stopped, the name's pattern.  stopped
\* changes under the write lock only, so the three are one step.
prepare(c) ==
    /\ mpc[c] = "rlock" /\ Readable
    /\ \/ Stopped /\ Fail(c, "stopped")
       \/ ~Stopped /\ mreq[c].name \notin MetricNames /\ Fail(c, "invalid")
       \/ /\ ~Stopped /\ mreq[c].name \in MetricNames
          /\ readers' = readers \cup {c}
          /\ mpc' = [mpc EXCEPT ![c] = "load"]
          /\ UNCHANGED <<mreq, lost>>
    /\ UNCHANGED <<shutdown, total, instruments, lockVars>>

matches(c) == instruments[mreq[c].name] = mreq[c].kind

\* instrument, up to the creation: an entry is used if it matches; without
\* one the meter creates an instrument, which may fail.
LoadInstrument(c) ==
    LET entry == instruments[mreq[c].name] IN
    /\ mpc[c] = "load"
    /\ \/ /\ entry # NoEntry /\ matches(c)
          /\ mpc' = [mpc EXCEPT ![c] = "write"] /\ UNCHANGED <<mreq, lost, readers>>
       \/ entry # NoEntry /\ ~matches(c) /\ Fail(c, "conflict")
       \/ /\ entry = NoEntry
          /\ mpc' = [mpc EXCEPT ![c] = "store"] /\ UNCHANGED <<mreq, lost, readers>>
       \/ entry = NoEntry /\ Fail(c, "create")
    /\ UNCHANGED <<shutdown, total, instruments, lockVars>>

\* instruments.LoadOrStore: another goroutine may have been faster.
LoadOrStore(c) ==
    LET n == mreq[c].name IN
    /\ mpc[c] = "store"
    /\ instruments' = IF instruments[n] = NoEntry THEN [instruments EXCEPT ![n] = mreq[c].kind]
                                                  ELSE instruments
    /\ IF instruments'[n] = mreq[c].kind
       THEN mpc' = [mpc EXCEPT ![c] = "write"] /\ UNCHANGED <<mreq, lost, readers>>
       ELSE Fail(c, "conflict")
    /\ UNCHANGED <<shutdown, total, lockVars>>

\* The instrument gets the value, then release.
RecordPoint(c) ==
    /\ mpc[c] = "write"
    /\ total' = [x \in Summed |-> total[x] + IF x = mreq[c].series THEN mreq[c].value ELSE 0]
    /\ mpc' = [mpc EXCEPT ![c] = "idle"]
    /\ mreq' = [mreq EXCEPT ![c] = NoMeasure]
    /\ readers' = readers \ {c}
    /\ UNCHANGED <<shutdown, instruments, lost, lockVars>>

RecorderStep(c) == prepare(c) \/ LoadInstrument(c) \/ LoadOrStore(c) \/ RecordPoint(c)

-----------------------------------------------------------------------------
(* Stop.                                                                   *)

recorderVars == <<total, instruments, readers, mpc, mreq, lost>>

Stop(s) ==
    /\ spc[s] = "idle" /\ stops[s] < MaxStops
    /\ stops' = [stops EXCEPT ![s] = @ + 1]
    /\ IF shutdown = "nil"
       THEN UNCHANGED <<spc, waiting>>
       ELSE spc' = [spc EXCEPT ![s] = "lock"] /\ waiting' = waiting \cup {s}
    /\ UNCHANGED <<shutdown, provider, writer, stopped, recorderVars>>

\* Lock is granted; a later Stop returns what the first one returned.
StopLocked(s) ==
    /\ spc[s] = "lock" /\ writer = Nobody /\ readers = {}
    /\ waiting' = waiting \ {s}
    /\ IF stopped
       THEN spc' = [spc EXCEPT ![s] = "idle"] /\ UNCHANGED writer
       ELSE spc' = [spc EXCEPT ![s] = "shutdown"] /\ writer' = s
    /\ UNCHANGED <<shutdown, provider, stopped, stops, recorderVars>>

\* The provider is shut down with the lock held, with or without an error.
StopShutdown(s) ==
    /\ spc[s] = "shutdown"
    /\ provider' = "shut" /\ stopped' = TRUE /\ writer' = Nobody
    /\ spc' = [spc EXCEPT ![s] = "idle"]
    /\ UNCHANGED <<shutdown, waiting, stops, recorderVars>>

StopperStep(s) == Stop(s) \/ StopLocked(s) \/ StopShutdown(s)

-----------------------------------------------------------------------------
(* Nothing is given to a provider that has been shut down: a measurement   *)
(* that passed prepare's check of stopped holds the read lock until it is  *)
(* recorded, so Stop cannot shut the provider down in between, and one     *)
(* that comes later is refused (prepare, Stop).                            *)
NothingAfterStop ==
    [][\A c \in Recorders : (mpc[c] = "write" /\ mpc'[c] = "idle") => (provider = "open")]_mvars
=============================================================================
