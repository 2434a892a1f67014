----------------------------- MODULE ConfLoader -----------------------------
(***************************************************************************)
(* The config loader's cache (confloader/confloader.go): getters that read *)
(* through on a cold or stale entry, the polling goroutine, and Stop.      *)
(*                                                                         *)
(* An actor is a Getter.Get call or the polling goroutine; it is at        *)
(*   idle    a getter without a call                                       *)
(*   select  the poller waits for its ticker or for Stop                   *)
(*   round   the poller picks the next entry of refreshAll                 *)
(*   lock    waiting for the entry's fetchMu                               *)
(*   fetch   holds fetchMu, a client.Fetch is under way                    *)
(*   sleep   holds fetchMu, waiting before the next attempt                *)
(*   apply   holds fetchMu, has the outcome of fetchWithFallback           *)
(*   read    a getter about to read the entry                              *)
(*   mark    the poller, in markAllStale after a client panic              *)
(*   gone    the polling goroutine has returned                            *)
(* A value is the version of the source that wrote it, 0 is no value.  The *)
(* critical sections of cacheEntry.mu are single steps.                    *)
(***************************************************************************)
EXTENDS Integers, FiniteSets

CONSTANTS
    Entries,      \* the Getter fields
    InDefault,    \* entries whose folder is the default folder
    Getters,      \* callers of Get
    Poller,       \* the polling goroutine
    Stoppers,     \* callers of Stop
    Nobody,
    MaxRetries,   \* Watcher.PollingMaxRetries
    MaxVersion,   \* bound: writes to the source
    BadVersions,  \* versions whose value does not parse
    InitialFetch  \* WithInitialFetch

Actors == Getters \cup {Poller}

ASSUME LoaderAssumption ==
    /\ Entries # {} /\ InDefault \subseteq Entries
    /\ Poller \notin Getters /\ Nobody \notin Actors
    /\ MaxRetries \in Nat /\ MaxVersion \in Nat \ {0}
    /\ BadVersions \subseteq 1..MaxVersion
    /\ InitialFetch \in BOOLEAN

VARIABLES
    own, def, version, up, \* the source: the entry's folder, the default
                           \* folder, its last version, whether it answers
    closed,                \* client.Close was called
    value, at,             \* cacheEntry.value, and the source's version when
                           \* it was read
    fetchErr, fetched, stale, \* cacheEntry.fetchErr, lastFetch set, stale
    fetchMu,               \* who holds cacheEntry.fetchMu
    pc, entry, folder, attempt, ctx, \* an actor; ctx: its context has ended
    res,                   \* the outcome of the actor's fetchWithFallback
    todo,                  \* entries left in the poller's round
    ready,                 \* New has returned
    stopCh, stopPc         \* Loader.stop is closed; Stop calls

srcVars   == <<own, def, version, up>>
cacheVars == <<value, at, fetchErr, fetched, stale>>
actorVars == <<pc, entry, folder, attempt, ctx, res>>
stopVars  == <<closed, stopCh, stopPc>>
vars == <<srcVars, cacheVars, actorVars, stopVars, fetchMu, todo, ready>>

Transient == {"down", "parse", "ctx", "panic"}
Errors == Transient \cup {"nil", "notFound"}
Outcome == [err : Errors, value : 0..MaxVersion, at : 0..MaxVersion]
NoOutcome == [err |-> "nil", value |-> 0, at |-> 0]

TypeOK ==
    /\ own \in [Entries -> 0..MaxVersion] /\ def \in [Entries -> 0..MaxVersion]
    /\ version \in 0..MaxVersion
    /\ up \in BOOLEAN /\ closed \in BOOLEAN /\ ready \in BOOLEAN /\ stopCh \in BOOLEAN
    /\ value \in [Entries -> 0..MaxVersion] /\ at \in [Entries -> 0..MaxVersion]
    /\ fetchErr \in [Entries -> Errors]
    /\ fetched \in [Entries -> BOOLEAN] /\ stale \in [Entries -> BOOLEAN]
    /\ fetchMu \in [Entries -> Actors \cup {Nobody}]
    /\ pc \in [Actors -> {"idle", "select", "round", "lock", "fetch", "sleep",
                          "apply", "read", "mark", "gone"}]
    /\ entry \in [Actors -> Entries]
    /\ folder \in [Actors -> {"own", "default"}]
    /\ attempt \in [Actors -> 0..MaxRetries]
    /\ ctx \in [Actors -> BOOLEAN]
    /\ res \in [Actors -> Outcome]
    /\ todo \subseteq Entries
    /\ stopPc \in [Stoppers -> {"idle", "first", "queued", "returned"}]

\* New: with WithInitialFetch a first refreshAll precedes the polling loop.
Init ==
    /\ own \in [Entries -> {0, 1}] /\ def = [e \in Entries |-> 0]
    /\ version = 1 /\ up \in BOOLEAN /\ closed = FALSE
    /\ value = [e \in Entries |-> 0] /\ at = [e \in Entries |-> 0]
    /\ fetchErr = [e \in Entries |-> "nil"]
    /\ fetched = [e \in Entries |-> FALSE] /\ stale = [e \in Entries |-> FALSE]
    /\ fetchMu = [e \in Entries |-> Nobody]
    /\ pc = [a \in Actors |-> IF a # Poller THEN "idle"
                              ELSE IF InitialFetch THEN "round" ELSE "select"]
    /\ entry = [a \in Actors |-> CHOOSE e \in Entries : TRUE]
    /\ folder = [a \in Actors |-> "own"]
    /\ attempt = [a \in Actors |-> 0]
    /\ ctx = [a \in Actors |-> FALSE]
    /\ res = [a \in Actors |-> NoOutcome]
    /\ todo = IF InitialFetch THEN Entries ELSE {}
    /\ ready = ~InitialFetch
    /\ stopCh = FALSE /\ stopPc = [s \in Stoppers |-> "idle"]

-----------------------------------------------------------------------------
(* The source and contexts (external).                                     *)

\* Somebody writes or deletes the key in a folder.
SourceWrite(e) ==
    /\ version < MaxVersion
    /\ version' = version + 1
    /\ \E v \in {0, version + 1} :
          \/ own' = [own EXCEPT ![e] = v] /\ UNCHANGED def
          \/ def' = [def EXCEPT ![e] = v] /\ UNCHANGED own
    /\ UNCHANGED <<up, cacheVars, actorVars, stopVars, fetchMu, todo, ready>>

SourceToggle ==
    /\ up' = ~up
    /\ UNCHANGED <<own, def, version, cacheVars, actorVars, stopVars, fetchMu,
                   todo, ready>>

\* The caller's context, New's or the poll round's timeout ends.
CtxEnd(a) ==
    /\ pc[a] \in {"round", "lock", "fetch", "sleep"}
    /\ ~ctx[a]
    /\ ctx' = [ctx EXCEPT ![a] = TRUE]
    /\ UNCHANGED <<srcVars, cacheVars, pc, entry, folder, attempt, res, stopVars, fetchMu,
                   todo, ready>>

-----------------------------------------------------------------------------
(* Getter.Get and the polling goroutine up to fetchMu.                     *)

needRefresh(e) == ~fetched[e] \/ stale[e]

Get(g, e) ==
    /\ ready /\ pc[g] = "idle"
    /\ pc' = [pc EXCEPT ![g] = IF needRefresh(e) THEN "lock" ELSE "read"]
    /\ entry' = [entry EXCEPT ![g] = e]
    /\ UNCHANGED <<srcVars, cacheVars, folder, attempt, ctx, res, stopVars, fetchMu,
                   todo, ready>>

\* The ticker fires: a round of refreshAll under a fresh timeout.
PollTick ==
    /\ pc[Poller] = "select"
    /\ pc' = [pc EXCEPT ![Poller] = "round"]
    /\ todo' = Entries
    /\ UNCHANGED <<srcVars, cacheVars, entry, folder, attempt, ctx, res, stopVars, fetchMu,
                   ready>>

\* refreshAll goes on to the next entry, or is done.  The first round is New's.
PollNext ==
    /\ pc[Poller] = "round"
    /\ \/ \E e \in todo : /\ entry' = [entry EXCEPT ![Poller] = e]
                          /\ todo' = todo \ {e}
                          /\ pc' = [pc EXCEPT ![Poller] = "lock"]
                          /\ UNCHANGED <<ready, ctx>>
       \/ /\ todo = {}
          /\ pc' = [pc EXCEPT ![Poller] = "select"]
          /\ ready' = TRUE
          /\ ctx' = [ctx EXCEPT ![Poller] = FALSE]
          /\ UNCHANGED <<entry, todo>>
    /\ UNCHANGED <<srcVars, cacheVars, folder, attempt, res, stopVars, fetchMu>>

\* Where refreshOne returns to.
After(a) == IF a = Poller THEN "round" ELSE "read"

\* Seeded bug: fetches of an entry are not serialized.
FetchMuIgnored(e) == TRUE
FetchMuFree(e) == fetchMu[e] = Nobody

\* Seeded bug: the early return of refreshOne leaves fetchMu locked.
MuAfterFreshKept(a, e) == [fetchMu EXCEPT ![e] = a]
MuAfterFresh(a, e) == fetchMu

\* refreshOne takes fetchMu; a getter finds the entry fresh and returns, or
\* the fetch begins.
Lock(a) ==
    LET e == entry[a] IN
    /\ pc[a] = "lock"
    /\ FetchMuFree(e)
    /\ \/ /\ a # Poller /\ ~needRefresh(e)
          /\ pc' = [pc EXCEPT ![a] = After(a)]
          /\ fetchMu' = MuAfterFresh(a, e)
          /\ UNCHANGED <<folder, attempt>>
       \/ /\ a = Poller \/ needRefresh(e)
          /\ pc' = [pc EXCEPT ![a] = "fetch"]
          /\ fetchMu' = [fetchMu EXCEPT ![e] = a]
          /\ folder' = [folder EXCEPT ![a] = IF e \in InDefault THEN "default" ELSE "own"]
          /\ attempt' = [attempt EXCEPT ![a] = 0]
    /\ UNCHANGED <<srcVars, cacheVars, entry, ctx, res, stopVars, todo, ready>>

-----------------------------------------------------------------------------
(* fetchWithFallback and fetchRetried.                                     *)

\* The fetch is over with this outcome.
Ends(a, e, v) ==
    /\ res' = [res EXCEPT ![a] = [err |-> e, value |-> v, at |-> version]]
    /\ pc' = [pc EXCEPT ![a] = "apply"]
    /\ folder' = [folder EXCEPT ![a] = "own"]
    /\ attempt' = [attempt EXCEPT ![a] = 0]

Stored(a) == IF folder[a] = "own" THEN own[entry[a]] ELSE def[entry[a]]

\* The source answers: a value, which may not parse, or "not found", which is
\* final only in the default folder.
FetchAnswer(a) ==
    /\ pc[a] = "fetch"
    /\ up /\ ~closed
    /\ \/ /\ Stored(a) # 0
          /\ IF Stored(a) \in BadVersions THEN Ends(a, "parse", 0) ELSE Ends(a, "nil", Stored(a))
       \/ /\ Stored(a) = 0 /\ folder[a] = "default"
          /\ Ends(a, "notFound", 0)
       \/ /\ Stored(a) = 0 /\ folder[a] = "own"
          /\ folder' = [folder EXCEPT ![a] = "default"]
          /\ attempt' = [attempt EXCEPT ![a] = 0]
          /\ UNCHANGED <<pc, res>>
    /\ UNCHANGED <<srcVars, cacheVars, entry, ctx, stopVars, fetchMu, todo, ready>>

RetriesLeft(a) == attempt[a] < MaxRetries

\* client.Fetch fails: the source is down, the context has ended or the client
\* is closed.  The last error is returned after MaxRetries retries.
FetchFails(a) ==
    /\ pc[a] = "fetch"
    /\ ~up \/ closed \/ ctx[a]
    /\ \/ /\ RetriesLeft(a)
          /\ pc' = [pc EXCEPT ![a] = "sleep"]
          /\ UNCHANGED <<folder, attempt, res>>
       \/ /\ ~RetriesLeft(a)
          /\ Ends(a, IF ctx[a] THEN "ctx" ELSE "down", 0)
    /\ UNCHANGED <<srcVars, cacheVars, entry, ctx, stopVars, fetchMu, todo, ready>>

\* Between attempts: the timer fires, or the context has ended.
FetchRetry(a) ==
    /\ pc[a] = "sleep"
    /\ \/ /\ pc' = [pc EXCEPT ![a] = "fetch"]
          /\ attempt' = [attempt EXCEPT ![a] = @ + 1]
          /\ UNCHANGED <<folder, res>>
       \/ ctx[a] /\ Ends(a, "ctx", 0)
    /\ UNCHANGED <<srcVars, cacheVars, entry, ctx, stopVars, fetchMu, todo, ready>>

\* Seeded bug: a panic ends the polling goroutine.
PanicTargetGone(a) == IF a = Poller THEN "gone" ELSE "idle"
\* Where a panic of the client takes the actor: the poller recovers it and
\* marks every entry, a getter's caller gets it.
PanicTarget(a) == IF a = Poller THEN "mark" ELSE "idle"

\* The client panics; fetchMu is released by its defer.  In New it is fatal.
FetchPanics(a) ==
    /\ pc[a] = "fetch" /\ ready /\ ~up
    /\ fetchMu' = [fetchMu EXCEPT ![entry[a]] = Nobody]
    /\ pc' = [pc EXCEPT ![a] = PanicTarget(a)]
    /\ todo' = IF a = Poller THEN Entries ELSE todo
    /\ folder' = [folder EXCEPT ![a] = "own"]
    /\ attempt' = [attempt EXCEPT ![a] = 0]
    /\ ctx' = [ctx EXCEPT ![a] = FALSE]
    /\ UNCHANGED <<srcVars, cacheVars, entry, res, stopVars, ready>>

-----------------------------------------------------------------------------
(* Writing the entry.                                                      *)

\* The entry records a failure x: stale exactly when there is a value to serve.
Failed(e, x) ==
    /\ fetchErr' = [fetchErr EXCEPT ![e] = x]
    /\ stale' = [stale EXCEPT ![e] = value[e] # 0]
    /\ fetched' = [fetched EXCEPT ![e] = TRUE]
    /\ UNCHANGED <<value, at>>

\* Seeded bug: a definitive absence leaves the staleness flag as it was.
StaleAfterNotFoundKept(e) == stale
StaleAfterNotFound(e) == [stale EXCEPT ![e] = FALSE]

\* The second half of refreshOne, then the unlock of fetchMu.
Apply(a) ==
    LET e == entry[a] IN
    /\ pc[a] = "apply"
    /\ \/ /\ res[a].err = "notFound"
          /\ fetchErr' = [fetchErr EXCEPT ![e] = "notFound"]
          /\ stale' = StaleAfterNotFound(e)
          /\ fetched' = [fetched EXCEPT ![e] = TRUE]
          /\ UNCHANGED <<value, at>>
       \/ /\ res[a].err \in Transient
          /\ Failed(e, res[a].err)
       \/ /\ res[a].err = "nil"
          /\ fetchErr' = [fetchErr EXCEPT ![e] = "nil"]
          /\ value' = [value EXCEPT ![e] = res[a].value]
          /\ at' = [at EXCEPT ![e] = res[a].at]
          /\ stale' = [stale EXCEPT ![e] = FALSE]
          /\ fetched' = [fetched EXCEPT ![e] = TRUE]
    /\ pc' = [pc EXCEPT ![a] = After(a)]
    /\ res' = [res EXCEPT ![a] = NoOutcome]
    /\ fetchMu' = [fetchMu EXCEPT ![e] = Nobody]
    /\ UNCHANGED <<srcVars, entry, folder, attempt, ctx, stopVars, todo, ready>>

\* markAllStale, one entry at a time, without fetchMu.
MarkStale ==
    /\ pc[Poller] = "mark"
    /\ \/ \E e \in todo : Failed(e, "panic") /\ todo' = todo \ {e} /\ UNCHANGED pc
       \/ /\ todo = {}
          /\ pc' = [pc EXCEPT ![Poller] = "select"]
          /\ UNCHANGED <<cacheVars, todo>>
    /\ UNCHANGED <<srcVars, entry, folder, attempt, ctx, res, stopVars, fetchMu, ready>>

\* What Get returns for an entry: the value, or the entry's last error.
Result(e) == IF fetchErr[e] # "nil" THEN fetchErr[e]
             ELSE IF value[e] # 0 THEN "value" ELSE "notFound"

\* The end of Get: it reads Result(entry[g]), which no later step looks at.
GetReturn(g) ==
    /\ pc[g] = "read"
    /\ pc' = [pc EXCEPT ![g] = "idle"]
    /\ ctx' = [ctx EXCEPT ![g] = FALSE]
    /\ UNCHANGED <<srcVars, cacheVars, entry, folder, attempt, res, stopVars, fetchMu,
                   todo, ready>>

-----------------------------------------------------------------------------
(* Stop: sync.Once lets the first caller in and holds the others until it  *)
(* is done.                                                                *)

\* Seeded bug: a flag instead of sync.Once lets the others go at once.
QueuedPcFlag == "returned"
QueuedPc == "queued"

StopCall(s) ==
    /\ ready /\ stopPc[s] = "idle"
    /\ stopCh' = TRUE
    /\ stopPc' = [stopPc EXCEPT ![s] = IF stopCh THEN QueuedPc ELSE "first"]
    /\ UNCHANGED <<srcVars, cacheVars, actorVars, closed, fetchMu, todo, ready>>

\* The poller's select sees the closed stop channel.
PollExit ==
    /\ pc[Poller] = "select" /\ stopCh
    /\ pc' = [pc EXCEPT ![Poller] = "gone"]
    /\ UNCHANGED <<srcVars, cacheVars, entry, folder, attempt, ctx, res, stopVars, fetchMu,
                   todo, ready>>

\* Seeded bug: the client is closed without waiting for the poller.
PollerGoneAlways == TRUE
PollerGone == pc[Poller] = "gone"

\* <-done, then client.Close.
StopClose(s) ==
    /\ stopPc[s] = "first"
    /\ PollerGone
    /\ closed' = TRUE
    /\ stopPc' = [stopPc EXCEPT ![s] = "returned"]
    /\ UNCHANGED <<srcVars, cacheVars, actorVars, stopCh, fetchMu, todo, ready>>

StopOthers(s) ==
    /\ stopPc[s] = "queued"
    /\ closed
    /\ stopPc' = [stopPc EXCEPT ![s] = "returned"]
    /\ UNCHANGED <<srcVars, cacheVars, actorVars, closed, stopCh, fetchMu, todo, ready>>

-----------------------------------------------------------------------------
FetchStep(a) == FetchAnswer(a) \/ FetchFails(a) \/ FetchRetry(a) \/ FetchPanics(a)

Next ==
    \/ \E e \in Entries : SourceWrite(e)
    \/ SourceToggle
    \/ \E a \in Actors : CtxEnd(a) \/ Lock(a) \/ FetchStep(a) \/ Apply(a)
    \/ \E g \in Getters : GetReturn(g) \/ \E e \in Entries : Get(g, e)
    \/ PollTick \/ PollNext \/ MarkStale \/ PollExit
    \/ \E s \in Stoppers : StopCall(s) \/ StopClose(s) \/ StopOthers(s)

Spec == Init /\ [][Next]_vars

\* Goroutines that can run do; a client call ends; the ticker fires; a
\* goroutine waiting for fetchMu gets it in the end (sync.Mutex is starvation
\* free); select picks among ready cases at random, so a closed stop channel
\* is noticed in the end.
Fairness ==
    /\ \A a \in Actors : SF_vars(Lock(a)) /\ WF_vars(FetchStep(a)) /\ WF_vars(Apply(a))
    /\ \A g \in Getters : WF_vars(GetReturn(g))
    /\ WF_vars(PollTick) /\ WF_vars(PollNext) /\ WF_vars(MarkStale) /\ SF_vars(PollExit)
    /\ \A s \in Stoppers : WF_vars(StopClose(s)) /\ WF_vars(StopOthers(s))

FairSpec == Spec /\ Fairness

-----------------------------------------------------------------------------
(* Properties.                                                             *)

\* refreshOne: the cache never goes back in time.  A slow fetch by a getter
\* cannot overwrite the result of a later one by the poller, nor the reverse.
CacheGoesForward == [][\A e \in Entries : at'[e] >= at[e]]_vars

\* refreshOne and markAllStale: an entry is flagged stale exactly when it has
\* a value and its last refresh failed with anything but a definitive absence.
FailureFlagged ==
    \A e \in Entries : stale[e] <=> (value[e] # 0 /\ fetchErr[e] \in Transient)

\* Stop: whichever call returns, the poller is gone and the client closed.
StopMeansClosed ==
    \A s \in Stoppers : stopPc[s] = "returned" => (closed /\ pc[Poller] = "gone")

\* The actor can take its next step, or the one that holds its fetchMu can.
GoesOn(a) ==
    \/ pc[a] \in {"select", "round", "fetch", "sleep", "apply", "read", "mark"}
    \/ pc[a] = "lock" /\ FetchMuFree(entry[a])
Served(a) == GoesOn(a) \/ \E b \in Actors : fetchMu[entry[a]] = b /\ GoesOn(b)

\* Get, the poller and Stop never wait in a circle: who waits for fetchMu waits
\* for an actor that can go on; the first Stop has closed the stop channel and
\* waits for a poller that is gone or served; the other calls of Stop wait for a
\* first one that is still there, or that has closed the client.
NoCallStuck ==
    /\ \A a \in Actors : pc[a] \notin {"idle", "gone"} => Served(a)
    /\ \A s \in Stoppers : stopPc[s] = "first" => stopCh /\ (PollerGone \/ Served(Poller))
    /\ \A s \in Stoppers : stopPc[s] = "queued" => closed \/ \E r \in Stoppers : stopPc[r] = "first"

\* Get and Stop: every call returns as long as each client call ends, also while
\* the source is down, and although the poller may be waiting for a getter that
\* holds fetchMu.
CallsReturn ==
    /\ \A g \in Getters : pc[g] # "idle" ~> pc[g] = "idle"
    /\ \A s \in Stoppers : stopPc[s] \in {"first", "queued"} ~> stopPc[s] = "returned"

\* startPolling: once the source stays up and the loader is not stopped, every
\* entry loses its transient error, also after a panic of the client.
PollingHeals ==
    <>[](up /\ ~stopCh) => \A e \in Entries : []<>(Result(e) \notin {"down", "panic"})
=============================================================================
