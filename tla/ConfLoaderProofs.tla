-------------------------- MODULE ConfLoaderProofs --------------------------
(***************************************************************************)
(* Proofs about ConfLoader for any entries, getters, Stop calls, retries   *)
(* and versions of the source.                                             *)
(*                                                                         *)
(* CacheGoesForward rests on fetchMu: from the end of a fetch to the write *)
(* of its outcome the actor holds the entry's fetchMu, so that no other    *)
(* outcome is written in between.                                          *)
(***************************************************************************)
EXTENDS ConfLoader, TLAPS

Fetching == {"fetch", "sleep", "apply"}

\* fetchMu of an entry is held exactly by the actor that fetches it.
MuExact ==
    \A a \in Actors, e \in Entries : fetchMu[e] = a <=> (pc[a] \in Fetching /\ entry[a] = e)

\* What the cache holds is no newer than the source, and what an actor is about
\* to write is no older than the cache.
InTime ==
    /\ \A e \in Entries : at[e] <= version
    /\ \A a \in Actors : pc[a] = "apply" => (at[entry[a]] <= res[a].at /\ res[a].at <= version)

\* The first Stop waits for the poller, the others for the client's Close.
StopOrder ==
    /\ closed => pc[Poller] = "gone"
    /\ \A s \in Stoppers : stopPc[s] = "returned" => closed

\* The types of what each action group changes.
SourceType ==
    /\ own \in [Entries -> 0..MaxVersion] /\ def \in [Entries -> 0..MaxVersion]
    /\ version \in 0..MaxVersion
    /\ up \in BOOLEAN
CacheType ==
    /\ value \in [Entries -> 0..MaxVersion] /\ at \in [Entries -> 0..MaxVersion]
    /\ fetchErr \in [Entries -> Errors]
    /\ fetched \in [Entries -> BOOLEAN] /\ stale \in [Entries -> BOOLEAN]
ActorType ==
    /\ fetchMu \in [Entries -> Actors \cup {Nobody}]
    /\ pc \in [Actors -> {"idle", "select", "round", "lock", "fetch", "sleep",
                          "apply", "read", "mark", "gone"}]
    /\ entry \in [Actors -> Entries]
    /\ folder \in [Actors -> {"own", "default"}]
    /\ attempt \in [Actors -> 0..MaxRetries]
    /\ ctx \in [Actors -> BOOLEAN]
    /\ res \in [Actors -> Outcome]
RestType ==
    /\ closed \in BOOLEAN /\ ready \in BOOLEAN /\ stopCh \in BOOLEAN
    /\ todo \subseteq Entries
    /\ stopPc \in [Stoppers -> {"idle", "first", "queued", "returned"}]
Types == SourceType /\ CacheType /\ ActorType /\ RestType

\* A retry is begun only when one is left.
SleepLeft == \A a \in Actors : pc[a] = "sleep" => attempt[a] < MaxRetries

IInv == Types /\ MuExact /\ InTime /\ StopOrder /\ SleepLeft /\ FailureFlagged

LEMMA TypesSame == TypeOK <=> Types
  BY DEF TypeOK, Types, SourceType, CacheType, ActorType, RestType

LEMMA Facts ==
    /\ Poller \in Actors /\ Nobody \notin Actors /\ \A g \in Getters : g \in Actors /\ g # Poller
    /\ MaxVersion \in Nat /\ MaxVersion > 0 /\ MaxRetries \in Nat
    /\ NoOutcome \in Outcome /\ 0 \in 0..MaxRetries /\ 0 \in 0..MaxVersion /\ 1 \in 0..MaxVersion
  BY LoaderAssumption DEF LoaderAssumption, Actors, NoOutcome, Outcome, Errors

-----------------------------------------------------------------------------
LEMMA InitInv == Init => IInv
  <1> SUFFICES ASSUME Init PROVE IInv
    OBVIOUS
  <1> USE DEF Init
  <1>1. SourceType
    BY Facts DEF SourceType
  <1>2. CacheType
    BY Facts DEF CacheType, Errors
  <1>3. ActorType
    <2>1. (CHOOSE e \in Entries : TRUE) \in Entries
      BY LoaderAssumption DEF LoaderAssumption
    <2> QED
      BY <2>1, Facts DEF ActorType
  <1>4. RestType
    BY LoaderAssumption DEF RestType, LoaderAssumption
  <1>5. MuExact
    BY Facts DEF MuExact, Fetching
  <1>6. InTime /\ SleepLeft
    BY Facts DEF InTime, SleepLeft
  <1>7. StopOrder /\ FailureFlagged
    BY DEF StopOrder, FailureFlagged, Transient
  <1> QED
    BY <1>1, <1>2, <1>3, <1>4, <1>5, <1>6, <1>7 DEF IInv, Types

LEMMA SourceInv == ASSUME IInv, (\E e \in Entries : SourceWrite(e)) \/ SourceToggle PROVE IInv'
  <1> USE DEF IInv, SourceWrite, SourceToggle, cacheVars, actorVars, stopVars
  <1>1. SourceType'
    <2>1. CASE SourceToggle
      BY <2>1 DEF Types, SourceType
    <2>2. ASSUME NEW e \in Entries, SourceWrite(e) PROVE SourceType'
      <3>1. /\ version' \in 0..MaxVersion /\ up' \in BOOLEAN
            /\ \A v \in {0, version + 1} : v \in 0..MaxVersion
        BY <2>2, Facts DEF Types, SourceType
      <3>2. own' \in [Entries -> 0..MaxVersion] /\ def' \in [Entries -> 0..MaxVersion]
        BY <2>2, <3>1 DEF Types, SourceType
      <3> QED
        BY <3>1, <3>2 DEF SourceType
    <2> QED
      BY <2>1, <2>2
  <1>2. CacheType' /\ ActorType' /\ RestType'
    BY DEF Types, CacheType, ActorType, RestType
  <1>3. version' \in Nat /\ version <= version'
    BY <1>1, Facts DEF Types, SourceType
  <1>4. InTime'
    <2>1. \A a \in Actors : res[a].at \in Nat
      BY Facts DEF Types, ActorType, Outcome
    <2> QED
      BY <1>3, <2>1, Facts DEF InTime, Types, SourceType, CacheType, ActorType
  <1>5. MuExact' /\ StopOrder' /\ SleepLeft' /\ FailureFlagged'
    BY DEF MuExact, StopOrder, SleepLeft, FailureFlagged
  <1> QED
    BY <1>1, <1>2, <1>4, <1>5 DEF Types

LEMMA CtxEndInv == ASSUME IInv, NEW a \in Actors, CtxEnd(a) PROVE IInv'
  <1> USE DEF IInv, CtxEnd, srcVars, cacheVars, stopVars
  <1>1. Types'
    BY DEF Types, SourceType, CacheType, ActorType, RestType
  <1>2. MuExact' /\ InTime' /\ StopOrder' /\ SleepLeft' /\ FailureFlagged'
    BY DEF MuExact, InTime, StopOrder, SleepLeft, FailureFlagged
  <1> QED
    BY <1>1, <1>2

\* A step of an actor outside Fetching that stays outside, and leaves the cache
\* and the source alone.
LEMMA OutsideInv ==
    ASSUME IInv, NEW a \in Actors, NEW p, NEW e \in Entries,
           p \in {"idle", "select", "round", "lock", "read", "mark", "gone"},
           pc[a] \notin Fetching, pc[a] # "gone",
           pc' = [pc EXCEPT ![a] = p], entry' = [entry EXCEPT ![a] = e],
           UNCHANGED <<srcVars, cacheVars, fetchMu, attempt, res, closed, stopPc>>
    PROVE  MuExact' /\ InTime' /\ StopOrder' /\ SleepLeft' /\ FailureFlagged'
  <1> USE DEF IInv, srcVars, cacheVars
  <1>1. MuExact'
    BY DEF MuExact, Fetching, Types, ActorType
  <1>2. InTime'
    BY DEF InTime, Types, ActorType
  <1>3. StopOrder'
    BY DEF StopOrder, Types, ActorType
  <1>4. SleepLeft'
    BY DEF SleepLeft, Types, ActorType
  <1>5. FailureFlagged'
    BY DEF FailureFlagged
  <1> QED
    BY <1>1, <1>2, <1>3, <1>4, <1>5

LEMMA GetInv == ASSUME IInv, NEW g \in Getters, NEW e \in Entries, Get(g, e) PROVE IInv'
  <1> USE DEF Get, Types
  <1>1. Types'
    BY DEF IInv, SourceType, CacheType, ActorType, RestType, srcVars, cacheVars, stopVars
  <1>2. PICK p \in {"lock", "read"} : pc' = [pc EXCEPT ![g] = p]
    OBVIOUS
  <1>3. MuExact' /\ InTime' /\ StopOrder' /\ SleepLeft' /\ FailureFlagged'
    BY <1>2, OutsideInv, Facts DEF Fetching, stopVars
  <1> QED
    BY <1>1, <1>3 DEF IInv

LEMMA GetReturnInv == ASSUME IInv, NEW g \in Getters, GetReturn(g) PROVE IInv'
  <1> USE DEF GetReturn, Types
  <1>1. Types'
    BY DEF IInv, SourceType, CacheType, ActorType, RestType, srcVars, cacheVars, stopVars
  <1>2. entry[g] \in Entries /\ entry' = [entry EXCEPT ![g] = entry[g]]
    BY Facts DEF IInv, ActorType
  <1>3. MuExact' /\ InTime' /\ StopOrder' /\ SleepLeft' /\ FailureFlagged'
    BY <1>2, OutsideInv, Facts DEF Fetching, stopVars
  <1> QED
    BY <1>1, <1>3 DEF IInv

LEMMA PollInv == ASSUME IInv, PollTick \/ PollNext \/ PollExit PROVE IInv'
  <1> USE DEF PollTick, PollNext, PollExit, Types
  <1>1. SourceType' /\ CacheType'
    BY DEF IInv, SourceType, CacheType, srcVars, cacheVars
  <1>2. ActorType'
    BY Facts DEF IInv, ActorType, RestType
  <1>3. RestType'
    BY DEF IInv, RestType, stopVars
  <1>4. PICK p \in {"round", "lock", "select", "gone"} : pc' = [pc EXCEPT ![Poller] = p]
    OBVIOUS
  <1>5. PICK e \in Entries : entry' = [entry EXCEPT ![Poller] = e]
    <2>1. CASE UNCHANGED entry
      <3>1. entry[Poller] \in Entries /\ entry' = [entry EXCEPT ![Poller] = entry[Poller]]
        BY <2>1, Facts DEF IInv, ActorType
      <3> QED
        BY <3>1
    <2>2. CASE \E e \in todo : entry' = [entry EXCEPT ![Poller] = e]
      BY <2>2 DEF IInv, RestType
    <2> QED
      BY <2>1, <2>2
  <1>6. /\ pc[Poller] \notin Fetching /\ pc[Poller] # "gone"
        /\ UNCHANGED <<srcVars, cacheVars, fetchMu, attempt, res, closed, stopPc>>
    BY DEF Fetching, stopVars
  <1>7. MuExact' /\ InTime' /\ StopOrder' /\ SleepLeft' /\ FailureFlagged'
    BY <1>4, <1>5, <1>6, OutsideInv, Facts
  <1> QED
    BY <1>1, <1>2, <1>3, <1>7 DEF IInv

LEMMA LockInv == ASSUME IInv, NEW a \in Actors, Lock(a) PROVE IInv'
  <1> DEFINE e == entry[a]
  <1>0. e \in Entries /\ pc[a] = "lock" /\ fetchMu[e] = Nobody
    BY DEF IInv, Types, ActorType, Lock, FetchMuFree
  <1>1. SourceType' /\ CacheType' /\ RestType'
    BY DEF IInv, Types, SourceType, CacheType, RestType, Lock, srcVars, cacheVars, stopVars
  <1>2. CASE /\ pc' = [pc EXCEPT ![a] = After(a)]
             /\ UNCHANGED <<srcVars, cacheVars, fetchMu, folder, attempt, entry, ctx, res, stopVars>>
    <2>1. PICK p \in {"round", "read"} : pc' = [pc EXCEPT ![a] = p]
      BY <1>2 DEF After
    <2>2. ActorType'
      BY <1>2, <2>1 DEF IInv, Types, ActorType
    <2>3. entry' = [entry EXCEPT ![a] = e]
      BY <1>2 DEF IInv, Types, ActorType
    <2>4. MuExact' /\ InTime' /\ StopOrder' /\ SleepLeft' /\ FailureFlagged'
      BY <1>0, <1>2, <2>1, <2>3, OutsideInv DEF Fetching, stopVars
    <2> QED
      BY <1>1, <2>2, <2>4 DEF IInv, Types
  <1>3. CASE /\ pc' = [pc EXCEPT ![a] = "fetch"]
             /\ fetchMu' = [fetchMu EXCEPT ![e] = a]
             /\ folder' = [folder EXCEPT ![a] = IF e \in InDefault THEN "default" ELSE "own"]
             /\ attempt' = [attempt EXCEPT ![a] = 0]
             /\ UNCHANGED <<srcVars, cacheVars, entry, ctx, res, stopVars>>
    <2> USE DEF IInv, Types
    <2>1. ActorType'
      BY <1>0, <1>3, Facts DEF ActorType
    <2>2. MuExact'
      BY <1>0, <1>3, Facts DEF MuExact, Fetching, ActorType
    <2>3. InTime' /\ FailureFlagged'
      BY <1>3 DEF InTime, FailureFlagged, ActorType, srcVars, cacheVars
    <2>4. StopOrder'
      BY <1>0, <1>3 DEF StopOrder, ActorType, stopVars
    <2>5. SleepLeft'
      BY <1>3 DEF SleepLeft, ActorType
    <2> QED
      BY <1>1, <2>1, <2>2, <2>3, <2>4, <2>5
  <1> QED
    BY <1>2, <1>3 DEF Lock, MuAfterFresh

\* A step of a fetch that does not end it.
LEMMA FetchGoesOn ==
    ASSUME IInv, NEW a \in Actors, NEW p \in {"fetch", "sleep"}, NEW n \in 0..MaxRetries,
           NEW f \in {"own", "default"},
           pc[a] \in {"fetch", "sleep"}, p = "sleep" => n < MaxRetries,
           pc' = [pc EXCEPT ![a] = p], attempt' = [attempt EXCEPT ![a] = n],
           folder' = [folder EXCEPT ![a] = f],
           UNCHANGED <<srcVars, cacheVars, entry, ctx, res, stopVars, fetchMu, todo, ready>>
    PROVE  IInv'
  <1> USE DEF IInv, Types, srcVars, cacheVars, stopVars
  <1>1. SourceType' /\ CacheType' /\ RestType'
    BY DEF SourceType, CacheType, RestType
  <1>2. ActorType'
    BY DEF ActorType
  <1>3. MuExact'
    BY DEF MuExact, ActorType, Fetching
  <1>4. InTime' /\ FailureFlagged'
    BY DEF InTime, FailureFlagged, ActorType
  <1>5. StopOrder'
    BY DEF StopOrder, ActorType
  <1>6. SleepLeft'
    BY DEF SleepLeft, ActorType
  <1> QED
    BY <1>1, <1>2, <1>3, <1>4, <1>5, <1>6

\* The step that ends a fetch.
LEMMA FetchEnds ==
    ASSUME IInv, NEW a \in Actors, NEW x \in Errors, NEW v \in 0..MaxVersion,
           pc[a] \in {"fetch", "sleep"}, Ends(a, x, v),
           UNCHANGED <<srcVars, cacheVars, entry, ctx, stopVars, fetchMu, todo, ready>>
    PROVE  IInv'
  <1> USE DEF IInv, Types, srcVars, cacheVars, stopVars, Ends
  <1>1. SourceType' /\ CacheType' /\ RestType'
    BY DEF SourceType, CacheType, RestType
  <1>2. [err |-> x, value |-> v, at |-> version] \in Outcome
    BY DEF SourceType, Outcome
  <1>3. ActorType'
    BY <1>2, Facts DEF ActorType
  <1>4. MuExact'
    BY DEF MuExact, ActorType, Fetching
  <1>5. InTime'
    <2>1. SUFFICES ASSUME NEW b \in Actors, pc'[b] = "apply"
                   PROVE  at'[entry'[b]] <= res'[b].at /\ res'[b].at <= version'
      BY DEF InTime
    <2>2. entry[b] \in Entries
      BY DEF ActorType
    <2>3. CASE b = a
      BY <2>2, <2>3, Facts DEF InTime, ActorType, SourceType
    <2>4. CASE b # a
      BY <2>1, <2>4 DEF InTime, ActorType
    <2> QED
      BY <2>3, <2>4
  <1>6. FailureFlagged'
    BY DEF FailureFlagged
  <1>7. StopOrder'
    BY DEF StopOrder, ActorType
  <1>8. SleepLeft'
    BY DEF SleepLeft, ActorType
  <1> QED
    BY <1>1, <1>3, <1>4, <1>5, <1>6, <1>7, <1>8

LEMMA FetchAnswerInv == ASSUME IInv, NEW a \in Actors, FetchAnswer(a) PROVE IInv'
  <1>1. Stored(a) \in 0..MaxVersion
    BY DEF IInv, Types, SourceType, ActorType, Stored
  <1>2. CASE \E x \in Errors, v \in 0..MaxVersion : Ends(a, x, v)
    BY <1>2, FetchEnds DEF FetchAnswer
  <1>3. CASE /\ folder' = [folder EXCEPT ![a] = "default"]
             /\ attempt' = [attempt EXCEPT ![a] = 0]
             /\ UNCHANGED <<pc, res>>
    <2>1. pc' = [pc EXCEPT ![a] = "fetch"]
      BY <1>3 DEF FetchAnswer, IInv, Types, ActorType
    <2> QED
      BY <1>3, <2>1, FetchGoesOn, Facts DEF FetchAnswer
  <1>4. "parse" \in Errors /\ "nil" \in Errors /\ "notFound" \in Errors /\ 0 \in 0..MaxVersion
    BY Facts DEF Errors, Transient
  <1>5. \/ Ends(a, "parse", 0) \/ Ends(a, "nil", Stored(a)) \/ Ends(a, "notFound", 0)
        \/ /\ folder' = [folder EXCEPT ![a] = "default"]
           /\ attempt' = [attempt EXCEPT ![a] = 0]
           /\ UNCHANGED <<pc, res>>
    BY DEF FetchAnswer
  <1> QED
    BY <1>1, <1>2, <1>3, <1>4, <1>5

LEMMA FetchFailsInv == ASSUME IInv, NEW a \in Actors, FetchFails(a) PROVE IInv'
  <1>1. CASE /\ RetriesLeft(a)
             /\ pc' = [pc EXCEPT ![a] = "sleep"]
             /\ UNCHANGED <<folder, attempt, res>>
    <2>1. /\ attempt[a] \in 0..MaxRetries /\ attempt[a] < MaxRetries
          /\ folder[a] \in {"own", "default"}
          /\ attempt' = [attempt EXCEPT ![a] = attempt[a]]
          /\ folder' = [folder EXCEPT ![a] = folder[a]]
      BY <1>1 DEF IInv, Types, ActorType, RetriesLeft
    <2> QED
      BY <1>1, <2>1, FetchGoesOn DEF FetchFails
  <1>2. CASE Ends(a, IF ctx[a] THEN "ctx" ELSE "down", 0)
    <2>1. (IF ctx[a] THEN "ctx" ELSE "down") \in Errors
      BY DEF Errors, Transient
    <2> QED
      BY <1>2, <2>1, FetchEnds, Facts DEF FetchFails
  <1> QED
    BY <1>1, <1>2 DEF FetchFails

LEMMA FetchRetryInv == ASSUME IInv, NEW a \in Actors, FetchRetry(a) PROVE IInv'
  <1>1. CASE /\ pc' = [pc EXCEPT ![a] = "fetch"]
             /\ attempt' = [attempt EXCEPT ![a] = @ + 1]
             /\ UNCHANGED <<folder, res>>
    <2>1. /\ attempt[a] + 1 \in 0..MaxRetries
          /\ folder[a] \in {"own", "default"}
          /\ attempt' = [attempt EXCEPT ![a] = attempt[a] + 1]
          /\ folder' = [folder EXCEPT ![a] = folder[a]]
      BY <1>1, Facts DEF FetchRetry, IInv, Types, ActorType, SleepLeft
    <2> QED
      BY <1>1, <2>1, FetchGoesOn DEF FetchRetry
  <1>2. CASE Ends(a, "ctx", 0)
    BY <1>2, FetchEnds, Facts DEF FetchRetry, Errors, Transient
  <1> QED
    BY <1>1, <1>2 DEF FetchRetry

LEMMA FetchPanicsInv == ASSUME IInv, NEW a \in Actors, FetchPanics(a) PROVE IInv'
  <1> USE DEF IInv, Types, FetchPanics, srcVars, cacheVars, stopVars
  <1>1. PICK p \in {"mark", "idle"} : pc' = [pc EXCEPT ![a] = p]
    BY DEF PanicTarget
  <1>2. SourceType' /\ CacheType'
    BY DEF SourceType, CacheType
  <1>3. ActorType'
    BY <1>1, Facts DEF ActorType
  <1>4. RestType'
    BY DEF RestType
  <1>5. MuExact'
    BY <1>1, Facts DEF MuExact, ActorType, Fetching
  <1>6. InTime' /\ FailureFlagged'
    BY <1>1 DEF InTime, FailureFlagged, ActorType
  <1>7. StopOrder'
    BY <1>1 DEF StopOrder, ActorType
  <1>8. SleepLeft'
    BY <1>1 DEF SleepLeft, ActorType
  <1> QED
    BY <1>2, <1>3, <1>4, <1>5, <1>6, <1>7, <1>8

\* Recording a failure keeps the cache well typed, flagged and in time.
LEMMA FailedKeeps ==
    ASSUME CacheType, FailureFlagged, NEW e \in Entries, NEW x \in Transient, Failed(e, x)
    PROVE  CacheType' /\ FailureFlagged'
  <1> USE DEF Failed
  <1>1. CacheType'
    BY DEF CacheType, Errors
  <1>2. FailureFlagged'
    BY DEF CacheType, FailureFlagged
  <1> QED
    BY <1>1, <1>2

LEMMA ApplyCache ==
    ASSUME IInv, NEW a \in Actors, Apply(a)
    PROVE  /\ CacheType' /\ FailureFlagged'
           /\ \A e \in Entries : at'[e] <= version /\ at'[e] >= at[e]
           /\ \A e \in Entries : e # entry[a] => at'[e] = at[e]
  <1> USE DEF IInv, Types
  <1>0. /\ entry[a] \in Entries /\ res[a].err \in Errors /\ pc[a] = "apply"
        /\ res[a].value \in 0..MaxVersion /\ res[a].at \in 0..MaxVersion
    BY DEF ActorType, Outcome, Apply
  <1>1. CASE /\ fetchErr' = [fetchErr EXCEPT ![entry[a]] = "notFound"]
             /\ stale' = StaleAfterNotFound(entry[a])
             /\ fetched' = [fetched EXCEPT ![entry[a]] = TRUE]
             /\ UNCHANGED <<value, at>>
    <2>1. CacheType'
      BY <1>0, <1>1 DEF CacheType, StaleAfterNotFound, Errors
    <2>2. FailureFlagged'
      BY <1>0, <1>1 DEF CacheType, StaleAfterNotFound, FailureFlagged, Transient
    <2> QED
      BY <1>1, <2>1, <2>2, Facts DEF InTime, CacheType
  <1>2. CASE res[a].err \in Transient /\ Failed(entry[a], res[a].err)
    <2>1. CacheType' /\ FailureFlagged'
      BY <1>0, <1>2, FailedKeeps
    <2> QED
      BY <1>2, <2>1, Facts DEF InTime, CacheType, Failed
  <1>3. CASE /\ fetchErr' = [fetchErr EXCEPT ![entry[a]] = "nil"]
             /\ value' = [value EXCEPT ![entry[a]] = res[a].value]
             /\ at' = [at EXCEPT ![entry[a]] = res[a].at]
             /\ stale' = [stale EXCEPT ![entry[a]] = FALSE]
             /\ fetched' = [fetched EXCEPT ![entry[a]] = TRUE]
    <2>1. CacheType'
      BY <1>0, <1>3 DEF CacheType, Errors
    <2>2. FailureFlagged'
      BY <1>0, <1>3 DEF CacheType, FailureFlagged, Transient
    <2>3. res[a].at <= version /\ at[entry[a]] <= res[a].at
      BY <1>0 DEF InTime
    <2> QED
      BY <1>0, <1>3, <2>1, <2>2, <2>3, Facts DEF InTime, CacheType
  <1> QED
    BY <1>1, <1>2, <1>3 DEF Apply

LEMMA ApplyInv == ASSUME IInv, NEW a \in Actors, Apply(a) PROVE IInv'
  <1> USE DEF IInv, Types
  <1>0. entry[a] \in Entries /\ pc[a] = "apply" /\ fetchMu[entry[a]] = a
    BY DEF ActorType, Apply, MuExact, Fetching
  <1>1. PICK p \in {"round", "read"} : pc' = [pc EXCEPT ![a] = p]
    BY DEF Apply, After
  <1>2. SourceType'
    BY DEF Apply, srcVars, SourceType
  <1>3. CacheType' /\ FailureFlagged'
    BY ApplyCache
  <1>4. ActorType'
    BY <1>0, <1>1, Facts DEF Apply, ActorType
  <1>5. RestType'
    BY DEF Apply, RestType, stopVars
  <1>6. MuExact'
    BY <1>0, <1>1, Facts DEF Apply, MuExact, ActorType, Fetching
  <1>7. InTime'
    <2>1. \A e \in Entries : at'[e] <= version'
      BY ApplyCache DEF Apply, srcVars
    <2>2. ASSUME NEW b \in Actors, pc'[b] = "apply"
          PROVE  at'[entry'[b]] <= res'[b].at /\ res'[b].at <= version'
      <3>1. b # a /\ pc[b] = "apply" /\ entry'[b] = entry[b] /\ res'[b] = res[b]
        BY <1>1, <2>2 DEF Apply, ActorType
      <3>2. entry[b] \in Entries /\ entry[b] # entry[a]
        BY <1>0, <3>1 DEF MuExact, ActorType, Fetching
      <3> QED
        BY <3>1, <3>2, ApplyCache DEF InTime, Apply, srcVars
    <2> QED
      BY <2>1, <2>2 DEF InTime
  <1>8. StopOrder'
    BY <1>0, <1>1 DEF Apply, StopOrder, ActorType, stopVars
  <1>9. SleepLeft'
    BY <1>1 DEF Apply, SleepLeft, ActorType
  <1> QED
    BY <1>2, <1>3, <1>4, <1>5, <1>6, <1>7, <1>8, <1>9

LEMMA MarkStaleInv == ASSUME IInv, MarkStale PROVE IInv'
  <1> USE DEF IInv, Types
  <1>1. SourceType'
    BY DEF MarkStale, srcVars, SourceType
  <1>2. PICK p \in {"mark", "select"} : pc' = [pc EXCEPT ![Poller] = p]
    BY Facts DEF MarkStale, ActorType
  <1>3. ActorType'
    BY <1>2, Facts DEF MarkStale, ActorType
  <1>4. RestType'
    BY DEF MarkStale, RestType, stopVars
  <1>5. CacheType' /\ FailureFlagged' /\ UNCHANGED at
    <2>1. CASE UNCHANGED cacheVars
      BY <2>1 DEF cacheVars, CacheType, FailureFlagged
    <2>2. CASE \E e \in todo : Failed(e, "panic")
      <3>1. PICK e \in Entries : Failed(e, "panic")
        BY <2>2 DEF RestType
      <3>2. "panic" \in Transient
        BY DEF Transient
      <3> QED
        BY <3>1, <3>2, FailedKeeps DEF Failed
    <2> QED
      BY <2>1, <2>2 DEF MarkStale
  <1>6. pc[Poller] = "mark" /\ UNCHANGED <<srcVars, entry, attempt, res, stopVars, fetchMu>>
    BY DEF MarkStale
  <1>7. MuExact'
    BY <1>2, <1>6, Facts DEF MuExact, ActorType, Fetching
  <1>8. InTime'
    BY <1>2, <1>5, <1>6 DEF InTime, ActorType, srcVars
  <1>9. StopOrder'
    BY <1>2, <1>6, Facts DEF StopOrder, ActorType, stopVars
  <1>10. SleepLeft'
    BY <1>2, <1>6 DEF SleepLeft, ActorType
  <1> QED
    BY <1>1, <1>3, <1>4, <1>5, <1>7, <1>8, <1>9, <1>10

LEMMA StopInv ==
    ASSUME IInv, NEW s \in Stoppers, StopCall(s) \/ StopClose(s) \/ StopOthers(s)
    PROVE  IInv'
  <1> USE DEF IInv, Types, StopCall, StopClose, StopOthers, srcVars, cacheVars, actorVars
  <1>1. SourceType' /\ CacheType' /\ ActorType'
    BY DEF SourceType, CacheType, ActorType
  <1>2. RestType'
    BY DEF RestType, QueuedPc
  <1>3. MuExact' /\ InTime' /\ SleepLeft' /\ FailureFlagged'
    BY DEF MuExact, InTime, SleepLeft, FailureFlagged
  <1>4. StopOrder'
    BY DEF StopOrder, RestType, QueuedPc, PollerGone
  <1> QED
    BY <1>1, <1>2, <1>3, <1>4

LEMMA StutterInv == ASSUME IInv, UNCHANGED vars PROVE IInv'
  <1> USE DEF IInv, Types, vars, srcVars, cacheVars, actorVars, stopVars
  <1>1. SourceType' /\ CacheType' /\ ActorType' /\ RestType'
    BY DEF SourceType, CacheType, ActorType, RestType
  <1>2. MuExact' /\ InTime' /\ StopOrder' /\ SleepLeft' /\ FailureFlagged'
    BY DEF MuExact, InTime, StopOrder, SleepLeft, FailureFlagged
  <1> QED
    BY <1>1, <1>2

LEMMA NextInv == ASSUME IInv, [Next]_vars PROVE IInv'
  BY SourceInv, CtxEndInv, LockInv, FetchAnswerInv, FetchFailsInv, FetchRetryInv,
     FetchPanicsInv, ApplyInv, GetInv, GetReturnInv, PollInv, MarkStaleInv, StopInv,
     StutterInv DEF Next, FetchStep

-----------------------------------------------------------------------------
(* The theorems.                                                           *)

\* The inductive invariant holds in every reachable state of a loader.
THEOREM Invariance == Spec => []IInv
  BY InitInv, NextInv, PTL DEF Spec

\* The loader's state is well typed.
THEOREM TypeCorrect == Spec => []TypeOK
  <1>1. IInv => TypeOK
    BY TypesSame DEF IInv
  <1> QED
    BY <1>1, Invariance, PTL

\* refreshOne: an actor that fetches an entry holds its fetchMu, and nobody
\* else does.
THEOREM FetchesSerialized == Spec => []MuExact
  <1>1. IInv => MuExact
    BY DEF IInv
  <1> QED
    BY <1>1, Invariance, PTL

\* refreshOne and markAllStale: stale is set exactly for a value whose last
\* refresh failed.
THEOREM Flagged == Spec => []FailureFlagged
  <1>1. IInv => FailureFlagged
    BY DEF IInv
  <1> QED
    BY <1>1, Invariance, PTL

\* Stop: when any call returns, the poller is gone and the client is closed.
THEOREM Stopped == Spec => []StopMeansClosed
  <1>1. IInv => StopMeansClosed
    BY DEF IInv, StopOrder, StopMeansClosed
  <1> QED
    BY <1>1, Invariance, PTL

\* refreshOne: no outcome of a fetch overwrites that of a later one.
THEOREM GoesForward == Spec => CacheGoesForward
  <1>1. ASSUME IInv, [Next]_vars PROVE \A e \in Entries : at'[e] >= at[e]
    <2>1. CASE \E a \in Actors : Apply(a)
      BY <1>1, <2>1, ApplyCache
    <2>2. CASE UNCHANGED at
      BY <1>1, <2>2 DEF IInv, Types, CacheType
    <2>3. CASE ~\E a \in Actors : Apply(a)
      <3>1. UNCHANGED at
        BY <1>1, <2>3 DEF Next, FetchStep, SourceWrite, SourceToggle, CtxEnd, Lock,
           FetchAnswer, FetchFails, FetchRetry, FetchPanics, GetReturn, Get, PollTick,
           PollNext, MarkStale, PollExit, StopCall, StopClose, StopOthers, Failed,
           vars, cacheVars
      <3> QED
        BY <2>2, <3>1
    <2> QED
      BY <2>1, <2>3
  <1>2. (IInv /\ [Next]_vars) => [\A e \in Entries : at'[e] >= at[e]]_vars
    BY <1>1
  <1> QED
    BY <1>2, Invariance, PTL DEF Spec, CacheGoesForward

-----------------------------------------------------------------------------
(* Nobody waits in a circle.                                               *)

\* Somebody carries Stop out once it was called.
StopCarried ==
    /\ pc[Poller] \notin {"idle", "read"}
    /\ stopCh => closed \/ \E r \in Stoppers : stopPc[r] = "first"
    /\ \A s \in Stoppers : stopPc[s] # "idle" => stopCh

LEMMA CarriedNext == ASSUME IInv, StopCarried, [Next]_vars PROVE StopCarried'
  <1>0. /\ pc \in [Actors -> {"idle", "select", "round", "lock", "fetch", "sleep",
                             "apply", "read", "mark", "gone"}]
        /\ stopPc \in [Stoppers -> {"idle", "first", "queued", "returned"}]
    BY DEF IInv, Types, ActorType, RestType
  <1>1. ASSUME UNCHANGED stopVars, pc'[Poller] \notin {"idle", "read"} PROVE StopCarried'
    BY <1>1 DEF StopCarried, stopVars
  <1>2. ASSUME NEW s \in Stoppers, StopCall(s) \/ StopClose(s) \/ StopOthers(s) PROVE StopCarried'
    <2>1. UNCHANGED pc
      BY <1>2 DEF StopCall, StopClose, StopOthers, actorVars
    <2>2. CASE StopCall(s)
      BY <1>0, <2>1, <2>2 DEF StopCall, QueuedPc, StopCarried
    <2>3. CASE StopClose(s)
      BY <1>0, <2>1, <2>3 DEF StopClose, StopCarried
    <2>4. CASE StopOthers(s)
      BY <1>0, <2>1, <2>4 DEF StopOthers, StopCarried
    <2> QED
      BY <1>2, <2>2, <2>3, <2>4
  <1>3. CASE (\E e \in Entries : SourceWrite(e)) \/ SourceToggle \/ (\E a \in Actors : CtxEnd(a)) \/ UNCHANGED vars
    <2>1. UNCHANGED <<pc, stopVars>>
      BY <1>3 DEF SourceWrite, SourceToggle, CtxEnd, vars, actorVars
    <2> QED
      BY <1>1, <2>1 DEF StopCarried
  <1>4. ASSUME NEW a \in Actors, Lock(a) \/ FetchStep(a) \/ Apply(a) PROVE StopCarried'
    <2>1. UNCHANGED stopVars
      BY <1>4 DEF Lock, FetchStep, FetchAnswer, FetchFails, FetchRetry, FetchPanics, Apply
    <2>2. PICK p : pc' = [pc EXCEPT ![a] = p] /\ (a = Poller => p \notin {"idle", "read"})
      <3>1. pc' = pc => pc' = [pc EXCEPT ![a] = pc[a]]
        BY <1>0
      <3>2. a = Poller => pc[a] \notin {"idle", "read"}
        BY DEF StopCarried
      <3> QED
        BY <1>4, <3>1, <3>2 DEF Lock, FetchStep, FetchAnswer, FetchFails, FetchRetry, FetchPanics, Apply,
           Ends, After, PanicTarget
    <2>3. pc'[Poller] \notin {"idle", "read"}
      BY <1>0, <2>2, Facts DEF StopCarried
    <2> QED
      BY <1>1, <2>1, <2>3
  <1>5. ASSUME NEW g \in Getters, GetReturn(g) \/ \E e \in Entries : Get(g, e) PROVE StopCarried'
    <2>1. UNCHANGED stopVars /\ pc'[Poller] = pc[Poller]
      BY <1>0, <1>5, Facts DEF GetReturn, Get
    <2> QED
      BY <1>1, <2>1 DEF StopCarried
  <1>6. CASE PollTick \/ PollNext \/ MarkStale \/ PollExit
    <2>1. UNCHANGED stopVars
      BY <1>6 DEF PollTick, PollNext, MarkStale, PollExit
    <2>2. pc'[Poller] \notin {"idle", "read"}
      BY <1>0, <1>6, Facts DEF PollTick, PollNext, MarkStale, PollExit
    <2> QED
      BY <1>1, <2>1, <2>2
  <1> QED
    BY <1>2, <1>3, <1>4, <1>5, <1>6 DEF Next

\* Get, the polling goroutine and Stop never wait for one another in a circle,
\* for any entries, callers and retries.
THEOREM CallsNeverStuck == Spec => []NoCallStuck
  <1>1. Init => StopCarried
    BY Facts DEF Init, StopCarried
  <1>2. IInv /\ StopCarried /\ [Next]_vars => StopCarried'
    BY CarriedNext
  <1>3. ASSUME IInv, StopCarried PROVE NoCallStuck
    <2>0. /\ pc \in [Actors -> {"idle", "select", "round", "lock", "fetch", "sleep",
                               "apply", "read", "mark", "gone"}]
          /\ fetchMu \in [Entries -> Actors \cup {Nobody}] /\ entry \in [Actors -> Entries]
      BY <1>3 DEF IInv, Types, ActorType
    <2>1. ASSUME NEW a \in Actors, pc[a] \notin {"idle", "gone"} PROVE Served(a)
      <3>1. CASE pc[a] # "lock"
        BY <2>0, <2>1, <3>1 DEF Served, GoesOn
      <3>2. CASE pc[a] = "lock" /\ fetchMu[entry[a]] = Nobody
        BY <3>2 DEF Served, GoesOn, FetchMuFree
      <3>3. CASE fetchMu[entry[a]] # Nobody
        <4>1. PICK b \in Actors : fetchMu[entry[a]] = b
          BY <2>0, <3>3
        <4>2. pc[b] \in {"fetch", "sleep", "apply"}
          BY <1>3, <2>0, <4>1 DEF IInv, MuExact, Fetching
        <4> QED
          BY <4>1, <4>2 DEF Served, GoesOn
      <3> QED
        BY <3>1, <3>2, <3>3
    <2>2. PollerGone \/ Served(Poller)
      BY <1>3, <2>1, Facts DEF StopCarried, PollerGone
    <2> QED
      BY <1>3, <2>1, <2>2 DEF NoCallStuck, StopCarried
  <1> QED
    BY <1>1, <1>2, <1>3, Invariance, PTL DEF Spec
=============================================================================
