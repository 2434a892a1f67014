------------------------------ MODULE ErrGroup ------------------------------
(***************************************************************************)
(* Groups of tasks (errgroup): a group limits how many of its tasks run,   *)
(* keeps the first error, which cancels its context, and turns a panic     *)
(* into an error.  The context of a child group (SubGroup) is derived from *)
(* its parent's.                                                           *)
(*                                                                         *)
(* Each group has an owner that makes it and waits for it: the main        *)
(* goroutine, or a task of some group, which returns only when it has      *)
(* waited.  Go and TryGo are called by any number of goroutines of the     *)
(* owner, which have returned before it waits, and by tasks of the group.  *)
(* What golang.org/x/sync/errgroup does is marked upstream.                *)
(***************************************************************************)
EXTENDS Integers, FiniteSets

CONSTANTS Groups, Tasks,
          Parent,        \* group -> its parent, or NoGroup
          GroupOf,       \* task -> the group that it is given to
          Owner,         \* group -> the task that owns it, or Main
          Limits,        \* the values that WithMaxConcurrency may be given
          NotGiven,      \* for a group made without WithMaxConcurrency
          DefaultMaxConcurrency,
          NoGroup, NoTask, Main

\* Every task is given to one group, and a child's parent is a group.
WellFormed ==
    /\ GroupOf \in [Tasks -> Groups] /\ NoTask \notin Tasks
    /\ Parent \in [Groups -> Groups \cup {NoGroup}]
    /\ Limits \subseteq Int /\ DefaultMaxConcurrency \in Int

ASSUME GroupAssumption == WellFormed

VARIABLES
    opt,       \* group -> the limit of its options, or NotGiven
    gpc,       \* group -> "none", "open" (tasks may be given), "wait", "waited"
    limit,     \* group -> maxConcurrency
    gcanceled, \* the groups whose own context was canceled
    outside,   \* the context given to New of the first group was canceled
    gerr,      \* group -> the first error: "nil", "fail", "panic" or "ctx"
    tpc,       \* task -> "new", "given" (its Go waits for a slot), "rejected",
               \* "begun", "running", "ended", "done"
    giver,     \* task -> while it is given, the task of its group that called Go,
               \* or NoTask for the owner's side
    result,    \* task -> what the adapted task returned; "nil" before
    ran        \* the tasks whose function was called

gvars == <<opt, gpc, limit, gcanceled, outside, gerr, tpc, giver, result, ran>>

TasksOf(g) == {t \in Tasks : GroupOf[t] = g}

GroupsInit ==
    /\ opt \in [Groups -> Limits \cup {NotGiven}]
    /\ gpc = [g \in Groups |-> "none"] /\ limit = [g \in Groups |-> 0]
    /\ gcanceled = {} /\ outside = FALSE
    /\ gerr = [g \in Groups |-> "nil"]
    /\ tpc = [t \in Tasks |-> "new"] /\ giver = [t \in Tasks |-> NoTask]
    /\ result = [t \in Tasks |-> "nil"]
    /\ ran = {}

\* A task whose function is in a call of Go that waits for a slot.
Giving(x) == \E t \in Tasks : tpc[t] = "given" /\ giver[t] = x

\* The owner can make its next call, and no Go of its side is under way.
CanCall(x) == x \in Tasks => tpc[x] = "running" /\ ~Giving(x)
OwnerFree(g) ==
    CanCall(Owner[g]) /\ \A t \in TasksOf(g) : tpc[t] = "given" => giver[t] # NoTask

\* The groups whose contexts a group's context is derived from, other than it:
\* the smallest set with its parent and the parent of every member.
Ancestors(g) ==
    {a \in Groups : \A S \in SUBSET Groups :
        (\A b \in S \cup {g} : Parent[b] \in S \cup {NoGroup}) => a \in S}

CanceledOutside(g) == outside \/ Ancestors(g) \cap gcanceled # {}
\* g.ctx.Err() # nil
Canceled(g) == CanceledOutside(g) \/ g \in gcanceled

-----------------------------------------------------------------------------
(* New, SubGroup, Go and TryGo.                                            *)

\* SubGroup puts the parent's limit before the options of the caller.
SubGroup(g) == IF opt[g] # NotGiven THEN opt[g] ELSE limit[Parent[g]]

\* New, or SubGroup of a group that has a parent: the limit of the options,
\* else the default.
New(g) ==
    /\ gpc[g] = "none" /\ CanCall(Owner[g])
    /\ Parent[g] # NoGroup => gpc[Parent[g]] # "none"
    /\ gpc' = [gpc EXCEPT ![g] = "open"]
    /\ limit' = [limit EXCEPT ![g] = IF Parent[g] # NoGroup THEN SubGroup(g)
                                     ELSE IF opt[g] # NotGiven THEN opt[g]
                                     ELSE DefaultMaxConcurrency]
    /\ UNCHANGED <<opt, gcanceled, outside, gerr, tpc, giver, result, ran>>

\* Seeded bug: a limit of zero is set too, and lets no task begin.
EnforcedFromZero(n) == n >= 0
\* New sets a limit only if it is positive.
Enforced(n) == n > 0

\* upstream: the tasks that have a slot of the group; one is free.
Holders(g) == {t \in TasksOf(g) : tpc[t] \in {"begun", "running", "ended"}}
Slot(g) == Enforced(limit[g]) => Cardinality(Holders(g)) < limit[g]

\* upstream: the goroutine of a task begins.
Begin(t) == tpc' = [tpc EXCEPT ![t] = "begun"]

\* Who may give a task to the group now: the owner's side before it waits, and
\* the tasks of the group that run, also while the group is waited for.
Givers(g) == {x \in TasksOf(g) : tpc[x] = "running" /\ ~Giving(x)}
             \cup {x \in {NoTask} : gpc[g] = "open"}

Go(t) ==
    /\ tpc[t] = "new"
    /\ \E x \in Givers(GroupOf[t]) : giver' = [giver EXCEPT ![t] = x]
    /\ tpc' = [tpc EXCEPT ![t] = "given"]
    /\ UNCHANGED <<opt, gpc, limit, gcanceled, outside, gerr, result, ran>>

\* Go waits for a slot, whatever becomes of the context.
GoReturns(t) ==
    /\ tpc[t] = "given" /\ Slot(GroupOf[t])
    /\ Begin(t)
    /\ giver' = [giver EXCEPT ![t] = NoTask]
    /\ UNCHANGED <<opt, gpc, limit, gcanceled, outside, gerr, result, ran>>

TryGo(t) ==
    /\ tpc[t] = "new" /\ Givers(GroupOf[t]) # {}
    /\ IF Slot(GroupOf[t]) THEN Begin(t) ELSE tpc' = [tpc EXCEPT ![t] = "rejected"]
    /\ UNCHANGED <<opt, gpc, limit, gcanceled, outside, gerr, giver, result, ran>>

-----------------------------------------------------------------------------
(* adaptTask, and what upstream does with its result.                      *)

Ends(t, r) ==
    /\ tpc' = [tpc EXCEPT ![t] = "ended"]
    /\ result' = [result EXCEPT ![t] = r]

\* Seeded bug: a task that is skipped reports nothing.
SkipSilently == "nil"
\* What a task that is not run returns: the error of the context.
Skip == "ctx"

\* The check of the context, then the function.
Preflight(t) ==
    /\ tpc[t] = "begun"
    /\ IF Canceled(GroupOf[t]) THEN Ends(t, Skip) /\ UNCHANGED ran
       ELSE tpc' = [tpc EXCEPT ![t] = "running"] /\ ran' = ran \cup {t} /\ UNCHANGED result
    /\ UNCHANGED <<opt, gpc, limit, gcanceled, outside, gerr, giver>>

\* The function returns nil or an error, or panics; it may return the error of
\* its context.  An owner has waited for its group before.
TaskReturns(t) ==
    /\ tpc[t] = "running" /\ ~Giving(t)
    /\ \A g \in Groups : Owner[g] = t => gpc[g] \in {"none", "waited"}
    /\ \/ \E r \in {"nil", "fail", "panic"} : Ends(t, r)
       \/ Canceled(GroupOf[t]) /\ Ends(t, "ctx")
    /\ UNCHANGED <<opt, gpc, limit, gcanceled, outside, gerr, giver, ran>>

\* upstream: the first error is kept and cancels the context; then the slot is
\* given back.
Done(t) ==
    LET g == GroupOf[t]
        first == result[t] # "nil" /\ gerr[g] = "nil"
    IN
    /\ tpc[t] = "ended"
    /\ tpc' = [tpc EXCEPT ![t] = "done"]
    /\ gerr' = IF first THEN [gerr EXCEPT ![g] = result[t]] ELSE gerr
    /\ gcanceled' = IF first THEN gcanceled \cup {g} ELSE gcanceled
    /\ UNCHANGED <<opt, gpc, limit, outside, giver, result, ran>>

-----------------------------------------------------------------------------
(* Wait.                                                                   *)

Wait(g) ==
    /\ gpc[g] = "open" /\ OwnerFree(g)
    /\ gpc' = [gpc EXCEPT ![g] = "wait"]
    /\ UNCHANGED <<opt, limit, gcanceled, outside, gerr, tpc, giver, result, ran>>

\* upstream: every task is done; the context is canceled.
WaitReturns(g) ==
    /\ gpc[g] = "wait"
    /\ \A t \in TasksOf(g) : tpc[t] \in {"new", "rejected", "done"}
    /\ gpc' = [gpc EXCEPT ![g] = "waited"]
    /\ gcanceled' = gcanceled \cup {g}
    /\ UNCHANGED <<opt, limit, outside, gerr, tpc, giver, result, ran>>

\* The caller cancels the context that it gave to New.
CancelOutside ==
    /\ ~outside /\ outside' = TRUE
    /\ UNCHANGED <<opt, gpc, limit, gcanceled, gerr, tpc, giver, result, ran>>

-----------------------------------------------------------------------------
GroupStep(g) == New(g) \/ Wait(g) \/ WaitReturns(g)
TaskStep(t)  == GoReturns(t) \/ Preflight(t) \/ TaskReturns(t) \/ Done(t)

GroupsNext ==
    \/ \E g \in Groups : GroupStep(g)
    \/ \E t \in Tasks : Go(t) \/ TryGo(t) \/ TaskStep(t)
    \/ CancelOutside

GroupsSpec == GroupsInit /\ [][GroupsNext]_gvars

\* Tasks return, and an owner waits for its group in the end.  Nobody need give
\* a group more tasks, or cancel the context.
GroupsFairSpec ==
    /\ GroupsSpec
    /\ \A g \in Groups : WF_gvars(Wait(g)) /\ WF_gvars(WaitReturns(g))
    /\ \A t \in Tasks : WF_gvars(TaskStep(t))

GroupsTypeOK ==
    /\ opt \in [Groups -> Limits \cup {NotGiven}]
    /\ gpc \in [Groups -> {"none", "open", "wait", "waited"}]
    /\ limit \in [Groups -> Int]
    /\ gcanceled \subseteq Groups /\ outside \in BOOLEAN
    /\ gerr \in [Groups -> {"nil", "fail", "panic", "ctx"}]
    /\ tpc \in [Tasks -> {"new", "given", "rejected", "begun", "running", "ended", "done"}]
    /\ giver \in [Tasks -> Tasks \cup {NoTask}]
    /\ result \in [Tasks -> {"nil", "fail", "panic", "ctx"}]
    /\ ran \subseteq Tasks

-----------------------------------------------------------------------------
(* What Wait returns is what happened.  Nil: every task that the group     *)
(* accepted ran and returned nil, none was skipped and none panicked.  The *)
(* error of the context: the cancellation came from outside of the group,  *)
(* from the caller or from an ancestor; the group's own cancellation,      *)
(* which makes its later tasks return that error, never hides the failure  *)
(* that caused it.  A failure or a panic: a task of this group, not of a   *)
(* child, ended that way (New, SubGroup, adaptTask, Wait).                 *)
WaitTells ==
    \A g \in Groups : gpc[g] = "waited" =>
        /\ gerr[g] = "nil" => \A t \in TasksOf(g) : tpc[t] = "done" => t \in ran /\ result[t] = "nil"
        /\ gerr[g] = "ctx" => CanceledOutside(g)
        /\ gerr[g] \in {"fail", "panic"} => \E t \in TasksOf(g) : t \in ran /\ result[t] = gerr[g]

\* Some height falls from the group of a task to the groups that the task owns:
\* no task owns the group that it belongs to, directly or through others.
Nested(height) ==
    \A g \in Groups : Owner[g] \in Tasks => height[g] < height[GroupOf[Owner[g]]]

\* Every slot of the group is held by a task whose own Go on the group waits for
\* one: none of them will ever be free.
SelfBlocked(g) == ~Slot(g) /\ Holders(g) # {} /\ \A t \in Holders(g) : Giving(t)

\* The task can take its next step, and one of these groups, or a task of them.
TaskGoesOn(t) ==
    \/ tpc[t] = "given" /\ Slot(GroupOf[t])
    \/ tpc[t] \in {"begun", "ended"}
    \/ tpc[t] = "running" /\ ~Giving(t)
          /\ \A g \in Groups : Owner[g] = t => gpc[g] \in {"none", "waited"}
GoOn(some) ==
    \E g \in some :
        \/ gpc[g] = "open" /\ OwnerFree(g)
        \/ gpc[g] = "wait" /\ \A t \in TasksOf(g) : tpc[t] \in {"new", "rejected", "done"}
        \/ \E t \in TasksOf(g) : TaskGoesOn(t)

(* A Go of a task on its own group, when that is full of such tasks, is    *)
(* all that can block a Go or a Wait for good.  Take any groups together   *)
(* with all that their tasks own; while one of them is open or waited for, *)
(* a Go, a Wait or a task of them can take its next step, whatever the     *)
(* rest of the program does, unless one of them is blocked by its own      *)
(* tasks or has an owner that waits for a slot of its own group (Go, Wait, *)
(* New and its limits).                                                    *)
NoGroupStuck ==
    \A some \in SUBSET Groups :
        /\ \A g \in Groups : Owner[g] \in Tasks /\ GroupOf[Owner[g]] \in some => g \in some
        /\ \E g \in some : gpc[g] \in {"open", "wait"}
        => GoOn(some) \/ \E g \in some : SelfBlocked(g) \/ Giving(Owner[g])

(* Every group that was made is waited for to the end, unless some group   *)
(* is blocked by tasks that call its Go: whatever the limit (zero and less *)
(* mean none, and a child takes its parent's), the order of Go, TryGo and  *)
(* the tasks, failures, panics and cancellations, no other Go and no Wait  *)
(* blocks for ever (New, SubGroup, Go, Wait).                              *)
GroupsEnd ==
    \A g \in Groups : (gpc[g] # "none") ~> (gpc[g] = "waited" \/ \E k \in Groups : SelfBlocked(k))
=============================================================================
