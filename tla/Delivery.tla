------------------------------ MODULE Delivery ------------------------------
(***************************************************************************)
(* What a consumer promises of every message (nats/README.md, Config of    *)
(* nats/consumer): at most MaxDeliver attempts, one at a time, with at     *)
(* most Room messages in hand.  A message is settled only by the outcome   *)
(* of an attempt, which may get lost on its way to the server, and is      *)
(* given up only between attempts, when there are none left.               *)
(***************************************************************************)
EXTENDS Naturals, FiniteSets

CONSTANTS Msgs, Room, MaxDeliver

VARIABLES
    fate,   \* of a message: "open", "acked", "termed" or "exhausted"
    tries,  \* the attempts so far
    work    \* the attempt under way: "none", "pulled", "handled", or the result

Results == {"nil", "noRetry", "failed"}
InHand  == {m \in Msgs : work[m] # "none"}

Init ==
    /\ fate = [m \in Msgs |-> "open"]
    /\ tries = [m \in Msgs |-> 0]
    /\ work = [m \in Msgs |-> "none"]

Attempt(m) ==
    /\ fate[m] = "open" /\ work[m] = "none"
    /\ tries[m] < MaxDeliver
    /\ Cardinality(InHand) < Room
    /\ tries' = [tries EXCEPT ![m] = @ + 1]
    /\ work' = [work EXCEPT ![m] = "pulled"]
    /\ UNCHANGED fate

Call(m) ==
    /\ work[m] = "pulled"
    /\ work' = [work EXCEPT ![m] = "handled"]
    /\ UNCHANGED <<fate, tries>>

Return(m) ==
    /\ work[m] = "handled"
    /\ \E r \in Results : work' = [work EXCEPT ![m] = r]
    /\ UNCHANGED <<fate, tries>>

\* The fates that the end of an attempt may leave.
Fates(m) ==
    {"open"} \cup (CASE work[m] = "nil"     -> {"acked"}
                     [] work[m] = "noRetry" -> {"termed"}
                     [] OTHER -> IF tries[m] = MaxDeliver THEN {"exhausted"} ELSE {})

\* The attempt ends, with its result or before the handler was called.
End(m) ==
    /\ work[m] \in Results \cup {"pulled"}
    /\ fate[m] = "open"
    /\ \E f \in Fates(m) : fate' = [fate EXCEPT ![m] = f]
    /\ work' = [work EXCEPT ![m] = "none"]
    /\ UNCHANGED tries

\* The last attempt brought no result that reached the server.
GiveUp(S) ==
    /\ \A m \in S : fate[m] = "open" /\ work[m] = "none" /\ tries[m] = MaxDeliver
    /\ fate' = [m \in Msgs |-> IF m \in S THEN "exhausted" ELSE fate[m]]
    /\ UNCHANGED <<tries, work>>

Next ==
    \/ \E m \in Msgs : Attempt(m) \/ Call(m) \/ Return(m) \/ End(m)
    \/ \E S \in SUBSET Msgs : GiveUp(S)

dvars == <<fate, tries, work>>
Spec == Init /\ [][Next]_dvars
=============================================================================
