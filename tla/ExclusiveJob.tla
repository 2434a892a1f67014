---------------------------- MODULE ExclusiveJob ----------------------------
(***************************************************************************)
(* What a distributed lock promises to a cron job (cron/cron.go: a Locker  *)
(* keeps a job running on one worker at a time): the handler runs on at    *)
(* most one worker, and each run starts with a fencing token larger than   *)
(* that of every run before it.                                            *)
(***************************************************************************)
EXTENDS Naturals

CONSTANTS Workers, Nobody

VARIABLES
    owner,  \* the worker whose handler runs, or Nobody
    epoch   \* the fencing token of the last run that started

Init == owner = Nobody /\ epoch = 0

Enter(w) ==
    /\ owner = Nobody
    /\ owner' = w
    /\ epoch' \in Nat /\ epoch' > epoch

Exit ==
    /\ owner # Nobody
    /\ owner' = Nobody
    /\ UNCHANGED epoch

Next == Exit \/ \E w \in Workers : Enter(w)

Spec == Init /\ [][Next]_<<owner, epoch>>
=============================================================================
