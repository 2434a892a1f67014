---------------------------- MODULE MCCronEngine ----------------------------
(* One job with two runs at a time and two concurrent Stop calls.          *)
EXTENDS CronEngine

CONSTANTS r1, r2, j1, s1, s2

TwoRuns     == {r1, r2}
OneJob      == {j1}
TwoStoppers == {s1, s2}
=============================================================================
