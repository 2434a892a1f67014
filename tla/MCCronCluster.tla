---------------------------- MODULE MCCronCluster ---------------------------
(* The cluster with three workers.                                         *)
EXTENDS CronCluster

CONSTANTS w1, w2, w3

ThreeWorkers == {w1, w2, w3}
=============================================================================
