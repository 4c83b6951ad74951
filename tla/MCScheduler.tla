---------------------------- MODULE MCScheduler ----------------------------
(* Bounded instances of Scheduler for TLC.                                 *)
EXTENDS Scheduler

CONSTANTS t1, t2, t3, t4

(* Every task has its own id.                                              *)
DistinctIds == [t \in {t1, t2, t3, t4} |-> t]
=============================================================================
