---------------------------- MODULE MCScheduler ----------------------------
(***************************************************************************)
(* Instances of Scheduler for TLC: a frequent job and rarer ones.          *)
(***************************************************************************)
EXTENDS Scheduler

Periods == [j \in Jobs |-> IF j = 1 THEN 1 ELSE 2]
Together == [j \in Jobs |-> 1]
=============================================================================
