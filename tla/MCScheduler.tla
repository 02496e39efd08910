---------------------------- MODULE MCScheduler ----------------------------
(* Values of the constants of Scheduler for TLC. *)
EXTENDS Scheduler

(* The quanta grow with the level, as in ml_policy_mlq and ml_policy_mlfq. *)
MCQuantum == [l \in Levels |-> l + 1]

=============================================================================
