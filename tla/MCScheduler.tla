----------------------------- MODULE MCScheduler -----------------------------
(* Scheduler for TLC: services are interchangeable. *)
EXTENDS Scheduler, TLC

ServiceSymmetry == Permutations(Services)
=============================================================================
