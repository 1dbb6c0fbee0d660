------------------------------ MODULE MCSched ------------------------------
(* Instances of Sched for TLC: timers are interchangeable. *)
EXTENDS Sched

TimerSymmetry == Permutations(Timers)
=============================================================================
