---------------------------- MODULE MCScheduler ----------------------------
(* Instances of Scheduler for TLC. *)
EXTENDS Scheduler

(* A zone west of Greenwich and one east of it. *)
WestAndEast == {-1, 1}
=============================================================================
