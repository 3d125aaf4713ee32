---------------------------- MODULE MCScheduler ----------------------------
(* Small instances of Scheduler: two timers, instructions of one to four   *)
(* cycles, delays shorter and longer than a slice.                         *)
EXTENDS Scheduler

TwoTimers == {0, 1}
=============================================================================
