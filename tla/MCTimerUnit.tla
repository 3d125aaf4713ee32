---------------------------- MODULE MCTimerUnit ----------------------------
(* Timers 0 and 2: timer 0 counts cycles, the elapses of timer 2, or its   *)
(* input, to one maximum or two, once or continuously, triggered or not.   *)
EXTENDS TimerUnit

On == [Off EXCEPT !.en = TRUE, !.int = TRUE]

\* The firmware may clear MC but has no reason to set it.
ModeWords ==
  {Off, [On EXCEPT !.cont = TRUE, !.int = FALSE], [On EXCEPT !.cont = TRUE, !.p = TRUE],
   [On EXCEPT !.alt = TRUE, !.rtg = TRUE], [On EXCEPT !.alt = TRUE, !.ext = TRUE]}

\* A count that is worked out when somebody asks is not told apart from one
\* worked out already.
Counts == <<[t \in TimerIds |-> Synced(timer[t])], status>>
=============================================================================
