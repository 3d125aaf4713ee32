----------------------------- MODULE TimerUnit -----------------------------
(***************************************************************************)
(* The three timers of mame/i186.cpp.  A running timer does not count: it  *)
(* has a deadline with the scheduler (int_timer), and its count is worked  *)
(* out from the time left when a register is accessed.                     *)
(*                                                                         *)
(* Time passes one cycle at a time; Scheduler shows that the deadlines are *)
(* honoured to the cycle and never overdue when an instruction starts.     *)
(* The output pins (TMROUT) are not connected on this card; its firmware   *)
(* cannot start DMA (internal_port_offset maps no DMA register of the EB), *)
(* so the DMA requests of timer 2 are left out.                            *)
(***************************************************************************)
EXTENDS TimerControl

VARIABLES
  timer,         \* m_timer: [ctl, maxA, maxB, count, left], where left is the
                 \* time to the deadline, 0 when there is none
  status         \* m_intr.status: timers that request an interrupt

vars == <<timer, status>>

Init == /\ timer = [t \in TimerIds |-> [ctl |-> Off, maxA |-> 0, maxB |-> 0,
                                        count |-> 0, left |-> 0]]
        /\ status = {}

TopOf(r) == Top(r.ctl, r.maxA, r.maxB)

Laps(n) == IF n = 0 THEN Range ELSE n

-----------------------------------------------------------------------------
(* The helpers; r is the record of one timer.                              *)

\* Mutant of Synced: the count lags one behind.
SyncedBehind(r) ==
  IF FreeRunning(r.ctl) /\ r.left # 0
    THEN [r EXCEPT !.count = (TopOf(r) - (r.left + Prescale - 1) \div Prescale) % Range]
    ELSE r

\* internal_timer_sync
Synced(r) ==
  IF FreeRunning(r.ctl) /\ r.left # 0
    THEN [r EXCEPT !.count = (TopOf(r) - r.left \div Prescale) % Range]
    ELSE r

\* The end of internal_timer_update: a new deadline, or none.
Rearmed(r) ==
  LET diff == TopOf(r) - r.count
  IN  [r EXCEPT !.left =
         IF r.ctl.en /\ ~r.ctl.ext /\ (~r.ctl.rtg \/ @ # 0)
           THEN Prescale * (IF diff <= 0 THEN diff + Range ELSE diff)
           ELSE 0]

\* restart_timer
Restarted(t, r) ==
  IF (t # 2 /\ Prescaled(r.ctl)) \/ r.ctl.ext
    THEN r
    ELSE [r EXCEPT !.left = Prescale * Laps(TopOf(r))]

\* timer_elapsed, what it does to the timer itself.  A deadline that has
\* passed is gone; a timer that does not start over drops any it still has.
ElapsedTimer(t, r) ==
  LET after == [r EXCEPT !.ctl = AfterElapse(@), !.count = 0]
  IN  IF StartsOver(r.ctl) THEN Restarted(t, after) ELSE [after EXCEPT !.left = 0]

\* inc_timer
Inc(r) == [r EXCEPT !.count = (@ + 1) % Range]
IncElapses(r) ==
  Inc(r).count = IF r.ctl.alt THEN TopOf(r) ELSE r.maxA

Incremented(t, r) == IF IncElapses(r) THEN ElapsedTimer(t, Inc(r)) ELSE Inc(r)

-----------------------------------------------------------------------------
(* Time.                                                                   *)

\* A cycle passes; the deadlines reached fire, timer 0 first, timer 2 last,
\* which also counts the prescaled timers.
Cycle ==
  LET due == {t \in TimerIds : timer[t].left = 1}
      aged(t) == [timer[t] EXCEPT !.left = IF @ = 0 THEN 0 ELSE @ - 1]
      fired(t) == IF t \in due THEN ElapsedTimer(t, aged(t)) ELSE aged(t)
      fed == {t \in TimerIds \ {2} : 2 \in due /\ Prescaled(fired(t).ctl)}
  IN  /\ timer' = [t \in TimerIds |-> IF t \in fed THEN Incremented(t, fired(t))
                                      ELSE fired(t)]
      /\ status' = status \cup {t \in due : timer[t].ctl.int}
                          \cup {t \in fed : IncElapses(fired(t)) /\ fired(t).ctl.int}

-----------------------------------------------------------------------------
(* Register writes: internal_timer_update with one argument that is not -1. *)

WriteCount(t, n) ==
  LET r == timer[t]
  IN  /\ timer' = [timer EXCEPT ![t] =
                     IF r.ctl.en THEN Rearmed([r EXCEPT !.count = n])
                     ELSE [r EXCEPT !.count = n]]
      /\ UNCHANGED status

WriteMaxA(t, n) ==
  LET r == timer[t]
  IN  /\ timer' = [timer EXCEPT ![t] =
                     IF r.ctl.en /\ n # r.maxA THEN Rearmed([Synced(r) EXCEPT !.maxA = n])
                     ELSE [r EXCEPT !.maxA = n]]
      /\ UNCHANGED status

\* Timer 2 has no second maximum.
WriteMaxB(t, n) ==
  LET r == timer[t]
  IN  /\ t # 2
      /\ timer' = [timer EXCEPT ![t] =
                     IF r.ctl.en /\ n # r.maxB THEN Rearmed([Synced(r) EXCEPT !.maxB = n])
                     ELSE [r EXCEPT !.maxB = n]]
      /\ UNCHANGED status

\* The firmware chooses a timer's mode while it is off: one written over a
\* running one takes effect against a deadline computed for the former mode.
MayMerge(old, new) == old.en /\ new.en => Mode(new) = Mode(old)

\* The count is worked out when the timer goes off and when its INT bit
\* changes; both, and going on, set a new deadline.
WriteControl(t, w, inh) ==
  LET r   == timer[t]
      new == Merged(t, r.ctl, w, inh)
      put(s) == [s EXCEPT !.ctl = new]
  IN  /\ MayMerge(r.ctl, new)
      /\ timer' = [timer EXCEPT ![t] =
           IF (r.ctl.en /\ ~new.en) \/ (r.ctl.en = new.en /\ r.ctl.int # new.int)
             THEN Rearmed(put(Synced(r)))
           ELSE IF ~r.ctl.en /\ FreeRunning(new)
             THEN Rearmed(put(r))
           ELSE put(r)]
      /\ UNCHANGED status

\* external_tmrin with the line high.
TmrIn(t) ==
  LET r == timer[t]
  IN  /\ t # 2 /\ r.ctl.en /\ (r.ctl.ext \/ r.ctl.rtg)
      /\ timer' = [timer EXCEPT ![t] =
                     IF r.ctl.ext THEN Incremented(t, r)
                     ELSE Restarted(t, [r EXCEPT !.count = 0])]
      /\ status' = IF r.ctl.ext /\ IncElapses(r) /\ r.ctl.int THEN status \cup {t} ELSE status

\* internal_port_r of the count register.
ReadCount(t) == /\ timer' = [timer EXCEPT ![t] = Synced(@)]
                /\ UNCHANGED status

\* int_callback for a timer's vector.
Acknowledge(t) == t \in status /\ status' = status \ {t} /\ UNCHANGED timer

\* device_reset clears the registers; the deadlines stay with the scheduler.
Reset == /\ timer' = [t \in TimerIds |-> [timer[t] EXCEPT !.ctl = Off, !.maxA = 0,
                                                         !.maxB = 0, !.count = 0]]
         /\ status' = {}

Next == \/ Cycle \/ Reset
        \/ \E t \in TimerIds :
             \/ \E n \in Values : WriteCount(t, n) \/ WriteMaxA(t, n) \/ WriteMaxB(t, n)
             \/ \E w \in Words, inh \in BOOLEAN : WriteControl(t, w, inh)
             \/ TmrIn(t) \/ ReadCount(t) \/ Acknowledge(t)

Spec == Init /\ [][Next]_vars

-----------------------------------------------------------------------------
(* Properties.                                                             *)

\* Every deadline is that of a timer that counts cycles.  It is not so after a
\* reset, which leaves the deadlines of the timers it switches off
\* (i186.cpp:817), nor after a register of a prescaled timer that is on has
\* been written, which gives it a deadline of its own (i186.cpp:1530).
OwnDeadlines == \A t \in TimerIds : timer[t].left # 0 => FreeRunning(timer[t].ctl)

\* The timers implement counters that count: whatever sequence of writes,
\* reads, elapses and resets, the count a program reads and the cycle of every
\* interrupt are those of a counter moved on with every cycle, in every step
\* between two states whose deadlines are the timers' own.
C == INSTANCE TimerCounter WITH
       ctl    <- [t \in TimerIds |-> timer[t].ctl],
       maxA   <- [t \in TimerIds |-> timer[t].maxA],
       maxB   <- [t \in TimerIds |-> timer[t].maxB],
       count  <- [t \in TimerIds |-> Synced(timer[t]).count],
       phase  <- [t \in TimerIds |-> (Range * Prescale - timer[t].left) % Prescale],
       run    <- [t \in TimerIds |-> timer[t].left # 0]
ImplementsCounter ==
  C!Init /\ [][OwnDeadlines /\ OwnDeadlines' => C!Next]_C!counterVars

\* The sample clock never dies: a timer that is on and counts cycles has a
\* deadline, unless it waits for its trigger.  A timer without one would
\* never elapse again, and with it the firmware's writes to the DAC.  (Proved;
\* TLC checks it through ImplementsCounter, whose counters run on.)
NeverStuck ==
  \A t \in TimerIds :
    FreeRunning(timer[t].ctl) /\ ~timer[t].ctl.rtg => timer[t].left # 0
=============================================================================
