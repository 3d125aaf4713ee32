---------------------------- MODULE TimerCounter ----------------------------
(***************************************************************************)
(* What a timer promises its programmer: a counter that counts.  Every     *)
(* Prescale cycles it takes a step, at the end of the step that reaches    *)
(* the maximum it elapses: it sets MC, requests its interrupt, and starts  *)
(* over or stops.  notes/PORTING.md ("Timers") proposes this form, a plain *)
(* countdown moved on with every cycle; mame/i186.cpp keeps a deadline     *)
(* instead and works the count out when somebody asks.                     *)
(***************************************************************************)
EXTENDS TimerControl

VARIABLES
  ctl,      \* control word of each timer
  maxA, maxB,
  count,    \* the count a program reads: the step in progress
  phase,    \* cycles of that step gone by
  run,      \* whether a free-running timer has been triggered
  status    \* timers that request an interrupt

counterVars == <<ctl, maxA, maxB, count, phase, run, status>>

\* All off, as after a reset.
Init == /\ ctl = [t \in TimerIds |-> Off]
        /\ maxA = [t \in TimerIds |-> 0] /\ maxB = [t \in TimerIds |-> 0]
        /\ count = [t \in TimerIds |-> 0] /\ phase = [t \in TimerIds |-> 0]
        /\ run = [t \in TimerIds |-> FALSE]
        /\ status = {}

TopOf(t) == Top(ctl[t], maxA[t], maxB[t])

-----------------------------------------------------------------------------
\* Timer t moves on by one step: the new count, and whether it elapses.
Stepped(t) == (count[t] + 1) % Range
Full(t, n) == n = TopOf(t)

\* The free-running timers that elapse when this cycle is over, and the ones
\* that count the elapse of timer 2.
Elapsing == {t \in TimerIds : run[t] /\ (phase[t] + 1) % Prescale = 0 /\
                              Full(t, IF phase[t] = 0 THEN Stepped(t) ELSE count[t])}
Fed == IF 2 \in Elapsing THEN {t \in TimerIds \ {2} : Prescaled(ctl[t])} ELSE {}

Elapsed == Elapsing \cup {t \in Fed : Full(t, Stepped(t))}

\* One CPU cycle.
Cycle ==
  /\ ctl' = [t \in TimerIds |-> IF t \in Elapsed THEN AfterElapse(ctl[t]) ELSE ctl[t]]
  /\ run' = [t \in TimerIds |-> run[t] /\ (t \in Elapsed => StartsOver(ctl[t]))]
  /\ phase' = [t \in TimerIds |-> IF run[t] THEN (phase[t] + 1) % Prescale ELSE phase[t]]
  /\ count' = [t \in TimerIds |->
                 IF t \in Elapsed THEN 0
                 ELSE IF t \in Fed \/ (run[t] /\ phase[t] = 0) THEN Stepped(t)
                 ELSE count[t]]
  /\ status' = status \cup {t \in Elapsed : ctl[t].int}
  /\ UNCHANGED <<maxA, maxB>>

\* Writing a register of a timer that is on begins its step anew.
WriteCount(t, n) ==
  /\ count' = [count EXCEPT ![t] = n]
  /\ phase' = [phase EXCEPT ![t] = 0]
  /\ UNCHANGED <<ctl, maxA, maxB, run, status>>

WriteMaxA(t, n) ==
  /\ maxA' = [maxA EXCEPT ![t] = n]
  /\ phase' = [phase EXCEPT ![t] = IF n = maxA[t] THEN @ ELSE 0]
  /\ UNCHANGED <<ctl, maxB, count, run, status>>

WriteMaxB(t, n) ==
  /\ maxB' = [maxB EXCEPT ![t] = n]
  /\ phase' = [phase EXCEPT ![t] = IF n = maxB[t] THEN @ ELSE 0]
  /\ UNCHANGED <<ctl, maxA, count, run, status>>

\* A free-running timer switched on counts at once unless it waits for a
\* trigger.
WriteControl(t, w, inh) ==
  LET new == Merged(t, ctl[t], w, inh)
  IN  /\ ctl' = [ctl EXCEPT ![t] = new]
      /\ run' = [run EXCEPT ![t] =
                   new.en /\ (@ \/ (~ctl[t].en /\ FreeRunning(new) /\ ~new.rtg))]
      /\ phase' = [phase EXCEPT ![t] =
                     IF new.en = ctl[t].en /\ new.int = ctl[t].int THEN @ ELSE 0]
      /\ UNCHANGED <<maxA, maxB, count, status>>

\* A rising edge of the timer's input pin: an external clock counts, a
\* retriggerable timer starts from 0.
Count(t) ==
  /\ ctl[t].en /\ ctl[t].ext
  /\ count' = [count EXCEPT ![t] = IF Full(t, Stepped(t)) THEN 0 ELSE Stepped(t)]
  /\ IF Full(t, Stepped(t))
       THEN /\ ctl' = [ctl EXCEPT ![t] = AfterElapse(@)]
            /\ status' = IF ctl[t].int THEN status \cup {t} ELSE status
       ELSE UNCHANGED <<ctl, status>>
  /\ UNCHANGED <<maxA, maxB, phase, run>>

Trigger(t) ==
  /\ ctl[t].en /\ ctl[t].rtg /\ ~ctl[t].ext
  /\ count' = [count EXCEPT ![t] = 0]
  /\ phase' = [phase EXCEPT ![t] = 0]
  /\ run' = [run EXCEPT ![t] = @ \/ FreeRunning(ctl[t])]
  /\ UNCHANGED <<ctl, maxA, maxB, status>>

Acknowledge(t) == status' = status \ {t} /\ UNCHANGED <<ctl, maxA, maxB, count, phase, run>>

\* A reset ends everything the timers were doing.
Reset == /\ ctl' = [t \in TimerIds |-> Off]
         /\ maxA' = [t \in TimerIds |-> 0] /\ maxB' = [t \in TimerIds |-> 0]
         /\ count' = [t \in TimerIds |-> 0] /\ phase' = [t \in TimerIds |-> 0]
         /\ run' = [t \in TimerIds |-> FALSE]
         /\ status' = {}

Next == \/ Cycle \/ Reset
        \/ \E t \in TimerIds :
             \/ \E n \in Values : WriteCount(t, n) \/ WriteMaxA(t, n) \/ WriteMaxB(t, n)
             \/ \E w \in Words, inh \in BOOLEAN : WriteControl(t, w, inh)
             \/ Count(t) \/ Trigger(t) \/ Acknowledge(t)

Spec == Init /\ [][Next]_counterVars
=============================================================================
