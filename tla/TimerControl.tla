---------------------------- MODULE TimerControl ----------------------------
(***************************************************************************)
(* The control words of the 80186 timers (mame/i186.cpp, timer_state) and  *)
(* what a word says about counting.  Counts are modulo Range, one count    *)
(* takes Prescale CPU cycles, and a maximum of 0 stands for Range.         *)
(***************************************************************************)
EXTENDS Integers

CONSTANTS
  TimerIds,      \* the timers of an instance, among 0, 1, 2
  Range,         \* 0x10000 in the code
  Prescale,      \* 4 in the code
  Words,         \* the control words the firmware writes
  Values         \* the counts and maxima it writes

ASSUME TimerAssumption ==
  /\ TimerIds \subseteq 0..2
  /\ Range \in Nat /\ Range > 1
  /\ Prescale \in Nat \ {0}

\* The bits of a control word: EN 0x8000, INT 0x2000, RIU 0x1000, MC 0x20,
\* RTG 0x10, P 8, EXT 4, ALT 2, CONT 1.
Control == [en : BOOLEAN, int : BOOLEAN, riu : BOOLEAN, mc : BOOLEAN,
            rtg : BOOLEAN, p : BOOLEAN, ext : BOOLEAN, alt : BOOLEAN,
            cont : BOOLEAN]

Off == [en |-> FALSE, int |-> FALSE, riu |-> FALSE, mc |-> FALSE, rtg |-> FALSE,
        p |-> FALSE, ext |-> FALSE, alt |-> FALSE, cont |-> FALSE]

ASSUME WriteAssumption == Words \subseteq Control /\ Values \subseteq 0..Range - 1

\* Counting CPU cycles, and counting the elapses of timer 2.
FreeRunning(c) == c.en /\ ~c.p /\ ~c.ext
Prescaled(c)   == c.en /\ c.p /\ ~c.ext

\* The bits that say how a timer counts, as opposed to whether.
Mode(c) == [rtg |-> c.rtg, p |-> c.p, ext |-> c.ext, alt |-> c.alt]

\* A written word w merged into the old one.  RIU cannot be written, and for
\* timer 2 the mode bits cannot either; EN is taken only when /INH is set;
\* RIU is cleared whenever ALT is 0.
Merged(t, old, w, inh) ==
  LET kept == IF t = 2
                THEN [w EXCEPT !.riu = old.riu, !.rtg = old.rtg, !.p = old.p,
                               !.ext = old.ext, !.alt = old.alt]
                ELSE [w EXCEPT !.riu = old.riu]
  IN  [kept EXCEPT !.en = IF inh THEN @ ELSE old.en, !.riu = @ /\ kept.alt]

\* The maximum in use.
Top(c, maxA, maxB) == IF c.riu THEN maxB ELSE maxA

\* A timer that elapses starts over when it is continuous, or alternates and
\* has only reached the first of its two maxima.
StartsOver(c) == c.cont \/ (c.alt /\ ~c.riu)

AfterElapse(c) ==
  IF StartsOver(c)
    THEN [c EXCEPT !.mc = TRUE, !.riu = c.alt /\ ~c.riu]
    ELSE [c EXCEPT !.mc = TRUE, !.riu = FALSE, !.en = FALSE]
=============================================================================
