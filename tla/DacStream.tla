----------------------------- MODULE DacStream -----------------------------
(***************************************************************************)
(* From DAC writes to output samples (doubletalk_board.cpp pull_samples).  *)
(* The firmware's timer interrupt writes a level to port 0 about every     *)
(* Isr cycles, up to IsrMax apart while it speaks and not at all between   *)
(* utterances.  The host pulls now and then: every output sample whose     *)
(* instant lies a margin back is reconstructed from the ResampHalf writes  *)
(* on each side of it, then the writes out of the kernel's reach are       *)
(* retired.                                                                *)
(*                                                                         *)
(* A sample stands for what it is made of: the writes that it is weighed   *)
(* from, or the one write whose level is held.  The weights are left out.  *)
(***************************************************************************)
EXTENDS Integers, Sequences, FiniteSetsExt

CONSTANTS
  ResampHalf,   \* RESAMP_HALF: writes on each side of a sample
  Isr,          \* DAC_ISR_CYCLES: the mean distance of two writes
  IsrMax,       \* DAC_ISR_CYCLES_MAX: the greatest while speaking
  CpuHz,        \* CPU_HZ
  Rate,         \* the output's sample rate
  Gaps,         \* distances of two writes, speaking or silent
  Waits,        \* time between a write and a pull
  MaxWrites,    \* bound: writes after a reset
  MaxTime       \* bound: machine time

ASSUME DacAssumption ==
  /\ {ResampHalf, Isr, IsrMax, CpuHz, Rate} \subseteq Nat \ {0}
  /\ Isr <= IsrMax /\ IsrMax <= 2 * Isr
  /\ Gaps \cup Waits \subseteq Nat \ {0}
  /\ {MaxWrites, MaxTime} \subseteq Nat

VARIABLES
  now,      \* m_machine.now_cycles()
  events,   \* m_dac_events: the instants and numbers of writes
  cursor,   \* m_dac_cursor, counted from 1
  next,     \* m_next_sample_index
  log,      \* history: the instants of all writes since the reset
  pulled    \* history: the last pull: whether it drained, and its samples

dacVars == <<now, events, cursor, next, log, pulled>>

Nothing == [drained |-> FALSE, samples |-> {}]
PowerOn == 0    \* in place of a write: m_dac_level as reset leaves it

DacInit == /\ now = 0 /\ events = <<>> /\ cursor = 1 /\ next = 0
           /\ log = <<>> /\ pulled = Nothing

\* io_write, port 0.
Dac(gap) ==
  /\ Len(log) < MaxWrites /\ now + gap <= MaxTime
  /\ now' = now + gap
  /\ log' = Append(log, now')
  /\ events' = Append(events, [at |-> now', nr |-> Len(log')])
  /\ UNCHANGED <<cursor, next, pulled>>

Wait(time) == /\ now + time <= MaxTime
              /\ now' = now + time
              /\ UNCHANGED <<events, cursor, next, log, pulled>>

\* Machine time goes on; so does the output's grid.
DacReset == /\ events' = <<>> /\ cursor' = 1
            /\ log' = <<>> /\ pulled' = Nothing
            /\ UNCHANGED <<now, next>>

-----------------------------------------------------------------------------
(* pull_samples.                                                           *)

SampleCycle(m) == (m * CpuHz) \div Rate

\* Mutant of Margin: the mean distance is allowed for, not the greatest.
MarginMean(drain) == IF drain THEN 0 ELSE ResampHalf * Isr

Margin(drain) == IF drain THEN 0 ELSE ResampHalf * IsrMax

\* The samples this pull makes.
Due(drain) == {m \in next..MaxTime * Rate : SampleCycle(m) < now - Margin(drain)}

\* The bracket's left write: the last at or before the instant.
CursorAt(c) == Max({cursor} \cup {j \in cursor + 1..Len(events) : events[j].at <= c})

Held(c, e)       == [at |-> c, held |-> TRUE, from |-> {<<0, e>>}]
Weighed(c, taps) == [at |-> c, held |-> FALSE, from |-> taps]

\* Taps past an end of the queue are that end's; the outermost right one has
\* no weight on the bracket's edge.
Clamped(j) == IF j < 1 THEN 1 ELSE IF j > Len(events) THEN Len(events) ELSE j
Taps(j, c) == {<<k, events[Clamped(j + k)].nr>> :
                 k \in 1 - ResampHalf..(IF c = events[j].at THEN ResampHalf - 1 ELSE ResampHalf)}

Sample(c) ==
  LET j == CursorAt(c)
  IN  IF events = <<>>            THEN Held(c, PowerOn)
      ELSE IF events[j].at > c    THEN Held(c, events[1].nr)
      ELSE IF j = Len(events)     THEN Held(c, events[j].nr)
      ELSE IF events[j + 1].at - events[j].at > 2 * Isr THEN Held(c, events[j].nr)
      ELSE Weighed(c, Taps(j, c))

\* How many writes are out of reach of the cursor j.
Retired(j) == IF j - 1 > ResampHalf THEN j - 1 - ResampHalf ELSE 0

\* Mutant of Pull: the cursor is not moved with the queue.
PullKeepsCursor(drain) ==
  LET due  == Due(drain)
      far  == IF due = {} THEN cursor ELSE CursorAt(SampleCycle(Max(due)))
      drop == Retired(far)
  IN  /\ pulled' = [drained |-> drain, samples |-> {Sample(SampleCycle(m)) : m \in due}]
      /\ next' = next + Cardinality(due)
      /\ events' = SubSeq(events, drop + 1, Len(events))
      /\ cursor' = Max({1, Min({far, Len(events')})})
      /\ UNCHANGED <<now, log>>

Pull(drain) ==
  LET due  == Due(drain)
      far  == IF due = {} THEN cursor ELSE CursorAt(SampleCycle(Max(due)))
      drop == Retired(far)
  IN  /\ pulled' = [drained |-> drain, samples |-> {Sample(SampleCycle(m)) : m \in due}]
      /\ next' = next + Cardinality(due)
      /\ events' = SubSeq(events, drop + 1, Len(events))
      /\ cursor' = far - drop
      /\ UNCHANGED <<now, log>>

DacNext == \/ \E gap \in Gaps : Dac(gap)
           \/ \E time \in Waits : Wait(time)
           \/ \E drain \in BOOLEAN : Pull(drain)
           \/ DacReset

DacSpec == DacInit /\ [][DacNext]_dacVars

-----------------------------------------------------------------------------
(* Properties.                                                             *)

\* The writes from a to b are of one utterance.
Spoken(a, b) == \A e \in a + 1..b : log[e] - log[e - 1] <= IsrMax

Bracket(c) == Max({0} \cup {e \in 1..Len(log) : log[e] <= c})

\* Pulling piece by piece makes the same samples as one conversion of the
\* whole recording would, whatever is still to be written when a sample is
\* made and whatever has been retired: inside an utterance a sample that was
\* not drained is weighed from the ResampHalf true writes on its left and from
\* all those on its right that the utterance has.
TapsAreReal ==
  ~pulled.drained =>
    \A s \in pulled.samples :
      LET j == Bracket(s.at)
      IN  j > 0 /\ j < Len(log) /\ Spoken(j, j + 1) =>
            /\ ~s.held
            /\ \A t \in s.from :
                 /\ t[1] <= 0 => t[2] = Max({1, j + t[1]})
                 /\ t[1] > 0 /\ j + t[1] <= Len(log) /\ Spoken(j, j + t[1]) => t[2] = j + t[1]

\* In silence, and past the last write of a drained tail, the level that is
\* held is that of the last write at or before the sample.
HoldsLastLevel ==
  \A s \in pulled.samples :
    s.held /\ Bracket(s.at) > 0 => s.from = {<<0, Bracket(s.at)>>}
=============================================================================

