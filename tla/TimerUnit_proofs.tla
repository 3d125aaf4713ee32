-------------------------- MODULE TimerUnit_proofs --------------------------
(***************************************************************************)
(* For every width of the counters, every prescale and any of the three    *)
(* timers: a timer that is on and counts cycles never lacks a deadline,    *)
(* and the deadlines implement counters that count, in every step between  *)
(* two states whose deadlines are the timers' own.                         *)
(*                                                                         *)
(* What a deadline says is one fact: left = Prescale * q + s means that    *)
(* the count is q short of its maximum, s cycles into the step.  Tick is   *)
(* the step of a cycle, Rearming the inverse a register write relies on.   *)
(***************************************************************************)
EXTENDS TimerUnit, TLAPS

-----------------------------------------------------------------------------
(* Quotients and remainders.                                               *)

LEMMA Constants ==
  /\ Range \in Nat \ {0} /\ Range > 1 /\ Prescale \in Nat \ {0} /\ TimerIds \subseteq 0..2
  /\ Range * Prescale \in Nat
  BY TimerAssumption

LEMMA Quotient ==
  ASSUME NEW a \in Int, NEW b \in Nat \ {0}
  PROVE  /\ a \div b \in Int /\ a % b \in 0..b - 1
         /\ a = b * (a \div b) + (a % b)
  OBVIOUS

LEMMA Multiples ==
  ASSUME NEW b \in Nat \ {0}, NEW p \in Int, NEW q \in Int, b * p < b * q + b
  PROVE  p <= q
  OBVIOUS

LEMMA Unique ==
  ASSUME NEW b \in Nat \ {0}, NEW k \in Int, NEW s \in 0..b - 1, NEW a \in Int, a = b * k + s
  PROVE  a \div b = k /\ a % b = s
  <1> DEFINE q == a \div b
             m == a % b
  <1>1. q \in Int /\ m \in 0..b - 1 /\ a = b * q + m
    BY Quotient
  <1> HIDE DEF q, m
  <1>2. b * q \in Int /\ b * k \in Int /\ b * q < b * k + b /\ b * k < b * q + b
    BY <1>1
  <1>3. q <= k /\ k <= q
    BY <1>1, <1>2, Multiples
  <1>4. q = k
    BY <1>1, <1>3
  <1>5. m = s
    BY <1>1, <1>4
  <1>6. QED
    BY <1>4, <1>5 DEF q, m

\* One more, before or after the remainder is taken.
LEMMA NextRemainder ==
  ASSUME NEW a \in Int, NEW b \in Nat \ {0}
  PROVE  ((a % b) + 1) % b = (a + 1) % b
  <1> DEFINE q == a \div b
             m == a % b
  <1>1. q \in Int /\ m \in 0..b - 1 /\ a = b * q + m
    BY Quotient
  <1> HIDE DEF q, m
  <1>2. CASE m + 1 < b
    <2>1. m + 1 \in 0..b - 1 /\ m + 1 = b * 0 + (m + 1) /\ a + 1 = b * q + (m + 1)
      BY <1>1, <1>2
    <2>2. (m + 1) % b = m + 1 /\ (a + 1) % b = m + 1
      BY <1>1, <2>1, Unique
    <2>3. QED
      BY <2>2 DEF m
  <1>3. CASE m + 1 = b
    <2>1. b * (q + 1) = b * q + b
      BY <1>1
    <2>2. 0 \in 0..b - 1 /\ m + 1 = b * 1 + 0 /\ a + 1 = b * (q + 1) + 0
      BY <1>1, <1>3, <2>1
    <2>3. (m + 1) % b = 0 /\ (a + 1) % b = 0
      BY <1>1, <2>2, Unique
    <2>4. QED
      BY <2>3 DEF m
  <1>4. QED
    BY <1>1, <1>2, <1>3

-----------------------------------------------------------------------------
(* What a deadline says.                                                   *)

N == 0..Range - 1

\* The count, for a maximum and the time left, and the cycles of its step.
CountAt(top, left) == (top - left \div Prescale) % Range
PhaseAt(left) == (Range * Prescale - left) % Prescale

LEMMA PhaseOf ==
  ASSUME NEW q \in Int, NEW s \in 0..Prescale - 1
  PROVE  PhaseAt(Prescale * q + s) = IF s = 0 THEN 0 ELSE Prescale - s
  <1> DEFINE a == Range * Prescale - (Prescale * q + s)
  <1>1. Range \in Nat /\ Prescale \in Nat \ {0} /\ s \in Nat /\ s < Prescale
    BY Constants
  <1>2. Prescale * (Range - q) = Range * Prescale - Prescale * q
    BY <1>1
  <1>3. Prescale * (Range - q - 1) = Prescale * (Range - q) - Prescale
    BY <1>1
  <1>4. a \in Int /\ Prescale * q \in Int /\ Range * Prescale \in Int
    BY <1>1
  <1>5. CASE s = 0
    <2>1. a = Prescale * (Range - q) + 0 /\ Range - q \in Int /\ 0 \in 0..Prescale - 1
      BY <1>1, <1>2, <1>4, <1>5
    <2>2. a % Prescale = 0
      BY <1>1, <1>4, <2>1, Unique
    <2>3. QED
      BY <1>5, <2>2 DEF PhaseAt
  <1>6. CASE s # 0
    <2>1. /\ a = Prescale * (Range - q - 1) + (Prescale - s) /\ Range - q - 1 \in Int
          /\ Prescale - s \in 0..Prescale - 1
      BY <1>1, <1>2, <1>3, <1>4, <1>6
    <2>2. a % Prescale = Prescale - s
      <3>1. \A k \in Int, z \in 0..Prescale - 1 : a = Prescale * k + z => a % Prescale = z
        BY <1>1, <1>4, Unique
      <3> HIDE DEF a
      <3>2. QED
        BY <2>1, <3>1, Zenon
    <2>3. QED
      BY <1>6, <2>2 DEF PhaseAt
  <1>7. QED
    BY <1>5, <1>6

\* A time of full steps.
LEMMA Steps ==
  ASSUME NEW top \in Int, NEW d \in Int
  PROVE  PhaseAt(Prescale * d) = 0 /\ CountAt(top, Prescale * d) = (top - d) % Range
  <1>1. Prescale \in Nat \ {0} /\ 0 \in 0..Prescale - 1 /\ Prescale * d \in Int
    BY Constants
  <1>2. Prescale * d = Prescale * d + 0
    BY <1>1
  <1>3. (Prescale * d) \div Prescale = d
    BY <1>1, <1>2, Unique
  <1>4. PhaseAt(Prescale * d + 0) = 0
    BY <1>1, PhaseOf
  <1>5. QED
    BY <1>2, <1>3, <1>4 DEF CountAt

LEMMA Small ==
  ASSUME NEW b \in Nat \ {0}, NEW x \in Int
  PROVE  /\ x \in 0..b - 1 => x % b = x
         /\ x - b \in 0..b - 1 => x % b = x - b
         /\ x + b \in 0..b - 1 => x % b = x + b
  <1>1. x \in 0..b - 1 => x = b * 0 + x
    OBVIOUS
  <1>2. x - b \in 0..b - 1 => x = b * 1 + (x - b)
    OBVIOUS
  <1>3. x + b \in 0..b - 1 => x = b * (-1) + (x + b)
    OBVIOUS
  <1>4. 0 \in Int /\ 1 \in Int /\ -1 \in Int
    OBVIOUS
  <1>5. \A k \in Int, s \in 0..b - 1 : x = b * k + s => x % b = s
    BY Unique
  <1>6. QED
    BY <1>1, <1>2, <1>3, <1>4, <1>5, Zenon

\* A deadline that is computed from a count says that count.
LEMMA Rearming ==
  ASSUME NEW top \in N, NEW n \in N, NEW d \in Int, d = top - n \/ d = top - n + Range
  PROVE  CountAt(top, Prescale * d) = n /\ PhaseAt(Prescale * d) = 0
  <1>1. Range \in Nat \ {0} /\ top \in Int /\ n \in 0..Range - 1 /\ n \in Int
    BY Constants DEF N
  <1>2. CountAt(top, Prescale * d) = (top - d) % Range /\ PhaseAt(Prescale * d) = 0
    BY <1>1, Steps
  <1>3. top - d = n \/ top - d = n - Range
    BY <1>1
  <1>4. n % Range = n /\ (n - Range) + Range = n /\ n - Range \in Int
    BY <1>1, Small
  <1>5. (n - Range) % Range = n
    BY <1>1, <1>4, Small
  <1>6. QED
    BY <1>2, <1>3, <1>4, <1>5

\* What comes after a maximum of n, 0 standing for Range, has begun at 0.
LEMMA Restarting ==
  ASSUME NEW top \in N
  PROVE  /\ CountAt(top, Prescale * Laps(top)) = 0 /\ PhaseAt(Prescale * Laps(top)) = 0
         /\ Prescale * Laps(top) \in 1..Range * Prescale
  <1>1. Range \in Nat \ {0} /\ Prescale \in Nat \ {0} /\ 0 \in N /\ top \in Nat /\ top < Range
    BY Constants DEF N
  <1>2. Laps(top) \in 1..Range /\ (Laps(top) = top - 0 \/ Laps(top) = top - 0 + Range)
    BY <1>1 DEF Laps
  <1>3. Laps(top) \in Int
    BY <1>1, <1>2
  <1>4. CountAt(top, Prescale * Laps(top)) = 0 /\ PhaseAt(Prescale * Laps(top)) = 0
    BY <1>1, <1>2, <1>3, Rearming
  <1>5. \A l \in 1..Range : Prescale * l \in 1..Range * Prescale
    BY <1>1
  <1>6. QED
    BY <1>2, <1>4, <1>5

LEMMA NoTime ==
  PhaseAt(0) = 0
  <1>1. Prescale * 0 = 0 /\ 0 \in Int
    BY Constants
  <1>2. PhaseAt(Prescale * 0) = 0
    BY <1>1, Steps
  <1>3. QED
    BY <1>1, <1>2

LEMMA TickPhase ==
  ASSUME NEW q \in Int, NEW s \in 0..Prescale - 1
  PROVE  PhaseAt(Prescale * q + s - 1) = (PhaseAt(Prescale * q + s) + 1) % Prescale
  <1>1. Prescale \in Nat \ {0} /\ s \in Nat /\ s < Prescale /\ Prescale * q \in Int
    BY Constants
  <1>2. PhaseAt(Prescale * q + s) = IF s = 0 THEN 0 ELSE Prescale - s
    BY PhaseOf
  <1>3. CASE s = 0
    <2>1. Prescale * (q - 1) = Prescale * q - Prescale
      BY <1>1
    <2>2. Prescale * q + s - 1 = Prescale * (q - 1) + (Prescale - 1)
      BY <1>1, <1>3, <2>1
    <2>3. Prescale - 1 \in 0..Prescale - 1 /\ q - 1 \in Int
      BY <1>1
    <2>4. PhaseAt(Prescale * (q - 1) + (Prescale - 1)) =
            IF Prescale - 1 = 0 THEN 0 ELSE Prescale - (Prescale - 1)
      BY <2>3, PhaseOf
    <2>5. (0 + 1) % Prescale = IF Prescale - 1 = 0 THEN 0 ELSE 1
      <3>1. CASE Prescale = 1
        BY <3>1
      <3>2. CASE Prescale # 1
        <4>1. 1 \in 0..Prescale - 1
          BY <1>1, <3>2
        <4>2. 1 % Prescale = 1
          BY <1>1, <4>1, Small
        <4>3. QED
          BY <1>1, <3>2, <4>2
      <3>3. QED
        BY <3>1, <3>2
    <2>6. QED
      BY <1>1, <1>2, <1>3, <2>2, <2>4, <2>5
  <1>4. CASE s # 0
    <2>1. s - 1 \in 0..Prescale - 1 /\ Prescale * q + s - 1 = Prescale * q + (s - 1)
      BY <1>1, <1>4
    <2>2. PhaseAt(Prescale * q + (s - 1)) = IF s - 1 = 0 THEN 0 ELSE Prescale - (s - 1)
      BY <2>1, PhaseOf
    <2>3. (Prescale - s + 1) % Prescale = IF s - 1 = 0 THEN 0 ELSE Prescale - (s - 1)
      <3>1. CASE s = 1
        <4>1. Prescale - s + 1 = Prescale /\ Prescale - Prescale \in 0..Prescale - 1
          BY <1>1, <3>1
        <4>2. Prescale % Prescale = Prescale - Prescale
          BY <1>1, <4>1, Small
        <4>3. QED
          BY <1>1, <3>1, <4>1, <4>2
      <3>2. CASE s # 1
        <4>1. Prescale - s + 1 \in 0..Prescale - 1
          BY <1>1, <1>4, <3>2
        <4>2. (Prescale - s + 1) % Prescale = Prescale - s + 1
          BY <1>1, <4>1, Small
        <4>3. QED
          BY <1>1, <3>2, <4>2
      <3>3. QED
        BY <3>1, <3>2
    <2>4. QED
      BY <1>1, <1>2, <1>4, <2>1, <2>2, <2>3
  <1>5. QED
    BY <1>3, <1>4

LEMMA TickCount ==
  ASSUME NEW top \in N, NEW q \in Int, NEW s \in 0..Prescale - 1
  PROVE  CountAt(top, Prescale * q + s - 1) =
           IF s = 0 THEN (CountAt(top, Prescale * q + s) + 1) % Range
           ELSE CountAt(top, Prescale * q + s)
  <1>1. /\ Prescale \in Nat \ {0} /\ s \in Nat /\ s < Prescale /\ Prescale * q \in Int
        /\ Range \in Nat \ {0} /\ top \in Int
    BY Constants DEF N
  <1>2. (Prescale * q + s) \div Prescale = q
    BY <1>1, Unique
  <1>3. CASE s = 0
    <2>1. Prescale * (q - 1) = Prescale * q - Prescale
      BY <1>1
    <2>2. /\ Prescale * q + s - 1 = Prescale * (q - 1) + (Prescale - 1)
          /\ Prescale - 1 \in 0..Prescale - 1 /\ q - 1 \in Int
      BY <1>1, <1>3, <2>1
    <2>3. (Prescale * q + s - 1) \div Prescale = q - 1
      BY <1>1, <2>2, Unique
    <2>4. CountAt(top, Prescale * q + s - 1) = (top - (q - 1)) % Range
      BY <2>3 DEF CountAt
    <2>5. CountAt(top, Prescale * q + s) = (top - q) % Range
      BY <1>2 DEF CountAt
    <2>6. top - (q - 1) = (top - q) + 1 /\ top - q \in Int
      BY <1>1
    <2>7. (((top - q) % Range) + 1) % Range = ((top - q) + 1) % Range
      BY <1>1, <2>6, NextRemainder
    <2>8. QED
      BY <1>3, <2>4, <2>5, <2>6, <2>7
  <1>4. CASE s # 0
    <2>1. s - 1 \in 0..Prescale - 1 /\ Prescale * q + s - 1 = Prescale * q + (s - 1)
      BY <1>1, <1>4
    <2>2. (Prescale * q + s - 1) \div Prescale = q
      BY <1>1, <2>1, Unique
    <2>3. QED
      BY <1>2, <1>4, <2>2 DEF CountAt
  <1>5. QED
    BY <1>3, <1>4

Step(top, left) == IF PhaseAt(left) = 0 THEN (CountAt(top, left) + 1) % Range
                   ELSE CountAt(top, left)

\* One cycle: the phase moves on, the count with the first cycle of a step, and
\* the last step is over when no time is left.
LEMMA Tick ==
  ASSUME NEW top \in N, NEW left \in 1..Range * Prescale
  PROVE  /\ PhaseAt(left - 1) = (PhaseAt(left) + 1) % Prescale
         /\ CountAt(top, left - 1) = Step(top, left)
         /\ (PhaseAt(left) + 1) % Prescale = 0 /\ Step(top, left) = top <=> left = 1
  <1> DEFINE q == left \div Prescale
             s == left % Prescale
             k == (left - 1) \div Prescale
             z == (left - 1) % Prescale
  <1>1. /\ Range \in Nat \ {0} /\ Prescale \in Nat \ {0} /\ top \in Nat /\ top < Range
        /\ left \in Nat /\ left - 1 \in Nat /\ left <= Range * Prescale /\ Range * Prescale \in Nat
    BY Constants DEF N
  <1>2. q \in Int /\ s \in 0..Prescale - 1 /\ left = Prescale * q + s
    BY <1>1, Quotient
  <1>3. k \in Int /\ z \in 0..Prescale - 1 /\ left - 1 = Prescale * k + z
    BY <1>1, Quotient
  <1>4. CountAt(top, left - 1) = (top - k) % Range
    BY DEF CountAt
  <1> HIDE DEF q, s, k, z
  <1>5. Prescale * q + s - 1 = left - 1
    <2> DEFINE m == Prescale * q
    <2>1. m \in Int /\ s \in Int /\ left \in Int /\ left = m + s
      BY <1>1, <1>2
    <2> HIDE DEF m
    <2>2. m + s - 1 = left - 1
      BY <2>1
    <2>3. QED
      BY <2>2, Zenon DEF m
  <1>6. PhaseAt(left - 1) = (PhaseAt(left) + 1) % Prescale
    BY <1>2, <1>5, TickPhase
  <1>7. PhaseAt(left) = IF s = 0 THEN 0 ELSE Prescale - s
    BY <1>2, PhaseOf
  <1>8. PhaseAt(left) = 0 <=> s = 0
    BY <1>1, <1>2, <1>7
  <1>9. CountAt(top, left - 1) = Step(top, left)
    <2>1. CountAt(top, left - 1) = IF s = 0 THEN (CountAt(top, left) + 1) % Range
                                   ELSE CountAt(top, left)
      BY <1>2, <1>5, TickCount
    <2>2. QED
      BY <1>8, <2>1 DEF Step
  <1>10. PhaseAt(left - 1) = 0 <=> z = 0
    <2>1. PhaseAt(left - 1) = IF z = 0 THEN 0 ELSE Prescale - z
      BY <1>3, PhaseOf
    <2>2. QED
      BY <1>1, <1>3, <2>1
  <1>11. k \in 0..Range - 1
    <2>1. Prescale * k \in Int /\ Prescale * k <= left - 1 /\ left - 1 < Prescale * k + Prescale
      BY <1>1, <1>3
    <2>2. Prescale * (Range - 1) = Range * Prescale - Prescale /\ Prescale * (-1) = -Prescale
      BY <1>1
    <2>3. /\ Prescale * k < Prescale * (Range - 1) + Prescale
          /\ Prescale * (-1) + Prescale <= left - 1
      BY <1>1, <2>1, <2>2
    <2>4. Prescale * 0 < Prescale * k + Prescale
      BY <1>1, <2>1
    <2>5. k <= Range - 1 /\ 0 <= k
      BY <1>1, <1>3, <2>3, <2>4, Multiples
    <2>6. QED
      BY <1>1, <1>3, <2>5
  <1>12. (top - k) % Range = top <=> k = 0
    <2>1. CASE k <= top
      <3>1. top - k \in 0..Range - 1
        BY <1>1, <1>11, <2>1
      <3>2. (top - k) % Range = top - k
        BY <1>1, <3>1, Small
      <3>3. QED
        BY <1>1, <1>11, <3>2
    <2>2. CASE k > top
      <3>1. (top - k) + Range \in 0..Range - 1 /\ top - k \in Int
        BY <1>1, <1>11, <2>2
      <3>2. (top - k) % Range = (top - k) + Range
        BY <1>1, <3>1, Small
      <3>3. QED
        BY <1>1, <1>11, <2>2, <3>2
    <2>3. QED
      BY <1>1, <1>11, <2>1, <2>2
  <1>13. k = 0 /\ z = 0 <=> left = 1
    <2>1. CASE k = 0 /\ z = 0
      BY <1>1, <1>3, <2>1
    <2>2. CASE left = 1
      <3>1. 0 = Prescale * 0 + 0 /\ 0 \in 0..Prescale - 1
        BY <1>1
      <3>2. 0 \div Prescale = 0 /\ 0 % Prescale = 0
        BY <1>1, <3>1, Unique
      <3>3. QED
        BY <2>2, <3>2 DEF k, z
    <2>3. QED
      BY <2>1, <2>2
  <1>14. QED
    BY <1>4, <1>6, <1>9, <1>10, <1>12, <1>13

LEMMA CountType ==
  ASSUME NEW top \in N, NEW left \in Int
  PROVE  CountAt(top, left) \in N /\ PhaseAt(left) \in Nat
  <1>1. /\ Range \in Nat \ {0} /\ Prescale \in Nat \ {0} /\ top \in Int
        /\ Range * Prescale - left \in Int
    BY Constants DEF N
  <1>2. top - left \div Prescale \in Int
    BY <1>1, Quotient
  <1>3. CountAt(top, left) \in 0..Range - 1
    BY <1>1, <1>2, Quotient DEF CountAt
  <1>4. PhaseAt(left) \in 0..Prescale - 1
    BY <1>1, Quotient DEF PhaseAt
  <1>5. QED
    BY <1>1, <1>3, <1>4 DEF N

-----------------------------------------------------------------------------
(* The timers stay well formed, and none is stuck.                         *)

TimerRecord == [ctl : Control, maxA : N, maxB : N, count : N, left : 0..Range * Prescale]

\* Timer 2 has no mode bits; RIU is up only beside ALT.
Shape(t, c) == /\ c \in Control /\ (c.riu => c.alt)
               /\ t = 2 => ~c.rtg /\ ~c.p /\ ~c.ext /\ ~c.alt

\* A timer that is on, counts cycles and waits for no trigger has a deadline.
Live(r) == FreeRunning(r.ctl) /\ ~r.ctl.rtg => r.left # 0

Good(t, r) == r \in TimerRecord /\ Shape(t, r.ctl) /\ Live(r)

IInv == /\ timer \in [TimerIds -> TimerRecord] /\ status \subseteq TimerIds
        /\ \A t \in TimerIds : Good(t, timer[t])

LEMMA TopType ==
  ASSUME NEW r \in TimerRecord
  PROVE  TopOf(r) \in N
  BY DEF TimerRecord, TopOf, Top

LEMMA RecordUpdate ==
  ASSUME NEW r \in TimerRecord, NEW n \in N, NEW l \in 0..Range * Prescale, NEW c \in Control
  PROVE  /\ [r EXCEPT !.count = n] \in TimerRecord /\ [r EXCEPT !.maxA = n] \in TimerRecord
         /\ [r EXCEPT !.maxB = n] \in TimerRecord /\ [r EXCEPT !.left = l] \in TimerRecord
         /\ [r EXCEPT !.ctl = c] \in TimerRecord
  BY DEF TimerRecord

LEMMA SyncedRecord ==
  ASSUME NEW r \in TimerRecord
  PROVE  /\ Synced(r) \in TimerRecord
         /\ Synced(r).ctl = r.ctl /\ Synced(r).maxA = r.maxA /\ Synced(r).maxB = r.maxB
         /\ Synced(r).left = r.left
         /\ Synced(r).count = IF FreeRunning(r.ctl) /\ r.left # 0
                                THEN CountAt(TopOf(r), r.left) ELSE r.count
  <1>1. CountAt(TopOf(r), r.left) \in N
    BY TopType, CountType DEF TimerRecord
  <1>2. Synced(r) = IF FreeRunning(r.ctl) /\ r.left # 0
                      THEN [r EXCEPT !.count = CountAt(TopOf(r), r.left)] ELSE r
    BY DEF Synced, CountAt
  <1>3. QED
    BY <1>1, <1>2 DEF TimerRecord

\* The distance internal_timer_update computes.
Distance(r) == LET d == TopOf(r) - r.count IN IF d <= 0 THEN d + Range ELSE d

LEMMA DistanceType ==
  ASSUME NEW r \in TimerRecord
  PROVE  /\ Distance(r) \in Int /\ Prescale * Distance(r) \in 1..Range * Prescale
         /\ Distance(r) = TopOf(r) - r.count \/ Distance(r) = TopOf(r) - r.count + Range
  <1>1. Range \in Nat \ {0} /\ Prescale \in Nat \ {0}
    BY Constants
  <1>2. TopOf(r) \in 0..Range - 1 /\ r.count \in 0..Range - 1
    BY TopType DEF TimerRecord, N
  <1>3. /\ Distance(r) \in 1..Range
        /\ Distance(r) = TopOf(r) - r.count \/ Distance(r) = TopOf(r) - r.count + Range
    BY <1>1, <1>2 DEF Distance
  <1>4. \A d \in 1..Range : Prescale * d \in 1..Range * Prescale /\ d \in Int
    BY <1>1
  <1>5. QED
    BY <1>3, <1>4

LEMMA RearmedRecord ==
  ASSUME NEW r \in TimerRecord
  PROVE  /\ Rearmed(r) \in TimerRecord
         /\ Rearmed(r).ctl = r.ctl /\ Rearmed(r).maxA = r.maxA /\ Rearmed(r).maxB = r.maxB
         /\ Rearmed(r).count = r.count
         /\ Rearmed(r).left = IF r.ctl.en /\ ~r.ctl.ext /\ (~r.ctl.rtg \/ r.left # 0)
                                THEN Prescale * Distance(r) ELSE 0
  <1>1. Prescale * Distance(r) \in 0..Range * Prescale /\ 0 \in 0..Range * Prescale
    BY DistanceType, Constants
  <1>2. Rearmed(r) = [r EXCEPT !.left = IF r.ctl.en /\ ~r.ctl.ext /\ (~r.ctl.rtg \/ r.left # 0)
                                          THEN Prescale * Distance(r) ELSE 0]
    BY DEF Rearmed, Distance
  <1>3. QED
    BY <1>1, <1>2 DEF TimerRecord

LEMMA RestartedRecord ==
  ASSUME NEW r \in TimerRecord, NEW t
  PROVE  /\ Restarted(t, r) \in TimerRecord
         /\ Restarted(t, r).ctl = r.ctl /\ Restarted(t, r).maxA = r.maxA
         /\ Restarted(t, r).maxB = r.maxB /\ Restarted(t, r).count = r.count
         /\ Restarted(t, r).left = IF (t # 2 /\ Prescaled(r.ctl)) \/ r.ctl.ext THEN r.left
                                   ELSE Prescale * Laps(TopOf(r))
  <1>1. Prescale * Laps(TopOf(r)) \in 0..Range * Prescale
    BY TopType, Restarting
  <1>2. Restarted(t, r) = [r EXCEPT !.left = IF (t # 2 /\ Prescaled(r.ctl)) \/ r.ctl.ext THEN r.left
                                             ELSE Prescale * Laps(TopOf(r))]
    BY DEF Restarted, TimerRecord
  <1>3. QED
    BY <1>1, <1>2 DEF TimerRecord

LEMMA AfterShape ==
  ASSUME NEW t, NEW c, Shape(t, c)
  PROVE  /\ Shape(t, AfterElapse(c))
         /\ AfterElapse(c).p = c.p /\ AfterElapse(c).ext = c.ext /\ AfterElapse(c).alt = c.alt
         /\ AfterElapse(c).rtg = c.rtg /\ AfterElapse(c).int = c.int
         /\ AfterElapse(c).en = (StartsOver(c) /\ c.en)
  BY DEF Shape, AfterElapse, StartsOver, Control

LEMMA ElapsedRecord ==
  ASSUME NEW t, NEW r, r \in TimerRecord, Shape(t, r.ctl)
  PROVE  /\ Good(t, ElapsedTimer(t, r))
         /\ ElapsedTimer(t, r).ctl = AfterElapse(r.ctl)
         /\ ElapsedTimer(t, r).maxA = r.maxA /\ ElapsedTimer(t, r).maxB = r.maxB
         /\ ElapsedTimer(t, r).count = 0
         /\ ElapsedTimer(t, r).left =
              IF ~StartsOver(r.ctl) THEN 0
              ELSE IF (t # 2 /\ Prescaled(AfterElapse(r.ctl))) \/ r.ctl.ext THEN r.left
              ELSE Prescale * Laps(Top(AfterElapse(r.ctl), r.maxA, r.maxB))
  <1> DEFINE c == AfterElapse(r.ctl)
             after == [r EXCEPT !.ctl = c, !.count = 0]
  <1>1. /\ Shape(t, c) /\ c.p = r.ctl.p /\ c.ext = r.ctl.ext /\ c.rtg = r.ctl.rtg
        /\ c.en = (StartsOver(r.ctl) /\ r.ctl.en) /\ c \in Control
    BY AfterShape DEF Shape
  <1>2. 0 \in N /\ 0 \in 0..Range * Prescale
    BY Constants DEF N
  <1> HIDE DEF c
  <1>3. /\ after \in TimerRecord /\ after.ctl = c /\ after.count = 0
        /\ after.maxA = r.maxA /\ after.maxB = r.maxB /\ after.left = r.left
    BY <1>1, <1>2 DEF TimerRecord
  <1>4. ElapsedTimer(t, r) = IF StartsOver(r.ctl) THEN Restarted(t, after) ELSE [after EXCEPT !.left = 0]
    BY DEF ElapsedTimer, c
  <1> HIDE DEF after
  <1>5. CASE StartsOver(r.ctl)
    <2>1. ElapsedTimer(t, r) = Restarted(t, after)
      BY <1>4, <1>5
    <2>2. /\ Restarted(t, after) \in TimerRecord
          /\ Restarted(t, after).ctl = c /\ Restarted(t, after).maxA = r.maxA
          /\ Restarted(t, after).maxB = r.maxB /\ Restarted(t, after).count = 0
          /\ Restarted(t, after).left = IF (t # 2 /\ Prescaled(c)) \/ c.ext THEN r.left
                                        ELSE Prescale * Laps(TopOf(after))
      BY <1>3, RestartedRecord
    <2>3. TopOf(after) = Top(c, r.maxA, r.maxB) /\ TopOf(after) \in N
      BY <1>3, TopType DEF TopOf
    <2>4. Prescale * Laps(TopOf(after)) # 0
      BY <2>3, Restarting, Constants
    <2>5. FreeRunning(c) => Restarted(t, after).left # 0
      BY <2>2, <2>4 DEF FreeRunning, Prescaled
    <2>6. Good(t, Restarted(t, after))
      BY <1>1, <2>2, <2>5 DEF Good, Live
    <2>7. QED
      BY <1>1, <1>5, <2>1, <2>2, <2>3, <2>6 DEF c
  <1>6. CASE ~StartsOver(r.ctl)
    <2>1. ElapsedTimer(t, r) = [after EXCEPT !.left = 0]
      BY <1>4, <1>6
    <2>2. /\ [after EXCEPT !.left = 0] \in TimerRecord
          /\ [after EXCEPT !.left = 0].ctl = c /\ [after EXCEPT !.left = 0].maxA = r.maxA
          /\ [after EXCEPT !.left = 0].maxB = r.maxB /\ [after EXCEPT !.left = 0].count = 0
          /\ [after EXCEPT !.left = 0].left = 0
      BY <1>2, <1>3 DEF TimerRecord
    <2>3. ~FreeRunning(c)
      BY <1>1, <1>6 DEF FreeRunning
    <2>4. Good(t, [after EXCEPT !.left = 0])
      BY <1>1, <2>2, <2>3 DEF Good, Live
    <2>5. QED
      BY <1>6, <2>1, <2>2, <2>4 DEF c
  <1>7. QED
    BY <1>5, <1>6

LEMMA IncRecord ==
  ASSUME NEW t, NEW r, r \in TimerRecord, Shape(t, r.ctl)
  PROVE  /\ Inc(r) \in TimerRecord /\ Inc(r).count = (r.count + 1) % Range
         /\ Inc(r).ctl = r.ctl /\ Inc(r).maxA = r.maxA /\ Inc(r).maxB = r.maxB /\ Inc(r).left = r.left
         /\ IncElapses(r) <=> (r.count + 1) % Range = TopOf(r)
  <1>1. (r.count + 1) % Range \in N
    <2>1. Range \in Nat \ {0} /\ r.count + 1 \in Int
      BY Constants DEF TimerRecord, N
    <2>2. (r.count + 1) % Range \in 0..Range - 1
      BY <2>1, Quotient
    <2>3. QED
      BY <2>2 DEF N
  <1>2. Inc(r) = [r EXCEPT !.count = (r.count + 1) % Range]
    BY DEF Inc
  <1>3. /\ Inc(r) \in TimerRecord /\ Inc(r).count = (r.count + 1) % Range
        /\ Inc(r).ctl = r.ctl /\ Inc(r).maxA = r.maxA /\ Inc(r).maxB = r.maxB /\ Inc(r).left = r.left
    BY <1>1, <1>2 DEF TimerRecord
  <1>4. (IF r.ctl.alt THEN TopOf(r) ELSE r.maxA) = TopOf(r)
    BY DEF Shape, TopOf, Top
  <1>5. QED
    BY <1>3, <1>4 DEF IncElapses

LEMMA IncrementedRecord ==
  ASSUME NEW t, NEW r, r \in TimerRecord, Shape(t, r.ctl), t # 2,
         Prescaled(r.ctl) \/ r.ctl.ext
  PROVE  /\ Good(t, Incremented(t, r))
         /\ Incremented(t, r).maxA = r.maxA /\ Incremented(t, r).maxB = r.maxB
         /\ IncElapses(r) => /\ Incremented(t, r).ctl = AfterElapse(r.ctl)
                             /\ Incremented(t, r).count = 0
                             /\ r.left = 0 => Incremented(t, r).left = 0
         /\ ~IncElapses(r) => /\ Incremented(t, r).ctl = r.ctl
                              /\ Incremented(t, r).count = (r.count + 1) % Range
                              /\ Incremented(t, r).left = r.left
  <1>1. /\ Inc(r) \in TimerRecord /\ Inc(r).count = (r.count + 1) % Range
        /\ Inc(r).ctl = r.ctl /\ Inc(r).maxA = r.maxA /\ Inc(r).maxB = r.maxB /\ Inc(r).left = r.left
    BY IncRecord
  <1>2. CASE IncElapses(r)
    <2>1. Incremented(t, r) = ElapsedTimer(t, Inc(r))
      BY <1>2 DEF Incremented
    <2>2. /\ Good(t, ElapsedTimer(t, Inc(r)))
          /\ ElapsedTimer(t, Inc(r)).ctl = AfterElapse(r.ctl)
          /\ ElapsedTimer(t, Inc(r)).maxA = r.maxA /\ ElapsedTimer(t, Inc(r)).maxB = r.maxB
          /\ ElapsedTimer(t, Inc(r)).count = 0
          /\ ElapsedTimer(t, Inc(r)).left =
               IF ~StartsOver(r.ctl) THEN 0
               ELSE IF (t # 2 /\ Prescaled(AfterElapse(r.ctl))) \/ r.ctl.ext THEN r.left
               ELSE Prescale * Laps(Top(AfterElapse(r.ctl), r.maxA, r.maxB))
      BY <1>1, ElapsedRecord
    <2>3. StartsOver(r.ctl) /\ Prescaled(r.ctl) => Prescaled(AfterElapse(r.ctl))
      BY AfterShape DEF Prescaled
    <2>4. QED
      BY <1>2, <2>1, <2>2, <2>3
  <1>3. CASE ~IncElapses(r)
    <2>1. Incremented(t, r) = Inc(r)
      BY <1>3 DEF Incremented
    <2>2. ~FreeRunning(r.ctl)
      BY DEF FreeRunning, Prescaled
    <2>3. QED
      BY <1>1, <1>3, <2>1, <2>2 DEF Good, Live
  <1>4. QED
    BY <1>2, <1>3

LEMMA MergedShape ==
  ASSUME NEW t, NEW old, Shape(t, old), NEW w \in Words, NEW inh \in BOOLEAN
  PROVE  /\ Shape(t, Merged(t, old, w, inh)) /\ Merged(t, old, w, inh) \in Control
         /\ Merged(t, old, w, inh).alt = old.alt => Merged(t, old, w, inh).riu = old.riu
  <1>1. w \in Control
    BY WriteAssumption
  <1> DEFINE kept == IF t = 2
                       THEN [w EXCEPT !.riu = old.riu, !.rtg = old.rtg, !.p = old.p,
                                      !.ext = old.ext, !.alt = old.alt]
                       ELSE [w EXCEPT !.riu = old.riu]
  <1>2. /\ kept \in Control /\ kept.riu = old.riu
        /\ t = 2 => ~kept.rtg /\ ~kept.p /\ ~kept.ext /\ ~kept.alt
    BY <1>1 DEF Shape, Control
  <1>3. Merged(t, old, w, inh) = [kept EXCEPT !.en = IF inh THEN @ ELSE old.en, !.riu = @ /\ kept.alt]
    BY DEF Merged
  <1> HIDE DEF kept
  <1>4. /\ Merged(t, old, w, inh) \in Control
        /\ Merged(t, old, w, inh).riu = (kept.riu /\ kept.alt)
        /\ Merged(t, old, w, inh).alt = kept.alt /\ Merged(t, old, w, inh).rtg = kept.rtg
        /\ Merged(t, old, w, inh).p = kept.p /\ Merged(t, old, w, inh).ext = kept.ext
    BY <1>2, <1>3 DEF Shape, Control
  <1>5. QED
    BY <1>2, <1>4 DEF Shape, Control

LEMMA RearmedGood ==
  ASSUME NEW t, NEW r, r \in TimerRecord, Shape(t, r.ctl)
  PROVE  Good(t, Rearmed(r))
  <1>1. /\ Rearmed(r) \in TimerRecord /\ Rearmed(r).ctl = r.ctl
        /\ Rearmed(r).left = IF r.ctl.en /\ ~r.ctl.ext /\ (~r.ctl.rtg \/ r.left # 0)
                               THEN Prescale * Distance(r) ELSE 0
    BY RearmedRecord
  <1>2. Prescale * Distance(r) # 0
    BY DistanceType, Constants
  <1>3. FreeRunning(r.ctl) /\ ~r.ctl.rtg => Rearmed(r).left # 0
    BY <1>1, <1>2 DEF FreeRunning
  <1>4. QED
    BY <1>1, <1>3 DEF Good, Live

LEMMA OffShape ==
  ASSUME NEW t
  PROVE  Off \in Control /\ Shape(t, Off) /\ ~FreeRunning(Off)
  BY DEF Off, Control, Shape, FreeRunning

-----------------------------------------------------------------------------
(* A cycle, timer by timer: what is left of every deadline, the timers that *)
(* go off, and those that timer 2 counts.                                   *)

Aged(r) == [r EXCEPT !.left = IF @ = 0 THEN 0 ELSE @ - 1]
Due == {t \in TimerIds : timer[t].left = 1}
Fired(t) == IF t \in Due THEN ElapsedTimer(t, Aged(timer[t])) ELSE Aged(timer[t])
FedTimers == {t \in TimerIds \ {2} : 2 \in Due /\ Prescaled(Fired(t).ctl)}

LEMMA CycleParts ==
  ASSUME Cycle
  PROVE  /\ timer' = [t \in TimerIds |-> IF t \in FedTimers THEN Incremented(t, Fired(t))
                                         ELSE Fired(t)]
         /\ status' = status \cup {t \in Due : timer[t].ctl.int}
                             \cup {t \in FedTimers : IncElapses(Fired(t)) /\ Fired(t).ctl.int}
  BY DEF Cycle, Aged, Due, Fired, FedTimers

LEMMA AgedRecord ==
  ASSUME NEW t, NEW r, Good(t, r)
  PROVE  /\ Aged(r) \in TimerRecord /\ Aged(r).ctl = r.ctl /\ Aged(r).maxA = r.maxA
         /\ Aged(r).maxB = r.maxB /\ Aged(r).count = r.count
         /\ Aged(r).left = IF r.left = 0 THEN 0 ELSE r.left - 1
         /\ r.left # 1 => Good(t, Aged(r))
  <1>1. r \in TimerRecord /\ Shape(t, r.ctl) /\ Live(r)
    BY DEF Good
  <1>2. (IF r.left = 0 THEN 0 ELSE r.left - 1) \in 0..Range * Prescale
    BY <1>1, Constants DEF TimerRecord
  <1>3. Aged(r) = [r EXCEPT !.left = IF r.left = 0 THEN 0 ELSE r.left - 1]
    BY DEF Aged
  <1>4. /\ Aged(r) \in TimerRecord /\ Aged(r).ctl = r.ctl /\ Aged(r).maxA = r.maxA
        /\ Aged(r).maxB = r.maxB /\ Aged(r).count = r.count
        /\ Aged(r).left = IF r.left = 0 THEN 0 ELSE r.left - 1
    BY <1>1, <1>2, <1>3 DEF TimerRecord
  <1>5. r.left # 0 /\ r.left # 1 => r.left - 1 # 0
    BY <1>1, Constants DEF TimerRecord
  <1>6. QED
    BY <1>1, <1>4, <1>5 DEF Good, Live

LEMMA FiredGood ==
  ASSUME IInv, NEW t \in TimerIds
  PROVE  Good(t, Fired(t))
  <1>1. Good(t, timer[t])
    BY DEF IInv
  <1>2. Aged(timer[t]) \in TimerRecord /\ Shape(t, Aged(timer[t]).ctl)
    BY <1>1, AgedRecord DEF Good
  <1>3. CASE t \in Due
    BY <1>2, <1>3, ElapsedRecord DEF Fired
  <1>4. CASE t \notin Due
    BY <1>1, <1>4, AgedRecord DEF Fired, Due
  <1>5. QED
    BY <1>3, <1>4

LEMMA CycleGood ==
  ASSUME IInv, Cycle
  PROVE  IInv'
  <1>1. \A t \in TimerIds : Good(t, Fired(t))
    BY FiredGood
  <1>2. ASSUME NEW t \in FedTimers
        PROVE  Good(t, Incremented(t, Fired(t)))
    <2>1. t \in TimerIds /\ t # 2 /\ Prescaled(Fired(t).ctl)
      BY DEF FedTimers
    <2>2. Fired(t) \in TimerRecord /\ Shape(t, Fired(t).ctl)
      BY <1>1, <2>1 DEF Good
    <2>3. QED
      BY <2>1, <2>2, IncrementedRecord
  <1>3. \A t \in TimerIds : timer'[t] = IF t \in FedTimers THEN Incremented(t, Fired(t)) ELSE Fired(t)
    BY CycleParts, Zenon
  <1>4. \A t \in TimerIds : Good(t, timer'[t])
    BY <1>1, <1>2, <1>3, Zenon
  <1>5. timer' \in [TimerIds -> TimerRecord]
    <2>1. \A t \in TimerIds : timer'[t] \in TimerRecord
      BY <1>4 DEF Good
    <2>2. timer' = [t \in TimerIds |-> timer'[t]]
      BY CycleParts
    <2>3. QED
      BY <2>1, <2>2
  <1>6. status' \subseteq TimerIds
    BY CycleParts DEF IInv, Due, FedTimers
  <1>7. QED
    BY <1>4, <1>5, <1>6 DEF IInv, Good, Live, Shape

-----------------------------------------------------------------------------
(* A step on one timer.                                                     *)

LEMMA OneTimer ==
  ASSUME IInv, NEW t \in TimerIds, NEW r, Good(t, r),
         timer' = [timer EXCEPT ![t] = r], status' \subseteq TimerIds
  PROVE  IInv'
  <1>1. r \in TimerRecord
    BY DEF Good
  <1>2. timer' \in [TimerIds -> TimerRecord]
    BY <1>1 DEF IInv
  <1>3. \A u \in TimerIds : timer'[u] = IF u = t THEN r ELSE timer[u]
    BY DEF IInv
  <1>4. \A u \in TimerIds : Good(u, timer'[u])
    BY <1>3 DEF IInv
  <1>5. QED
    BY <1>2, <1>4 DEF IInv, Good, Live, Shape

\* The three registers with a number in them.
LEMMA RegisterGood ==
  ASSUME NEW t, NEW r, Good(t, r), NEW n \in N
  PROVE  /\ Good(t, IF r.ctl.en THEN Rearmed([r EXCEPT !.count = n]) ELSE [r EXCEPT !.count = n])
         /\ Good(t, IF r.ctl.en /\ n # r.maxA THEN Rearmed([Synced(r) EXCEPT !.maxA = n])
                    ELSE [r EXCEPT !.maxA = n])
         /\ Good(t, IF r.ctl.en /\ n # r.maxB THEN Rearmed([Synced(r) EXCEPT !.maxB = n])
                    ELSE [r EXCEPT !.maxB = n])
  <1>1. r \in TimerRecord /\ Shape(t, r.ctl) /\ Live(r)
    BY DEF Good
  <1>2. Synced(r) \in TimerRecord /\ Synced(r).ctl = r.ctl
    BY <1>1, SyncedRecord
  <1>3. \A s \in TimerRecord : s.ctl = r.ctl =>
          /\ Good(t, Rearmed([s EXCEPT !.count = n])) /\ Good(t, Rearmed([s EXCEPT !.maxA = n]))
          /\ Good(t, Rearmed([s EXCEPT !.maxB = n]))
    <2> TAKE s \in TimerRecord
    <2> HAVE s.ctl = r.ctl
    <2>1. /\ [s EXCEPT !.count = n] \in TimerRecord /\ [s EXCEPT !.count = n].ctl = r.ctl
          /\ [s EXCEPT !.maxA = n] \in TimerRecord /\ [s EXCEPT !.maxA = n].ctl = r.ctl
          /\ [s EXCEPT !.maxB = n] \in TimerRecord /\ [s EXCEPT !.maxB = n].ctl = r.ctl
      BY DEF TimerRecord
    <2>2. QED
      BY <1>1, <2>1, RearmedGood
  <1>4. /\ [r EXCEPT !.count = n] \in TimerRecord /\ [r EXCEPT !.count = n].ctl = r.ctl
        /\ [r EXCEPT !.maxA = n] \in TimerRecord /\ [r EXCEPT !.maxA = n].ctl = r.ctl
        /\ [r EXCEPT !.maxB = n] \in TimerRecord /\ [r EXCEPT !.maxB = n].ctl = r.ctl
        /\ [r EXCEPT !.count = n].left = r.left /\ [r EXCEPT !.maxA = n].left = r.left
        /\ [r EXCEPT !.maxB = n].left = r.left
    BY <1>1 DEF TimerRecord
  <1>5. /\ Good(t, [r EXCEPT !.count = n]) /\ Good(t, [r EXCEPT !.maxA = n])
        /\ Good(t, [r EXCEPT !.maxB = n])
    BY <1>1, <1>4 DEF Good, Live
  <1>6. QED
    BY <1>1, <1>2, <1>3, <1>5
\* The word written; put is the timer with the new word, synced when asked.
Put(r, c) == [r EXCEPT !.ctl = c]
Written(r, new) ==
  IF (r.ctl.en /\ ~new.en) \/ (r.ctl.en = new.en /\ r.ctl.int # new.int)
    THEN Rearmed(Put(Synced(r), new))
  ELSE IF ~r.ctl.en /\ FreeRunning(new) THEN Rearmed(Put(r, new))
  ELSE Put(r, new)

LEMMA PutRecord ==
  ASSUME NEW r, r \in TimerRecord, NEW c \in Control
  PROVE  /\ Put(r, c) \in TimerRecord /\ Put(r, c).ctl = c /\ Put(r, c).maxA = r.maxA
         /\ Put(r, c).maxB = r.maxB /\ Put(r, c).count = r.count /\ Put(r, c).left = r.left
  BY DEF Put, TimerRecord

LEMMA WrittenGood ==
  ASSUME NEW t, NEW r, Good(t, r), NEW new, Shape(t, new), MayMerge(r.ctl, new)
  PROVE  Good(t, Written(r, new))
  <1>1. r \in TimerRecord /\ Shape(t, r.ctl) /\ Live(r) /\ new \in Control
    BY DEF Good, Shape
  <1>2. Synced(r) \in TimerRecord
    BY <1>1, SyncedRecord
  <1>3. /\ Put(r, new) \in TimerRecord /\ Put(r, new).ctl = new /\ Put(r, new).left = r.left
        /\ Put(Synced(r), new) \in TimerRecord /\ Put(Synced(r), new).ctl = new
    BY <1>1, <1>2, PutRecord
  <1>4. Good(t, Rearmed(Put(Synced(r), new))) /\ Good(t, Rearmed(Put(r, new)))
    BY <1>3, RearmedGood
  <1>5. ASSUME r.ctl.en \/ ~FreeRunning(new)
        PROVE  Good(t, Put(r, new))
    <2>1. FreeRunning(new) /\ ~new.rtg => FreeRunning(r.ctl) /\ ~r.ctl.rtg
      <3>1. ASSUME FreeRunning(new), ~new.rtg
            PROVE  FreeRunning(r.ctl) /\ ~r.ctl.rtg
        <4>1. r.ctl.en /\ new.en
          BY <1>5, <3>1 DEF FreeRunning
        <4>2. Mode(new) = Mode(r.ctl)
          BY <4>1 DEF MayMerge
        <4>3. new.rtg = r.ctl.rtg /\ new.p = r.ctl.p /\ new.ext = r.ctl.ext
          BY <4>2 DEF Mode
        <4>4. QED
          BY <3>1, <4>1, <4>3 DEF FreeRunning
      <3>2. QED
        BY <3>1
    <2>2. QED
      BY <1>1, <1>3, <2>1 DEF Good, Live
  <1>6. QED
    BY <1>4, <1>5 DEF Written

\* A step that leaves the timers alone.
LEMMA SameTimers ==
  ASSUME IInv, UNCHANGED timer, status' \subseteq TimerIds
  PROVE  IInv'
  BY DEF IInv, Good, Live, Shape

LEMMA InitGood ==
  ASSUME Init
  PROVE  IInv
  <1> DEFINE z == [ctl |-> Off, maxA |-> 0, maxB |-> 0, count |-> 0, left |-> 0]
  <1>1. 0 \in N /\ 0 \in 0..Range * Prescale /\ Off \in Control
    BY Constants, OffShape DEF N
  <1>2. z \in TimerRecord /\ z.ctl = Off
    BY <1>1 DEF TimerRecord
  <1>3. timer = [t \in TimerIds |-> z] /\ status = {}
    BY DEF Init
  <1> HIDE DEF z
  <1>4. \A t : Good(t, z)
    BY <1>2, OffShape DEF Good, Live
  <1>5. QED
    BY <1>2, <1>3, <1>4 DEF IInv

LEMMA ResetGood ==
  ASSUME IInv, Reset
  PROVE  IInv'
  <1> DEFINE z(t) == [timer[t] EXCEPT !.ctl = Off, !.maxA = 0, !.maxB = 0, !.count = 0]
  <1>1. 0 \in N /\ Off \in Control
    BY Constants, OffShape DEF N
  <1>2. ASSUME NEW t \in TimerIds
        PROVE  z(t) \in TimerRecord /\ z(t).ctl = Off
    <2>1. timer[t] \in TimerRecord
      BY DEF IInv
    <2>2. QED
      BY <1>1, <2>1 DEF TimerRecord
  <1>3. timer' = [t \in TimerIds |-> z(t)] /\ status' = {}
    BY DEF Reset
  <1> HIDE DEF z
  <1>4. \A t \in TimerIds : Good(t, z(t))
    BY <1>2, OffShape DEF Good, Live
  <1>5. timer' \in [TimerIds -> TimerRecord] /\ \A t \in TimerIds : Good(t, timer'[t])
    BY <1>2, <1>3, <1>4
  <1>6. QED
    BY <1>3, <1>5 DEF IInv, Good, Live, Shape

LEMMA TmrInGood ==
  ASSUME IInv, NEW t \in TimerIds, TmrIn(t)
  PROVE  IInv'
  <1> DEFINE r == timer[t]
  <1>1. Good(t, r) /\ r \in TimerRecord /\ Shape(t, r.ctl) /\ status \subseteq TimerIds
    BY DEF IInv, Good
  <1>2. /\ t # 2 /\ r.ctl.en /\ (r.ctl.ext \/ r.ctl.rtg)
        /\ timer' = [timer EXCEPT ![t] = IF r.ctl.ext THEN Incremented(t, r)
                                         ELSE Restarted(t, [r EXCEPT !.count = 0])]
        /\ status' \subseteq TimerIds
    BY <1>1 DEF TmrIn
  <1> HIDE DEF r
  <1>3. CASE r.ctl.ext
    <2>1. Good(t, Incremented(t, r))
      BY <1>1, <1>2, <1>3, IncrementedRecord
    <2>2. QED
      BY <1>2, <1>3, <2>1, OneTimer
  <1>4. CASE ~r.ctl.ext
    <2>1. 0 \in N
      BY Constants DEF N
    <2>2. [r EXCEPT !.count = 0] \in TimerRecord /\ [r EXCEPT !.count = 0].ctl = r.ctl
      BY <1>1, <2>1 DEF TimerRecord
    <2>3. /\ Restarted(t, [r EXCEPT !.count = 0]) \in TimerRecord
          /\ Restarted(t, [r EXCEPT !.count = 0]).ctl = r.ctl
      BY <2>2, RestartedRecord
    <2>4. Good(t, Restarted(t, [r EXCEPT !.count = 0]))
      BY <1>1, <1>2, <1>4, <2>3 DEF Good, Live
    <2>5. QED
      BY <1>2, <1>4, <2>4, OneTimer
  <1>5. QED
    BY <1>3, <1>4

LEMMA NextGood ==
  ASSUME IInv, [Next]_vars
  PROVE  IInv'
  <1> status \subseteq TimerIds
    BY DEF IInv
  <1>1. CASE Cycle
    BY <1>1, CycleGood
  <1>2. CASE Reset
    BY <1>2, ResetGood
  <1>3. ASSUME NEW t \in TimerIds, NEW n \in Values,
               WriteCount(t, n) \/ WriteMaxA(t, n) \/ WriteMaxB(t, n)
        PROVE  IInv'
    <2>1. n \in N /\ Good(t, timer[t])
      BY WriteAssumption DEF N, IInv
    <2>2. CASE WriteCount(t, n)
      <3>1. status' = status
        BY <2>2 DEF WriteCount
      <3>2. PICK r : Good(t, r) /\ timer' = [timer EXCEPT ![t] = r]
        BY <2>1, <2>2, RegisterGood DEF WriteCount
      <3>3. QED
        BY <3>1, <3>2, OneTimer
    <2>3. CASE WriteMaxA(t, n)
      <3>1. status' = status
        BY <2>3 DEF WriteMaxA
      <3>2. PICK r : Good(t, r) /\ timer' = [timer EXCEPT ![t] = r]
        BY <2>1, <2>3, RegisterGood DEF WriteMaxA
      <3>3. QED
        BY <3>1, <3>2, OneTimer
    <2>4. CASE WriteMaxB(t, n)
      <3>1. status' = status
        BY <2>4 DEF WriteMaxB
      <3>2. PICK r : Good(t, r) /\ timer' = [timer EXCEPT ![t] = r]
        BY <2>1, <2>4, RegisterGood DEF WriteMaxB
      <3>3. QED
        BY <3>1, <3>2, OneTimer
    <2>5. QED
      BY <1>3, <2>2, <2>3, <2>4
  <1>4. ASSUME NEW t \in TimerIds, NEW w \in Words, NEW inh \in BOOLEAN, WriteControl(t, w, inh)
        PROVE  IInv'
    <2> DEFINE new == Merged(t, timer[t].ctl, w, inh)
    <2>1. Good(t, timer[t]) /\ Shape(t, timer[t].ctl)
      BY DEF IInv, Good
    <2>2. Shape(t, new)
      BY <2>1, MergedShape
    <2>3. /\ MayMerge(timer[t].ctl, new) /\ status' = status
          /\ timer' = [timer EXCEPT ![t] = Written(timer[t], new)]
      BY <1>4 DEF WriteControl, Written, Put
    <2> HIDE DEF new
    <2>4. Good(t, Written(timer[t], new))
      BY <2>1, <2>2, <2>3, WrittenGood
    <2>5. QED
      BY <2>3, <2>4, OneTimer
  <1>5. ASSUME NEW t \in TimerIds, TmrIn(t)
        PROVE  IInv'
    BY <1>5, TmrInGood
  <1>6. ASSUME NEW t \in TimerIds, ReadCount(t)
        PROVE  IInv'
    <2>1. Good(t, timer[t]) /\ timer[t] \in TimerRecord
      BY DEF IInv, Good
    <2>2. Good(t, Synced(timer[t]))
      BY <2>1, SyncedRecord DEF Good, Live
    <2>3. QED
      BY <1>6, <2>2, OneTimer DEF ReadCount
  <1>7. ASSUME NEW t \in TimerIds, Acknowledge(t)
        PROVE  IInv'
    BY <1>7, SameTimers DEF Acknowledge
  <1>8. CASE UNCHANGED vars
    BY <1>8, SameTimers DEF vars
  <1>9. QED
    BY <1>1, <1>2, <1>3, <1>4, <1>5, <1>6, <1>7, <1>8 DEF Next

\* Whatever is written, read or reset, and whenever timers elapse.
THEOREM Invariant == Spec => []IInv
  <1>1. Init => IInv
    BY InitGood
  <1>2. IInv /\ [Next]_vars => IInv'
    BY NextGood
  <1>3. QED
    BY <1>1, <1>2, PTL DEF Spec

\* The sample clock never dies: a timer that is on, counts cycles and waits
\* for no trigger always has a deadline (internal_timer_update and
\* restart_timer set one on every path that leaves it on).
THEOREM SampleClockLives == Spec => []NeverStuck
  <1>1. IInv => NeverStuck
    BY DEF IInv, Good, Live, NeverStuck
  <1>2. QED
    BY <1>1, Invariant, PTL
-----------------------------------------------------------------------------
(* What the counters show of a timer.                                       *)

Cnt(r) == Synced(r).count
Run(r) == r.left # 0
Own(r) == Run(r) => FreeRunning(r.ctl)

\* The count that follows, and the end of the last step.
Stp(r) == (Cnt(r) + 1) % Range
Ends(r) == /\ Run(r) /\ (PhaseAt(r.left) + 1) % Prescale = 0
           /\ (IF PhaseAt(r.left) = 0 THEN Stp(r) ELSE Cnt(r)) = TopOf(r)

ViewCtl   == [t \in TimerIds |-> timer[t].ctl]
ViewMaxA  == [t \in TimerIds |-> timer[t].maxA]
ViewMaxB  == [t \in TimerIds |-> timer[t].maxB]
ViewCount == [t \in TimerIds |-> Cnt(timer[t])]
ViewPhase == [t \in TimerIds |-> PhaseAt(timer[t].left)]
ViewRun   == [t \in TimerIds |-> Run(timer[t])]


LEMMA OneView ==
  ASSUME NEW t \in TimerIds, NEW s, IInv, timer' = [timer EXCEPT ![t] = s]
  PROVE  /\ ViewCtl' = [ViewCtl EXCEPT ![t] = s.ctl]
         /\ ViewMaxA' = [ViewMaxA EXCEPT ![t] = s.maxA]
         /\ ViewMaxB' = [ViewMaxB EXCEPT ![t] = s.maxB]
         /\ ViewCount' = [ViewCount EXCEPT ![t] = Cnt(s)]
         /\ ViewPhase' = [ViewPhase EXCEPT ![t] = PhaseAt(s.left)]
         /\ ViewRun' = [ViewRun EXCEPT ![t] = Run(s)]
  <1>1. \A u \in TimerIds : timer'[u] = IF u = t THEN s ELSE timer[u]
    BY DEF IInv
  <1>2. ViewCtl' = [ViewCtl EXCEPT ![t] = s.ctl]
    <2>1. ViewCtl' = [u \in TimerIds |-> timer'[u].ctl]
      BY DEF ViewCtl
    <2>2. \A u \in TimerIds : timer'[u].ctl = IF u = t THEN s.ctl ELSE timer[u].ctl
      BY <1>1
    <2>3. QED
      BY <2>1, <2>2 DEF ViewCtl
  <1>3. ViewMaxA' = [ViewMaxA EXCEPT ![t] = s.maxA]
    <2>1. ViewMaxA' = [u \in TimerIds |-> timer'[u].maxA]
      BY DEF ViewMaxA
    <2>2. \A u \in TimerIds : timer'[u].maxA = IF u = t THEN s.maxA ELSE timer[u].maxA
      BY <1>1
    <2>3. QED
      BY <2>1, <2>2 DEF ViewMaxA
  <1>4. ViewMaxB' = [ViewMaxB EXCEPT ![t] = s.maxB]
    <2>1. ViewMaxB' = [u \in TimerIds |-> timer'[u].maxB]
      BY DEF ViewMaxB
    <2>2. \A u \in TimerIds : timer'[u].maxB = IF u = t THEN s.maxB ELSE timer[u].maxB
      BY <1>1
    <2>3. QED
      BY <2>1, <2>2 DEF ViewMaxB
  <1>5. ViewCount' = [ViewCount EXCEPT ![t] = Cnt(s)]
    <2>1. ViewCount' = [u \in TimerIds |-> Cnt(timer'[u])]
      BY DEF ViewCount, Cnt, Synced, TopOf
    <2>2. \A u \in TimerIds : Cnt(timer'[u]) = IF u = t THEN Cnt(s) ELSE Cnt(timer[u])
      BY <1>1
    <2>3. QED
      BY <2>1, <2>2 DEF ViewCount
  <1>6. ViewPhase' = [ViewPhase EXCEPT ![t] = PhaseAt(s.left)]
    <2>1. ViewPhase' = [u \in TimerIds |-> PhaseAt(timer'[u].left)]
      BY DEF ViewPhase, PhaseAt
    <2>2. \A u \in TimerIds : PhaseAt(timer'[u].left) = IF u = t THEN PhaseAt(s.left) ELSE PhaseAt(timer[u].left)
      BY <1>1
    <2>3. QED
      BY <2>1, <2>2 DEF ViewPhase
  <1>7. ViewRun' = [ViewRun EXCEPT ![t] = Run(s)]
    <2>1. ViewRun' = [u \in TimerIds |-> Run(timer'[u])]
      BY DEF ViewRun, Run
    <2>2. \A u \in TimerIds : Run(timer'[u]) = IF u = t THEN Run(s) ELSE Run(timer[u])
      BY <1>1
    <2>3. QED
      BY <2>1, <2>2 DEF ViewRun
  <1>8. QED
    BY <1>2, <1>3, <1>4, <1>5, <1>6, <1>7

\* The counters read control words as the timers do.
LEMMA SameControl ==
  /\ \A c : (C!FreeRunning(c) <=> FreeRunning(c)) /\ (C!Prescaled(c) <=> Prescaled(c))
  /\ \A c : (C!StartsOver(c) <=> StartsOver(c)) /\ C!AfterElapse(c) = AfterElapse(c)
  /\ \A t, old, w, inh : C!Merged(t, old, w, inh) = Merged(t, old, w, inh)
  /\ \A c, a, b : C!Top(c, a, b) = Top(c, a, b)
  /\ C!Off = Off
  <1>1. \A c : (C!FreeRunning(c) <=> FreeRunning(c)) /\ (C!Prescaled(c) <=> Prescaled(c))
    BY DEF C!FreeRunning, FreeRunning, C!Prescaled, Prescaled
  <1>2. \A c : C!StartsOver(c) <=> StartsOver(c)
    BY DEF C!StartsOver, StartsOver
  <1>3. \A c : C!AfterElapse(c) = AfterElapse(c)
    BY <1>2, Zenon DEF C!AfterElapse, AfterElapse, C!StartsOver, StartsOver
  <1>4. \A t, old, w, inh : C!Merged(t, old, w, inh) = Merged(t, old, w, inh)
    BY DEF C!Merged, Merged
  <1>5. \A c, a, b : C!Top(c, a, b) = Top(c, a, b)
    BY DEF C!Top, Top
  <1>6. C!Off = Off
    BY DEF C!Off, Off
  <1>7. QED
    BY <1>1, <1>2, <1>3, <1>4, <1>5, <1>6

\* What the counters' operations say, in these views.
LEMMA WriteCountView ==
  ASSUME NEW t \in TimerIds, NEW n,
         ViewCount' = [ViewCount EXCEPT ![t] = n], ViewPhase' = [ViewPhase EXCEPT ![t] = 0],
         ViewCtl' = ViewCtl, ViewMaxA' = ViewMaxA, ViewMaxB' = ViewMaxB, ViewRun' = ViewRun,
         status' = status
  PROVE  C!WriteCount(t, n)
  BY DEF C!WriteCount, ViewCtl, ViewMaxA, ViewMaxB, ViewCount, ViewPhase, ViewRun, Cnt, PhaseAt, Run
LEMMA WriteMaxAView ==
  ASSUME NEW t \in TimerIds, NEW n,
         ViewMaxA' = [ViewMaxA EXCEPT ![t] = n],
         ViewPhase' = [ViewPhase EXCEPT ![t] = IF n = timer[t].maxA THEN PhaseAt(timer[t].left) ELSE 0],
         ViewCtl' = ViewCtl, ViewMaxB' = ViewMaxB, ViewCount' = ViewCount, ViewRun' = ViewRun,
         status' = status
  PROVE  C!WriteMaxA(t, n)
  <1>1. ViewMaxA[t] = timer[t].maxA /\ ViewPhase[t] = PhaseAt(timer[t].left)
    BY DEF ViewMaxA, ViewPhase
  <1>2. ViewPhase' = [ViewPhase EXCEPT ![t] = IF n = ViewMaxA[t] THEN @ ELSE 0]
    BY <1>1
  <1>3. QED
    BY <1>2 DEF C!WriteMaxA, ViewCtl, ViewMaxA, ViewMaxB, ViewCount, ViewPhase, ViewRun, Cnt, PhaseAt, Run

LEMMA WriteMaxBView ==
  ASSUME NEW t \in TimerIds, NEW n,
         ViewMaxB' = [ViewMaxB EXCEPT ![t] = n],
         ViewPhase' = [ViewPhase EXCEPT ![t] = IF n = timer[t].maxB THEN PhaseAt(timer[t].left) ELSE 0],
         ViewCtl' = ViewCtl, ViewMaxA' = ViewMaxA, ViewCount' = ViewCount, ViewRun' = ViewRun,
         status' = status
  PROVE  C!WriteMaxB(t, n)
  <1>1. ViewMaxB[t] = timer[t].maxB /\ ViewPhase[t] = PhaseAt(timer[t].left)
    BY DEF ViewMaxB, ViewPhase
  <1>2. ViewPhase' = [ViewPhase EXCEPT ![t] = IF n = ViewMaxB[t] THEN @ ELSE 0]
    BY <1>1
  <1>3. QED
    BY <1>2 DEF C!WriteMaxB, ViewCtl, ViewMaxA, ViewMaxB, ViewCount, ViewPhase, ViewRun, Cnt, PhaseAt, Run

\* Whether a timer whose word is written counts afterwards.
Counting(r, new) == new.en /\ (Run(r) \/ (~r.ctl.en /\ FreeRunning(new) /\ ~new.rtg))

LEMMA WriteControlView ==
  ASSUME NEW t \in TimerIds, NEW w, NEW inh, NEW new, new = Merged(t, timer[t].ctl, w, inh),
         ViewCtl' = [ViewCtl EXCEPT ![t] = new],
         ViewRun' = [ViewRun EXCEPT ![t] = Counting(timer[t], new)],
         ViewPhase' = [ViewPhase EXCEPT ![t] =
                         IF new.en = timer[t].ctl.en /\ new.int = timer[t].ctl.int
                           THEN PhaseAt(timer[t].left) ELSE 0],
         ViewMaxA' = ViewMaxA, ViewMaxB' = ViewMaxB, ViewCount' = ViewCount, status' = status
  PROVE  C!WriteControl(t, w, inh)
  <1>1. /\ ViewCtl[t] = timer[t].ctl /\ ViewPhase[t] = PhaseAt(timer[t].left)
        /\ ViewRun[t] = Run(timer[t])
    BY DEF ViewCtl, ViewPhase, ViewRun
  <1>2. new = Merged(t, ViewCtl[t], w, inh)
    BY <1>1
  <1>3. ViewPhase' = [ViewPhase EXCEPT ![t] =
                        IF new.en = ViewCtl[t].en /\ new.int = ViewCtl[t].int THEN @ ELSE 0]
    BY <1>1
  <1>4. ViewRun' = [ViewRun EXCEPT ![t] =
                      new.en /\ (@ \/ (~ViewCtl[t].en /\ FreeRunning(new) /\ ~new.rtg))]
    BY <1>1, Zenon DEF Counting
  <1>5. /\ ViewCtl' = [ViewCtl EXCEPT ![t] = Merged(t, ViewCtl[t], w, inh)]
        /\ ViewPhase' = [ViewPhase EXCEPT ![t] =
             IF Merged(t, ViewCtl[t], w, inh).en = ViewCtl[t].en
                /\ Merged(t, ViewCtl[t], w, inh).int = ViewCtl[t].int THEN @ ELSE 0]
        /\ ViewRun' = [ViewRun EXCEPT ![t] =
             Merged(t, ViewCtl[t], w, inh).en
               /\ (@ \/ (~ViewCtl[t].en /\ FreeRunning(Merged(t, ViewCtl[t], w, inh))
                         /\ ~Merged(t, ViewCtl[t], w, inh).rtg))]
    BY <1>2, <1>3, <1>4, Zenon
  <1>6. QED
    BY <1>5, SameControl DEF C!WriteControl, ViewCtl, ViewMaxA, ViewMaxB, ViewCount, ViewPhase, ViewRun, Cnt, PhaseAt, Run

LEMMA TriggerView ==
  ASSUME NEW t \in TimerIds, timer[t].ctl.en, timer[t].ctl.rtg, ~timer[t].ctl.ext,
         ViewCount' = [ViewCount EXCEPT ![t] = 0], ViewPhase' = [ViewPhase EXCEPT ![t] = 0],
         ViewRun' = [ViewRun EXCEPT ![t] = Run(timer[t]) \/ FreeRunning(timer[t].ctl)],
         ViewCtl' = ViewCtl, ViewMaxA' = ViewMaxA, ViewMaxB' = ViewMaxB, status' = status
  PROVE  C!Trigger(t)
  <1>1. ViewCtl[t] = timer[t].ctl /\ ViewRun[t] = Run(timer[t])
    BY DEF ViewCtl, ViewRun
  <1>2. /\ ViewRun' = [ViewRun EXCEPT ![t] = @ \/ FreeRunning(ViewCtl[t])]
        /\ ViewCtl[t].en /\ ViewCtl[t].rtg /\ ~ViewCtl[t].ext
    BY <1>1, Zenon
  <1>3. QED
    BY <1>2, SameControl DEF C!Trigger, ViewCtl, ViewMaxA, ViewMaxB, ViewCount, ViewPhase, ViewRun, Cnt, PhaseAt, Run

LEMMA FullIs ==
  ASSUME NEW t \in TimerIds
  PROVE  /\ C!TopOf(t) = TopOf(timer[t]) /\ C!Stepped(t) = Stp(timer[t])
         /\ \A n : C!Full(t, n) <=> n = TopOf(timer[t])
  BY SameControl DEF C!TopOf, C!Stepped, C!Full, TopOf, Stp, Cnt

LEMMA CountView ==
  ASSUME NEW t \in TimerIds, timer[t].ctl.en, timer[t].ctl.ext,
         NEW full \in BOOLEAN, full <=> Stp(timer[t]) = TopOf(timer[t]),
         ViewCount' = [ViewCount EXCEPT ![t] = IF full THEN 0 ELSE Stp(timer[t])],
         ViewCtl' = IF full THEN [ViewCtl EXCEPT ![t] = AfterElapse(timer[t].ctl)] ELSE ViewCtl,
         status' = IF full /\ timer[t].ctl.int THEN status \cup {t} ELSE status,
         ViewMaxA' = ViewMaxA, ViewMaxB' = ViewMaxB, ViewPhase' = ViewPhase, ViewRun' = ViewRun
  PROVE  C!Count(t)
  <1>1. ViewCtl[t] = timer[t].ctl
    BY DEF ViewCtl
  <1>2. C!Stepped(t) = Stp(timer[t]) /\ (C!Full(t, C!Stepped(t)) <=> full)
    BY FullIs
  <1>3. /\ ViewCtl[t].en /\ ViewCtl[t].ext
        /\ ViewCount' = [ViewCount EXCEPT ![t] = IF C!Full(t, C!Stepped(t)) THEN 0 ELSE C!Stepped(t)]
        /\ IF C!Full(t, C!Stepped(t))
             THEN /\ ViewCtl' = [ViewCtl EXCEPT ![t] = AfterElapse(@)]
                  /\ status' = IF ViewCtl[t].int THEN status \cup {t} ELSE status
             ELSE ViewCtl' = ViewCtl /\ status' = status
    BY <1>1, <1>2
  <1>4. QED
    BY <1>3, SameControl DEF C!Count, ViewCtl, ViewMaxA, ViewMaxB, ViewCount, ViewPhase, ViewRun, Cnt, PhaseAt, Run
-----------------------------------------------------------------------------
(* The steps on one timer are steps of the counters.                        *)

LEMMA CntIs ==
  ASSUME NEW r \in TimerRecord
  PROVE  /\ Cnt(r) \in N
         /\ Cnt(r) = IF FreeRunning(r.ctl) /\ r.left # 0 THEN CountAt(TopOf(r), r.left) ELSE r.count
  BY SyncedRecord DEF Cnt, TimerRecord

\* A new deadline keeps the count and begins its step anew.
LEMMA RearmedView ==
  ASSUME NEW r \in TimerRecord
  PROVE  /\ Cnt(Rearmed(r)) = r.count /\ PhaseAt(Rearmed(r).left) = 0
         /\ Run(Rearmed(r)) = (r.ctl.en /\ ~r.ctl.ext /\ (~r.ctl.rtg \/ Run(r)))
  <1>1. /\ Rearmed(r) \in TimerRecord
        /\ Rearmed(r).ctl = r.ctl /\ Rearmed(r).maxA = r.maxA /\ Rearmed(r).maxB = r.maxB
        /\ Rearmed(r).count = r.count
        /\ Rearmed(r).left = IF r.ctl.en /\ ~r.ctl.ext /\ (~r.ctl.rtg \/ r.left # 0)
                               THEN Prescale * Distance(r) ELSE 0
    BY RearmedRecord
  <1>2. Prescale * Distance(r) # 0
    BY DistanceType, Constants
  <1>3. TopOf(Rearmed(r)) = TopOf(r)
    BY <1>1 DEF TopOf
  <1>4. /\ CountAt(TopOf(r), Prescale * Distance(r)) = r.count
        /\ PhaseAt(Prescale * Distance(r)) = 0
    <2>1. TopOf(r) \in N /\ r.count \in N
      BY TopType DEF TimerRecord
    <2>2. QED
      BY <2>1, DistanceType, Rearming
  <1>5. PhaseAt(Rearmed(r).left) = 0
    BY <1>1, <1>4, NoTime
  <1>6. Cnt(Rearmed(r)) = r.count
    BY <1>1, <1>3, <1>4, CntIs
  <1>7. Run(Rearmed(r)) = (r.ctl.en /\ ~r.ctl.ext /\ (~r.ctl.rtg \/ Run(r)))
    BY <1>1, <1>2 DEF Run
  <1>8. QED
    BY <1>5, <1>6, <1>7

\* A timer that has its own deadline and is given a new one keeps running or
\* not, when the new deadline is its own too.
LEMMA KeepsRunning ==
  ASSUME NEW r, r.ctl.en, Live(r), Own(r), NEW x \in TimerRecord, x.left = r.left,
         x.ctl.en, Mode(x.ctl) = Mode(r.ctl), Own(Rearmed(x))
  PROVE  Run(Rearmed(x)) = Run(r)
  <1>1. x.ctl.rtg = r.ctl.rtg /\ x.ctl.p = r.ctl.p /\ x.ctl.ext = r.ctl.ext
    BY DEF Mode
  <1>2. Rearmed(x).ctl = x.ctl
    BY RearmedRecord
  <1>3. Run(Rearmed(x)) = (~r.ctl.ext /\ (~r.ctl.rtg \/ Run(r)))
    <2>1. Run(Rearmed(x)) = (x.ctl.en /\ ~x.ctl.ext /\ (~x.ctl.rtg \/ Run(x)))
      BY RearmedView
    <2>2. QED
      BY <1>1, <2>1 DEF Run
  <1>4. CASE Run(r)
    <2>1. ~r.ctl.ext
      BY <1>4 DEF Own, FreeRunning
    <2>2. QED
      BY <1>3, <1>4, <2>1
  <1>5. CASE ~Run(r)
    <2>1. r.ctl.ext \/ r.ctl.p \/ r.ctl.rtg
      BY <1>5 DEF Live, Run, FreeRunning
    <2>2. Run(Rearmed(x)) => ~r.ctl.p
      BY <1>1, <1>2 DEF Own, FreeRunning
    <2>3. ~Run(Rearmed(x))
      BY <1>3, <1>5, <2>1, <2>2
    <2>4. QED
      BY <1>3, <1>5, <2>3 DEF Run
  <1>6. QED
    BY <1>4, <1>5

LEMMA OwnTimers ==
  ASSUME IInv, OwnDeadlines, NEW t \in TimerIds
  PROVE  /\ Own(timer[t]) /\ timer[t] \in TimerRecord /\ Shape(t, timer[t].ctl) /\ Live(timer[t])
         /\ ~Run(timer[t]) => Cnt(timer[t]) = timer[t].count /\ PhaseAt(timer[t].left) = 0
  <1>1. Own(timer[t]) /\ timer[t] \in TimerRecord /\ Shape(t, timer[t].ctl) /\ Live(timer[t])
    BY DEF OwnDeadlines, Own, Run, IInv, Good
  <1>2. QED
    BY <1>1, CntIs, NoTime DEF Run

LEMMA NextOwn ==
  ASSUME IInv, OwnDeadlines', NEW t \in TimerIds, NEW s, timer' = [timer EXCEPT ![t] = s]
  PROVE  Own(s)
  <1>1. timer'[t] = s
    BY DEF IInv
  <1>2. timer'[t].left # 0 => FreeRunning(timer'[t].ctl)
    BY DEF OwnDeadlines, FreeRunning
  <1>3. QED
    BY <1>1, <1>2 DEF Own, Run

\* A view that an operation leaves as it was.
LEMMA SameViews ==
  ASSUME NEW t \in TimerIds
  PROVE  /\ [ViewCtl EXCEPT ![t] = timer[t].ctl] = ViewCtl
         /\ [ViewMaxA EXCEPT ![t] = timer[t].maxA] = ViewMaxA
         /\ [ViewMaxB EXCEPT ![t] = timer[t].maxB] = ViewMaxB
         /\ [ViewCount EXCEPT ![t] = Cnt(timer[t])] = ViewCount
         /\ [ViewPhase EXCEPT ![t] = PhaseAt(timer[t].left)] = ViewPhase
         /\ [ViewRun EXCEPT ![t] = Run(timer[t])] = ViewRun
  <1>1. /\ ViewCtl[t] = timer[t].ctl /\ ViewMaxA[t] = timer[t].maxA /\ ViewMaxB[t] = timer[t].maxB
        /\ ViewCount[t] = Cnt(timer[t]) /\ ViewPhase[t] = PhaseAt(timer[t].left)
        /\ ViewRun[t] = Run(timer[t])
    BY DEF ViewCtl, ViewMaxA, ViewMaxB, ViewCount, ViewPhase, ViewRun
  <1>2. \A f : f = [u \in TimerIds |-> f[u]] => [f EXCEPT ![t] = f[t]] = f
    OBVIOUS
  <1>3. /\ ViewCtl = [u \in TimerIds |-> ViewCtl[u]] /\ ViewMaxA = [u \in TimerIds |-> ViewMaxA[u]]
        /\ ViewMaxB = [u \in TimerIds |-> ViewMaxB[u]] /\ ViewCount = [u \in TimerIds |-> ViewCount[u]]
        /\ ViewPhase = [u \in TimerIds |-> ViewPhase[u]] /\ ViewRun = [u \in TimerIds |-> ViewRun[u]]
    BY DEF ViewCtl, ViewMaxA, ViewMaxB, ViewCount, ViewPhase, ViewRun
  <1>4. QED
    BY <1>1, <1>2, <1>3, Zenon

LEMMA WriteCountStep ==
  ASSUME IInv, OwnDeadlines, OwnDeadlines', NEW t \in TimerIds, NEW n \in N, WriteCount(t, n)
  PROVE  C!WriteCount(t, n)
  <1> DEFINE r == timer[t]
             x == [r EXCEPT !.count = n]
             s == IF r.ctl.en THEN Rearmed(x) ELSE x
  <1>1. timer' = [timer EXCEPT ![t] = s] /\ status' = status
    BY DEF WriteCount
  <1>2. Own(r) /\ r \in TimerRecord /\ Live(r)
    BY OwnTimers
  <1>3. /\ x \in TimerRecord /\ x.ctl = r.ctl /\ x.maxA = r.maxA /\ x.maxB = r.maxB
        /\ x.count = n /\ x.left = r.left
    BY <1>2 DEF TimerRecord
  <1> HIDE DEF x, s
  <1>4. Own(s)
    BY <1>1, NextOwn
  <1>5. /\ s.ctl = r.ctl /\ s.maxA = r.maxA /\ s.maxB = r.maxB
        /\ Cnt(s) = n /\ PhaseAt(s.left) = 0 /\ Run(s) = Run(r)
    <2>1. CASE r.ctl.en
      <3>1. s = Rearmed(x)
        BY <2>1 DEF s
      <3>2. s.ctl = r.ctl /\ s.maxA = r.maxA /\ s.maxB = r.maxB
        BY <1>3, <3>1, RearmedRecord
      <3>3. Cnt(s) = n /\ PhaseAt(s.left) = 0
        BY <1>3, <3>1, RearmedView
      <3>4. Run(s) = Run(r)
        BY <1>2, <1>3, <1>4, <2>1, <3>1, KeepsRunning
      <3>5. QED
        BY <3>2, <3>3, <3>4
    <2>2. CASE ~r.ctl.en
      <3>1. s = x
        BY <2>2 DEF s
      <3>2. ~Run(r)
        BY <1>2, <2>2 DEF Own, FreeRunning
      <3>3. x.left = 0
        BY <1>3, <3>2 DEF Run
      <3>4. Cnt(x) = n
        BY <1>3, <3>3, CntIs
      <3>5. PhaseAt(x.left) = 0 /\ Run(x) = Run(r)
        BY <1>3, <3>3, NoTime DEF Run
      <3>6. QED
        BY <1>3, <3>1, <3>4, <3>5
    <2>3. QED
      BY <2>1, <2>2
  <1>6. /\ ViewCount' = [ViewCount EXCEPT ![t] = n] /\ ViewPhase' = [ViewPhase EXCEPT ![t] = 0]
        /\ ViewCtl' = ViewCtl /\ ViewMaxA' = ViewMaxA /\ ViewMaxB' = ViewMaxB /\ ViewRun' = ViewRun
    <2>1. /\ ViewCtl' = [ViewCtl EXCEPT ![t] = s.ctl] /\ ViewMaxA' = [ViewMaxA EXCEPT ![t] = s.maxA]
          /\ ViewMaxB' = [ViewMaxB EXCEPT ![t] = s.maxB] /\ ViewCount' = [ViewCount EXCEPT ![t] = Cnt(s)]
          /\ ViewPhase' = [ViewPhase EXCEPT ![t] = PhaseAt(s.left)]
          /\ ViewRun' = [ViewRun EXCEPT ![t] = Run(s)]
      BY <1>1, OneView
    <2>2. QED
      BY <1>5, <2>1, SameViews
  <1>7. QED
    BY <1>1, <1>6, WriteCountView
LEMMA WriteMaxAStep ==
  ASSUME IInv, OwnDeadlines, OwnDeadlines', NEW t \in TimerIds, NEW n \in N, WriteMaxA(t, n)
  PROVE  C!WriteMaxA(t, n)
  <1> DEFINE r == timer[t]
             x == [Synced(r) EXCEPT !.maxA = n]
             y == [r EXCEPT !.maxA = n]
             s == IF r.ctl.en /\ n # r.maxA THEN Rearmed(x) ELSE y
  <1>1. timer' = [timer EXCEPT ![t] = s] /\ status' = status
    BY DEF WriteMaxA
  <1>2. /\ Own(r) /\ r \in TimerRecord /\ Live(r)
        /\ ~Run(r) => Cnt(r) = r.count /\ PhaseAt(r.left) = 0
    BY OwnTimers
  <1>3. /\ Synced(r) \in TimerRecord /\ Synced(r).ctl = r.ctl /\ Synced(r).count = Cnt(r)
        /\ Synced(r).maxB = r.maxB /\ Synced(r).left = r.left
    BY <1>2, SyncedRecord DEF Cnt
  <1>4. /\ x \in TimerRecord /\ x.ctl = r.ctl /\ x.maxA = n /\ x.maxB = r.maxB
        /\ x.count = Cnt(r) /\ x.left = r.left
    BY <1>3 DEF TimerRecord
  <1>5. /\ y \in TimerRecord /\ y.ctl = r.ctl /\ y.maxA = n /\ y.maxB = r.maxB
        /\ y.count = r.count /\ y.left = r.left
        /\ n = r.maxA => y = r
    BY <1>2 DEF TimerRecord
  <1> HIDE DEF x, y, s
  <1>6. Own(s)
    BY <1>1, NextOwn
  <1>7. /\ s.ctl = r.ctl /\ s.maxA = n /\ s.maxB = r.maxB
        /\ Cnt(s) = Cnt(r) /\ Run(s) = Run(r)
        /\ PhaseAt(s.left) = IF n = r.maxA THEN PhaseAt(r.left) ELSE 0
    <2>1. CASE r.ctl.en /\ n # r.maxA
      <3>1. s = Rearmed(x)
        BY <2>1 DEF s
      <3>2. s.ctl = r.ctl /\ s.maxA = n /\ s.maxB = r.maxB
        BY <1>4, <3>1, RearmedRecord
      <3>3. Cnt(s) = Cnt(r) /\ PhaseAt(s.left) = 0
        BY <1>4, <3>1, RearmedView
      <3>4. Run(s) = Run(r)
        BY <1>2, <1>4, <1>6, <2>1, <3>1, KeepsRunning
      <3>5. QED
        BY <2>1, <3>2, <3>3, <3>4
    <2>2. CASE n = r.maxA
      <3>1. s = r
        BY <1>5, <2>2 DEF s
      <3>2. QED
        BY <2>2, <3>1
    <2>3. CASE ~r.ctl.en
      <3>1. s = y
        BY <2>3 DEF s
      <3>2. ~Run(r)
        BY <1>2, <2>3 DEF Own, FreeRunning
      <3>3. y.left = 0 /\ r.left = 0
        BY <1>5, <3>2 DEF Run
      <3>4. Cnt(y) = r.count /\ Cnt(r) = r.count
        BY <1>2, <1>5, <3>2, <3>3, CntIs
      <3>5. PhaseAt(y.left) = 0 /\ PhaseAt(r.left) = 0 /\ Run(y) = Run(r)
        BY <3>3, NoTime DEF Run
      <3>6. QED
        BY <1>5, <3>1, <3>4, <3>5
    <2>4. QED
      BY <2>1, <2>2, <2>3
  <1>8. /\ ViewMaxA' = [ViewMaxA EXCEPT ![t] = n] /\ ViewMaxB' = ViewMaxB /\ ViewCtl' = ViewCtl
        /\ ViewPhase' = [ViewPhase EXCEPT ![t] = IF n = r.maxA THEN PhaseAt(r.left) ELSE 0]
        /\ ViewCount' = ViewCount /\ ViewRun' = ViewRun
    <2>1. /\ ViewCtl' = [ViewCtl EXCEPT ![t] = s.ctl] /\ ViewMaxA' = [ViewMaxA EXCEPT ![t] = s.maxA]
          /\ ViewMaxB' = [ViewMaxB EXCEPT ![t] = s.maxB] /\ ViewCount' = [ViewCount EXCEPT ![t] = Cnt(s)]
          /\ ViewPhase' = [ViewPhase EXCEPT ![t] = PhaseAt(s.left)]
          /\ ViewRun' = [ViewRun EXCEPT ![t] = Run(s)]
      BY <1>1, OneView
    <2>2. QED
      BY <1>7, <2>1, SameViews
  <1>9. QED
    BY <1>1, <1>8, WriteMaxAView

LEMMA WriteMaxBStep ==
  ASSUME IInv, OwnDeadlines, OwnDeadlines', NEW t \in TimerIds, NEW n \in N, WriteMaxB(t, n)
  PROVE  C!WriteMaxB(t, n)
  <1> DEFINE r == timer[t]
             x == [Synced(r) EXCEPT !.maxB = n]
             y == [r EXCEPT !.maxB = n]
             s == IF r.ctl.en /\ n # r.maxB THEN Rearmed(x) ELSE y
  <1>1. timer' = [timer EXCEPT ![t] = s] /\ status' = status
    BY DEF WriteMaxB
  <1>2. /\ Own(r) /\ r \in TimerRecord /\ Live(r)
        /\ ~Run(r) => Cnt(r) = r.count /\ PhaseAt(r.left) = 0
    BY OwnTimers
  <1>3. /\ Synced(r) \in TimerRecord /\ Synced(r).ctl = r.ctl /\ Synced(r).count = Cnt(r)
        /\ Synced(r).maxA = r.maxA /\ Synced(r).left = r.left
    BY <1>2, SyncedRecord DEF Cnt
  <1>4. /\ x \in TimerRecord /\ x.ctl = r.ctl /\ x.maxB = n /\ x.maxA = r.maxA
        /\ x.count = Cnt(r) /\ x.left = r.left
    BY <1>3 DEF TimerRecord
  <1>5. /\ y \in TimerRecord /\ y.ctl = r.ctl /\ y.maxB = n /\ y.maxA = r.maxA
        /\ y.count = r.count /\ y.left = r.left
        /\ n = r.maxB => y = r
    BY <1>2 DEF TimerRecord
  <1> HIDE DEF x, y, s
  <1>6. Own(s)
    BY <1>1, NextOwn
  <1>7. /\ s.ctl = r.ctl /\ s.maxB = n /\ s.maxA = r.maxA
        /\ Cnt(s) = Cnt(r) /\ Run(s) = Run(r)
        /\ PhaseAt(s.left) = IF n = r.maxB THEN PhaseAt(r.left) ELSE 0
    <2>1. CASE r.ctl.en /\ n # r.maxB
      <3>1. s = Rearmed(x)
        BY <2>1 DEF s
      <3>2. s.ctl = r.ctl /\ s.maxB = n /\ s.maxA = r.maxA
        BY <1>4, <3>1, RearmedRecord
      <3>3. Cnt(s) = Cnt(r) /\ PhaseAt(s.left) = 0
        BY <1>4, <3>1, RearmedView
      <3>4. Run(s) = Run(r)
        BY <1>2, <1>4, <1>6, <2>1, <3>1, KeepsRunning
      <3>5. QED
        BY <2>1, <3>2, <3>3, <3>4
    <2>2. CASE n = r.maxB
      <3>1. s = r
        BY <1>5, <2>2 DEF s
      <3>2. QED
        BY <2>2, <3>1
    <2>3. CASE ~r.ctl.en
      <3>1. s = y
        BY <2>3 DEF s
      <3>2. ~Run(r)
        BY <1>2, <2>3 DEF Own, FreeRunning
      <3>3. y.left = 0 /\ r.left = 0
        BY <1>5, <3>2 DEF Run
      <3>4. Cnt(y) = r.count /\ Cnt(r) = r.count
        BY <1>2, <1>5, <3>2, <3>3, CntIs
      <3>5. PhaseAt(y.left) = 0 /\ PhaseAt(r.left) = 0 /\ Run(y) = Run(r)
        BY <3>3, NoTime DEF Run
      <3>6. QED
        BY <1>5, <3>1, <3>4, <3>5
    <2>4. QED
      BY <2>1, <2>2, <2>3
  <1>8. /\ ViewMaxB' = [ViewMaxB EXCEPT ![t] = n] /\ ViewMaxA' = ViewMaxA /\ ViewCtl' = ViewCtl
        /\ ViewPhase' = [ViewPhase EXCEPT ![t] = IF n = r.maxB THEN PhaseAt(r.left) ELSE 0]
        /\ ViewCount' = ViewCount /\ ViewRun' = ViewRun
    <2>1. /\ ViewCtl' = [ViewCtl EXCEPT ![t] = s.ctl] /\ ViewMaxA' = [ViewMaxA EXCEPT ![t] = s.maxA]
          /\ ViewMaxB' = [ViewMaxB EXCEPT ![t] = s.maxB] /\ ViewCount' = [ViewCount EXCEPT ![t] = Cnt(s)]
          /\ ViewPhase' = [ViewPhase EXCEPT ![t] = PhaseAt(s.left)]
          /\ ViewRun' = [ViewRun EXCEPT ![t] = Run(s)]
      BY <1>1, OneView
    <2>2. QED
      BY <1>7, <2>1, SameViews
  <1>9. QED
    BY <1>1, <1>8, WriteMaxBView

LEMMA TmrInStep ==
  ASSUME IInv, OwnDeadlines, NEW t \in TimerIds, TmrIn(t)
  PROVE  C!Count(t) \/ C!Trigger(t)
  <1> DEFINE r == timer[t]
             x == [r EXCEPT !.count = 0]
             s == IF r.ctl.ext THEN Incremented(t, r) ELSE Restarted(t, x)
  <1>1. /\ t # 2 /\ r.ctl.en /\ (r.ctl.ext \/ r.ctl.rtg) /\ timer' = [timer EXCEPT ![t] = s]
        /\ status' = IF r.ctl.ext /\ IncElapses(r) /\ r.ctl.int THEN status \cup {t} ELSE status
    BY DEF TmrIn
  <1>2. /\ Own(r) /\ r \in TimerRecord /\ Shape(t, r.ctl) /\ Live(r)
        /\ ~Run(r) => Cnt(r) = r.count /\ PhaseAt(r.left) = 0
    BY OwnTimers
  <1>3. 0 \in N
    BY Constants DEF N
  <1>4. /\ x \in TimerRecord /\ x.ctl = r.ctl /\ x.maxA = r.maxA /\ x.maxB = r.maxB
        /\ x.count = 0 /\ x.left = r.left
    BY <1>2, <1>3 DEF TimerRecord
  <1> HIDE DEF r, x, s
  <1>5. /\ ViewCtl' = [ViewCtl EXCEPT ![t] = s.ctl] /\ ViewMaxA' = [ViewMaxA EXCEPT ![t] = s.maxA]
        /\ ViewMaxB' = [ViewMaxB EXCEPT ![t] = s.maxB] /\ ViewCount' = [ViewCount EXCEPT ![t] = Cnt(s)]
        /\ ViewPhase' = [ViewPhase EXCEPT ![t] = PhaseAt(s.left)]
        /\ ViewRun' = [ViewRun EXCEPT ![t] = Run(s)]
    BY <1>1, OneView
  <1>6. CASE r.ctl.ext
    <2>1. s = Incremented(t, r)
      BY <1>6 DEF s
    <2>2. r.left = 0 /\ ~Run(r)
      BY <1>2, <1>6 DEF Own, Run, FreeRunning
    <2>3. Stp(r) = (r.count + 1) % Range /\ (IncElapses(r) <=> Stp(r) = TopOf(r))
      BY <1>2, <2>2, IncRecord DEF Stp
    <2>4. /\ Good(t, s) /\ s.maxA = r.maxA /\ s.maxB = r.maxB
          /\ IncElapses(r) => s.ctl = AfterElapse(r.ctl) /\ s.count = 0 /\ s.left = 0
          /\ ~IncElapses(r) => s.ctl = r.ctl /\ s.count = (r.count + 1) % Range /\ s.left = 0
      BY <1>1, <1>2, <1>6, <2>1, <2>2, IncrementedRecord
    <2>5. s.left = 0 /\ s \in TimerRecord
      BY <2>4 DEF Good
    <2>6. /\ Cnt(s) = s.count /\ PhaseAt(s.left) = PhaseAt(r.left) /\ Run(s) = Run(r)
      BY <2>2, <2>5, CntIs DEF Run
    <2>7. PICK full \in BOOLEAN : full <=> IncElapses(r)
      OBVIOUS
    <2>8. /\ ViewCount' = [ViewCount EXCEPT ![t] = IF full THEN 0 ELSE Stp(r)]
          /\ ViewMaxA' = ViewMaxA /\ ViewMaxB' = ViewMaxB /\ ViewPhase' = ViewPhase
          /\ ViewRun' = ViewRun
      BY <1>5, <2>3, <2>4, <2>6, <2>7, SameViews DEF r
    <2>9. ViewCtl' = IF full THEN [ViewCtl EXCEPT ![t] = AfterElapse(r.ctl)] ELSE ViewCtl
      BY <1>5, <2>4, <2>7, SameViews DEF r
    <2>10. status' = IF full /\ r.ctl.int THEN status \cup {t} ELSE status
      BY <1>1, <1>6, <2>7
    <2>11. full <=> Stp(r) = TopOf(r)
      BY <2>3, <2>7
    <2>12. QED
      BY <1>1, <1>6, <2>8, <2>9, <2>10, <2>11, CountView DEF r
  <1>7. CASE ~r.ctl.ext
    <2>1. s = Restarted(t, x)
      BY <1>7 DEF s
    <2>2. /\ s \in TimerRecord /\ s.ctl = r.ctl /\ s.maxA = r.maxA /\ s.maxB = r.maxB /\ s.count = 0
          /\ s.left = IF (t # 2 /\ Prescaled(r.ctl)) \/ r.ctl.ext THEN r.left
                      ELSE Prescale * Laps(TopOf(x))
      BY <1>4, <2>1, RestartedRecord
    <2>3. TopOf(x) = TopOf(s) /\ TopOf(s) \in N
      BY <1>4, <2>2, TopType DEF TopOf
    <2>4. Cnt(s) = 0 /\ PhaseAt(s.left) = 0 /\ Run(s) = (Run(r) \/ FreeRunning(r.ctl))
      <3>1. CASE Prescaled(r.ctl)
        <4>1. ~FreeRunning(r.ctl) /\ ~Run(r)
          BY <1>2, <3>1 DEF Own, FreeRunning, Prescaled
        <4>2. s.left = 0
          BY <1>1, <2>2, <3>1, <4>1 DEF Run
        <4>3. QED
          BY <2>2, <4>1, <4>2, CntIs, NoTime DEF Run
      <3>2. CASE ~Prescaled(r.ctl)
        <4>1. FreeRunning(r.ctl)
          BY <1>1, <1>7, <3>2 DEF FreeRunning, Prescaled
        <4>2. s.left = Prescale * Laps(TopOf(s))
          BY <1>7, <2>2, <2>3, <3>2
        <4>3. CountAt(TopOf(s), s.left) = 0 /\ PhaseAt(s.left) = 0 /\ s.left # 0
          BY <2>3, <4>2, Restarting, Constants
        <4>4. QED
          BY <2>2, <4>1, <4>3, CntIs DEF Run
      <3>3. QED
        BY <3>1, <3>2
    <2>5. /\ ViewCount' = [ViewCount EXCEPT ![t] = 0] /\ ViewPhase' = [ViewPhase EXCEPT ![t] = 0]
          /\ ViewRun' = [ViewRun EXCEPT ![t] = Run(r) \/ FreeRunning(r.ctl)]
          /\ ViewCtl' = ViewCtl /\ ViewMaxA' = ViewMaxA /\ ViewMaxB' = ViewMaxB
      BY <1>5, <2>2, <2>4, SameViews DEF r
    <2>6. QED
      BY <1>1, <1>7, <2>5, TriggerView DEF r
  <1>8. QED
    BY <1>6, <1>7

LEMMA ReadCountStep ==
  ASSUME IInv, NEW t \in TimerIds, ReadCount(t)
  PROVE  UNCHANGED C!counterVars
  <1> DEFINE r == timer[t]
             s == Synced(r)
  <1>1. timer' = [timer EXCEPT ![t] = s] /\ status' = status
    BY DEF ReadCount
  <1>2. r \in TimerRecord
    BY DEF IInv
  <1>3. /\ s \in TimerRecord /\ s.ctl = r.ctl /\ s.maxA = r.maxA /\ s.maxB = r.maxB /\ s.left = r.left
        /\ s.count = Cnt(r)
    BY <1>2, SyncedRecord DEF Cnt
  <1> HIDE DEF s
  <1>4. Cnt(s) = Cnt(r)
    <2>1. TopOf(s) = TopOf(r)
      BY <1>3 DEF TopOf
    <2>2. QED
      BY <1>2, <1>3, <2>1, CntIs
  <1>5. Run(s) = Run(r)
    BY <1>3 DEF Run
  <1>6. /\ ViewCtl' = [ViewCtl EXCEPT ![t] = s.ctl] /\ ViewMaxA' = [ViewMaxA EXCEPT ![t] = s.maxA]
        /\ ViewMaxB' = [ViewMaxB EXCEPT ![t] = s.maxB] /\ ViewCount' = [ViewCount EXCEPT ![t] = Cnt(s)]
        /\ ViewPhase' = [ViewPhase EXCEPT ![t] = PhaseAt(s.left)]
        /\ ViewRun' = [ViewRun EXCEPT ![t] = Run(s)]
    BY <1>1, OneView
  <1>7. /\ ViewCtl' = ViewCtl /\ ViewMaxA' = ViewMaxA /\ ViewMaxB' = ViewMaxB
        /\ ViewCount' = ViewCount /\ ViewPhase' = ViewPhase /\ ViewRun' = ViewRun
    BY <1>3, <1>4, <1>5, <1>6, SameViews
  <1>8. QED
    BY <1>1, <1>7 DEF C!counterVars, ViewCtl, ViewMaxA, ViewMaxB, ViewCount, ViewPhase, ViewRun, Cnt, PhaseAt, Run
\* The three ways internal_timer_update ends after a control word.
LEMMA WrittenView ==
  ASSUME NEW t, NEW r \in TimerRecord, Live(r), Own(r), NEW new \in Control,
         MayMerge(r.ctl, new), Own(Written(r, new)), new.alt = r.ctl.alt => new.riu = r.ctl.riu
  PROVE  /\ Written(r, new).ctl = new /\ Written(r, new).maxA = r.maxA
         /\ Written(r, new).maxB = r.maxB /\ Cnt(Written(r, new)) = Cnt(r)
         /\ Run(Written(r, new)) = Counting(r, new)
         /\ PhaseAt(Written(r, new).left) =
              IF new.en = r.ctl.en /\ new.int = r.ctl.int THEN PhaseAt(r.left) ELSE 0
  <1> DEFINE s == Written(r, new)
             x == Put(Synced(r), new)
             y == Put(r, new)
  <1>1. /\ Synced(r) \in TimerRecord /\ Synced(r).maxA = r.maxA /\ Synced(r).maxB = r.maxB
        /\ Synced(r).left = r.left /\ Synced(r).count = Cnt(r)
    BY SyncedRecord DEF Cnt
  <1>2. /\ x \in TimerRecord /\ x.ctl = new /\ x.maxA = r.maxA /\ x.maxB = r.maxB
        /\ x.count = Cnt(r) /\ x.left = r.left
    BY <1>1, PutRecord
  <1>3. /\ y \in TimerRecord /\ y.ctl = new /\ y.maxA = r.maxA /\ y.maxB = r.maxB
        /\ y.count = r.count /\ y.left = r.left
    BY PutRecord
  <1>4. s = IF (r.ctl.en /\ ~new.en) \/ (r.ctl.en = new.en /\ r.ctl.int # new.int) THEN Rearmed(x)
            ELSE IF ~r.ctl.en /\ FreeRunning(new) THEN Rearmed(y) ELSE y
    BY DEF Written
  <1>5. Own(s)
    OBVIOUS
  <1>6. /\ r.ctl.en \in BOOLEAN /\ new.en \in BOOLEAN
        /\ r.ctl.int \in BOOLEAN /\ new.int \in BOOLEAN
    BY DEF TimerRecord, Control
  <1>7. ~r.ctl.en => ~Run(r) /\ r.left = 0 /\ Cnt(r) = r.count /\ PhaseAt(r.left) = 0
    BY CntIs, NoTime DEF Own, Run, FreeRunning
  <1>8. r.ctl.en /\ new.en => Mode(new) = Mode(r.ctl)
    BY DEF MayMerge
  <1> HIDE DEF s, x, y
  <1>9. CASE (r.ctl.en /\ ~new.en) \/ (r.ctl.en = new.en /\ r.ctl.int # new.int)
    <2>1. s = Rearmed(x)
      BY <1>4, <1>9
    <2>2. s.ctl = new /\ s.maxA = r.maxA /\ s.maxB = r.maxB
      BY <1>2, <2>1, RearmedRecord
    <2>3. Cnt(s) = Cnt(r) /\ PhaseAt(s.left) = 0
      BY <1>2, <2>1, RearmedView
    <2>4. ~(new.en = r.ctl.en /\ new.int = r.ctl.int)
      BY <1>6, <1>9
    <2>5. Run(s) = Counting(r, new)
      <3>1. Run(s) = (new.en /\ ~new.ext /\ (~new.rtg \/ Run(x)))
        BY <1>2, <2>1, RearmedView
      <3>2. CASE ~new.en
        BY <3>1, <3>2 DEF Counting
      <3>3. CASE new.en
        <4>1. r.ctl.en
          BY <1>6, <1>9, <3>3
        <4>2. Run(s) = Run(r)
          BY <1>2, <1>5, <1>8, <2>1, <3>3, <4>1, KeepsRunning
        <4>3. QED
          BY <3>3, <4>1, <4>2 DEF Counting, Run
      <3>4. QED
        BY <3>2, <3>3
    <2>6. QED
      BY <2>2, <2>3, <2>4, <2>5 DEF s
  <1>10. CASE ~r.ctl.en /\ new.en /\ FreeRunning(new)
    <2>1. s = Rearmed(y)
      BY <1>4, <1>6, <1>10
    <2>2. s.ctl = new /\ s.maxA = r.maxA /\ s.maxB = r.maxB
      BY <1>3, <2>1, RearmedRecord
    <2>3. Cnt(s) = Cnt(r) /\ PhaseAt(s.left) = 0
      BY <1>3, <1>7, <1>10, <2>1, RearmedView
    <2>4. ~(new.en = r.ctl.en /\ new.int = r.ctl.int)
      BY <1>6, <1>10
    <2>5. Run(s) = Counting(r, new)
      <3>1. Run(s) = (new.en /\ ~new.ext /\ (~new.rtg \/ Run(y)))
        BY <1>3, <2>1, RearmedView
      <3>2. ~Run(y) /\ ~Run(r) /\ ~new.ext
        BY <1>3, <1>7, <1>10 DEF Run, FreeRunning
      <3>3. QED
        BY <1>10, <3>1, <3>2 DEF Counting
    <2>6. QED
      BY <2>2, <2>3, <2>4, <2>5 DEF s
  <1>11. CASE ~r.ctl.en /\ new.en /\ ~FreeRunning(new)
    <2>1. s = y
      BY <1>4, <1>6, <1>11
    <2>2. y.left = 0 /\ ~Run(y) /\ Cnt(y) = Cnt(r) /\ PhaseAt(y.left) = 0
      BY <1>3, <1>7, <1>11, CntIs, NoTime DEF Run
    <2>3. ~(new.en = r.ctl.en /\ new.int = r.ctl.int)
      BY <1>6, <1>11
    <2>4. ~Counting(r, new)
      BY <1>7, <1>11 DEF Counting
    <2>5. Run(y) = Counting(r, new)
      BY <2>2, <2>4 DEF Run, Counting
    <2>6. QED
      BY <1>3, <2>1, <2>2, <2>3, <2>5 DEF s
  <1>12. CASE ~r.ctl.en /\ ~new.en /\ r.ctl.int = new.int
    <2>1. s = y
      <3>1. ~FreeRunning(new)
        BY <1>12 DEF FreeRunning
      <3>2. QED
        BY <1>4, <1>12, <3>1
    <2>2. y.left = 0 /\ ~Run(y) /\ Cnt(y) = Cnt(r) /\ PhaseAt(y.left) = PhaseAt(r.left)
      BY <1>3, <1>7, <1>12, CntIs DEF Run
    <2>3. ~Counting(r, new)
      BY <1>12 DEF Counting
    <2>4. Run(y) = Counting(r, new)
      BY <2>2, <2>3 DEF Run, Counting
    <2>5. new.en = r.ctl.en /\ new.int = r.ctl.int
      BY <1>6, <1>12
    <2>6. QED
      BY <1>3, <2>1, <2>2, <2>4, <2>5 DEF s
  <1>13. CASE r.ctl.en /\ new.en /\ r.ctl.int = new.int
    <2>1. s = y
      BY <1>4, <1>13
    <2>2. /\ new.rtg = r.ctl.rtg /\ new.p = r.ctl.p /\ new.ext = r.ctl.ext
          /\ new.alt = r.ctl.alt /\ new.riu = r.ctl.riu
      BY <1>8, <1>13 DEF Mode
    <2>3. (FreeRunning(new) <=> FreeRunning(r.ctl)) /\ TopOf(y) = TopOf(r)
      BY <1>3, <1>13, <2>2 DEF FreeRunning, TopOf, Top
    <2>4. Cnt(y) = Cnt(r)
      BY <1>3, <2>3, CntIs
    <2>5. PhaseAt(y.left) = PhaseAt(r.left) /\ Run(y) = Run(r)
      BY <1>3 DEF Run
    <2>6. Counting(r, new) = Run(r)
      BY <1>13 DEF Counting, Run
    <2>7. new.en = r.ctl.en /\ new.int = r.ctl.int
      BY <1>6, <1>13
    <2>8. QED
      BY <1>3, <2>1, <2>4, <2>5, <2>6, <2>7 DEF s
  <1>14. QED
    BY <1>6, <1>9, <1>10, <1>11, <1>12, <1>13

LEMMA WriteControlStep ==
  ASSUME IInv, OwnDeadlines, OwnDeadlines', NEW t \in TimerIds, NEW w \in Words, NEW inh \in BOOLEAN,
         WriteControl(t, w, inh)
  PROVE  C!WriteControl(t, w, inh)
  <1> DEFINE r == timer[t]
             new == Merged(t, r.ctl, w, inh)
             s == Written(r, new)
  <1>1. MayMerge(r.ctl, new) /\ status' = status /\ timer' = [timer EXCEPT ![t] = s]
    BY DEF WriteControl, Written, Put
  <1>2. Own(r) /\ r \in TimerRecord /\ Live(r) /\ Shape(t, r.ctl)
    BY OwnTimers
  <1>3. new \in Control /\ (new.alt = r.ctl.alt => new.riu = r.ctl.riu)
    BY <1>2, MergedShape
  <1> HIDE DEF new
  <1>4. Own(s)
    BY <1>1, NextOwn
  <1>5. /\ s.ctl = new /\ s.maxA = r.maxA /\ s.maxB = r.maxB /\ Cnt(s) = Cnt(r)
        /\ Run(s) = Counting(r, new)
        /\ PhaseAt(s.left) = IF new.en = r.ctl.en /\ new.int = r.ctl.int THEN PhaseAt(r.left) ELSE 0
    BY <1>1, <1>2, <1>3, <1>4, WrittenView
  <1> HIDE DEF s
  <1>6. /\ ViewCtl' = [ViewCtl EXCEPT ![t] = s.ctl] /\ ViewMaxA' = [ViewMaxA EXCEPT ![t] = s.maxA]
        /\ ViewMaxB' = [ViewMaxB EXCEPT ![t] = s.maxB] /\ ViewCount' = [ViewCount EXCEPT ![t] = Cnt(s)]
        /\ ViewPhase' = [ViewPhase EXCEPT ![t] = PhaseAt(s.left)]
        /\ ViewRun' = [ViewRun EXCEPT ![t] = Run(s)]
    BY <1>1, OneView
  <1>7. /\ ViewCtl' = [ViewCtl EXCEPT ![t] = new]
        /\ ViewRun' = [ViewRun EXCEPT ![t] = Counting(r, new)]
        /\ ViewPhase' = [ViewPhase EXCEPT ![t] =
                           IF new.en = r.ctl.en /\ new.int = r.ctl.int THEN PhaseAt(r.left) ELSE 0]
        /\ ViewMaxA' = ViewMaxA /\ ViewMaxB' = ViewMaxB /\ ViewCount' = ViewCount
    BY <1>5, <1>6, SameViews
  <1>8. QED
    BY <1>1, <1>7, WriteControlView DEF new

LEMMA AcknowledgeStep ==
  ASSUME NEW t \in TimerIds, Acknowledge(t)
  PROVE  C!Acknowledge(t)
  BY DEF Acknowledge, C!Acknowledge, Synced, TopOf

\* A reset forgets everything but the deadlines; those that are then the
\* timers' own are none.
LEMMA ResetStep ==
  ASSUME IInv, OwnDeadlines', Reset
  PROVE  C!Reset
  <1>1. status' = {}
    BY DEF Reset
  <1>2. ASSUME NEW t \in TimerIds
        PROVE  /\ timer'[t].ctl = Off /\ timer'[t].maxA = 0 /\ timer'[t].maxB = 0
               /\ Cnt(timer'[t]) = 0 /\ PhaseAt(timer'[t].left) = 0 /\ Run(timer'[t]) = FALSE
    <2>1. timer'[t] = [timer[t] EXCEPT !.ctl = Off, !.maxA = 0, !.maxB = 0, !.count = 0]
      BY DEF Reset
    <2>2. timer[t] \in TimerRecord
      BY DEF IInv
    <2>3. /\ timer'[t].ctl = Off /\ timer'[t].maxA = 0 /\ timer'[t].maxB = 0
          /\ timer'[t].count = 0
      BY <2>1, <2>2 DEF TimerRecord
    <2>4. timer'[t].left # 0 => FreeRunning(timer'[t].ctl)
      BY DEF OwnDeadlines, FreeRunning
    <2>5. timer'[t].left = 0
      BY <2>3, <2>4, OffShape
    <2>6. timer'[t] \in TimerRecord
      <3>1. 0 \in N /\ Off \in Control
        BY Constants, OffShape DEF N
      <3>2. QED
        BY <2>1, <2>2, <3>1 DEF TimerRecord
    <2>7. Cnt(timer'[t]) = 0
      BY <2>3, <2>5, <2>6, CntIs
    <2>8. Run(timer'[t]) = FALSE
      BY <2>5 DEF Run
    <2>9. QED
      BY <2>3, <2>5, <2>7, <2>8, NoTime
  <1>3. /\ ViewCtl' = [t \in TimerIds |-> Off] /\ ViewMaxA' = [t \in TimerIds |-> 0]
        /\ ViewMaxB' = [t \in TimerIds |-> 0]
    BY <1>2 DEF ViewCtl, ViewMaxA, ViewMaxB
  <1>4. /\ ViewCount' = [t \in TimerIds |-> 0]
    <2>1. ViewCount' = [t \in TimerIds |-> Cnt(timer'[t])]
      BY DEF ViewCount, Cnt, Synced, TopOf
    <2>2. QED
      BY <1>2, <2>1
  <1>5. ViewPhase' = [t \in TimerIds |-> 0]
    <2>1. ViewPhase' = [t \in TimerIds |-> PhaseAt(timer'[t].left)]
      BY DEF ViewPhase, PhaseAt
    <2>2. QED
      BY <1>2, <2>1
  <1>6. ViewRun' = [t \in TimerIds |-> FALSE]
    <2>1. ViewRun' = [t \in TimerIds |-> Run(timer'[t])]
      BY DEF ViewRun, Run
    <2>2. QED
      BY <1>2, <2>1
  <1>7. QED
    BY <1>1, <1>3, <1>4, <1>5, <1>6, SameControl
       DEF C!Reset, ViewCtl, ViewMaxA, ViewMaxB, ViewCount, ViewPhase, ViewRun, Cnt, PhaseAt, Run
-----------------------------------------------------------------------------
(* A cycle is a cycle of the counters.                                      *)

\* A deadline is reached exactly when the last step of its timer ends.
LEMMA EndsAtDeadline ==
  ASSUME NEW r \in TimerRecord, Own(r)
  PROVE  Ends(r) <=> r.left = 1
  <1>1. CASE r.left = 0
    BY <1>1 DEF Ends, Run
  <1>2. CASE r.left # 0
    <2>1. r.left \in 1..Range * Prescale /\ TopOf(r) \in N
      BY <1>2, TopType, Constants DEF TimerRecord
    <2>2. Cnt(r) = CountAt(TopOf(r), r.left)
      BY <1>2, CntIs DEF Own, Run
    <2>3. (PhaseAt(r.left) + 1) % Prescale = 0 /\ Step(TopOf(r), r.left) = TopOf(r) <=> r.left = 1
      BY <2>1, Tick
    <2>4. Step(TopOf(r), r.left) = IF PhaseAt(r.left) = 0 THEN Stp(r) ELSE Cnt(r)
      BY <2>2 DEF Step, Stp
    <2>5. QED
      BY <1>2, <2>3, <2>4 DEF Ends, Run
  <1>3. QED
    BY <1>1, <1>2

\* A running timer before its deadline.
LEMMA AgedView ==
  ASSUME NEW t, NEW r, Good(t, r), Own(r), r.left # 0, r.left # 1
  PROVE  /\ Aged(r).ctl = r.ctl /\ Aged(r).maxA = r.maxA /\ Aged(r).maxB = r.maxB
         /\ Cnt(Aged(r)) = IF PhaseAt(r.left) = 0 THEN Stp(r) ELSE Cnt(r)
         /\ PhaseAt(Aged(r).left) = (PhaseAt(r.left) + 1) % Prescale
         /\ Run(Aged(r)) /\ Run(r)
  <1>1. r \in TimerRecord /\ FreeRunning(r.ctl)
    BY DEF Good, Own, Run
  <1>2. /\ Aged(r) \in TimerRecord /\ Aged(r).ctl = r.ctl /\ Aged(r).maxA = r.maxA
        /\ Aged(r).maxB = r.maxB /\ Aged(r).left = r.left - 1
    BY AgedRecord
  <1>3. r.left \in 1..Range * Prescale /\ TopOf(r) \in N /\ r.left - 1 # 0
    BY <1>1, TopType, Constants DEF TimerRecord
  <1>4. TopOf(Aged(r)) = TopOf(r)
    BY <1>2 DEF TopOf
  <1>5. Cnt(Aged(r)) = CountAt(TopOf(r), r.left - 1) /\ Cnt(r) = CountAt(TopOf(r), r.left)
    BY <1>1, <1>2, <1>3, <1>4, CntIs
  <1>6. /\ PhaseAt(r.left - 1) = (PhaseAt(r.left) + 1) % Prescale
        /\ CountAt(TopOf(r), r.left - 1) = Step(TopOf(r), r.left)
    BY <1>3, Tick
  <1>7. Step(TopOf(r), r.left) = IF PhaseAt(r.left) = 0 THEN Stp(r) ELSE Cnt(r)
    BY <1>5 DEF Step, Stp
  <1>8. QED
    BY <1>2, <1>3, <1>5, <1>6, <1>7 DEF Run

\* A timer at its deadline.
LEMMA ElapsedView ==
  ASSUME NEW t, NEW r, Good(t, r), Own(r), r.left = 1, NEW s, s = ElapsedTimer(t, Aged(r))
  PROVE  /\ s.ctl = AfterElapse(r.ctl) /\ s.maxA = r.maxA /\ s.maxB = r.maxB /\ Cnt(s) = 0
         /\ PhaseAt(s.left) = (PhaseAt(r.left) + 1) % Prescale
         /\ Run(s) <=> StartsOver(r.ctl)
         /\ Run(r) /\ ~Prescaled(s.ctl)
  <1> DEFINE c == AfterElapse(r.ctl)
  <1>1. r \in TimerRecord /\ Shape(t, r.ctl) /\ FreeRunning(r.ctl) /\ Run(r)
    BY DEF Good, Own, Run
  <1>2. /\ Aged(r) \in TimerRecord /\ Aged(r).ctl = r.ctl /\ Aged(r).maxA = r.maxA
        /\ Aged(r).maxB = r.maxB /\ Aged(r).left = 0
    BY AgedRecord
  <1>3. /\ c.p = r.ctl.p /\ c.ext = r.ctl.ext /\ c.en = (StartsOver(r.ctl) /\ r.ctl.en)
    BY <1>1, AfterShape
  <1>4. ~r.ctl.p /\ ~r.ctl.ext /\ r.ctl.en /\ ~Prescaled(c)
    BY <1>1, <1>3 DEF FreeRunning, Prescaled
  <1>5. /\ Good(t, s) /\ s.ctl = c /\ s.maxA = r.maxA /\ s.maxB = r.maxB /\ s.count = 0
        /\ s.left = IF ~StartsOver(r.ctl) THEN 0
                    ELSE IF (t # 2 /\ Prescaled(c)) \/ r.ctl.ext THEN 0
                    ELSE Prescale * Laps(Top(c, r.maxA, r.maxB))
    BY <1>1, <1>2, ElapsedRecord
  <1>6. s \in TimerRecord
    BY <1>5 DEF Good
  <1>7. (PhaseAt(r.left) + 1) % Prescale = 0
    <2>1. TopOf(r) \in N /\ r.left \in 1..Range * Prescale
      BY <1>1, TopType, Constants DEF TimerRecord
    <2>2. QED
      BY <2>1, Tick
  <1> HIDE DEF c
  <1>8. CASE StartsOver(r.ctl)
    <2>1. Top(c, r.maxA, r.maxB) = TopOf(s) /\ TopOf(s) \in N
      BY <1>5, <1>6, TopType DEF TopOf
    <2>2. s.left = Prescale * Laps(TopOf(s)) /\ FreeRunning(s.ctl)
      BY <1>3, <1>4, <1>5, <1>8, <2>1 DEF FreeRunning
    <2>3. CountAt(TopOf(s), s.left) = 0 /\ PhaseAt(s.left) = 0 /\ s.left # 0
      BY <2>1, <2>2, Restarting, Constants
    <2>4. Cnt(s) = 0
      BY <1>6, <2>2, <2>3, CntIs
    <2>5. QED
      BY <1>1, <1>4, <1>5, <1>7, <1>8, <2>3, <2>4 DEF Run, c
  <1>9. CASE ~StartsOver(r.ctl)
    <2>1. s.left = 0
      BY <1>5, <1>9
    <2>2. Cnt(s) = 0 /\ PhaseAt(s.left) = 0 /\ ~Run(s)
      BY <1>5, <1>6, <2>1, CntIs, NoTime DEF Run
    <2>3. QED
      BY <1>1, <1>4, <1>5, <1>7, <1>9, <2>2 DEF c
  <1>10. QED
    BY <1>8, <1>9

\* The timers that elapse with this cycle.
ElapsedTimers == Due \cup {t \in FedTimers : IncElapses(Fired(t))}

LEMMA FedIdle ==
  ASSUME IInv, OwnDeadlines, NEW t \in TimerIds
  PROVE  /\ t \notin Due /\ ~Run(timer[t]) => Fired(t) = timer[t]
         /\ t \in FedTimers => t \notin Due /\ ~Run(timer[t]) /\ Prescaled(timer[t].ctl)
         /\ t \in FedTimers <=> t # 2 /\ 2 \in Due /\ Prescaled(timer[t].ctl)
  <1>1. /\ Own(timer[t]) /\ timer[t] \in TimerRecord /\ Good(t, timer[t])
    BY OwnTimers DEF IInv
  <1>2. ASSUME t \notin Due, ~Run(timer[t])
        PROVE  Fired(t) = timer[t]
    <2>1. Fired(t) = Aged(timer[t]) /\ timer[t].left = 0
      BY <1>2 DEF Fired, Run
    <2>2. Aged(timer[t]) = timer[t]
      BY <1>1, <2>1 DEF Aged, TimerRecord
    <2>3. QED
      BY <2>1, <2>2
  <1>3. t \in Due => ~Prescaled(Fired(t).ctl) /\ Run(timer[t])
    <2>1. ASSUME t \in Due
          PROVE  ~Prescaled(Fired(t).ctl) /\ Run(timer[t])
      <3>1. timer[t].left = 1 /\ Fired(t) = ElapsedTimer(t, Aged(timer[t]))
        BY <2>1 DEF Due, Fired
      <3>2. QED
        BY <1>1, <3>1, ElapsedView
    <2>2. QED
      BY <2>1
  <1>4. Run(timer[t]) => ~Prescaled(timer[t].ctl)
    BY <1>1 DEF Own, FreeRunning, Prescaled
  <1>5. t \notin Due => Fired(t).ctl = timer[t].ctl
    BY <1>1, AgedRecord DEF Fired
  <1>6. t \in FedTimers => t \notin Due /\ Prescaled(timer[t].ctl)
    BY <1>3, <1>5 DEF FedTimers
  <1>7. Prescaled(timer[t].ctl) => t \notin Due
    BY <1>3, <1>4
  <1>8. t \in FedTimers <=> t # 2 /\ 2 \in Due /\ Prescaled(timer[t].ctl)
    BY <1>3, <1>5, <1>7 DEF FedTimers
  <1>9. QED
    BY <1>2, <1>4, <1>6, <1>8

LEMMA CycleSets ==
  ASSUME IInv, OwnDeadlines
  PROVE  C!Elapsing = Due /\ C!Fed = FedTimers /\ C!Elapsed = ElapsedTimers
  <1>1. C!Elapsing = {t \in TimerIds : Ends(timer[t])}
    <2>1. ASSUME NEW t \in TimerIds
          PROVE  t \in C!Elapsing <=> Ends(timer[t])
      <3>1. \A n : C!Full(t, n) <=> n = TopOf(timer[t])
        BY FullIs
      <3>2. C!Stepped(t) = Stp(timer[t])
        BY FullIs
      <3>3. t \in C!Elapsing <=>
              /\ Run(timer[t]) /\ (PhaseAt(timer[t].left) + 1) % Prescale = 0
              /\ C!Full(t, IF PhaseAt(timer[t].left) = 0 THEN C!Stepped(t) ELSE Cnt(timer[t]))
        BY DEF C!Elapsing, Run, PhaseAt, Cnt
      <3>4. QED
        BY <3>1, <3>2, <3>3 DEF Ends
    <2>2. C!Elapsing \subseteq TimerIds
      BY DEF C!Elapsing
    <2>3. QED
      BY <2>1, <2>2
  <1>2. \A t \in TimerIds : Ends(timer[t]) <=> timer[t].left = 1
    BY OwnTimers, EndsAtDeadline
  <1>3. C!Elapsing = Due
    BY <1>1, <1>2 DEF Due
  <1>4. C!Fed = FedTimers
    <2>1. C!Fed = IF 2 \in Due THEN {t \in TimerIds \ {2} : Prescaled(timer[t].ctl)} ELSE {}
      BY <1>3, SameControl DEF C!Fed
    <2>2. \A t \in TimerIds : t \in FedTimers <=> t # 2 /\ 2 \in Due /\ Prescaled(timer[t].ctl)
      BY FedIdle
    <2>3. FedTimers \subseteq TimerIds
      BY DEF FedTimers
    <2>4. QED
      BY <2>1, <2>2, <2>3
  <1>5. \A t \in FedTimers : C!Full(t, C!Stepped(t)) <=> IncElapses(Fired(t))
    <2> TAKE t \in FedTimers
    <2>1. t \in TimerIds
      BY DEF FedTimers
    <2>2. Fired(t) = timer[t] /\ ~Run(timer[t])
      BY <2>1, FedIdle
    <2>3. Cnt(timer[t]) = timer[t].count /\ timer[t] \in TimerRecord /\ Shape(t, timer[t].ctl)
      BY <2>1, <2>2, OwnTimers
    <2>4. IncElapses(timer[t]) <=> Stp(timer[t]) = TopOf(timer[t])
      BY <2>3, IncRecord DEF Stp
    <2>5. QED
      BY <2>1, <2>2, <2>4, FullIs
  <1>6. C!Elapsed = ElapsedTimers
    BY <1>3, <1>4, <1>5 DEF C!Elapsed, ElapsedTimers
  <1>7. QED
    BY <1>3, <1>4, <1>6

\* What a cycle does to one timer.
LEMMA CycleTimer ==
  ASSUME IInv, OwnDeadlines, Cycle, NEW t \in TimerIds, NEW r, r = timer[t], NEW s, s = timer'[t]
  PROVE  /\ s.maxA = r.maxA /\ s.maxB = r.maxB
         /\ s.ctl = IF t \in ElapsedTimers THEN AfterElapse(r.ctl) ELSE r.ctl
         /\ Run(s) <=> Run(r) /\ (t \in ElapsedTimers => StartsOver(r.ctl))
         /\ PhaseAt(s.left) = IF Run(r) THEN (PhaseAt(r.left) + 1) % Prescale ELSE PhaseAt(r.left)
         /\ Cnt(s) = IF t \in ElapsedTimers THEN 0
                     ELSE IF t \in FedTimers \/ (Run(r) /\ PhaseAt(r.left) = 0) THEN Stp(r)
                     ELSE Cnt(r)
  <1>1. /\ Own(r) /\ r \in TimerRecord /\ Good(t, r) /\ Shape(t, r.ctl)
        /\ ~Run(r) => Cnt(r) = r.count
    BY OwnTimers DEF IInv
  <1>2. s = IF t \in FedTimers THEN Incremented(t, Fired(t)) ELSE Fired(t)
    BY CycleParts
  <1>3. CASE t \in Due
    <2>1. t \notin FedTimers /\ t \in ElapsedTimers
      BY <1>3, FedIdle DEF ElapsedTimers
    <2>2. r.left = 1 /\ s = ElapsedTimer(t, Aged(r))
      BY <1>2, <1>3, <2>1 DEF Due, Fired
    <2>3. /\ s.ctl = AfterElapse(r.ctl) /\ s.maxA = r.maxA /\ s.maxB = r.maxB /\ Cnt(s) = 0
          /\ PhaseAt(s.left) = (PhaseAt(r.left) + 1) % Prescale
          /\ Run(s) <=> StartsOver(r.ctl)
          /\ Run(r)
      BY <1>1, <2>2, ElapsedView
    <2>4. QED
      BY <2>1, <2>3
  <1>4. CASE t \notin Due /\ Run(r)
    <2>1. t \notin FedTimers /\ t \notin ElapsedTimers
      BY <1>4, FedIdle DEF ElapsedTimers
    <2>2. s = Aged(r) /\ r.left # 0 /\ r.left # 1
      BY <1>2, <1>4, <2>1 DEF Due, Fired, Run
    <2>3. /\ Aged(r).ctl = r.ctl /\ Aged(r).maxA = r.maxA /\ Aged(r).maxB = r.maxB
          /\ Cnt(Aged(r)) = IF PhaseAt(r.left) = 0 THEN Stp(r) ELSE Cnt(r)
          /\ PhaseAt(Aged(r).left) = (PhaseAt(r.left) + 1) % Prescale
          /\ Run(Aged(r))
      BY <1>1, <2>2, AgedView
    <2>4. QED
      BY <1>4, <2>1, <2>2, <2>3
  <1>5. CASE t \in FedTimers
    <2>1. t \notin Due /\ ~Run(r) /\ Fired(t) = r /\ Prescaled(r.ctl) /\ t # 2
      BY <1>5, FedIdle DEF FedTimers
    <2>2. s = Incremented(t, r) /\ r.left = 0
      BY <1>2, <1>5, <2>1 DEF Run
    <2>3. /\ Good(t, s) /\ s.maxA = r.maxA /\ s.maxB = r.maxB
          /\ IncElapses(r) => s.ctl = AfterElapse(r.ctl) /\ s.count = 0 /\ s.left = 0
          /\ ~IncElapses(r) => s.ctl = r.ctl /\ s.count = (r.count + 1) % Range /\ s.left = 0
      BY <1>1, <2>1, <2>2, IncrementedRecord
    <2>4. s.left = 0 /\ s \in TimerRecord
      BY <2>3 DEF Good
    <2>5. Cnt(s) = s.count /\ ~Run(s) /\ PhaseAt(s.left) = PhaseAt(r.left)
      BY <2>2, <2>4, CntIs DEF Run
    <2>6. t \in ElapsedTimers <=> IncElapses(r)
      BY <1>5, <2>1 DEF ElapsedTimers
    <2>7. Stp(r) = (r.count + 1) % Range
      BY <1>1, <2>1 DEF Stp
    <2>8. QED
      BY <1>5, <2>1, <2>3, <2>5, <2>6, <2>7
  <1>6. CASE t \notin Due /\ ~Run(r) /\ t \notin FedTimers
    <2>1. s = r /\ t \notin ElapsedTimers
      BY <1>2, <1>6, FedIdle DEF ElapsedTimers
    <2>2. QED
      BY <1>6, <2>1
  <1>7. QED
    BY <1>3, <1>4, <1>5, <1>6
LEMMA CycleStep ==
  ASSUME IInv, OwnDeadlines, Cycle
  PROVE  C!Cycle
  <1>1. C!Elapsed = ElapsedTimers /\ C!Fed = FedTimers
    BY CycleSets
  <1>2. \A t \in TimerIds :
          /\ timer'[t].maxA = timer[t].maxA /\ timer'[t].maxB = timer[t].maxB
          /\ timer'[t].ctl = IF t \in ElapsedTimers THEN AfterElapse(timer[t].ctl) ELSE timer[t].ctl
          /\ Run(timer'[t]) <=> Run(timer[t]) /\ (t \in ElapsedTimers => StartsOver(timer[t].ctl))
          /\ PhaseAt(timer'[t].left) = IF Run(timer[t]) THEN (PhaseAt(timer[t].left) + 1) % Prescale
                                       ELSE PhaseAt(timer[t].left)
          /\ Cnt(timer'[t]) = IF t \in ElapsedTimers THEN 0
                              ELSE IF t \in FedTimers \/ (Run(timer[t]) /\ PhaseAt(timer[t].left) = 0)
                              THEN Stp(timer[t]) ELSE Cnt(timer[t])
    BY CycleTimer
  <1>3. \A t \in TimerIds :
          /\ ViewCtl[t] = timer[t].ctl /\ ViewCount[t] = Cnt(timer[t])
          /\ ViewPhase[t] = PhaseAt(timer[t].left) /\ ViewRun[t] = Run(timer[t])
          /\ C!Stepped(t) = Stp(timer[t])
    BY FullIs DEF ViewCtl, ViewCount, ViewPhase, ViewRun
  <1>4. ViewMaxA' = ViewMaxA /\ ViewMaxB' = ViewMaxB
    BY <1>2 DEF ViewMaxA, ViewMaxB
  <1>5. ViewCtl' = [t \in TimerIds |-> IF t \in C!Elapsed THEN AfterElapse(ViewCtl[t]) ELSE ViewCtl[t]]
    <2>1. ViewCtl' = [t \in TimerIds |-> timer'[t].ctl]
      BY DEF ViewCtl
    <2>2. QED
      BY <1>1, <1>2, <1>3, <2>1
  <1>6. ViewRun' = [t \in TimerIds |-> ViewRun[t] /\ (t \in C!Elapsed => StartsOver(ViewCtl[t]))]
    <2>1. ViewRun' = [t \in TimerIds |-> Run(timer'[t])]
      BY DEF ViewRun, Run
    <2>2. \A t \in TimerIds :
            Run(timer'[t]) = (ViewRun[t] /\ (t \in C!Elapsed => StartsOver(ViewCtl[t])))
      BY <1>1, <1>2, <1>3 DEF Run
    <2>3. QED
      BY <2>1, <2>2
  <1>7. ViewPhase' = [t \in TimerIds |-> IF ViewRun[t] THEN (ViewPhase[t] + 1) % Prescale ELSE ViewPhase[t]]
    <2>1. ViewPhase' = [t \in TimerIds |-> PhaseAt(timer'[t].left)]
      BY DEF ViewPhase, PhaseAt
    <2>2. QED
      BY <1>2, <1>3, <2>1
  <1>8. ViewCount' = [t \in TimerIds |->
                        IF t \in C!Elapsed THEN 0
                        ELSE IF t \in C!Fed \/ (ViewRun[t] /\ ViewPhase[t] = 0) THEN C!Stepped(t)
                        ELSE ViewCount[t]]
    <2>1. ViewCount' = [t \in TimerIds |-> Cnt(timer'[t])]
      BY DEF ViewCount, Cnt, Synced, TopOf
    <2>2. QED
      BY <1>1, <1>2, <1>3, <2>1
  <1>9. status' = status \cup {t \in C!Elapsed : ViewCtl[t].int}
    <2>1. status' = status \cup {t \in Due : timer[t].ctl.int}
                           \cup {t \in FedTimers : IncElapses(Fired(t)) /\ Fired(t).ctl.int}
      BY CycleParts
    <2>2. Due \subseteq TimerIds /\ FedTimers \subseteq TimerIds
      BY DEF Due, FedTimers
    <2>3. \A t \in FedTimers : Fired(t) = timer[t]
      BY <2>2, FedIdle
    <2>4. \A t \in TimerIds : ViewCtl[t] = timer[t].ctl
      BY <1>3
    <2>5. {t \in ElapsedTimers : ViewCtl[t].int} =
            {t \in Due : timer[t].ctl.int} \cup {t \in FedTimers : IncElapses(Fired(t)) /\ Fired(t).ctl.int}
      BY <2>2, <2>3, <2>4 DEF ElapsedTimers
    <2>6. QED
      BY <1>1, <2>1, <2>5
  <1>10. QED
    BY <1>4, <1>5, <1>6, <1>7, <1>8, <1>9, SameControl
       DEF C!Cycle, ViewCtl, ViewMaxA, ViewMaxB, ViewCount, ViewPhase, ViewRun, Cnt, PhaseAt, Run

-----------------------------------------------------------------------------
LEMMA InitCounter ==
  ASSUME Init
  PROVE  C!Init
  <1> DEFINE z == [ctl |-> Off, maxA |-> 0, maxB |-> 0, count |-> 0, left |-> 0]
  <1>1. z \in TimerRecord /\ z.ctl = Off /\ z.maxA = 0 /\ z.maxB = 0 /\ z.count = 0 /\ z.left = 0
    <2>1. 0 \in N /\ 0 \in 0..Range * Prescale /\ Off \in Control
      BY Constants, OffShape DEF N
    <2>2. QED
      BY <2>1 DEF TimerRecord
  <1>2. timer = [t \in TimerIds |-> z] /\ status = {}
    BY DEF Init
  <1> HIDE DEF z
  <1>3. Cnt(z) = 0 /\ PhaseAt(z.left) = 0 /\ Run(z) = FALSE
    BY <1>1, CntIs, NoTime DEF Run
  <1>4. /\ ViewCtl = [t \in TimerIds |-> Off] /\ ViewMaxA = [t \in TimerIds |-> 0]
        /\ ViewMaxB = [t \in TimerIds |-> 0] /\ ViewCount = [t \in TimerIds |-> 0]
        /\ ViewPhase = [t \in TimerIds |-> 0] /\ ViewRun = [t \in TimerIds |-> FALSE]
    BY <1>1, <1>2, <1>3 DEF ViewCtl, ViewMaxA, ViewMaxB, ViewCount, ViewPhase, ViewRun
  <1>5. QED
    BY <1>2, <1>4, SameControl
       DEF C!Init, ViewCtl, ViewMaxA, ViewMaxB, ViewCount, ViewPhase, ViewRun, Cnt, PhaseAt, Run

LEMMA NextCounter ==
  ASSUME IInv, [Next]_vars
  PROVE  [OwnDeadlines /\ OwnDeadlines' => C!Next]_C!counterVars
  <1> SUFFICES ASSUME OwnDeadlines, OwnDeadlines'
               PROVE  C!Next \/ UNCHANGED C!counterVars
    OBVIOUS
  <1>1. CASE Cycle
    BY <1>1, CycleStep DEF C!Next
  <1>2. CASE Reset
    BY <1>2, ResetStep DEF C!Next
  <1>3. ASSUME NEW t \in TimerIds, NEW n \in Values,
               WriteCount(t, n) \/ WriteMaxA(t, n) \/ WriteMaxB(t, n)
        PROVE  C!Next
    <2>1. n \in N
      BY WriteAssumption DEF N
    <2>2. C!WriteCount(t, n) \/ C!WriteMaxA(t, n) \/ C!WriteMaxB(t, n)
      BY <1>3, <2>1, WriteCountStep, WriteMaxAStep, WriteMaxBStep
    <2>3. QED
      BY <2>2, Zenon DEF C!Next
  <1>4. ASSUME NEW t \in TimerIds, NEW w \in Words, NEW inh \in BOOLEAN, WriteControl(t, w, inh)
        PROVE  C!Next
    <2>1. C!WriteControl(t, w, inh)
      BY <1>4, WriteControlStep
    <2>2. QED
      BY <2>1, Zenon DEF C!Next
  <1>5. ASSUME NEW t \in TimerIds, TmrIn(t)
        PROVE  C!Next
    BY <1>5, TmrInStep, Zenon DEF C!Next
  <1>6. ASSUME NEW t \in TimerIds, ReadCount(t)
        PROVE  UNCHANGED C!counterVars
    BY <1>6, ReadCountStep
  <1>7. ASSUME NEW t \in TimerIds, Acknowledge(t)
        PROVE  C!Next
    BY <1>7, AcknowledgeStep, Zenon DEF C!Next
  <1>8. CASE UNCHANGED vars
    BY <1>8 DEF vars, C!counterVars, Synced, TopOf
  <1>9. QED
    BY <1>1, <1>2, <1>3, <1>4, <1>5, <1>6, <1>7, <1>8 DEF Next

\* The deadlines implement the counters of TimerCounter: the count a program
\* reads (internal_timer_sync) and the cycle of every interrupt
\* (timer_elapsed, inc_timer) are those of a counter moved on with every
\* cycle, in every step between two states whose deadlines are the timers'
\* own.
THEOREM DeadlinesCount == Spec => ImplementsCounter
  <1>1. Init => C!Init
    BY InitCounter
  <1>2. IInv /\ [Next]_vars => [OwnDeadlines /\ OwnDeadlines' => C!Next]_C!counterVars
    BY NextCounter
  <1>3. QED
    BY <1>1, <1>2, Invariant, PTL DEF Spec, ImplementsCounter
=============================================================================
