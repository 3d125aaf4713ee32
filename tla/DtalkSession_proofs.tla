------------------------ MODULE DtalkSession_proofs ------------------------
(***************************************************************************)
(* For every rate, chunk, margin and length of a call, and any number of   *)
(* calls: no index mark of speech that was cancelled is read, none comes   *)
(* after its sample was handed out, and, as long as no reset is made that  *)
(* boot's limit on the machine's clock would end, every mark is placed     *)
(* where it sounds and dtalk_synth comes back short only when the speech   *)
(* is done.                                                                *)
(*                                                                         *)
(* The invariant is an account of the samples of the grid: those before    *)
(* the base, those dropped, those delivered and those carried make up the  *)
(* grid, to within the one that boot's rounding leaves (Ahead, Exact).     *)
(***************************************************************************)
EXTENDS DtalkSession, SequenceTheorems, NaturalsInduction,
        WellFoundedInduction, TLAPS

\* A reset is made early enough for the firmware to come up before boot's
\* limit.  A late one is what run DtalkSession_reset is about.
ResetsInTime == ResetInstance => now + BootTime <= BootLimit

LEMMA ConstantTypes ==
  /\ Hz \in Nat \ {0} /\ Rate \in Nat \ {0} /\ Chunk \in Nat \ {0}
  /\ FeedGap \in Nat \ {0} /\ Settle \in Nat \ {0} /\ Margin \in Nat /\ Gap \in Nat
  /\ BootTime \in Nat \ {0} /\ BootLimit \in Nat
  /\ \A o \in Overshoots : o \in Nat
  /\ \A m \in Requests : m \in Nat \ {0}
  BY SessionAssumption

-----------------------------------------------------------------------------
(* The output grid.                                                        *)

LEMMA Quotient ==
  ASSUME NEW a \in Int, NEW b \in Nat \ {0}
  PROVE  a \div b \in Int /\ b * (a \div b) <= a /\ a < b * (a \div b) + b
  OBVIOUS

LEMMA Multiples ==
  ASSUME NEW b \in Nat \ {0}, NEW p \in Int, NEW q \in Int, b * p < b * q + b
  PROVE  p <= q
  OBVIOUS

LEMMA Products ==
  ASSUME NEW r \in Nat, NEW s \in Int, NEW t \in Int, s <= t
  PROVE  s * r \in Int /\ t * r \in Int /\ s * r <= t * r
  OBVIOUS

LEMMA QuotientOrder ==
  ASSUME NEW a \in Int, NEW c \in Int, NEW b \in Nat \ {0}, a <= c
  PROVE  a \div b <= c \div b
  <1>1. b * (a \div b) <= a /\ c < b * (c \div b) + b
    BY Quotient
  <1>2. a \div b \in Int /\ c \div b \in Int
    BY Quotient
  <1>3. b * (a \div b) < b * (c \div b) + b
    BY <1>1, <1>2
  <1>4. QED
    BY <1>2, <1>3, Multiples

LEMMA QuotientNatural ==
  ASSUME NEW a \in Nat, NEW b \in Nat \ {0}
  PROVE  a \div b \in Nat
  <1>1. a \div b \in Int /\ a < b * (a \div b) + b
    BY Quotient
  <1>2. b * 0 < b * (a \div b) + b
    BY <1>1
  <1>3. 0 <= a \div b
    BY <1>1, <1>2, Multiples
  <1>4. QED
    BY <1>1, <1>3

LEMMA QuotientUp ==
  ASSUME NEW a \in Int, NEW b \in Nat \ {0}
  PROVE  (a + b - 1) \div b - a \div b \in 0..1
  <1> DEFINE p == a \div b
             q == (a + b - 1) \div b
  <1>1. p \in Int /\ b * p <= a /\ a < b * p + b
    BY Quotient
  <1>2. q \in Int /\ b * q <= a + b - 1 /\ a + b - 1 < b * q + b
    BY Quotient
  <1> HIDE DEF p, q
  <1>3. b * p < b * q + b /\ b * q < b * (p + 1) + b
    BY <1>1, <1>2
  <1>4. p <= q /\ q <= p + 1
    BY <1>1, <1>2, <1>3, Multiples
  <1>5. q - p \in 0..1
    BY <1>1, <1>2, <1>4
  <1>6. QED
    BY <1>5 DEF p, q

\* Sample numbers, and the samples taken before a cycle: at most one more.
LEMMA Grid ==
  ASSUME NEW t \in Int
  PROVE  /\ SampleAt(t) \in Int /\ SamplesBefore(t) \in Int
         /\ SamplesBefore(t) - SampleAt(t) \in 0..1
         /\ t >= 0 => SampleAt(t) \in Nat /\ SamplesBefore(t) \in Nat
  <1>1. Hz \in Nat \ {0} /\ Rate \in Nat \ {0}
    BY SessionAssumption
  <1>2. t * Rate \in Int /\ (t >= 0 => t * Rate >= 0)
    BY <1>1
  <1>3. t * Rate + Hz - 1 \in Int /\ (t >= 0 => t * Rate + Hz - 1 \in Nat /\ t * Rate \in Nat)
    BY <1>1, <1>2
  <1>4. SampleAt(t) \in Int /\ SamplesBefore(t) \in Int
    BY <1>1, <1>2, <1>3, Quotient DEF SampleAt, SamplesBefore
  <1>5. SamplesBefore(t) - SampleAt(t) \in 0..1
    BY <1>1, <1>2, QuotientUp DEF SampleAt, SamplesBefore
  <1>6. t >= 0 => SampleAt(t) \in Nat /\ SamplesBefore(t) \in Nat
    BY <1>1, <1>3, QuotientNatural DEF SampleAt, SamplesBefore
  <1>7. QED
    BY <1>4, <1>5, <1>6

LEMMA GridOrder ==
  ASSUME NEW s \in Int, NEW t \in Int, s <= t
  PROVE  SamplesBefore(s) <= SamplesBefore(t)
  <1>1. Hz \in Nat \ {0} /\ Rate \in Nat
    BY SessionAssumption
  <1>2. s * Rate \in Int /\ t * Rate \in Int /\ s * Rate <= t * Rate
    BY <1>1, Products
  <1>3. /\ s * Rate + Hz - 1 \in Int /\ t * Rate + Hz - 1 \in Int
        /\ s * Rate + Hz - 1 <= t * Rate + Hz - 1
    BY <1>1, <1>2
  <1>4. QED
    BY <1>1, <1>3, QuotientOrder DEF SamplesBefore

LEMMA LargerOf ==
  ASSUME NEW a \in Int, NEW b \in Int
  PROVE  /\ Larger(a, b) \in Int /\ a <= Larger(a, b) /\ b <= Larger(a, b)
         /\ a >= 0 => Larger(a, b) \in Nat
         /\ \A c \in Int : a <= c /\ b <= c => Larger(a, b) <= c
  BY DEF Larger

\* pull_samples moves the grid on, at most to the present; a drain moves it
\* all the way.
Drained(g, t) == Pulled(g, t, TRUE)
HeldBack(g, t) == Pulled(g, t, FALSE)

LEMMA DrainedGrid ==
  ASSUME NEW g \in Nat, NEW t \in Nat, g <= SamplesBefore(t)
  PROVE  Drained(g, t) = SamplesBefore(t) /\ Drained(g, t) \in Nat
  <1>1. t - 0 = t /\ SamplesBefore(t) \in Nat
    BY Grid
  <1>2. Drained(g, t) = Larger(g, SamplesBefore(t))
    BY <1>1 DEF Pulled, Drained
  <1>3. /\ SamplesBefore(t) <= Larger(g, SamplesBefore(t)) /\ Larger(g, SamplesBefore(t)) \in Nat
        /\ Larger(g, SamplesBefore(t)) <= SamplesBefore(t)
    BY <1>1, LargerOf
  <1>4. QED
    BY <1>1, <1>2, <1>3

LEMMA HeldBackGrid ==
  ASSUME NEW g \in Nat, NEW t \in Nat, g <= SamplesBefore(t)
  PROVE  /\ HeldBack(g, t) \in Nat
         /\ g <= HeldBack(g, t) /\ HeldBack(g, t) <= SamplesBefore(t)
         /\ SamplesBefore(t - Margin) <= HeldBack(g, t)
  <1>1. t - Margin \in Int /\ t - Margin <= t
    BY SessionAssumption
  <1>2. /\ SamplesBefore(t) \in Int /\ SamplesBefore(t - Margin) \in Int
        /\ SamplesBefore(t - Margin) <= SamplesBefore(t)
    BY <1>1, Grid, GridOrder
  <1>3. HeldBack(g, t) = Larger(g, SamplesBefore(t - Margin))
    BY DEF Pulled, HeldBack
  <1>4. QED
    BY <1>2, <1>3, LargerOf

-----------------------------------------------------------------------------
(* boot() and the card.                                                    *)

\* Induction: a set of numbers has a least element.
LEMMA LeastNumber ==
  ASSUME NEW T \in SUBSET Nat, T # {}
  PROVE  \E m \in T : \A k \in T : m <= k
  <1> DEFINE R == OpToRel(<, Nat)
  <1>1. IsWellFoundedOn(R, Nat)
    BY NatLessThanWellFounded
  <1>2. \A x, y \in Nat : x < y => <<x, y>> \in R
    BY DEF OpToRel
  <1> HIDE DEF R
  <1>3. PICK m \in T : \A k \in T : ~(<<k, m>> \in R)
    BY <1>1, WFMin
  <1>4. ASSUME NEW k \in T PROVE m <= k
    <2>1. ~(k < m)
      BY <1>2, <1>3
    <2>2. QED
      BY <2>1
  <1>5. QED
    BY <1>4

\* The loop of boot() ends, and not before RDY when RDY rises by the limit.
LEMMA BootEnds ==
  ASSUME NEW t \in Nat, NEW r \in t + 1 .. t + BootTime
  PROVE  /\ BootEnd(t, r) \in Nat /\ t <= BootEnd(t, r)
         /\ r <= BootLimit => r <= BootEnd(t, r)
  <1> DEFINE stops == {k \in 0..(BootTime + 1) :
                         t + k * BootStep >= r \/ t + k * BootStep >= BootLimit}
             k0 == CHOOSE k \in stops : \A j \in stops : k <= j
  <1>1. BootTime \in Nat \ {0} /\ BootStep \in Nat \ {0} /\ BootLimit \in Nat /\ r \in Nat
    BY SessionAssumption
  <1>2. BootTime + 1 <= (BootTime + 1) * BootStep
    BY <1>1
  <1>3. BootTime + 1 \in stops
    BY <1>1, <1>2
  <1>4. stops \in SUBSET Nat
    BY <1>1
  <1> HIDE DEF stops
  <1>5. \E m \in stops : \A j \in stops : m <= j
    BY <1>3, <1>4, LeastNumber
  <1>6. k0 \in stops
    BY <1>5
  <1>7. BootEnd(t, r) = t + BootStep * k0
    BY DEF BootEnd, stops
  <1> HIDE DEF k0
  <1>8. k0 \in Nat /\ (t + k0 * BootStep >= r \/ t + k0 * BootStep >= BootLimit)
    BY <1>1, <1>6 DEF stops
  <1>9. k0 * BootStep \in Nat /\ k0 * BootStep = BootStep * k0
    BY <1>1, <1>8
  <1>10. QED
    BY <1>1, <1>7, <1>8, <1>9

LEMMA Booted ==
  ASSUME NEW t \in Nat, NEW b \in BootResults(t)
  PROVE  /\ b.end \in Nat /\ t <= b.end /\ b.rdy \in Nat /\ b.ok \in BOOLEAN
         /\ t + BootTime <= BootLimit => b.ok
  <1>1. PICK r \in t + 1 .. t + BootTime :
          b = [ok |-> r <= BootEnd(t, r), rdy |-> r,
               end |-> BootEnd(t, r) + (IF r <= BootEnd(t, r) THEN Swallow ELSE 0)]
    BY DEF BootResults
  <1>2. BootTime \in Nat /\ Swallow \in Nat /\ BootLimit \in Nat /\ r \in Nat
    BY SessionAssumption
  <1>3. /\ b.ok = (r <= BootEnd(t, r)) /\ b.rdy = r
        /\ b.end = BootEnd(t, r) + (IF r <= BootEnd(t, r) THEN Swallow ELSE 0)
    BY <1>1
  <1>4. /\ BootEnd(t, r) \in Nat /\ t <= BootEnd(t, r)
        /\ r <= BootLimit => r <= BootEnd(t, r)
    BY BootEnds
  <1>5. b.end \in Nat /\ t <= b.end
    BY <1>2, <1>3, <1>4
  <1>6. t + BootTime <= BootLimit => r <= BootLimit
    BY <1>2
  <1>7. b.ok \in BOOLEAN /\ (t + BootTime <= BootLimit => b.ok)
    <2>1. r <= BootEnd(t, r) => b.ok
      BY <1>3
    <2>2. b.ok \in BOOLEAN
      BY <1>3
    <2>3. QED
      BY <1>4, <1>6, <2>1, <2>2
  <1>8. QED
    BY <1>2, <1>3, <1>5, <1>7

Card == [up : BOOLEAN, upBy : Nat, work : BOOLEAN, busy : BOOLEAN,
         hidden : Nat, heard : Nat]

\* What a run from cycle t to cycle u leaves of a card that is up.
RanOn(c, d, t, u) ==
  /\ d.up
  /\ d.busy => d.work
  /\ d.work => c.work
  /\ d.heard <= u
  /\ ~c.busy /\ ~d.busy => d.heard = c.heard
  /\ d.work /\ ~d.busy => d.hidden <= Gap /\ d.hidden = c.hidden + (u - t)

LEMMA LaterCard ==
  ASSUME NEW c \in Card, c.up, c.work, NEW t \in Nat, NEW u \in Nat, t <= u,
         c.heard <= t, NEW d \in Later(c, t, u)
  PROVE  d \in Card /\ RanOn(c, d, t, u)
  <1>1. /\ c.upBy \in Nat /\ c.hidden \in Nat /\ c.heard \in Nat
        /\ c.up \in BOOLEAN /\ c.work \in BOOLEAN /\ c.busy \in BOOLEAN
        /\ c = [up |-> c.up, upBy |-> c.upBy, work |-> c.work, busy |-> c.busy,
                hidden |-> c.hidden, heard |-> c.heard]
    BY DEF Card
  <1>2. CASE d = [c EXCEPT !.busy = FALSE, !.hidden = @ + (u - t)] /\ d.hidden <= Gap
    <2>1. d = [up |-> c.up, upBy |-> c.upBy, work |-> c.work, busy |-> FALSE,
               hidden |-> c.hidden + (u - t), heard |-> c.heard]
      BY <1>1, <1>2
    <2>2. c.hidden + (u - t) \in Nat /\ c.heard <= u
      BY <1>1
    <2>3. d.hidden = c.hidden + (u - t) /\ d.heard = c.heard /\ d.up = c.up /\ ~d.busy /\ d.work = c.work
      BY <2>1
    <2>4. QED
      BY <1>1, <1>2, <2>1, <2>2, <2>3 DEF RanOn, Card
  <1>3. ASSUME c.busy, NEW x \in t..u,
               d = [c EXCEPT !.work = FALSE, !.busy = FALSE, !.hidden = 0, !.heard = x]
        PROVE  d \in Card /\ RanOn(c, d, t, u)
    <2>1. d = [up |-> c.up, upBy |-> c.upBy, work |-> FALSE, busy |-> FALSE,
               hidden |-> 0, heard |-> x]
      BY <1>1, <1>3
    <2>2. x \in Nat /\ x <= u
      OBVIOUS
    <2>3. d \in Card
      BY <1>1, <2>1, <2>2 DEF Card
    <2>4. d.up = c.up /\ ~d.work /\ ~d.busy /\ d.heard = x
      BY <2>1
    <2>5. QED
      BY <1>3, <2>2, <2>3, <2>4 DEF RanOn
  <1>4. CASE ~c.busy /\ d = [c EXCEPT !.work = FALSE, !.hidden = 0]
    <2>1. d = [up |-> c.up, upBy |-> c.upBy, work |-> FALSE, busy |-> c.busy,
               hidden |-> 0, heard |-> c.heard]
      BY <1>1, <1>4
    <2>2. c.heard <= u
      BY <1>1
    <2>3. d \in Card
      BY <1>1, <2>1 DEF Card
    <2>4. d.up = c.up /\ ~d.work /\ d.busy = c.busy /\ d.heard = c.heard
      BY <2>1
    <2>5. QED
      BY <1>4, <2>2, <2>3, <2>4 DEF RanOn
  <1>5. CASE d = [c EXCEPT !.busy = TRUE, !.hidden = 0, !.heard = u]
    <2>1. d = [up |-> c.up, upBy |-> c.upBy, work |-> c.work, busy |-> TRUE,
               hidden |-> 0, heard |-> u]
      BY <1>1, <1>5
    <2>2. QED
      BY <1>1, <2>1 DEF RanOn, Card
  <1>6. QED
    BY <1>2, <1>3, <1>4, <1>5 DEF Later

\* A run says what it says while it lasts.
LEMMA RunSays ==
  ASSUME NEW c \in Card, NEW t \in Nat, NEW u \in Nat, t <= u,
         c.up /\ c.work => c.heard <= t, NEW r \in Runs(c, t, u)
  PROVE  /\ r.card \in Card
         /\ r.said \in Seq(Event)
         /\ \A i \in DOMAIN r.said : r.said[i].at \in t..u
         /\ c.up /\ c.work => RanOn(c, r.card, t, u)
         /\ c.up /\ ~c.work => r.card = c
  <1>1. \A x \in t..u, m \in BOOLEAN :
          /\ <<[at |-> x, marker |-> m]>> \in Seq(Event)
          /\ \A i \in DOMAIN <<[at |-> x, marker |-> m]>> : <<[at |-> x, marker |-> m]>>[i].at \in t..u
    BY DEF Event
  <1>2. <<>> \in Seq(Event) /\ DOMAIN <<>> = {}
    OBVIOUS
  <1>3. CASE ~c.up /\ r = [card |-> c, said |-> <<>>]
    BY <1>2, <1>3
  <1>4. ASSUME ~c.up, NEW x \in t..u,
               r = [card |-> Ready(u), said |-> <<[at |-> x, marker |-> FALSE]>>]
        PROVE  /\ r.card \in Card /\ r.said \in Seq(Event)
               /\ \A i \in DOMAIN r.said : r.said[i].at \in t..u
    <2>1. Ready(u) \in Card
      BY DEF Ready, Card
    <2>2. r.card = Ready(u) /\ r.said = <<[at |-> x, marker |-> FALSE]>>
      BY <1>4
    <2>3. QED
      BY <1>1, <2>1, <2>2
  <1>5. CASE c.up /\ ~c.work /\ r = [card |-> c, said |-> <<>>]
    BY <1>2, <1>5
  <1>6. CASE /\ c.up /\ c.work
             /\ r \in {[card |-> d, said |-> <<>>] : d \in Later(c, t, u)}
    <2>1. PICK d \in Later(c, t, u) : r = [card |-> d, said |-> <<>>]
      BY <1>6
    <2>2. d \in Card /\ RanOn(c, d, t, u)
      BY <1>6, LaterCard
    <2>3. r.card = d /\ r.said = <<>>
      BY <2>1
    <2>4. QED
      BY <1>2, <1>6, <2>2, <2>3
  <1>7. CASE /\ c.up /\ c.work
             /\ r \in [card : {d \in Later(c, t, u) : c.busy \/ d.busy},
                       said : {<<[at |-> x, marker |-> TRUE]>> : x \in t..u}]
    <2>1. r.card \in Later(c, t, u) /\ r.said \in {<<[at |-> x, marker |-> TRUE]>> : x \in t..u}
      BY <1>7
    <2>2. r.card \in Card /\ RanOn(c, r.card, t, u)
      BY <1>7, <2>1, LaterCard
    <2>3. PICK x \in t..u : r.said = <<[at |-> x, marker |-> TRUE]>>
      BY <2>1
    <2>4. QED
      BY <1>1, <1>7, <2>2, <2>3
  <1>8. QED
    BY <1>3, <1>4, <1>5, <1>6, <1>7 DEF Runs

LEMMA ComesUp ==
  ASSUME NEW c \in Card, ~c.up, NEW t, NEW u \in Nat, NEW r \in Runs(c, t, u)
  PROVE  r.card = Ready(u) \/ r.card = c
  BY DEF Runs

-----------------------------------------------------------------------------
(* The account of the samples.                                             *)

Mark == [pos : Nat, at : Nat, marker : BOOLEAN, early : Nat]
Call == [phase : {"host", "feed", "run"}, left : Nat, start : Nat]

Numbers == /\ now \in Nat /\ grid \in Nat /\ queue \in Nat /\ carry \in Nat
           /\ base \in Nat /\ dropped \in Nat /\ idle \in Nat
           /\ delivered \in Nat /\ since \in Nat

TypeOK == Numbers /\ card \in Card /\ call \in Call
          /\ events \in Seq(Event) /\ marks \in Seq(Mark)

\* The last cut lies behind, and nothing is pulled that has not sounded.
Behind == since <= now /\ grid <= SamplesBefore(now)

\* The carry is handed out first; what a call found delivered stays so.
Calls == call.start <= delivered /\ (call.phase # "host" => carry = 0)

\* A card that is up was last heard no later than now.
Heard == card.up => card.heard <= now

\* An event that waits came after the last cut and the last pull.
Pending == \A i \in DOMAIN events :
             events[i].at >= since /\ grid <= SamplesBefore(events[i].at)

\* No more is accounted for than there is.
Unaccounted == grid - (base + dropped + delivered + carry)
Ahead == Unaccounted >= 0

Marked == \A i \in DOMAIN marks :
            /\ marks[i].at >= since
            /\ marks[i].pos = StreamPosition(marks[i].at)
            /\ marks[i].pos + 1 >= marks[i].early

IInv == TypeOK /\ Behind /\ Calls /\ Heard /\ Pending /\ Ahead /\ Marked

\* What is pulled is delivered or carried.
LEMMA Carried ==
  ASSUME Numbers, grid' \in Nat, delivered' \in Nat, carry' \in Nat,
         UNCHANGED <<base, dropped>>,
         carry' + delivered' = carry + (grid' - grid) + delivered
  PROVE  Unaccounted' = Unaccounted
  <1>1. /\ grid \in Nat /\ base \in Nat /\ dropped \in Nat /\ delivered \in Nat /\ carry \in Nat
        /\ base' = base /\ dropped' = dropped
    BY DEF Numbers
  <1>2. \A d2, c2, h \in Nat :
          c2 + d2 = carry + (h - grid) + delivered
            => h - (base + dropped + d2 + c2) = grid - (base + dropped + delivered + carry)
    <2>1. grid \in Nat /\ base \in Nat /\ dropped \in Nat /\ delivered \in Nat /\ carry \in Nat
      BY <1>1
    <2>2. QED
      BY <2>1
  <1>3. grid' - (base + dropped + delivered' + carry') = grid - (base + dropped + delivered + carry)
    BY <1>2, Zenon
  <1>4. QED
    BY <1>1, <1>3, Zenon DEF Unaccounted

LEMMA Pulling ==
  ASSUME NEW c \in Nat, NEW g \in Nat, NEW h \in Nat, g <= h
  PROVE  c + (h - g) \in Nat
  OBVIOUS

LEMMA NoMore ==
  ASSUME NEW S
  PROVE  <<>> \in Seq(S) /\ DOMAIN <<>> = {}
  OBVIOUS

\* drain_carry hands out what it can and carries the rest.
LEMMA DrainStep ==
  ASSUME NEW c \in Call, NEW n \in Nat, delivered \in Nat, Drain(c, n)
  PROVE  /\ carry' \in Nat /\ delivered' \in Nat /\ call' \in Call
         /\ delivered <= delivered' /\ carry' + delivered' = n + delivered
         /\ c.start <= delivered => call'.start <= delivered'
         /\ call'.phase # "host" => carry' = 0
  <1> DEFINE take == Smaller(n, c.left)
  <1>1. c.left \in Nat /\ c.start \in Nat
    BY DEF Call
  <1>2. take \in Nat /\ take <= n /\ take <= c.left /\ (take = n \/ take = c.left)
    BY <1>1 DEF Smaller
  <1>3. /\ carry' = n - take /\ delivered' = delivered + take
        /\ call' = IF take = c.left THEN Host ELSE [c EXCEPT !.left = @ - take, !.phase = "feed"]
    BY DEF Drain
  <1> HIDE DEF take
  <1>4. /\ carry' \in Nat /\ delivered' \in Nat
        /\ delivered <= delivered' /\ carry' + delivered' = n + delivered
    BY <1>2, <1>3
  <1>5. CASE take = c.left
    <2>1. call' = [phase |-> "host", left |-> 0, start |-> 0]
      BY <1>3, <1>5 DEF Host
    <2>2. call' \in Call /\ call'.start = 0 /\ call'.phase = "host"
      BY <2>1 DEF Call
    <2>3. call'.start <= delivered'
      BY <1>4, <2>2
    <2>4. QED
      BY <1>4, <2>2, <2>3
  <1>6. CASE take # c.left
    <2>1. call' = [c EXCEPT !.left = @ - take, !.phase = "feed"] /\ carry' = 0
      BY <1>2, <1>3, <1>6
    <2>2. c.left - take \in Nat
      BY <1>1, <1>2
    <2>3. call' \in Call /\ call'.start = c.start
      BY <2>1, <2>2 DEF Call
    <2>4. QED
      BY <1>1, <1>4, <2>1, <2>3
  <1>7. QED
    BY <1>5, <1>6

LEMMA HostCall == Host \in Call /\ Host.start = 0 /\ Host.phase = "host"
  BY DEF Host, Call

LEMMA ReadyCard ==
  ASSUME NEW t \in Nat
  PROVE  /\ Ready(t) \in Card /\ Ready(t).up /\ ~Ready(t).work /\ ~Ready(t).busy
         /\ Ready(t).heard = t
  BY DEF Ready, Card

LEMMA DownCard ==
  ASSUME NEW t \in Nat, NEW r \in Nat
  PROVE  [Down(t) EXCEPT !.upBy = r] \in Card /\ ~[Down(t) EXCEPT !.upBy = r].up
  <1>1. Ready(t) \in Card
    BY ReadyCard
  <1>2. t + BootTime \in Nat
    BY SessionAssumption
  <1>3. Down(t) \in Card
    BY <1>1, <1>2 DEF Down, Card
  <1>4. Down(t).up = FALSE
    BY <1>1 DEF Down, Card
  <1>5. QED
    BY <1>3, <1>4 DEF Card

LEMMA InitHolds == Init => IInv /\ Unaccounted \in 0..1
  <1> SUFFICES ASSUME Init PROVE IInv /\ Unaccounted \in 0..1
    OBVIOUS
  <1>1. PICK b \in BootResults(0) :
          /\ now = b.end /\ grid = Drained(0, b.end) /\ base = SampleAt(b.end)
          /\ card = Ready(b.end) /\ since = b.end
    BY DEF Init, Drained
  <1>2. b.end \in Nat
    BY Booted
  <1>3. SampleAt(b.end) \in Nat /\ SamplesBefore(b.end) \in Nat
        /\ SamplesBefore(b.end) - SampleAt(b.end) \in 0..1
    BY <1>2, Grid
  <1>4. Drained(0, b.end) \in Nat /\ Drained(0, b.end) = SamplesBefore(b.end)
    BY <1>2, <1>3, DrainedGrid
  <1>5. /\ queue = 0 /\ carry = 0 /\ marks = <<>> /\ events = <<>>
        /\ dropped = 0 /\ idle = 0 /\ delivered = 0 /\ call = Host
    BY DEF Init
  <1>6. TypeOK
    BY <1>1, <1>2, <1>3, <1>4, <1>5, HostCall, ReadyCard, NoMore DEF TypeOK, Numbers
  <1>7. Behind
    BY <1>1, <1>2, <1>3, <1>4 DEF Behind
  <1>11. Unaccounted \in 0..1
    <2>1. \A g, b1 \in Nat : g - (b1 + 0 + 0 + 0) = g - b1
      OBVIOUS
    <2>2. Unaccounted = grid - (base + 0 + 0 + 0)
      BY <1>5, Zenon DEF Unaccounted
    <2>3. QED
      BY <1>1, <1>3, <1>4, <2>1, <2>2
  <1>12. Ahead
    BY <1>11 DEF Ahead
  <1>8. Calls /\ Heard
    BY <1>1, <1>2, <1>5, HostCall, ReadyCard DEF Calls, Heard
  <1>9. Pending /\ Marked
    BY <1>5, NoMore DEF Pending, Marked
  <1>10. QED
    BY <1>6, <1>7, <1>8, <1>9, <1>11, <1>12 DEF IInv

LEMMA Places ==
  ASSUME TypeOK, NEW t \in Nat
  PROVE  /\ StreamPosition(t) \in Nat
         /\ SampleAt(t) - (base + dropped) <= StreamPosition(t)
  <1>1. SampleAt(t) - (base + dropped) \in Int
    BY Grid DEF TypeOK, Numbers
  <1>2. /\ SampleAt(t) - (base + dropped) <= Larger(SampleAt(t) - (base + dropped), 0)
        /\ Larger(SampleAt(t) - (base + dropped), 0) \in Int
        /\ 0 <= Larger(SampleAt(t) - (base + dropped), 0)
    BY <1>1, LargerOf
  <1>3. QED
    BY <1>2 DEF StreamPosition

LEMMA SameBalance ==
  ASSUME UNCHANGED <<grid, base, dropped, delivered, carry>>
  PROVE  Unaccounted' = Unaccounted
  BY DEF Unaccounted

\* While nothing is cut off, the marks stay where they are.
LEMMA MarksStay ==
  ASSUME Marked, UNCHANGED <<marks, base, dropped, since>>
  PROVE  Marked'
  BY DEF Marked, StreamPosition

LEMMA ResetHolds ==
  ASSUME IInv, ResetInstance
  PROVE  IInv' /\ (now + BootTime <= BootLimit => Unaccounted' \in 0..1)
  <1>1. TypeOK /\ Behind
    BY DEF IInv
  <1>2. PICK b \in BootResults(now) :
          /\ now' = b.end /\ since' = b.end
          /\ grid' = IF b.ok THEN Drained(grid, b.end) ELSE grid
          /\ base' = IF b.ok THEN SampleAt(b.end) ELSE base
          /\ card' = IF b.ok THEN Ready(b.end) ELSE [Down(now) EXCEPT !.upBy = b.rdy]
    BY DEF ResetInstance, Drained
  <1>3. /\ queue' = 0 /\ carry' = 0 /\ marks' = <<>> /\ events' = <<>>
        /\ dropped' = 0 /\ idle' = 0 /\ delivered' = 0 /\ call' = call /\ call = Host
    BY DEF ResetInstance
  <1>4. now \in Nat /\ grid \in Nat /\ base \in Nat /\ base <= grid
    <2>1. grid - (base + dropped + delivered + carry) >= 0
      BY DEF IInv, Ahead, Unaccounted
    <2>2. \A g, s, r, d, c \in Nat : g - (s + r + d + c) >= 0 => s <= g
      OBVIOUS
    <2>3. QED
      BY <1>1, <2>1, <2>2 DEF TypeOK, Numbers
  <1>5. b.end \in Nat /\ now <= b.end /\ b.rdy \in Nat /\ (now + BootTime <= BootLimit => b.ok)
    BY <1>4, Booted
  <1>6. /\ SampleAt(b.end) \in Nat /\ SamplesBefore(b.end) \in Nat
        /\ SamplesBefore(b.end) - SampleAt(b.end) \in 0..1
        /\ SamplesBefore(now) \in Int /\ SamplesBefore(now) <= SamplesBefore(b.end)
    <2>1. /\ SampleAt(b.end) \in Nat /\ SamplesBefore(b.end) \in Nat
          /\ SamplesBefore(b.end) - SampleAt(b.end) \in 0..1
      BY <1>5, Grid
    <2>2. SamplesBefore(now) \in Int
      BY <1>4, Grid
    <2>3. SamplesBefore(now) <= SamplesBefore(b.end)
      BY <1>4, <1>5, GridOrder
    <2>4. QED
      BY <2>1, <2>2, <2>3
  <1>7. grid <= SamplesBefore(b.end)
    BY <1>1, <1>4, <1>6 DEF Behind
  <1>8. Drained(grid, b.end) \in Nat /\ Drained(grid, b.end) = SamplesBefore(b.end)
    BY <1>4, <1>5, <1>7, DrainedGrid
  <1>9. card' \in Card /\ (card'.up => card'.heard <= now')
    <2>1. CASE b.ok
      BY <1>2, <1>5, <2>1, ReadyCard
    <2>2. CASE ~b.ok
      <3>1. card' = [Down(now) EXCEPT !.upBy = b.rdy]
        BY <1>2, <2>2
      <3>2. [Down(now) EXCEPT !.upBy = b.rdy] \in Card /\ ~[Down(now) EXCEPT !.upBy = b.rdy].up
        BY <1>4, <1>5, DownCard
      <3>3. QED
        BY <3>1, <3>2
    <2>3. QED
      BY <2>1, <2>2
  <1>10. /\ grid' \in Nat /\ base' \in Nat /\ base' <= grid' /\ grid' <= SamplesBefore(b.end)
         /\ b.ok => grid' - base' \in 0..1
    <2>1. CASE b.ok
      BY <1>2, <1>6, <1>8, <2>1
    <2>2. CASE ~b.ok
      BY <1>2, <1>4, <1>7, <2>2
    <2>3. QED
      BY <2>1, <2>2
  <1>11. TypeOK'
    BY <1>2, <1>3, <1>5, <1>9, <1>10, HostCall, NoMore DEF TypeOK, Numbers
  <1>12. Behind'
    BY <1>2, <1>5, <1>10 DEF Behind
  <1>13. Ahead' /\ (now + BootTime <= BootLimit => Unaccounted' \in 0..1)
    <2>1. dropped' = 0 /\ delivered' = 0 /\ carry' = 0
      BY <1>3
    <2>2. \A g, b1 \in Nat : g - (b1 + 0 + 0 + 0) = g - b1
      OBVIOUS
    <2>3. Unaccounted' = grid' - (base' + 0 + 0 + 0)
      BY <2>1, Zenon DEF Unaccounted
    <2>4. Unaccounted' = grid' - base'
      BY <1>10, <2>2, <2>3
    <2>5. b.ok => Unaccounted' \in 0..1
      BY <1>10, <2>4
    <2>6. \A g, b1 \in Nat : b1 <= g => g - b1 >= 0
      OBVIOUS
    <2>8. grid' - base' >= 0
      BY <1>10, <2>6, Zenon
    <2>7. QED
      BY <1>5, <2>4, <2>5, <2>8, Zenon DEF Ahead
  <1>14. Calls' /\ Heard'
    BY <1>3, <1>9, HostCall DEF Calls, Heard
  <1>15. Pending' /\ Marked'
    BY <1>3, NoMore DEF Pending, Marked
  <1>16. QED
    BY <1>11, <1>12, <1>13, <1>14, <1>15 DEF IInv

LEMMA QueueHolds ==
  ASSUME IInv, Queue
  PROVE  IInv' /\ Unaccounted' = Unaccounted
  <1>1. /\ queue \in Nat /\ MaxQueue \in Nat
        /\ \E n \in 1..(MaxQueue - queue) : queue' = queue + n
        /\ idle' = 0
        /\ UNCHANGED <<now, grid, events, card, carry, marks, base, dropped, call, delivered, since>>
    BY SessionAssumption DEF Queue, IInv, TypeOK, Numbers
  <1>2. queue' \in Nat
    BY <1>1
  <1>3. TypeOK'
    BY <1>1, <1>2 DEF IInv, TypeOK, Numbers
  <1>4. Unaccounted' = Unaccounted
    BY <1>1, SameBalance
  <1>5. Behind' /\ Calls' /\ Heard' /\ Ahead'
    BY <1>1, <1>4 DEF IInv, Behind, Calls, Heard, Ahead
  <1>6. Pending' /\ Marked'
    BY <1>1, MarksStay DEF IInv, Pending
  <1>7. QED
    BY <1>3, <1>4, <1>5, <1>6 DEF IInv

\* What is cut off is dropped to the last sample, carried ones included.
LEMMA StopHolds ==
  ASSUME IInv, Stop
  PROVE  IInv' /\ Unaccounted' = Unaccounted
  <1>1. PICK o \in Overshoots, r \in Runs(card, now, now + Chunk) :
          /\ now' = now + Chunk + o /\ since' = now + Chunk + o
          /\ grid' = Drained(grid, now + Chunk + o)
          /\ dropped' = dropped + (grid' - grid) + carry
          /\ card' = IF r.card.up THEN Ready(now + Chunk + o) ELSE r.card
    BY DEF Stop, Drained
  <1>2. /\ queue' = 0 /\ carry' = 0 /\ marks' = <<>> /\ events' = <<>> /\ idle' = 0
        /\ call' = call /\ call = Host /\ base' = base /\ delivered' = delivered
    BY DEF Stop
  <1> DEFINE u == now + Chunk + o
  <1>3. Numbers /\ card \in Card /\ Behind /\ Ahead /\ Heard
    BY DEF IInv, TypeOK
  <1>4. u \in Nat /\ now + Chunk \in Nat /\ now <= now + Chunk /\ now <= u
    BY <1>3, SessionAssumption DEF Numbers
  <1>5. r.card \in Card
    BY <1>3, <1>4, RunSays DEF Heard, Numbers
  <1> HIDE DEF u
  <1>6. /\ SamplesBefore(u) \in Nat /\ SamplesBefore(now) \in Int
        /\ SamplesBefore(now) <= SamplesBefore(u)
    BY <1>3, <1>4, Grid, GridOrder DEF Numbers
  <1>7. grid <= SamplesBefore(u)
    BY <1>3, <1>6 DEF Behind, Numbers
  <1>8. grid' \in Nat /\ grid' = SamplesBefore(u) /\ grid <= grid'
    BY <1>1, <1>3, <1>4, <1>7, DrainedGrid DEF Numbers, u
  <1>9. card' \in Card /\ (card'.up => card'.heard <= now')
    <2>1. CASE r.card.up
      BY <1>1, <1>4, <2>1, ReadyCard DEF u
    <2>2. CASE ~r.card.up
      BY <1>1, <1>5, <2>2
    <2>3. QED
      BY <2>1, <2>2
  <1>10. now' = u /\ since' = u
    BY <1>1 DEF u
  <1>11. dropped' \in Nat /\ Unaccounted' = Unaccounted
    <2>1. /\ base' = base /\ delivered' = delivered /\ carry' = 0
          /\ dropped' = dropped + (grid' - grid) + carry
      BY <1>1, <1>2
    <2>2. grid \in Nat /\ base \in Nat /\ dropped \in Nat /\ delivered \in Nat /\ carry \in Nat
      BY <1>3 DEF Numbers
    <2>3. \A h, g, b, p, d, c \in Nat :
            /\ g <= h => p + (h - g) + c \in Nat
            /\ h - (b + (p + (h - g) + c) + d + 0) = g - (b + p + d + c)
      OBVIOUS
    <2>4. dropped + (grid' - grid) + carry \in Nat
      BY <1>8, <2>2, <2>3
    <2>5. grid' - (base + (dropped + (grid' - grid) + carry) + delivered + 0)
            = grid - (base + dropped + delivered + carry)
      BY <1>8, <2>2, <2>3
    <2>6. QED
      BY <2>1, <2>4, <2>5, Zenon DEF Unaccounted
  <1>12. TypeOK'
    BY <1>2, <1>3, <1>4, <1>8, <1>9, <1>10, <1>11, HostCall, NoMore DEF TypeOK, Numbers
  <1>13. Behind' /\ Ahead'
    BY <1>3, <1>4, <1>6, <1>8, <1>10, <1>11 DEF Behind, Ahead
  <1>14. Calls' /\ Heard'
    BY <1>2, <1>3, <1>9, HostCall DEF Calls, Heard, Numbers
  <1>15. Pending' /\ Marked'
    BY <1>2, NoMore DEF Pending, Marked
  <1>16. QED
    BY <1>11, <1>12, <1>13, <1>14, <1>15 DEF IInv

LEMMA ReadMarksHolds ==
  ASSUME IInv, ReadMarks
  PROVE  IInv' /\ Unaccounted' = Unaccounted
  <1>1. PICK n \in 1..Len(marks) : marks' = SubSeq(marks, n + 1, Len(marks))
    BY DEF ReadMarks
  <1>2. UNCHANGED <<now, grid, events, card, queue, carry, base, dropped, idle, call,
                    delivered, since>>
    BY DEF ReadMarks
  <1>3. marks \in Seq(Mark)
    BY DEF IInv, TypeOK
  <1>4. /\ marks' \in Seq(Mark)
        /\ \A i \in DOMAIN marks' : i + n \in DOMAIN marks /\ marks'[i] = marks[i + n]
    BY <1>1, <1>3
  <1>5. Marked'
    BY <1>2, <1>4 DEF IInv, Marked, StreamPosition
  <1>6. TypeOK'
    BY <1>2, <1>4 DEF IInv, TypeOK, Numbers
  <1>7. Unaccounted' = Unaccounted
    BY <1>2, SameBalance
  <1>8. Behind' /\ Calls' /\ Heard' /\ Ahead' /\ Pending'
    BY <1>2, <1>7 DEF IInv, Behind, Calls, Heard, Ahead, Pending
  <1>9. QED
    BY <1>5, <1>6, <1>7, <1>8 DEF IInv

LEMMA EnterHolds ==
  ASSUME IInv, SynthEnter
  PROVE  IInv' /\ Unaccounted' = Unaccounted
  <1>1. PICK m \in Requests : Drain([phase |-> "feed", left |-> m, start |-> delivered], carry)
    BY DEF SynthEnter
  <1>2. UNCHANGED <<now, grid, events, card, queue, marks, base, dropped, idle, since>>
    BY DEF SynthEnter
  <1> DEFINE c == [phase |-> "feed", left |-> m, start |-> delivered]
  <1>3. m \in Nat /\ delivered \in Nat /\ carry \in Nat
    BY SessionAssumption DEF IInv, TypeOK, Numbers
  <1>4. c \in Call /\ c.start = delivered
    BY <1>3 DEF Call
  <1> HIDE DEF c
  <1>5. Drain(c, carry)
    BY <1>1 DEF c
  <1>6. /\ carry' \in Nat /\ delivered' \in Nat /\ call' \in Call
        /\ carry' + delivered' = carry + delivered
        /\ c.start <= delivered => call'.start <= delivered'
        /\ call'.phase # "host" => carry' = 0
    BY <1>3, <1>4, <1>5, DrainStep
  <1>7. TypeOK'
    BY <1>2, <1>6 DEF IInv, TypeOK, Numbers
  <1>8. Calls'
    BY <1>3, <1>4, <1>6 DEF Calls
  <1>9. Unaccounted' = Unaccounted /\ Ahead'
    <2>1. Numbers /\ UNCHANGED <<grid, base, dropped>>
      BY <1>2 DEF IInv, TypeOK
    <2>2. carry + (grid' - grid) = carry
      BY <2>1 DEF Numbers
    <2>3. carry' + delivered' = carry + (grid' - grid) + delivered
      BY <1>6, <2>2, Zenon
    <2>4. grid' \in Nat
      BY <2>1 DEF Numbers
    <2>5. Unaccounted' = Unaccounted
      BY <1>6, <2>1, <2>3, <2>4, Carried
    <2>6. QED
      BY <2>5 DEF IInv, Ahead
  <1>10. Behind' /\ Heard' /\ Pending' /\ Marked'
    BY <1>2, MarksStay DEF IInv, Behind, Heard, Pending
  <1>11. QED
    BY <1>7, <1>8, <1>9, <1>10 DEF IInv

LEMMA AcceptsCard ==
  ASSUME NEW c \in Card
  PROVE  /\ Accepts(c) \in Card /\ Accepts(c).work /\ Accepts(c).up = c.up
         /\ Accepts(c).busy = c.busy /\ Accepts(c).heard = c.heard
  <1>1. (IF c.work THEN c.hidden ELSE 0) \in Nat
    BY DEF Card
  <1>2. QED
    BY <1>1 DEF Accepts, Card

\* Events that come now keep to what waits: they are later than the last pull.
LEMMA EventsWait ==
  ASSUME TypeOK, Behind, Pending,
         NEW u \in Nat, NEW said \in Seq(Event), now <= u,
         \A i \in DOMAIN said : said[i].at \in now..u
  PROVE  /\ events \o said \in Seq(Event)
         /\ \A i \in DOMAIN (events \o said) :
              (events \o said)[i].at >= since /\ grid <= SamplesBefore((events \o said)[i].at)
  <1>1. events \in Seq(Event) /\ Numbers
    BY DEF TypeOK
  <1>2. \A i \in DOMAIN said : said[i].at >= since /\ grid <= SamplesBefore(said[i].at)
    <2>1. SUFFICES ASSUME NEW i \in DOMAIN said
                   PROVE  said[i].at >= since /\ grid <= SamplesBefore(said[i].at)
      OBVIOUS
    <2>2. said[i].at \in now..u
      OBVIOUS
    <2>3. said[i].at \in Nat /\ now <= said[i].at
      BY <1>1, <2>2 DEF Numbers
    <2>4. /\ SamplesBefore(now) \in Int /\ SamplesBefore(said[i].at) \in Int
          /\ SamplesBefore(now) <= SamplesBefore(said[i].at)
      <3>1. now \in Int /\ said[i].at \in Int
        BY <1>1, <2>3 DEF Numbers
      <3>2. QED
        BY <2>3, <3>1, Grid, GridOrder
    <2>5. QED
      BY <1>1, <2>3, <2>4 DEF Behind, Numbers
  <1>3. \A i \in DOMAIN (events \o said) :
           (i \in DOMAIN events /\ (events \o said)[i] = events[i])
           \/ (\E j \in DOMAIN said : (events \o said)[i] = said[j])
    <2>1. SUFFICES ASSUME NEW i \in 1..(Len(events) + Len(said))
                   PROVE (i \in DOMAIN events /\ (events \o said)[i] = events[i])
                          \/ (\E j \in DOMAIN said : (events \o said)[i] = said[j])
      BY <1>1
    <2>2. CASE i <= Len(events)
      BY <1>1, <2>2
    <2>3. CASE i > Len(events)
      <3>1. i - Len(events) \in DOMAIN said /\ (events \o said)[i] = said[i - Len(events)]
        BY <1>1, <2>3
      <3>2. QED
        BY <3>1
    <2>4. QED
      BY <2>2, <2>3, <1>1
  <1>4. events \o said \in Seq(Event)
    BY <1>1
  <1>5. QED
    BY <1>2, <1>3, <1>4 DEF Pending

LEMMA FeedByteHolds ==
  ASSUME IInv, FeedByte
  PROVE  IInv' /\ Unaccounted' = Unaccounted
  <1>0. PICK o \in Overshoots :
          \E r \in Runs(Accepts(card), now, now + FeedGap + o) :
            now' = now + FeedGap + o /\ card' = r.card /\ events' = events \o r.said
    BY DEF FeedByte
  <1>1. PICK r \in Runs(Accepts(card), now, now + FeedGap + o) :
          now' = now + FeedGap + o /\ card' = r.card /\ events' = events \o r.said
    BY <1>0
  <1>2. /\ queue > 0 /\ card.up /\ queue' = queue - 1
        /\ UNCHANGED <<grid, carry, marks, base, dropped, idle, call, delivered, since>>
    BY DEF FeedByte
  <1> DEFINE u == now + FeedGap + o
  <1>3. TypeOK /\ Numbers /\ card \in Card /\ Behind /\ Heard /\ Pending
    BY DEF IInv, TypeOK
  <1>4. u \in Nat /\ now \in Nat /\ now <= u
    BY <1>3, SessionAssumption DEF Numbers
  <1>5. /\ Accepts(card) \in Card /\ Accepts(card).work /\ Accepts(card).up
        /\ Accepts(card).heard <= now
    BY <1>2, <1>3, AcceptsCard DEF Heard
  <1> HIDE DEF u
  <1>6. r \in Runs(Accepts(card), now, u) /\ now' = u
    BY <1>1 DEF u
  <1>7. /\ r.card \in Card /\ r.said \in Seq(Event)
        /\ \A i \in DOMAIN r.said : r.said[i].at \in now..u
        /\ RanOn(Accepts(card), r.card, now, u)
    BY <1>4, <1>5, <1>6, RunSays
  <1>8. /\ events' \in Seq(Event)
        /\ \A i \in DOMAIN events' : events'[i].at >= since /\ grid <= SamplesBefore(events'[i].at)
    BY <1>1, <1>3, <1>4, <1>7, EventsWait
  <1>9. TypeOK'
    BY <1>1, <1>2, <1>3, <1>4, <1>6, <1>7, <1>8 DEF TypeOK, Numbers
  <1>10. Heard'
    BY <1>1, <1>6, <1>7 DEF Heard, RanOn
  <1>11. Behind'
    <2>1. /\ SamplesBefore(now) \in Int /\ SamplesBefore(u) \in Int
          /\ SamplesBefore(now) <= SamplesBefore(u)
      BY <1>4, Grid, GridOrder
    <2>2. QED
      BY <1>2, <1>3, <1>4, <1>6, <2>1 DEF Behind, Numbers
  <1>12. Pending' /\ Marked'
    BY <1>2, <1>8, MarksStay DEF IInv, Pending
  <1>13. Unaccounted' = Unaccounted
    BY <1>2, SameBalance
  <1>14. Calls' /\ Ahead'
    BY <1>2, <1>13 DEF IInv, Calls, Ahead
  <1>15. QED
    BY <1>9, <1>10, <1>11, <1>12, <1>13, <1>14 DEF IInv

LEMMA FeedEndHolds ==
  ASSUME IInv, FeedEnd
  PROVE  IInv' /\ Unaccounted' = Unaccounted
  <1>1. /\ call.phase = "feed" /\ call' = [call EXCEPT !.phase = "run"]
        /\ UNCHANGED <<now, grid, events, card, queue, carry, marks, base, dropped, idle,
                       delivered, since>>
    BY DEF FeedEnd
  <1>2. call \in Call /\ call.start <= delivered /\ carry = 0
    BY <1>1 DEF IInv, TypeOK, Calls
  <1>3. call' \in Call /\ call'.start = call.start
    BY <1>1, <1>2 DEF Call
  <1>4. TypeOK'
    BY <1>1, <1>3 DEF IInv, TypeOK, Numbers
  <1>5. Calls'
    BY <1>1, <1>2, <1>3 DEF Calls
  <1>6. Unaccounted' = Unaccounted
    BY <1>1, SameBalance
  <1>7. Behind' /\ Heard' /\ Ahead' /\ Pending' /\ Marked'
    BY <1>1, <1>6, MarksStay DEF IInv, Behind, Heard, Ahead, Pending
  <1>8. QED
    BY <1>4, <1>5, <1>6, <1>7 DEF IInv

LEMMA IdleHolds ==
  ASSUME IInv, SynthIdle
  PROVE  IInv' /\ Unaccounted' = Unaccounted
  <1>1. /\ call' = Host
        /\ UNCHANGED <<now, grid, events, card, queue, carry, marks, base, dropped, idle,
                       delivered, since>>
    BY DEF SynthIdle
  <1>2. TypeOK'
    BY <1>1, HostCall DEF IInv, TypeOK, Numbers
  <1>3. Calls'
    <2>1. 0 <= delivered
      BY DEF IInv, TypeOK, Numbers
    <2>2. QED
      BY <1>1, <2>1, HostCall DEF Calls
  <1>4. Unaccounted' = Unaccounted
    BY <1>1, SameBalance
  <1>5. Behind' /\ Heard' /\ Ahead' /\ Pending' /\ Marked'
    BY <1>1, <1>4, MarksStay DEF IInv, Behind, Heard, Ahead, Pending
  <1>6. QED
    BY <1>2, <1>3, <1>4, <1>5 DEF IInv

\* A mark that is placed now names its sample in the stream so far, and comes
\* no earlier than what earlier calls have delivered.
LEMMA PlacedMarks ==
  ASSUME TypeOK, Calls, Ahead, NEW evs \in Seq(Event),
         \A i \in DOMAIN evs : evs[i].at >= since /\ grid <= SamplesBefore(evs[i].at)
  PROVE  /\ Placed(evs) \in Seq(Mark)
         /\ \A i \in DOMAIN Placed(evs) :
              /\ Placed(evs)[i].at >= since
              /\ Placed(evs)[i].pos = StreamPosition(Placed(evs)[i].at)
              /\ Placed(evs)[i].pos + 1 >= Placed(evs)[i].early
  <1>1. Numbers /\ call.start \in Nat
    BY DEF TypeOK, Call
  <1>2. ASSUME NEW i \in DOMAIN evs
        PROVE  /\ evs[i].at \in Nat /\ evs[i].marker \in BOOLEAN
               /\ StreamPosition(evs[i].at) \in Nat
               /\ StreamPosition(evs[i].at) + 1 >= call.start
    <2>0. evs[i] \in Event
      OBVIOUS
    <2>1. evs[i].at \in Nat /\ evs[i].marker \in BOOLEAN
      BY <2>0 DEF Event
    <2>2. /\ StreamPosition(evs[i].at) \in Nat
          /\ SampleAt(evs[i].at) - (base + dropped) <= StreamPosition(evs[i].at)
      BY <2>1, Places
    <2>3. /\ SampleAt(evs[i].at) \in Int /\ SamplesBefore(evs[i].at) \in Int
          /\ SamplesBefore(evs[i].at) - SampleAt(evs[i].at) \in 0..1
      <3>1. evs[i].at \in Int
        BY <2>1
      <3>2. QED
        BY <3>1, Grid
    <2>4. grid <= SampleAt(evs[i].at) + 1
      BY <1>1, <2>3 DEF Numbers
    <2>5. call.start <= delivered /\ grid - (base + dropped + delivered + carry) >= 0
      BY DEF Calls, Ahead, Unaccounted
    <2>6. StreamPosition(evs[i].at) + 1 >= call.start
      BY <1>1, <2>2, <2>3, <2>4, <2>5 DEF Numbers
    <2>7. QED
      BY <2>1, <2>2, <2>6
  <1>3. DOMAIN evs = 1..Len(evs) /\ Len(evs) \in Nat
    OBVIOUS
  <1>4. \A i \in DOMAIN evs :
          /\ Placed(evs)[i] = [pos |-> StreamPosition(evs[i].at), at |-> evs[i].at,
                               marker |-> evs[i].marker, early |-> call.start]
          /\ Placed(evs)[i] \in Mark
    BY <1>1, <1>2 DEF Placed, Mark
  <1>5. Placed(evs) \in Seq(Mark) /\ DOMAIN Placed(evs) = DOMAIN evs
    <2>1. DOMAIN Placed(evs) = DOMAIN evs
      BY DEF Placed
    <2>2. Placed(evs) = [i \in 1..Len(evs) |-> Placed(evs)[i]]
      BY <1>3 DEF Placed
    <2>3. \A i \in 1..Len(evs) : Placed(evs)[i] \in Mark
      BY <1>3, <1>4
    <2>4. Placed(evs) \in [1..Len(evs) -> Mark]
      BY <2>2, <2>3
    <2>5. QED
      BY <1>3, <2>1, <2>4
  <1>6. ASSUME NEW i \in DOMAIN Placed(evs)
        PROVE  /\ Placed(evs)[i].at >= since
               /\ Placed(evs)[i].pos = StreamPosition(Placed(evs)[i].at)
               /\ Placed(evs)[i].pos + 1 >= Placed(evs)[i].early
    <2>1. i \in DOMAIN evs
      BY <1>5
    <2>2. /\ Placed(evs)[i].at = evs[i].at /\ Placed(evs)[i].early = call.start
          /\ Placed(evs)[i].pos = StreamPosition(evs[i].at)
      <3>1. Placed(evs)[i] = [pos |-> StreamPosition(evs[i].at), at |-> evs[i].at,
                              marker |-> evs[i].marker, early |-> call.start]
        BY <1>4, <2>1
      <3>2. QED
        BY <3>1
    <2>3. evs[i].at >= since /\ StreamPosition(evs[i].at) + 1 >= call.start
      BY <1>2, <2>1
    <2>4. QED
      BY <2>2, <2>3
  <1>7. QED
    BY <1>5, <1>6

\* A sequence of two keeps what both keep.
LEMMA Joined ==
  ASSUME NEW S, NEW a \in Seq(S), NEW b \in Seq(S)
  PROVE  /\ a \o b \in Seq(S)
         /\ \A i \in DOMAIN (a \o b) :
              \/ \E j \in DOMAIN a : (a \o b)[i] = a[j]
              \/ \E j \in DOMAIN b : (a \o b)[i] = b[j]
  <1>1. \A i \in 1..(Len(a) + Len(b)) :
           \/ \E j \in DOMAIN a : (a \o b)[i] = a[j]
           \/ \E j \in DOMAIN b : (a \o b)[i] = b[j]
    <2>1. TAKE i \in 1..(Len(a) + Len(b))
    <2>2. CASE i <= Len(a)
      BY <2>2
    <2>3. CASE i > Len(a)
      <3>1. i - Len(a) \in DOMAIN b /\ (a \o b)[i] = b[i - Len(a)]
        BY <2>3
      <3>2. QED
        BY <3>1
    <2>4. QED
      BY <2>2, <2>3
  <1>2. QED
    BY <1>1

LEMMA ChunkHolds ==
  ASSUME IInv, SynthChunk
  PROVE  IInv' /\ Unaccounted' = Unaccounted
  <1>1. PICK o \in Overshoots :
          \E r \in Runs(card, now, now + Chunk + o) :
            /\ now' = now + Chunk + o /\ card' = r.card
            /\ grid' = HeldBack(grid, now + Chunk + o)
            /\ marks' = marks \o Placed(events \o r.said)
            /\ Drain(call, carry + (grid' - grid))
    BY DEF SynthChunk, HeldBack
  <1> DEFINE u == now + Chunk + o
  <1>2. u = now + Chunk + o
    OBVIOUS
  <1> HIDE DEF u
  <1>3. PICK r \in Runs(card, now, u) :
          /\ now' = u /\ card' = r.card /\ grid' = HeldBack(grid, u)
          /\ marks' = marks \o Placed(events \o r.said)
          /\ Drain(call, carry + (grid' - grid))
    BY <1>1, <1>2
  <1>4. /\ idle' = (IF LooksIdle THEN idle + Chunk ELSE 0) /\ events' = <<>>
        /\ UNCHANGED <<queue, base, dropped, since>>
    BY DEF SynthChunk
  <1>5. TypeOK /\ Numbers /\ card \in Card /\ call \in Call /\ marks \in Seq(Mark)
    BY DEF IInv, TypeOK
  <1>6. Behind /\ Calls /\ Heard /\ Pending /\ Ahead /\ Marked
    BY DEF IInv
  <1>7. u \in Nat /\ now \in Nat /\ now <= u
    BY <1>2, <1>5, ConstantTypes DEF Numbers
  <1>8. /\ r.card \in Card /\ r.said \in Seq(Event)
        /\ \A i \in DOMAIN r.said : r.said[i].at \in now..u
        /\ card.up /\ card.work => RanOn(card, r.card, now, u)
        /\ card.up /\ ~card.work => r.card = card
    BY <1>5, <1>6, <1>7, RunSays DEF Heard
  <1> DEFINE evs == events \o r.said
  <1>9. /\ evs \in Seq(Event)
        /\ \A i \in DOMAIN evs : evs[i].at >= since /\ grid <= SamplesBefore(evs[i].at)
    BY <1>5, <1>6, <1>7, <1>8, EventsWait
  <1> HIDE DEF evs
  <1>10. /\ Placed(evs) \in Seq(Mark)
         /\ \A i \in DOMAIN Placed(evs) :
              /\ Placed(evs)[i].at >= since
              /\ Placed(evs)[i].pos = StreamPosition(Placed(evs)[i].at)
              /\ Placed(evs)[i].pos + 1 >= Placed(evs)[i].early
    BY <1>5, <1>6, <1>9, PlacedMarks
  <1>11. marks' = marks \o Placed(evs)
    BY <1>3 DEF evs
  <1>12. marks' \in Seq(Mark)
    BY <1>5, <1>10, <1>11
  <1>13. Marked'
    <2>1. \A i \in DOMAIN marks' : \/ \E j \in DOMAIN marks : marks'[i] = marks[j]
                                   \/ \E j \in DOMAIN Placed(evs) : marks'[i] = Placed(evs)[j]
      <3>1. Placed(evs) \in Seq(Mark) /\ marks \in Seq(Mark)
        BY <1>5, <1>10
      <3>2. \A i \in DOMAIN (marks \o Placed(evs)) :
              \/ \E j \in DOMAIN marks : (marks \o Placed(evs))[i] = marks[j]
              \/ \E j \in DOMAIN Placed(evs) : (marks \o Placed(evs))[i] = Placed(evs)[j]
        BY <3>1, Joined
      <3>3. QED
        BY <1>11, <3>2, Zenon
    <2>2. \A t : StreamPosition(t)' = StreamPosition(t)
      BY <1>4 DEF StreamPosition
    <2>3. \A i \in DOMAIN marks' : /\ marks'[i].at >= since
                                   /\ marks'[i].pos = StreamPosition(marks'[i].at)
                                   /\ marks'[i].pos + 1 >= marks'[i].early
      BY <1>6, <1>10, <2>1 DEF Marked
    <2>4. QED
      BY <1>4, <2>3 DEF Marked, StreamPosition
  <1>14. /\ SamplesBefore(now) \in Int /\ SamplesBefore(u) \in Int
         /\ SamplesBefore(now) <= SamplesBefore(u)
    BY <1>7, Grid, GridOrder
  <1>15. grid \in Nat /\ grid <= SamplesBefore(u)
    BY <1>5, <1>6, <1>14 DEF Behind, Numbers
  <1>16. grid' \in Nat /\ grid <= grid' /\ grid' <= SamplesBefore(u)
    BY <1>3, <1>7, <1>15, HeldBackGrid
  <1>17. carry + (grid' - grid) \in Nat /\ delivered \in Nat /\ carry \in Nat
    <2>1. delivered \in Nat /\ carry \in Nat /\ grid \in Nat
      BY <1>5 DEF Numbers
    <2>2. grid' \in Nat /\ grid <= grid'
      BY <1>16
    <2>3. QED
      BY <2>1, <2>2, Pulling
  <1>18. /\ carry' \in Nat /\ delivered' \in Nat /\ call' \in Call
         /\ carry' + delivered' = carry + (grid' - grid) + delivered
         /\ call.start <= delivered => call'.start <= delivered'
         /\ call'.phase # "host" => carry' = 0
    BY <1>3, <1>5, <1>17, DrainStep
  <1>19. idle' \in Nat
    <2>1. idle + Chunk \in Nat
      BY <1>5, ConstantTypes DEF Numbers
    <2>2. QED
      BY <1>4, <2>1
  <1>20. TypeOK'
    BY <1>3, <1>4, <1>5, <1>7, <1>8, <1>12, <1>16, <1>18, <1>19, NoMore DEF TypeOK, Numbers
  <1>21. Behind'
    BY <1>3, <1>4, <1>5, <1>6, <1>7, <1>16 DEF Behind, Numbers
  <1>22. Calls'
    BY <1>6, <1>18 DEF Calls
  <1>23. Heard'
    <2>1. CASE ~card.up
      <3>1. r.card.up => r.card.heard <= u
        BY <1>5, <1>7, <2>1, ComesUp, ReadyCard
      <3>2. QED
        BY <1>3, <3>1 DEF Heard
    <2>2. CASE card.up /\ card.work
      BY <1>3, <1>8, <2>2 DEF Heard, RanOn
    <2>3. CASE card.up /\ ~card.work
      <3>1. r.card = card /\ card.heard <= now /\ card.heard \in Nat
        BY <1>5, <1>6, <1>8, <2>3 DEF Heard, Card
      <3>2. QED
        BY <1>3, <1>7, <3>1 DEF Heard
    <2>4. QED
      BY <2>1, <2>2, <2>3
  <1>24. Pending'
    BY <1>4, NoMore DEF Pending
  <1>25. Unaccounted' = Unaccounted /\ Ahead'
    <2>1. carry' + delivered' = carry + (grid' - grid) + delivered /\ UNCHANGED <<base, dropped>>
      BY <1>4, <1>18
    <2>2. Unaccounted' = Unaccounted
      BY <1>5, <1>16, <1>18, <2>1, Carried
    <2>3. QED
      BY <1>6, <2>2 DEF Ahead
  <1>26. QED
    BY <1>13, <1>20, <1>21, <1>22, <1>23, <1>24, <1>25 DEF IInv

LEMMA StutterHolds ==
  ASSUME IInv, UNCHANGED vars
  PROVE  IInv' /\ Unaccounted' = Unaccounted
  <1>1. UNCHANGED <<now, grid, events, card, queue, carry, marks, base, dropped, idle,
                    call, delivered, since>>
    BY DEF vars
  <1>2. Unaccounted' = Unaccounted
    BY <1>1, SameBalance
  <1>3. TypeOK'
    BY <1>1 DEF IInv, TypeOK, Numbers
  <1>4. Behind' /\ Calls' /\ Heard' /\ Ahead' /\ Pending' /\ Marked'
    BY <1>1, <1>2, MarksStay DEF IInv, Behind, Calls, Heard, Ahead, Pending
  <1>5. QED
    BY <1>2, <1>3, <1>4 DEF IInv

LEMMA StepHolds ==
  ASSUME IInv, [Next]_vars
  PROVE  IInv' /\ (ResetInstance \/ Unaccounted' = Unaccounted)
  <1>1. CASE ResetInstance
    BY <1>1, ResetHolds
  <1>2. CASE Queue
    BY <1>2, QueueHolds
  <1>3. CASE Stop
    BY <1>3, StopHolds
  <1>4. CASE ReadMarks
    BY <1>4, ReadMarksHolds
  <1>5. CASE SynthEnter
    BY <1>5, EnterHolds
  <1>6. CASE FeedByte
    BY <1>6, FeedByteHolds
  <1>7. CASE FeedEnd
    BY <1>7, FeedEndHolds
  <1>8. CASE SynthIdle
    BY <1>8, IdleHolds
  <1>9. CASE SynthChunk
    BY <1>9, ChunkHolds
  <1>10. CASE UNCHANGED vars
    BY <1>10, StutterHolds
  <1>11. QED
    BY <1>1, <1>2, <1>3, <1>4, <1>5, <1>6, <1>7, <1>8, <1>9, <1>10 DEF Next

THEOREM Invariant == Spec => []IInv
  <1>1. Init => IInv
    BY InitHolds
  <1>2. IInv /\ [Next]_vars => IInv'
    BY StepHolds
  <1>3. QED
    BY <1>1, <1>2, PTL DEF Spec

\* No mark of cancelled speech is read, and none comes after its sample was
\* handed out by an earlier dtalk_synth call, whatever boot and dtalk_reset do.
THEOREM MarksCurrent == Spec => []MarksAreCurrent
  <1>1. IInv => MarksAreCurrent
    BY DEF IInv, Marked, MarksAreCurrent
  <1>2. QED
    BY <1>1, Invariant, PTL

-----------------------------------------------------------------------------
(* Where marks are placed.                                                 *)

Exact == Unaccounted \in 0..1

LEMMA ExactStep ==
  ASSUME IInv, Exact, [Next]_vars, [ResetsInTime]_vars
  PROVE  Exact'
  <1>1. CASE ResetInstance
    <2>1. CASE ResetsInTime
      BY <1>1, <2>1, ResetHolds DEF Exact, ResetsInTime
    <2>2. CASE UNCHANGED vars
      BY <2>2, StutterHolds DEF Exact
    <2>3. QED
      BY <2>1, <2>2
  <1>2. CASE Unaccounted' = Unaccounted
    BY <1>2 DEF Exact
  <1>3. QED
    BY <1>1, <1>2, StepHolds

LEMMA Rounding ==
  ASSUME NEW d \in 0..1, NEW x \in Int
  PROVE  Larger(x, 0) - Larger(x - d, 0) \in 0..1
  BY DEF Larger

LEMMA ExactPlaces ==
  ASSUME IInv, Exact
  PROVE  MarksArePlaced
  <1>1. SUFFICES ASSUME NEW i \in DOMAIN marks
                 PROVE  marks[i].pos - Larger(TruePosition(marks[i].at), 0) \in 0..1
    BY DEF MarksArePlaced
  <1>2. Numbers /\ marks \in Seq(Mark)
    BY DEF IInv, TypeOK
  <1>3. marks[i] \in Mark
    BY <1>2
  <1>4. marks[i].at \in Nat
    BY <1>3 DEF Mark
  <1>5. marks[i].pos = StreamPosition(marks[i].at)
    BY DEF IInv, Marked
  <1> DEFINE a == marks[i].at
             x == SampleAt(a) - (base + dropped)
  <1>6. SampleAt(a) \in Int
    <2>1. a \in Int
      BY <1>4
    <2>2. QED
      BY <2>1, Grid
  <1>7. x \in Int
    BY <1>2, <1>6 DEF Numbers
  <1>8. TruePosition(a) = x - Unaccounted
    <2>1. \A s, g, b, r, d, c \in Int :
            d + c - (g - s) = (s - (b + r)) - (g - (b + r + d + c))
      OBVIOUS
    <2>2. delivered + carry - (grid - SampleAt(a))
            = (SampleAt(a) - (base + dropped)) - (grid - (base + dropped + delivered + carry))
      BY <1>2, <1>6, <2>1 DEF Numbers
    <2>3. QED
      BY <2>2, Zenon DEF TruePosition, Unaccounted
  <1>9. StreamPosition(a) = Larger(x, 0)
    BY DEF StreamPosition
  <1> HIDE DEF x
  <1>10. Larger(x, 0) - Larger(x - Unaccounted, 0) \in 0..1
    BY <1>7, Rounding DEF Exact
  <1>11. QED
    BY <1>5, <1>8, <1>9, <1>10

\* Every mark names the sample of the delivered stream at which the firmware
\* wrote it, to within one, however often speech was cancelled, as long as no
\* reset is made that boot's limit on the machine's clock would end.
THEOREM MarksPlaced == Spec /\ [][ResetsInTime]_vars => []MarksArePlaced
  <1>1. Init => Exact
    BY InitHolds DEF Exact
  <1>2. IInv /\ Exact /\ [Next]_vars /\ [ResetsInTime]_vars => Exact'
    BY ExactStep
  <1>3. IInv /\ Exact => MarksArePlaced
    BY ExactPlaces
  <1>4. QED
    BY <1>1, <1>2, <1>3, Invariant, PTL DEF Spec

-----------------------------------------------------------------------------
(* When dtalk_synth comes back short.                                      *)

\* The card is up.  While it shows nothing, idle counts less than the time
\* since it last spoke and, if there is work, less than the time it hides it;
\* the grid has followed.
Seen ==
  /\ card.up
  /\ card.busy => card.work
  /\ ~card.busy => card.heard + idle <= now
  /\ card.work /\ ~card.busy => idle <= card.hidden /\ card.hidden <= Gap
  /\ queue > 0 => idle = 0
  /\ idle > 0 => SamplesBefore(now - Margin) <= grid

LEMMA FreshlySeen ==
  ASSUME now' \in Nat, card' = Ready(now'), idle' = 0
  PROVE  Seen'
  <1>1. /\ card'.up /\ ~card'.work /\ ~card'.busy /\ card'.heard = now'
    BY ReadyCard
  <1>2. card'.heard + idle' <= now'
    <2>1. \A x \in Nat : x + 0 <= x
      OBVIOUS
    <2>2. QED
      BY <1>1, <2>1, Zenon
  <1>3. ~(idle' > 0)
    OBVIOUS
  <1>4. QED
    BY <1>1, <1>2, <1>3 DEF Seen

LEMMA FedSeen ==
  ASSUME IInv, Seen, FeedByte
  PROVE  Seen'
  <1>0. PICK o \in Overshoots :
          \E r \in Runs(Accepts(card), now, now + FeedGap + o) :
            now' = now + FeedGap + o /\ card' = r.card
    BY DEF FeedByte
  <1>1. PICK r \in Runs(Accepts(card), now, now + FeedGap + o) :
          now' = now + FeedGap + o /\ card' = r.card
    BY <1>0
  <1> DEFINE u == now + FeedGap + o
  <1>2. Numbers /\ card \in Card /\ Heard /\ queue > 0 /\ idle' = idle
    BY DEF IInv, TypeOK, FeedByte
  <1>3. idle = 0 /\ card.up
    BY <1>2 DEF Seen
  <1>4. u \in Nat /\ now \in Nat /\ now <= u
    BY <1>2, ConstantTypes DEF Numbers
  <1>5. /\ Accepts(card) \in Card /\ Accepts(card).work /\ Accepts(card).up
        /\ Accepts(card).heard <= now
    BY <1>2, <1>3, AcceptsCard DEF Heard
  <1> HIDE DEF u
  <1>6. r \in Runs(Accepts(card), now, u) /\ now' = u
    BY <1>1 DEF u
  <1>7. r.card \in Card /\ RanOn(Accepts(card), r.card, now, u)
    BY <1>4, <1>5, <1>6, RunSays
  <1>8. /\ card'.up /\ card'.heard \in Nat /\ card'.hidden \in Nat /\ card'.heard <= now'
        /\ card'.busy => card'.work
        /\ card'.work /\ ~card'.busy => card'.hidden <= Gap
    BY <1>1, <1>6, <1>7 DEF RanOn, Card
  <1>9. idle' = 0
    BY <1>2, <1>3
  <1>10. card'.heard + idle' <= now' /\ idle' <= card'.hidden /\ ~(idle' > 0)
    BY <1>4, <1>6, <1>8, <1>9
  <1>11. QED
    BY <1>8, <1>9, <1>10 DEF Seen

LEMMA ChunkSeen ==
  ASSUME IInv, Seen, SynthChunk
  PROVE  Seen'
  <1>1. PICK o \in Overshoots :
          \E r \in Runs(card, now, now + Chunk + o) :
            /\ now' = now + Chunk + o /\ card' = r.card
            /\ grid' = HeldBack(grid, now + Chunk + o)
    BY DEF SynthChunk, HeldBack
  <1> DEFINE u == now + Chunk + o
  <1>2. u = now + Chunk + o
    OBVIOUS
  <1> HIDE DEF u
  <1>3. PICK r \in Runs(card, now, u) : now' = u /\ card' = r.card /\ grid' = HeldBack(grid, u)
    BY <1>1, <1>2
  <1>4. idle' = (IF LooksIdle THEN idle + Chunk ELSE 0) /\ queue' = queue
    BY DEF SynthChunk
  <1>5. Numbers /\ card \in Card /\ Heard /\ Behind /\ card.up
    BY DEF IInv, TypeOK, Seen
  <1>6. u \in Nat /\ now \in Nat /\ now <= u /\ idle \in Nat /\ idle + Chunk \in Nat
    BY <1>2, <1>5, ConstantTypes DEF Numbers
  <1>7. card.heard <= now /\ card.heard \in Nat /\ card.hidden \in Nat
    BY <1>5 DEF Heard, Card
  <1>8. /\ card'.up /\ card'.heard \in Nat /\ card'.hidden \in Nat /\ card'.heard <= u
        /\ card'.busy => card'.work
        /\ card'.work => card.work
        /\ ~card.busy /\ ~card'.busy => card'.heard = card.heard
        /\ card'.work /\ ~card'.busy => card'.hidden <= Gap /\ card'.hidden = card.hidden + (u - now)
    <2>1. r.card \in Card
      BY <1>5, <1>6, <1>7, RunSays
    <2>2. CASE card.work
      <3>1. RanOn(card, r.card, now, u)
        BY <1>5, <1>6, <1>7, <2>2, RunSays
      <3>2. QED
        BY <1>3, <2>1, <3>1 DEF RanOn, Card
    <2>3. CASE ~card.work
      <3>1. r.card = card
        BY <1>5, <1>6, <1>7, <2>3, RunSays
      <3>2. card.heard <= u
        BY <1>6, <1>7
      <3>3. QED
        BY <1>3, <1>5, <1>7, <2>3, <3>1, <3>2 DEF Seen
    <2>4. QED
      BY <2>2, <2>3
  <1>9. SamplesBefore(u - Margin) <= grid'
    <2>1. /\ SamplesBefore(now) \in Int /\ SamplesBefore(u) \in Int
          /\ SamplesBefore(now) <= SamplesBefore(u)
      BY <1>6, Grid, GridOrder
    <2>2. grid \in Nat /\ grid <= SamplesBefore(u)
      BY <1>5, <2>1 DEF Behind, Numbers
    <2>3. QED
      BY <1>3, <1>6, <2>2, HeldBackGrid
  <1>10. CASE LooksIdle
    <2>1. queue = 0 /\ ~card.busy /\ idle' = idle + Chunk
      BY <1>4, <1>10 DEF LooksIdle
    <2>2. card.heard + idle <= now /\ (card.work => idle <= card.hidden)
      BY <2>1 DEF Seen
    <2>3. ~card'.busy => card'.heard + idle' <= now'
      <3>1. card.heard + (idle + Chunk) <= u
        BY <1>2, <1>6, <1>7, <2>2, ConstantTypes
      <3>2. QED
        BY <1>3, <1>8, <2>1, <3>1
    <2>4. card'.work /\ ~card'.busy => idle' <= card'.hidden /\ card'.hidden <= Gap
      <3>1. card.work => idle + Chunk <= card.hidden + (u - now)
        BY <1>2, <1>6, <1>7, <2>2, ConstantTypes
      <3>2. QED
        BY <1>8, <2>1, <3>1
    <2>5. queue' > 0 => idle' = 0
      BY <1>4, <2>1
    <2>6. QED
      BY <1>3, <1>8, <1>9, <2>3, <2>4, <2>5 DEF Seen
  <1>11. CASE ~LooksIdle
    <2>1. idle' = 0
      BY <1>4, <1>11
    <2>2. card'.heard + idle' <= now' /\ idle' <= card'.hidden
      BY <1>3, <1>6, <1>8, <2>1
    <2>3. QED
      BY <1>3, <1>8, <1>9, <2>1, <2>2 DEF Seen
  <1>12. QED
    BY <1>10, <1>11

LEMMA InitSeen == Init => Seen
  <1> SUFFICES ASSUME Init PROVE Seen
    OBVIOUS
  <1>1. PICK b \in BootResults(0) : now = b.end /\ card = Ready(b.end)
    BY DEF Init
  <1>2. b.end \in Nat
    BY Booted
  <1>3. queue = 0 /\ idle = 0
    BY DEF Init
  <1>4. /\ card.up /\ ~card.work /\ ~card.busy /\ card.heard = now
    BY <1>1, <1>2, ReadyCard
  <1>5. card.heard + idle <= now /\ ~(idle > 0)
    BY <1>1, <1>2, <1>3, <1>4
  <1>6. QED
    BY <1>3, <1>4, <1>5 DEF Seen

LEMMA SeenStep ==
  ASSUME IInv, Seen, [Next]_vars, [ResetsInTime]_vars
  PROVE  Seen'
  <1>0. Numbers /\ card \in Card /\ Heard /\ card.up
    BY DEF IInv, TypeOK, Seen
  <1>1. CASE ResetInstance /\ ResetsInTime
    <2>1. PICK b \in BootResults(now) :
            now' = b.end /\ card' = IF b.ok THEN Ready(b.end) ELSE [Down(now) EXCEPT !.upBy = b.rdy]
      BY <1>1 DEF ResetInstance
    <2>2. now + BootTime <= BootLimit /\ now \in Nat
      BY <1>0, <1>1 DEF ResetsInTime, Numbers
    <2>3. b.ok /\ b.end \in Nat
      BY <2>2, Booted
    <2>4. card' = Ready(now') /\ now' \in Nat
      BY <2>1, <2>3
    <2>5. idle' = 0
      BY <1>1 DEF ResetInstance
    <2>6. QED
      BY <2>4, <2>5, FreshlySeen
  <1>2. CASE Queue
    <2>1. /\ idle' = 0 /\ UNCHANGED <<now, grid, card>>
      BY <1>2 DEF Queue
    <2>2. card.heard \in Nat /\ card.hidden \in Nat /\ card.heard <= now /\ now \in Nat
      BY <1>0 DEF Card, Heard, Numbers
    <2>3. card.heard + idle' <= now /\ idle' <= card.hidden /\ ~(idle' > 0)
      BY <2>1, <2>2
    <2>4. QED
      BY <2>1, <2>3 DEF Seen
  <1>3. CASE Stop
    <2>1. PICK o \in Overshoots, r \in Runs(card, now, now + Chunk) :
            /\ now' = now + Chunk + o
            /\ card' = IF r.card.up THEN Ready(now + Chunk + o) ELSE r.card
      BY <1>3 DEF Stop
    <2>2. now \in Nat /\ now + Chunk \in Nat /\ now <= now + Chunk /\ now' \in Nat
      BY <1>0, <2>1, ConstantTypes DEF Numbers
    <2>3. r.card.up
      BY <1>0, <2>2, RunSays DEF Heard, RanOn
    <2>4. card' = Ready(now')
      BY <2>1, <2>3
    <2>5. idle' = 0
      BY <1>3 DEF Stop
    <2>6. QED
      BY <2>2, <2>4, <2>5, FreshlySeen
  <1>4. CASE UNCHANGED <<now, grid, card, queue, idle>>
    BY <1>4 DEF Seen
  <1>5. CASE FeedByte
    BY <1>5, FedSeen
  <1>6. CASE SynthChunk
    BY <1>6, ChunkSeen
  <1>7. ReadMarks \/ SynthEnter \/ FeedEnd \/ SynthIdle \/ UNCHANGED vars
          => UNCHANGED <<now, grid, card, queue, idle>>
    BY DEF ReadMarks, SynthEnter, FeedEnd, SynthIdle, vars
  <1>8. QED
    BY <1>1, <1>2, <1>3, <1>4, <1>5, <1>6, <1>7 DEF Next

LEMMA SeenDone ==
  ASSUME IInv, Seen, SynthIdle
  PROVE  queue = 0 /\ ~card.work /\ carry = 0 /\ SamplesBefore(card.heard) <= grid
  <1>1. call.phase = "run" /\ queue = 0 /\ ~card.busy /\ idle >= Settle
    BY DEF SynthIdle, LooksIdle
  <1>2. Numbers /\ card \in Card /\ carry = 0
    BY <1>1 DEF IInv, TypeOK, Calls
  <1>3. /\ card.heard \in Nat /\ card.hidden \in Nat /\ now \in Nat /\ idle \in Nat /\ grid \in Nat
    BY <1>2 DEF Card, Numbers
  <1>4. /\ Settle \in Nat \ {0} /\ Margin \in Nat /\ Gap \in Nat /\ Gap < Settle /\ Margin <= Settle
    BY ConstantTypes, SettleAssumption
  <1>5. ~card.work
    <2>1. SUFFICES ASSUME card.work PROVE FALSE
      OBVIOUS
    <2>2. idle <= card.hidden /\ card.hidden <= Gap
      BY <1>1, <2>1 DEF Seen
    <2>3. QED
      BY <1>1, <1>3, <1>4, <2>2
  <1>6. SamplesBefore(card.heard) <= grid
    <2>1. card.heard + idle <= now
      BY <1>1 DEF Seen
    <2>2. idle > 0
      BY <1>1, <1>3, <1>4
    <2>3. SamplesBefore(now - Margin) <= grid
      BY <2>2 DEF Seen
    <2>4. card.heard \in Int /\ now - Margin \in Int /\ card.heard <= now - Margin
      BY <1>1, <1>3, <1>4, <2>1
    <2>5. /\ SamplesBefore(card.heard) <= SamplesBefore(now - Margin)
          /\ SamplesBefore(card.heard) \in Int /\ SamplesBefore(now - Margin) \in Int
      BY <2>4, Grid, GridOrder
    <2>6. QED
      BY <1>3, <2>3, <2>5
  <1>7. QED
    BY <1>1, <1>2, <1>5, <1>6

\* dtalk_synth comes back short only when nothing is queued, the card has no
\* work, and the last sample of the speech has been handed out.
THEOREM ShortIsDone == Spec /\ [][ResetsInTime]_vars => ShortMeansDone
  <1>1. Init => Seen
    BY InitSeen
  <1>2. IInv /\ Seen /\ [Next]_vars /\ [ResetsInTime]_vars => Seen'
    BY SeenStep
  <1>3. IInv /\ Seen => [SynthIdle => /\ queue = 0 /\ ~card.work /\ carry = 0
                                      /\ SamplesBefore(card.heard) <= grid]_vars
    BY SeenDone
  <1>4. QED
    BY <1>1, <1>2, <1>3, Invariant, PTL DEF Spec, ShortMeansDone
=============================================================================
