----------------------------- MODULE RateTable -----------------------------
(***************************************************************************)
(* The rate boost of an instance (dtalk.cpp, apply_rate_boost): the period *)
(* words of the firmware's rate table are rewritten in the RAM copy of the *)
(* ROM, always from a snapshot of the stock words.                         *)
(***************************************************************************)
EXTENDS Integers

WordMax == 65535
Word == 0..WordMax
Byte == 0..255

CONSTANTS
  Entries,   \* the rate region of the table, RATE_REGION_LO..RATE_REGION_HI
  Images,    \* the period words a ROM image may hold there
  Requests   \* levels a host asks for, in range or not

ASSUME RateTableAssumption ==
  /\ Entries # {}
  /\ Images \subseteq [Entries -> Word]
  /\ Requests \subseteq Int

VARIABLES
  stock,     \* the words of the image loaded
  rom,       \* the words in the RAM copy: low and high byte
  orig,      \* rate_orig, when rate_saved; no words before
  boost      \* rate_boost

vars == <<stock, rom, orig, boost>>

RATE_BOOST_MAX == 2
Levels == 0..RATE_BOOST_MAX

\* Mutant of RATE_BOOST_PCT: of the speed, not of the period.
RATE_BOOST_PCTOfSpeed == [l \in Levels |-> IF l = 0 THEN 100 ELSE IF l = 1 THEN 114 ELSE 125]

RATE_BOOST_PCT == [l \in Levels |-> IF l = 0 THEN 100 ELSE IF l = 1 THEN 88 ELSE 80]

NotSaved == [e \in {} |-> 0]

\* A word as rom_poke leaves it, and as rom_peek reads it back.
Split(w) == [lo |-> w % 256, hi |-> (w \div 256) % 256]
Joined(b) == b.lo + 256 * b.hi

ClampedLevel(l) == IF l < 0 THEN 0 ELSE IF l > RATE_BOOST_MAX THEN RATE_BOOST_MAX ELSE l

\* The least of the words (stock_min), when there are any.
Floors(words) == {m \in {words[e] : e \in Entries} : \A e \in Entries : m <= words[e]}

\* Mutant of Scaled: not held at the floor.
ScaledThrough(w, l, floor) == (w * RATE_BOOST_PCT[l]) \div 100

Scaled(w, l, floor) ==
  LET s == (w * RATE_BOOST_PCT[l]) \div 100
  IN  IF s < floor THEN floor ELSE s

-----------------------------------------------------------------------------
Init == /\ stock \in Images
        /\ rom = [e \in Entries |-> Split(stock[e])]
        /\ orig = NotSaved
        /\ boost = 0

Words == [e \in Entries |-> Joined(rom[e])]

\* dtalk_create, after load_rom.
SaveRateTable == orig = NotSaved /\ orig' = Words /\ UNCHANGED <<stock, rom, boost>>

\* dtalk_set_rate_boost
SetRateBoost(l) ==
  /\ orig # NotSaved
  /\ \E m \in Floors(orig) :
       rom' = [e \in Entries |-> Split(Scaled(orig[e], ClampedLevel(l), m))]
  /\ boost' = ClampedLevel(l)
  /\ UNCHANGED <<stock, orig>>

Next == SaveRateTable \/ \E l \in Requests : SetRateBoost(l)

Spec == Init /\ [][Next]_vars

-----------------------------------------------------------------------------
(* Properties.                                                             *)

\* Type invariant: whole bytes in the table, a snapshot of words or none.
TypeOK == /\ stock \in Images
          /\ rom \in [Entries -> [lo : Byte, hi : Byte]]
          /\ orig \in [Entries -> Word] \cup {NotSaved}
          /\ boost \in Levels

\* Level 0 is authentic (dtalk.h): whatever levels were set before, the stock
\* words are back bit for bit; boosts do not compound (save_rate_table).
AuthenticAtZero == boost = 0 => Words = stock

\* The truncation fix (apply_rate_boost): the firmware never sees a period
\* below the least one it handles natively, and none above the stock one.
FloorKept == /\ \A e \in Entries : Words[e] <= stock[e]
             /\ \A m \in Floors(stock), e \in Entries : m <= Words[e]

\* Every nS the host may still send stays monotonic: no boost turns two speeds
\* around.
SpeedsInOrder == \A e, f \in Entries : stock[e] <= stock[f] => Words[e] <= Words[f]

\* Higher levels are faster, from whatever level the host comes.
HigherIsFaster ==
  [][boost' >= boost => \A e \in Entries : Words'[e] <= Words[e]]_vars
=============================================================================
