------------------------ MODULE NvdaSettings_proofs ------------------------
(***************************************************************************)
(* The rate table, then the settings of the NVDA driver that boosts it.    *)
(*                                                                         *)
(* For every table and every sequence of levels: the table in memory is    *)
(* the stock one scaled once, by the level that is set.  From that, and    *)
(* what scaling does to one word, follow the promises of RateTable.        *)
(*                                                                         *)
(* For every set of voices, settings and profiles: the card speaks a text  *)
(* with the settings the sliders showed, a voice shows through, a profile  *)
(* that is restored wins, and the driver keeps the promises of the table.  *)
(***************************************************************************)
EXTENDS NvdaSettings, SequenceTheorems, FiniteSetTheorems, TLAPS

-----------------------------------------------------------------------------
(* The rate table.                                                         *)

Authentic == boost = 0 /\ rom = [e \in Entries |-> Split(stock[e])]
Stretched(m) == rom = [e \in Entries |-> Split(Scaled(stock[e], boost, m))]

ScaledOnce == Authentic \/ \E m \in Floors(stock) : Stretched(m)

IInv ==
  /\ TypeOK
  /\ ScaledOnce
  /\ orig = NotSaved => Authentic
  /\ orig # NotSaved => orig = stock

LEMMA WordMaxInt == WordMax \in Int
  BY DEF WordMax

LEMMA WordFits == ASSUME NEW w \in Word PROVE w \in Int /\ 0 <= w /\ w <= WordMax
  BY WordMaxInt DEF Word

LEMMA FitsWord == ASSUME NEW w \in Int, 0 <= w, w <= WordMax PROVE w \in Word
  BY WordMaxInt DEF Word

\* A word survives being cut into bytes.
LEMMA Bytes ==
  ASSUME NEW w \in Word
  PROVE  Split(w) \in [lo : Byte, hi : Byte] /\ Joined(Split(w)) = w
<1>0. w \in Int /\ 0 <= w /\ w <= 65535
  BY WordFits DEF WordMax
<1>1. w \div 256 \in Int /\ 0 <= w \div 256 /\ w \div 256 <= 255
  BY <1>0
<1>2. w % 256 \in 0..255
  BY <1>0
<1>3. w = (w % 256) + 256 * (w \div 256)
  BY <1>0
<1>4. \A h \in Int : 0 <= h /\ h <= 255 => h % 256 = h
  OBVIOUS
<1>5. (w \div 256) % 256 = w \div 256
  BY <1>1, <1>4
<1>6. w \div 256 \in Byte /\ w % 256 \in Byte
  BY <1>1, <1>2 DEF Byte
<1>7. Split(w) = [lo |-> w % 256, hi |-> w \div 256]
  BY <1>5 DEF Split
<1> QED
  BY <1>3, <1>6, <1>7 DEF Joined

\* A word scaled, before it is held at the floor.
Cut(w, l) == (w * RATE_BOOST_PCT[l]) \div 100

LEMMA CutLevels ==
  ASSUME NEW w \in Int
  PROVE  /\ Cut(w, 0) = w
         /\ Cut(w, 1) = (w * 88) \div 100
         /\ Cut(w, 2) = (w * 80) \div 100
<1>1. RATE_BOOST_PCT[0] = 100 /\ RATE_BOOST_PCT[1] = 88 /\ RATE_BOOST_PCT[2] = 80
  BY DEF RATE_BOOST_PCT, Levels, RATE_BOOST_MAX
<1>2. (w * 100) \div 100 = w
  OBVIOUS
<1> QED
  BY <1>1, <1>2 DEF Cut

LEMMA CutBounds ==
  ASSUME NEW w \in Int, 0 <= w, NEW l \in Levels
  PROVE  Cut(w, l) \in Int /\ 0 <= Cut(w, l) /\ Cut(w, l) <= w
<1>1. (w * 88) \div 100 \in Int /\ 0 <= (w * 88) \div 100 /\ (w * 88) \div 100 <= w
  OBVIOUS
<1>2. (w * 80) \div 100 \in Int /\ 0 <= (w * 80) \div 100 /\ (w * 80) \div 100 <= w
  OBVIOUS
<1>3. l = 0 \/ l = 1 \/ l = 2
  BY DEF Levels, RATE_BOOST_MAX
<1> QED
  BY <1>1, <1>2, <1>3, CutLevels

LEMMA CutMonotonic ==
  ASSUME NEW w \in Int, NEW v \in Int, w <= v, NEW l \in Levels
  PROVE  Cut(w, l) <= Cut(v, l)
<1>1. (w * 88) \div 100 <= (v * 88) \div 100
  OBVIOUS
<1>2. (w * 80) \div 100 <= (v * 80) \div 100
  OBVIOUS
<1>3. l = 0 \/ l = 1 \/ l = 2
  BY DEF Levels, RATE_BOOST_MAX
<1> QED
  BY <1>1, <1>2, <1>3, CutLevels

LEMMA CutAntitonic ==
  ASSUME NEW w \in Int, 0 <= w, NEW k \in Levels, NEW l \in Levels, k <= l
  PROVE  Cut(w, l) <= Cut(w, k)
<1>1. (w * 88) \div 100 <= w /\ (w * 80) \div 100 <= (w * 88) \div 100 /\ (w * 80) \div 100 <= w
  OBVIOUS
<1>2. (w * 88) \div 100 \in Int /\ (w * 80) \div 100 \in Int
  OBVIOUS
<1>3. (k = 0 \/ k = 1 \/ k = 2) /\ (l = 0 \/ l = 1 \/ l = 2)
  BY DEF Levels, RATE_BOOST_MAX
<1> QED
  BY <1>1, <1>2, <1>3, CutLevels

\* One word: scaling stays between the floor and the stock word, keeps the
\* order of words, gains with the level and does nothing at level 0.
LEMMA ScaledWord ==
  ASSUME NEW m \in Word, NEW w \in Word, m <= w, NEW l \in Levels
  PROVE  /\ Scaled(w, l, m) \in Word
         /\ m <= Scaled(w, l, m) /\ Scaled(w, l, m) <= w
         /\ Scaled(w, 0, m) = w
         /\ \A v \in Word : w <= v => Scaled(w, l, m) <= Scaled(v, l, m)
         /\ \A k \in Levels : k <= l => Scaled(w, l, m) <= Scaled(w, k, m)
<1>1. \A v \in Word : v \in Int /\ 0 <= v /\ v <= WordMax
  BY WordFits
<1>2. 0 \in Levels
  BY DEF Levels, RATE_BOOST_MAX
<1>3. \A v, k : Scaled(v, k, m) = IF Cut(v, k) < m THEN m ELSE Cut(v, k)
  BY DEF Scaled, Cut
<1>4. Cut(w, l) \in Int /\ 0 <= Cut(w, l) /\ Cut(w, l) <= w
  BY <1>1, CutBounds
<1>5. /\ Scaled(w, l, m) \in Int
      /\ m <= Scaled(w, l, m) /\ Scaled(w, l, m) <= w
  BY <1>1, <1>3, <1>4
<1>6. Scaled(w, l, m) \in Word
  BY <1>1, <1>5, WordMaxInt, FitsWord
<1>7. Scaled(w, 0, m) = w
  BY <1>1, <1>3, CutLevels
<1>8. ASSUME NEW v \in Word, w <= v PROVE Scaled(w, l, m) <= Scaled(v, l, m)
  <2>1. Cut(w, l) <= Cut(v, l)
    BY <1>1, <1>8, CutMonotonic
  <2>2. Cut(v, l) \in Int
    BY <1>1, CutBounds
  <2> QED
    BY <1>1, <1>3, <1>4, <2>1, <2>2
<1>9. ASSUME NEW k \in Levels, k <= l PROVE Scaled(w, l, m) <= Scaled(w, k, m)
  <2>1. Cut(w, l) <= Cut(w, k)
    BY <1>1, <1>9, CutAntitonic
  <2>2. Cut(w, k) \in Int
    BY <1>1, CutBounds
  <2> QED
    BY <1>1, <1>3, <1>4, <2>1, <2>2
<1> QED
  BY <1>5, <1>6, <1>7, <1>8, <1>9

\* The words of an image, and the least of them.
LEMMA ImageWords ==
  ASSUME TypeOK
  PROVE  /\ \A e \in Entries : stock[e] \in Word
         /\ \A m \in Floors(stock) : m \in Word /\ \A e \in Entries : m <= stock[e]
         /\ \A m, n \in Floors(stock) : m = n
<1>1. stock \in [Entries -> Word]
  BY RateTableAssumption DEF TypeOK
<1>2. ASSUME NEW w \in Word PROVE w \in Int
  BY WordFits
<1>3. ASSUME NEW m \in Floors(stock)
      PROVE  /\ m \in Word /\ m \in Int
             /\ \A e \in Entries : m <= stock[e]
             /\ \E e \in Entries : m = stock[e]
  BY <1>1, <1>2 DEF Floors
<1>4. ASSUME NEW m \in Floors(stock), NEW n \in Floors(stock) PROVE m = n
  BY <1>3
<1> QED
  BY <1>1, <1>3, <1>4

\* What the table holds.
LEMMA BoostedWords ==
  ASSUME TypeOK, NEW m \in Floors(stock), Stretched(m)
  PROVE  Words = [e \in Entries |-> Scaled(stock[e], boost, m)]
<1>1. \A e \in Entries : Scaled(stock[e], boost, m) \in Word
  BY ImageWords, ScaledWord DEF TypeOK
<1>2. \A e \in Entries : Joined(rom[e]) = Scaled(stock[e], boost, m)
  BY <1>1, Bytes DEF Stretched
<1> QED
  BY <1>2 DEF Words

LEMMA AuthenticWords ==
  ASSUME TypeOK, Authentic
  PROVE  Words = stock
<1>1. \A e \in Entries : Joined(rom[e]) = stock[e]
  BY ImageWords, Bytes DEF Authentic
<1>2. stock = [e \in Entries |-> stock[e]]
  BY RateTableAssumption DEF TypeOK
<1> QED
  BY <1>1, <1>2 DEF Words

LEMMA InitInv == Init => IInv
<1> SUFFICES ASSUME Init PROVE IInv
  OBVIOUS
<1>1. stock \in [Entries -> Word]
  BY RateTableAssumption DEF Init
<1>2. rom \in [Entries -> [lo : Byte, hi : Byte]]
  BY <1>1, Bytes DEF Init
<1> QED
  BY <1>2 DEF Init, IInv, TypeOK, ScaledOnce, Authentic, Levels, RATE_BOOST_MAX

LEMMA BoostStep ==
  ASSUME IInv, NEW l \in Requests, SetRateBoost(l)
  PROVE  /\ boost' = ClampedLevel(l) /\ boost' \in Levels
         /\ stock' = stock /\ orig' = orig /\ orig # NotSaved
         /\ \E m \in Floors(stock) : Stretched(m)'
<1>1. orig = stock
  BY DEF SetRateBoost, IInv
<1>2. ClampedLevel(l) \in Levels
  BY RateTableAssumption DEF ClampedLevel, Levels, RATE_BOOST_MAX
<1> QED
  BY <1>1, <1>2 DEF SetRateBoost, Stretched

LEMMA StepInv == IInv /\ [Next]_vars => IInv'
<1> SUFFICES ASSUME IInv, [Next]_vars PROVE IInv'
  OBVIOUS
<1>0. stock \in [Entries -> Word]
  BY RateTableAssumption DEF IInv, TypeOK
<1>1. CASE SaveRateTable
  <2>1. Authentic
    BY <1>1 DEF SaveRateTable, IInv
  <2>2. orig' = stock
    BY <1>1, <2>1, AuthenticWords DEF SaveRateTable, IInv
  <2>3. Authentic' /\ stock' = stock
    BY <1>1, <2>1 DEF SaveRateTable, Authentic
  <2>4. TypeOK'
    BY <1>0, <1>1, <2>2 DEF SaveRateTable, IInv, TypeOK
  <2> QED
    BY <2>2, <2>3, <2>4 DEF IInv, ScaledOnce
<1>2. ASSUME NEW l \in Requests, SetRateBoost(l) PROVE IInv'
  <2>1. /\ boost' = ClampedLevel(l) /\ boost' \in Levels
        /\ stock' = stock /\ orig' = orig /\ orig # NotSaved
    BY <1>2, BoostStep
  <2>2. PICK m \in Floors(stock) : Stretched(m)'
    BY <1>2, BoostStep
  <2>3. \A e \in Entries : Split(Scaled(stock[e], boost', m)) \in [lo : Byte, hi : Byte]
    BY <2>1, ImageWords, ScaledWord, Bytes DEF IInv
  <2>4. rom' = [e \in Entries |-> Split(Scaled(stock[e], boost', m))]
    BY <2>1, <2>2 DEF Stretched
  <2>5. TypeOK'
    BY <2>1, <2>3, <2>4 DEF TypeOK, IInv
  <2>6. ScaledOnce'
    BY <2>1, <2>2 DEF ScaledOnce
  <2> QED
    BY <2>1, <2>5, <2>6 DEF IInv
<1>3. CASE UNCHANGED vars
  <2>1. /\ TypeOK' = TypeOK /\ ScaledOnce' = ScaledOnce /\ Authentic' = Authentic
        /\ orig' = orig /\ stock' = stock
    BY <1>3 DEF TypeOK, ScaledOnce, Authentic, Stretched, vars
  <2> QED
    BY <2>1 DEF IInv
<1> QED
  BY <1>1, <1>2, <1>3 DEF Next

LEMMA InvImplies == IInv => AuthenticAtZero /\ FloorKept /\ SpeedsInOrder
<1> SUFFICES ASSUME IInv PROVE AuthenticAtZero /\ FloorKept /\ SpeedsInOrder
  OBVIOUS
<1>0. TypeOK /\ boost \in Levels
  BY DEF IInv, TypeOK
<1>1. CASE Authentic
  <2>1. Words = stock
    BY <1>0, <1>1, AuthenticWords
  <2> QED
    BY <1>0, <2>1, ImageWords, WordFits DEF AuthenticAtZero, FloorKept, SpeedsInOrder
<1>2. ASSUME NEW m \in Floors(stock), Stretched(m)
      PROVE  AuthenticAtZero /\ FloorKept /\ SpeedsInOrder
  <2>1. Words = [e \in Entries |-> Scaled(stock[e], boost, m)]
    BY <1>0, <1>2, BoostedWords
  <2>2. m \in Word /\ \A e \in Entries : stock[e] \in Word /\ m <= stock[e]
    BY <1>0, ImageWords
  <2>3. stock = [e \in Entries |-> stock[e]]
    BY <1>0, RateTableAssumption DEF TypeOK
  <2>4. AuthenticAtZero
    <3> SUFFICES ASSUME boost = 0 PROVE Words = stock
      BY DEF AuthenticAtZero
    <3>1. \A e \in Entries : Scaled(stock[e], boost, m) = stock[e]
      BY <1>0, <2>2, ScaledWord
    <3> QED
      BY <2>1, <2>3, <3>1
  <2>5. FloorKept
    BY <1>0, <2>1, <2>2, ImageWords, ScaledWord DEF FloorKept
  <2>6. SpeedsInOrder
    BY <1>0, <2>1, <2>2, ScaledWord DEF SpeedsInOrder
  <2> QED
    BY <2>4, <2>5, <2>6
<1> QED
  BY <1>1, <1>2 DEF IInv, ScaledOnce

LEMMA Invariance == Spec => []IInv
BY InitInv, StepInv, PTL DEF Spec

\* Whatever levels were asked for, the table is the stock one at level 0, and
\* at every level between the firmware's floor and the stock words, in their
\* order.
THEOREM BoostIsSafe == Spec => [](TypeOK /\ AuthenticAtZero /\ FloorKept /\ SpeedsInOrder)
<1>1. IInv => TypeOK /\ AuthenticAtZero /\ FloorKept /\ SpeedsInOrder
  BY InvImplies DEF IInv
<1> QED
  BY <1>1, Invariance, PTL

LEMMA StepFaster ==
  IInv /\ IInv' /\ [Next]_vars =>
    [boost' >= boost => \A e \in Entries : Words'[e] <= Words[e]]_vars
<1> SUFFICES ASSUME IInv, IInv', Next, boost' >= boost, NEW e \in Entries
             PROVE  Words'[e] <= Words[e]
  OBVIOUS
<1>0. TypeOK /\ TypeOK' /\ boost \in Levels
  BY DEF IInv, TypeOK
<1>1. CASE SaveRateTable
  <2>1. Words' = Words
    BY <1>1 DEF SaveRateTable, Words
  <2>2. Authentic
    BY <1>1 DEF SaveRateTable, IInv
  <2>3. Words = stock
    BY <1>0, <2>2, AuthenticWords
  <2> QED
    BY <1>0, <2>1, <2>3, ImageWords, WordFits
<1>2. ASSUME NEW l \in Requests, SetRateBoost(l) PROVE Words'[e] <= Words[e]
  <2>1. boost' \in Levels /\ stock' = stock
    BY <1>2, BoostStep
  <2>2. PICK m \in Floors(stock) : Stretched(m)'
    BY <1>2, BoostStep
  <2>3. \A f \in Entries : Scaled(stock[f], boost', m) \in Word
    BY <1>0, <2>1, ImageWords, ScaledWord
  <2>4. rom' = [f \in Entries |-> Split(Scaled(stock[f], boost', m))]
    BY <2>1, <2>2 DEF Stretched
  <2>5. Joined(rom'[e]) = Scaled(stock[e], boost', m)
    BY <2>3, <2>4, Bytes
  <2>6. Words'[e] = Scaled(stock[e], boost', m)
    BY <2>5 DEF Words
  <2>7. m \in Word /\ stock[e] \in Word /\ m <= stock[e]
    BY <1>0, ImageWords
  <2>8. CASE Authentic
    BY <1>0, <2>1, <2>6, <2>7, <2>8, AuthenticWords, ScaledWord
  <2>9. ASSUME NEW n \in Floors(stock), Stretched(n) PROVE Words'[e] <= Words[e]
    <3>1. n = m
      BY <1>0, ImageWords
    <3>2. Words[e] = Scaled(stock[e], boost, m)
      BY <1>0, <2>9, <3>1, BoostedWords
    <3> QED
      BY <1>0, <2>1, <2>6, <2>7, <3>2, ScaledWord DEF Levels
  <2> QED
    BY <2>8, <2>9 DEF IInv, ScaledOnce
<1> QED
  BY <1>1, <1>2 DEF Next

\* A higher level never lengthens a period, from whatever level the host comes.
THEOREM BoostIsMonotonic == Spec => HigherIsFaster
BY Invariance, StepFaster, PTL DEF Spec, HigherIsFaster

-----------------------------------------------------------------------------
(* The driver and the table.                                               *)

BoostShown == rateBoost \in BOOLEAN /\ boost = IF rateBoost THEN RATE_BOOST_MAX ELSE 0

LEMMA BoostedSteps ==
  ASSUME BoostShown, NEW b \in BOOLEAN, Boosted(b)
  PROVE  /\ Next \/ UNCHANGED vars
         /\ boost' = IF b THEN RATE_BOOST_MAX ELSE 0
         /\ BoostShown'
  <1>1. CASE b = rateBoost
    BY <1>1 DEF Boosted, BoostShown, table, vars
  <1>2. CASE b # rateBoost
    <2> DEFINE l == IF b THEN RATE_BOOST_MAX ELSE 0
    <2>1. l \in Requests /\ ClampedLevel(l) = l
      BY SettingsAssumption DEF ClampedLevel, RATE_BOOST_MAX
    <2>2. SetRateBoost(l) /\ rateBoost' = b
      BY <1>2 DEF Boosted
    <2>3. boost' = l
      BY <2>1, <2>2 DEF SetRateBoost
    <2>4. QED
      BY <2>1, <2>2, <2>3 DEF Next, BoostShown
  <1>3. QED
    BY <1>1, <1>2

LEMMA DriverInitTable == DriverInit => Init /\ BoostShown
  BY DEF DriverInit, Init, BoostShown

\* Whatever the driver does to the table is a step of the host that RateTable
\* allows, and its check box tells whether the instance is boosted.
LEMMA DriverStepTable ==
  ASSUME BoostShown, [DriverNext]_driverVars
  PROVE  [Next]_vars /\ BoostShown'
  <1>1. CASE Open
    BY <1>1 DEF Open, Next, BoostShown, SaveRateTable
  <1>2. ASSUME NEW b \in BOOLEAN, SetBoost(b) PROVE [Next]_vars /\ BoostShown'
    BY <1>2, BoostedSteps DEF SetBoost
  <1>3. ASSUME NEW p \in Profiles, NEW o \in BOOLEAN, LoadSettings(p, o)
        PROVE  [Next]_vars /\ BoostShown'
    BY <1>3, BoostedSteps, SettingsAssumption DEF LoadSettings
  <1>4. CASE UNCHANGED <<table, rateBoost>>
    BY <1>4 DEF BoostShown, table, vars
  <1>5. QED
    BY <1>1, <1>2, <1>3, <1>4 DEF DriverNext, driverVars, SetVoice, SetSlider, Speak, Cancel,
       CardTakes

\* The driver keeps the promises of the rate table: it is one of the hosts that
\* RateTable speaks of.
THEOREM DriverBoosts == DriverSpec => Spec /\ []FloorKept /\ HigherIsFaster
  <1>1. DriverSpec => Spec
    BY DriverInitTable, DriverStepTable, PTL DEF DriverSpec, Spec
  <1>2. QED
    BY <1>1, BoostIsSafe, BoostIsMonotonic, PTL

\* A restored profile wins over the presets of its voice and over what the
\* driver showed before, and the instance is boosted as the profile says.
THEOREM ProfileWins == DriverSpec => RestoreWins
  <1>1. ASSUME BoostShown, NEW p \in Profiles, NEW o \in BOOLEAN, LoadSettings(p, o)
        PROVE  /\ \A s \in Settings : slider'[s] = Clamped(s, p.slider[s])
               /\ boost' = IF p.boost THEN RATE_BOOST_MAX ELSE 0
    <2>1. boost' = IF p.boost THEN RATE_BOOST_MAX ELSE 0
      BY <1>1, BoostedSteps, SettingsAssumption DEF LoadSettings
    <2>2. \A s \in Settings : AfterVoice(p.voice, TRUE)[s] = slider[s]
      BY DEF AfterVoice
    <2>3. QED
      BY <1>1, <2>1, <2>2 DEF LoadSettings
  <1>2. BoostShown /\ [DriverNext]_driverVars => BoostShown'
    BY DriverStepTable
  <1>3. DriverInit => BoostShown
    BY DriverInitTable
  <1>4. BoostShown => [\A p \in Profiles, o \in BOOLEAN : LoadSettings(p, o) =>
            /\ \A s \in Settings : slider'[s] = Clamped(s, p.slider[s])
            /\ boost' = IF p.boost THEN RATE_BOOST_MAX ELSE 0]_driverVars
    BY <1>1
  <1>5. QED
    BY <1>2, <1>3, <1>4, PTL DEF DriverSpec, RestoreWins

-----------------------------------------------------------------------------
(* Presets.                                                                *)

LEMMA PresetValues ==
  ASSUME NEW v \in 0..7, NEW s \in Linked
  PROVE  /\ s = "pitch" => Preset(v, s) \in {30, 40, 50, 60}
         /\ s # "pitch" => Preset(v, s) \in 0..9
  <1>1. v + 1 \in {1, 2, 3, 4, 5, 6, 7, 8}
    OBVIOUS
  <1>2. s \in {"pitch", "articulation", "formant", "tone", "expression", "reverb"}
    BY SettingsAssumption
  <1> DEFINE n == v + 1
  <1> HIDE DEF n
  <1>3. n \in {1, 2, 3, 4, 5, 6, 7, 8}
    BY <1>1 DEF n
  <1>4. PresetRow["pitch"][n] \in {30, 40, 50, 60}
    BY <1>3 DEF PresetRow
  <1>5. PresetRow["articulation"][n] \in 0..9 /\ PresetRow["formant"][n] \in 0..9
    BY <1>3 DEF PresetRow
  <1>6. PresetRow["tone"][n] \in 0..9 /\ PresetRow["expression"][n] \in 0..9
    BY <1>3 DEF PresetRow
  <1>7. PresetRow["reverb"][n] \in 0..9
    BY <1>3 DEF PresetRow
  <1>8. Preset(v, s) = PresetRow[s][n]
    BY DEF Preset, n
  <1>9. QED
    BY <1>2, <1>4, <1>5, <1>6, <1>7, <1>8

\* What the slider shows of a preset goes back to the card unchanged.
LEMMA RoundTrip ==
  ASSUME NEW v \in 0..7, NEW s \in Linked
  PROVE  ToCard(s, ToSlider(s, Preset(v, s))) = Preset(v, s)
  <1>1. \A n \in {30, 40, 50, 60} : Round(Round(n * 100, 99) * 99, 100) = n
    BY DEF Round
  <1>2. \A n \in 0..9 : Bounded(0, 9, ((n + 1) * 10) \div 10 - 1) = n
    BY DEF Bounded
  <1>3. CASE s = "pitch"
    BY <1>1, <1>3, PresetValues DEF ToCard, ToSlider
  <1>4. CASE s = "tone"
    BY <1>4 DEF ToCard, ToSlider
  <1>5. CASE s \notin {"pitch", "tone"}
    BY <1>2, <1>5, PresetValues DEF ToCard, ToSlider
  <1>6. QED
    BY <1>3, <1>4, <1>5

\* A voice the user picks comes through untouched: right after the change the
\* prefix overrides none of its presets.
THEOREM PresetsShowThrough == DriverSpec => VoiceShowsThrough
  <1>1. ASSUME NEW v \in Voices, SetVoice(v) PROVE Linked \cap Sent' = {}
    <2>1. v \in 0..7 /\ Linked \cap Global = {}
      BY SettingsAssumption
    <2>2. ASSUME NEW s \in Linked PROVE ToCard(s, slider'[s]) = Preset(v, s)
      BY <1>1, <2>1, RoundTrip DEF SetVoice, AfterVoice, Settings
    <2>3. Sent' = {s \in Linked : ToCard(s, slider'[s]) # Preset(voice', s)} \cup Global
      BY DEF Sent, ToCard, Preset
    <2>4. voice' = v
      BY <1>1 DEF SetVoice
    <2>5. QED
      BY <2>1, <2>2, <2>3, <2>4
  <1>2. [DriverNext]_driverVars
          => [\A v \in Voices : SetVoice(v) => Linked \cap Sent' = {}]_driverVars
    BY <1>1
  <1>3. QED
    BY <1>2, PTL DEF DriverSpec, VoiceShowsThrough

-----------------------------------------------------------------------------
(* What a text is spoken with.  A card's settings are read one aspect at a *)
(* time: the voice, the way numbers are read, and every slider.            *)

Aspects == Settings \cup {"voice", "numbers"}

Cards == [voice : Voices, numbers : BOOLEAN, at : [Settings -> Int]]

Shows(c, x) == IF x = "voice" THEN c.voice ELSE
               IF x = "numbers" THEN c.numbers ELSE c.at[x]

Commands == {VoiceCmd(v) : v \in Voices} \cup {NumberMode}
            \cup {SetCmd(s, n) : s \in Settings, n \in Int}
Messages == Commands \cup {Text(w) : w \in Cards}

\* The command m changes aspect x, to Brings(m, x).
Sets(m, x)   == \/ m.is = "voice" /\ x \in Linked \cup {"voice"}
                \/ m.is = "set" /\ x = m.setting
                \/ m.is = "numbers" /\ x = "numbers"
Brings(m, x) == CASE m.is = "voice" -> IF x = "voice" THEN m.to ELSE Preset(m.to, x)
                  [] m.is = "set"   -> m.to
                  [] OTHER          -> TRUE

\* Between the positions j and i of s no command gives aspect x another value.
Holds(s, j, i, x, n) ==
  \A k \in 1..Len(s) : j < k /\ k < i /\ Sets(s[k], x) => Brings(s[k], x) = n

\* A command of s at j, before i, gives x the value n, and the ones after leave
\* it at that.
Anchored(s, i, x, n) ==
  \E j \in 1..Len(s) : j < i /\ Sets(s[j], x) /\ Brings(s[j], x) = n /\ Holds(s, j, i, x, n)

\* A card c that obeys s shows n as aspect x when it comes to position i.
Settled(c, s, i, x, n) ==
  Anchored(s, i, x, n) \/ (Shows(c, x) = n /\ Holds(s, 0, i, x, n))

\* Every text of t is spoken as meant, whatever the card was set to before t.
SelfContained(t) ==
  /\ t \in Seq(Messages)
  /\ \A i \in 1..Len(t) : t[i].is = "text" =>
       \A x \in Aspects : Anchored(t, i, x, Shows(t[i].want, x))

Heard ==
  \A i \in 1..Len(stream) : stream[i].is = "text" =>
    \A x \in Aspects : Settled(card, stream, i, x, Shows(stream[i].want, x))

SettingsInv ==
  /\ voice \in Voices /\ slider \in [Settings -> Int]
  /\ stream \in Seq(Messages) /\ card \in Cards
  /\ Heard

LEMMA NamesDiffer == "voice" \notin Settings /\ "numbers" \notin Settings
  BY SettingsAssumption DEF Settings

LEMMA PresetInt == ASSUME NEW v \in Voices, NEW s \in Linked PROVE Preset(v, s) \in Int
  BY PresetValues, SettingsAssumption

LEMMA SameCard ==
  ASSUME NEW c \in Cards, NEW d \in Cards, \A x \in Aspects : Shows(c, x) = Shows(d, x)
  PROVE  c = d
  <1>1. c.voice = d.voice /\ c.numbers = d.numbers
    BY DEF Aspects, Shows
  <1>2. \A s \in Settings : c.at[s] = d.at[s]
    BY NamesDiffer DEF Aspects, Shows
  <1>3. c.at = d.at
    BY <1>2 DEF Cards
  <1>4. QED
    BY <1>1, <1>3 DEF Cards

\* A card that obeys a message shows what it brings, and the rest as before.
LEMMA ObeyShows ==
  ASSUME NEW c \in Cards, NEW m \in Messages
  PROVE  /\ Obey(c, m) \in Cards
         /\ \A x \in Aspects :
              Shows(Obey(c, m), x) = IF Sets(m, x) THEN Brings(m, x) ELSE Shows(c, x)
  <1>1. CASE m \in {VoiceCmd(v) : v \in Voices}
    <2>1. PICK v \in Voices : m = VoiceCmd(v)
      BY <1>1
    <2> DEFINE at == [s \in Settings |-> IF s \in Linked THEN Preset(v, s) ELSE c.at[s]]
    <2>2. Obey(c, m) = [voice |-> v, numbers |-> c.numbers, at |-> at]
      BY <2>1 DEF Obey, VoiceCmd, Cards
    <2>3. at \in [Settings -> Int]
      BY PresetInt DEF Cards
    <2>4. Obey(c, m) \in Cards
      BY <2>2, <2>3 DEF Cards
    <2>5. QED
      BY <2>1, <2>2, <2>4, NamesDiffer
         DEF Shows, Sets, Brings, Aspects, Settings, VoiceCmd
  <1>2. CASE m \in {SetCmd(s, n) : s \in Settings, n \in Int}
    <2>1. PICK s \in Settings, n \in Int : m = SetCmd(s, n)
      BY <1>2
    <2>2. Obey(c, m) = [voice |-> c.voice, numbers |-> c.numbers, at |-> [c.at EXCEPT ![s] = n]]
      BY <2>1 DEF Obey, SetCmd, Cards
    <2>3. Obey(c, m) \in Cards
      BY <2>2 DEF Cards
    <2>4. QED
      BY <2>1, <2>2, <2>3, NamesDiffer
         DEF Shows, Sets, Brings, Aspects, SetCmd, Cards
  <1>3. CASE m = NumberMode
    <2>1. Obey(c, m) = [voice |-> c.voice, numbers |-> TRUE, at |-> c.at]
      BY <1>3 DEF Obey, NumberMode, Cards
    <2>2. Obey(c, m) \in Cards
      BY <2>1 DEF Cards
    <2>3. \A x \in Aspects : Sets(m, x) <=> x = "numbers"
      BY <1>3 DEF Sets, NumberMode
    <2>4. \A x \in Aspects : Brings(m, x) = TRUE
      BY <1>3 DEF Brings, NumberMode
    <2> DEFINE d == Obey(c, m)
    <2>5. d.voice = c.voice /\ d.numbers = TRUE /\ d.at = c.at
      BY <2>1
    <2> HIDE DEF d
    <2>6. ASSUME NEW x \in Aspects
          PROVE  Shows(d, x) = IF Sets(m, x) THEN Brings(m, x) ELSE Shows(c, x)
      <3>1. CASE x = "numbers"
        <4>1. Shows(d, x) = d.numbers
          BY <3>1 DEF Shows
        <4>2. QED
          BY <2>3, <2>4, <2>5, <3>1, <4>1
      <3>2. CASE x # "numbers"
        BY <2>3, <2>5, <3>2 DEF Shows
      <3>3. QED
        BY <3>1, <3>2
    <2>7. QED
      BY <2>2, <2>6 DEF d
  <1>4. CASE m \in {Text(w) : w \in Cards}
    <2>1. m.is = "text"
      BY <1>4 DEF Text
    <2>2. QED
      BY <2>1 DEF Obey, Sets
  <1>5. QED
    BY <1>1, <1>2, <1>3, <1>4 DEF Messages, Commands

\* What was settled stays so while the card takes the messages one by one.
LEMMA TakenSettled ==
  ASSUME NEW c \in Cards, NEW s \in Seq(Messages), s # <<>>,
         NEW i \in 1..Len(Tail(s)), NEW x \in Aspects, NEW n, Settled(c, s, i + 1, x, n)
  PROVE  Settled(Obey(c, Head(s)), Tail(s), i, x, n)
  <1> DEFINE d == Obey(c, Head(s))
             t == Tail(s)
  <1>1. /\ Head(s) = s[1] /\ s[1] \in Messages /\ Len(s) \in Nat /\ Len(s) > 0
        /\ Len(t) = Len(s) - 1
        /\ \A k \in 1..Len(t) : t[k] = s[k + 1]
    BY HeadTailProperties, EmptySeq, LenProperties, ElementOfSeq
  <1>2. Shows(d, x) = IF Sets(s[1], x) THEN Brings(s[1], x) ELSE Shows(c, x)
    BY <1>1, ObeyShows
  <1> HIDE DEF d, t
  <1>3. \A j \in 1..Len(s) : Holds(s, j, i + 1, x, n) => Holds(t, j - 1, i, x, n)
    BY <1>1 DEF Holds
  <1>4. Holds(s, 0, i + 1, x, n) => Holds(t, 0, i, x, n)
    BY <1>1 DEF Holds
  <1>5. CASE Shows(c, x) = n /\ Holds(s, 0, i + 1, x, n)
    <2>1. Sets(s[1], x) => Brings(s[1], x) = n
      BY <1>1, <1>5 DEF Holds, t
    <2>2. QED
      BY <1>2, <1>4, <1>5, <2>1 DEF Settled, d, t
  <1>6. CASE Anchored(s, i + 1, x, n)
    <2>1. PICK j \in 1..Len(s) : j < i + 1 /\ Sets(s[j], x) /\ Brings(s[j], x) = n
                                 /\ Holds(s, j, i + 1, x, n)
      BY <1>6 DEF Anchored
    <2>2. CASE j = 1
      BY <1>2, <1>3, <2>1, <2>2 DEF Settled, d, t
    <2>3. CASE j # 1
      <3>1. j - 1 \in 1..Len(t) /\ t[j - 1] = s[j] /\ j - 1 < i
        BY <1>1, <2>1, <2>3 DEF t
      <3>2. QED
        BY <1>3, <2>1, <3>1 DEF Settled, Anchored, t
    <2>4. QED
      BY <2>2, <2>3
  <1>7. QED
    BY <1>5, <1>6 DEF Settled

\* The same seen from an utterance put at the end of the stream.
LEMMA FirstPart ==
  ASSUME NEW s \in Seq(Messages), NEW t \in Seq(Messages), NEW i \in 1..(Len(s) + 1),
         NEW j \in 0..Len(s), NEW x \in Aspects, NEW n, Holds(s, j, i, x, n)
  PROVE  Holds(s \o t, j, i, x, n)
  <1> DEFINE st == s \o t
  <1>1. Len(s) \in Nat /\ i \in Nat /\ i <= Len(s) + 1
    BY LenProperties
  <1>2. \A k \in 1..Len(s) : st[k] = s[k]
    BY ConcatProperties
  <1> HIDE DEF st
  <1>3. ASSUME NEW k \in 1..Len(st), j < k, k < i, Sets(st[k], x)
        PROVE  Brings(st[k], x) = n
    <2>1. k \in 1..Len(s)
      BY <1>1, <1>3
    <2>2. QED
      BY <1>2, <1>3, <2>1 DEF Holds
  <1>4. Holds(st, j, i, x, n)
    BY <1>3 DEF Holds
  <1>5. QED
    BY <1>4 DEF st

LEMMA FirstAnchored ==
  ASSUME NEW s \in Seq(Messages), NEW t \in Seq(Messages), NEW i \in 1..(Len(s) + 1),
         NEW x \in Aspects, NEW n, Anchored(s, i, x, n)
  PROVE  Anchored(s \o t, i, x, n)
  <1>1. PICK j \in 1..Len(s) : j < i /\ Sets(s[j], x) /\ Brings(s[j], x) = n
                               /\ Holds(s, j, i, x, n)
    BY DEF Anchored
  <1>2. Holds(s \o t, j, i, x, n)
    BY <1>1, FirstPart
  <1>3. j \in 1..Len(s \o t) /\ (s \o t)[j] = s[j]
    BY ConcatProperties, LenProperties
  <1>4. QED
    BY <1>1, <1>2, <1>3 DEF Anchored

LEMMA LastAnchored ==
  ASSUME NEW s \in Seq(Messages), NEW t \in Seq(Messages), NEW i \in 1..Len(t),
         NEW x \in Aspects, NEW n, Anchored(t, i, x, n)
  PROVE  Anchored(s \o t, Len(s) + i, x, n)
  <1>1. PICK j \in 1..Len(t) : j < i /\ Sets(t[j], x) /\ Brings(t[j], x) = n
                               /\ Holds(t, j, i, x, n)
    BY DEF Anchored
  <1>2. Len(s) \in Nat /\ Len(t) \in Nat /\ Len(s \o t) = Len(s) + Len(t)
    BY ConcatProperties, LenProperties
  <1>3. \A k \in 1..Len(t) : (s \o t)[Len(s) + k] = t[k]
    BY <1>2, ConcatProperties
  <1>4. ASSUME NEW k \in 1..Len(s \o t), Len(s) + j < k, k < Len(s) + i, Sets((s \o t)[k], x)
        PROVE  Brings((s \o t)[k], x) = n
    <2>1. k - Len(s) \in 1..Len(t) /\ (s \o t)[k] = t[k - Len(s)]
      BY <1>2, <1>4, ConcatProperties
    <2>2. j < k - Len(s) /\ k - Len(s) < i
      BY <1>2, <1>4
    <2>3. QED
      BY <1>1, <1>4, <2>1, <2>2 DEF Holds
  <1>5. Holds(s \o t, Len(s) + j, Len(s) + i, x, n)
    BY <1>4 DEF Holds
  <1>6. Len(s) + j \in 1..Len(s \o t) /\ Len(s) + j < Len(s) + i
    BY <1>1, <1>2
  <1>7. QED
    BY <1>1, <1>3, <1>5, <1>6 DEF Anchored

LEMMA Joined2Contained ==
  ASSUME NEW s, NEW t, SelfContained(s), SelfContained(t)
  PROVE  SelfContained(s \o t)
  <1>1. s \in Seq(Messages) /\ t \in Seq(Messages) /\ Len(s) \in Nat /\ Len(t) \in Nat
    BY LenProperties DEF SelfContained
  <1>2. s \o t \in Seq(Messages) /\ Len(s \o t) = Len(s) + Len(t)
    BY <1>1, ConcatProperties
  <1>3. ASSUME NEW i \in 1..Len(s \o t), (s \o t)[i].is = "text", NEW x \in Aspects
        PROVE  Anchored(s \o t, i, x, Shows((s \o t)[i].want, x))
    <2>1. CASE i <= Len(s)
      <3>1. i \in 1..Len(s) /\ (s \o t)[i] = s[i]
        BY <1>1, <1>2, <2>1, ConcatProperties
      <3>2. QED
        BY <1>1, <1>3, <3>1, FirstAnchored DEF SelfContained
    <2>2. CASE i > Len(s)
      <3> DEFINE k == i - Len(s)
      <3>1. k \in 1..Len(t) /\ (s \o t)[i] = t[k] /\ i = Len(s) + k
        BY <1>1, <1>2, <2>2, ConcatProperties
      <3> HIDE DEF k
      <3>2. Anchored(t, k, x, Shows(t[k].want, x))
        BY <1>3, <3>1 DEF SelfContained
      <3>3. QED
        BY <1>1, <3>1, <3>2, LastAnchored
    <2>3. QED
      BY <1>1, <1>2, <2>1, <2>2
  <1>4. QED
    BY <1>2, <1>3 DEF SelfContained

\* A self-contained utterance at the end of the stream disturbs no text before
\* it, and no message before it disturbs its own.
LEMMA AppendedHeard ==
  ASSUME stream \in Seq(Messages), Heard, NEW t, SelfContained(t), stream' = stream \o t,
         card' = card
  PROVE  stream' \in Seq(Messages) /\ Heard'
  <1>1. t \in Seq(Messages) /\ Len(stream) \in Nat /\ Len(t) \in Nat
    BY LenProperties DEF SelfContained
  <1>2. stream \o t \in Seq(Messages) /\ Len(stream \o t) = Len(stream) + Len(t)
    BY <1>1, ConcatProperties
  <1>3. ASSUME NEW i \in 1..Len(stream \o t), (stream \o t)[i].is = "text", NEW x \in Aspects
        PROVE  Settled(card, stream \o t, i, x, Shows((stream \o t)[i].want, x))
    <2>1. CASE i <= Len(stream)
      <3>1. i \in 1..Len(stream) /\ (stream \o t)[i] = stream[i] /\ 0 \in 0..Len(stream)
        BY <1>1, <1>2, <2>1, ConcatProperties
      <3>2. Settled(card, stream, i, x, Shows(stream[i].want, x))
        BY <1>3, <3>1 DEF Heard
      <3>3. QED
        BY <1>1, <3>1, <3>2, FirstAnchored, FirstPart DEF Settled
    <2>2. CASE i > Len(stream)
      <3> DEFINE k == i - Len(stream)
      <3>1. k \in 1..Len(t) /\ (stream \o t)[i] = t[k] /\ i = Len(stream) + k
        BY <1>1, <1>2, <2>2, ConcatProperties
      <3> HIDE DEF k
      <3>2. Anchored(t, k, x, Shows(t[k].want, x))
        BY <1>3, <3>1 DEF SelfContained
      <3>3. QED
        BY <1>1, <3>1, <3>2, LastAnchored DEF Settled
    <2>3. QED
      BY <1>1, <1>2, <2>1, <2>2
  <1>4. Heard'
    BY <1>3 DEF Heard
  <1>5. QED
    BY <1>2, <1>4

-----------------------------------------------------------------------------
(* The prefix.                                                             *)

\* A finite set put in a sequence: every element has a position.
LEMMA SetToSeqCovers ==
  ASSUME NEW S, IsFiniteSet(S)
  PROVE  /\ SetToSeq(S) \in Seq(S)
         /\ \A e \in S : \E k \in 1..Len(SetToSeq(S)) : SetToSeq(S)[k] = e
  <1> DEFINE n == Cardinality(S)
             f == SetToSeq(S)
  <1>1. n \in Nat /\ ExistsBijection(1..n, S)
    BY FS_CardinalityType
  <1>2. PICK g \in [1..n -> S] : IsInjective(g)
    BY <1>1 DEF ExistsBijection, Bijection, Injection
  <1>3. f \in [1..n -> S] /\ IsInjective(f)
    BY <1>2 DEF SetToSeq
  <1> HIDE DEF f
  <1>4. f \in Seq(S) /\ Len(f) = n
    BY <1>1, <1>3
  <1>5. Cardinality(1..n) = n
    BY <1>1, FS_Interval
  <1>6. f \in Surjection(1..n, S)
    BY <1>3, <1>5, FS_Injection DEF Injection
  <1>7. QED
    BY <1>4, <1>6 DEF f, Surjection

LEMMA FewSettings == IsFiniteSet(Settings)
  <1> DEFINE names == <<"pitch", "articulation", "formant", "tone", "expression", "reverb",
                        "rate", "volume">>
  <1>1. PICK n \in Int : n = 8
    OBVIOUS
  <1>2. IsFiniteSet(1..n)
    BY FS_Interval
  <1> DEFINE All == {names[i] : i \in 1..n}
             f   == [i \in 1..n |-> names[i]]
  <1>3. f \in Surjection(1..n, All)
    BY DEF Surjection
  <1>4. IsFiniteSet(All)
    BY <1>2, <1>3, FS_Surjection
  <1>5. All = {"pitch", "articulation", "formant", "tone", "expression", "reverb",
               "rate", "volume"}
    BY <1>1
  <1>6. Settings \in SUBSET All
    BY <1>5, SettingsAssumption DEF Settings
  <1>7. QED
    BY <1>4, <1>6, FS_Subset

LEMMA CardInt == ASSUME NEW s \in Settings, NEW x \in Int PROVE ToCard(s, x) \in Int
  BY DEF ToCard, Round, Bounded

Moved == {SetCmd(s, ToCard(s, slider[s])) : s \in Sent}

LEMMA MovedListed ==
  /\ SetToSeq(Moved) \in Seq(Moved)
  /\ \A s \in Sent : \E k \in 1..Len(SetToSeq(Moved)) :
       SetToSeq(Moved)[k] = SetCmd(s, ToCard(s, slider[s]))
  <1> DEFINE f == [s \in Sent |-> SetCmd(s, ToCard(s, slider[s]))]
  <1>1. IsFiniteSet(Sent)
    BY FewSettings, FS_Subset DEF Sent, Settings
  <1>2. f \in Surjection(Sent, Moved)
    BY DEF Surjection, Moved
  <1>3. IsFiniteSet(Moved)
    BY <1>1, <1>2, FS_Surjection
  <1>4. QED
    BY <1>3, SetToSeqCovers DEF Moved

\* What the prefix consists of.
LEMMA PrefixParts ==
  ASSUME voice \in Voices, slider \in [Settings -> Int]
  PROVE  /\ Prefix \in Seq(Commands)
         /\ Len(Prefix) \in Nat /\ Len(Prefix) >= 2
         /\ Prefix[1] = VoiceCmd(voice) /\ Prefix[2] = NumberMode
         /\ \A k \in 3..Len(Prefix) : Prefix[k] \in Moved
         /\ \A s \in Sent : \E k \in 3..Len(Prefix) : Prefix[k] = SetCmd(s, ToCard(s, slider[s]))
  <1> DEFINE t == SetToSeq(Moved)
             h == <<VoiceCmd(voice), NumberMode>>
  <1>1. Moved \subseteq Commands
    BY CardInt DEF Moved, Commands, Sent, Settings
  <1>2. t \in Seq(Moved) /\ t \in Seq(Commands) /\ Len(t) \in Nat
    BY <1>1, MovedListed, SeqMonotonic, LenProperties
  <1>3. h \in Seq(Commands) /\ Len(h) = 2 /\ h[1] = VoiceCmd(voice) /\ h[2] = NumberMode
    BY DEF Commands
  <1>4. Prefix = h \o t
    BY DEF Prefix, Moved
  <1>5. \A k \in 1..Len(t) : t[k] \in Moved
    BY <1>2, ElementOfSeq
  <1>6. \A s \in Sent : \E k \in 1..Len(t) : t[k] = SetCmd(s, ToCard(s, slider[s]))
    BY MovedListed
  <1> HIDE DEF h, t
  <1>7. /\ Prefix \in Seq(Commands) /\ Len(Prefix) = Len(h) + Len(t)
        /\ \A i \in 1..(Len(h) + Len(t)) : Prefix[i] = IF i <= Len(h) THEN h[i] ELSE t[i - Len(h)]
    BY <1>2, <1>3, <1>4, ConcatProperties
  <1> HIDE DEF Prefix
  <1>8. \A k \in 1..Len(t) : k + 2 \in 3..Len(Prefix) /\ Prefix[k + 2] = t[k]
    BY <1>2, <1>3, <1>7
  <1>9. \A k \in 3..Len(Prefix) : k - 2 \in 1..Len(t) /\ Prefix[k] = t[k - 2]
    BY <1>2, <1>3, <1>7
  <1>10. Prefix[1] = h[1] /\ Prefix[2] = h[2] /\ Len(Prefix) \in Nat /\ Len(Prefix) >= 2
    BY <1>2, <1>3, <1>7
  <1>11. \A k \in 3..Len(Prefix) : Prefix[k] \in Moved
    BY <1>5, <1>9
  <1>12. \A s \in Sent : \E k \in 3..Len(Prefix) : Prefix[k] = SetCmd(s, ToCard(s, slider[s]))
    BY <1>6, <1>8
  <1>13. QED
    BY <1>3, <1>7, <1>10, <1>11, <1>12

LEMMA MovedSets ==
  ASSUME NEW m \in Moved, NEW x, Sets(m, x)
  PROVE  x \in Sent /\ Brings(m, x) = ToCard(x, slider[x])
  <1>1. PICK s \in Sent : m = SetCmd(s, ToCard(s, slider[s]))
    BY DEF Moved
  <1>2. m.is = "set" /\ m.setting = s /\ m.to = ToCard(s, slider[s])
    BY <1>1 DEF SetCmd
  <1>3. x = s
    BY <1>2 DEF Sets
  <1>4. QED
    BY <1>2, <1>3 DEF Brings

LEMMA VoiceSets ==
  ASSUME NEW v
  PROVE  /\ \A x : Sets(VoiceCmd(v), x) <=> x \in Linked \cup {"voice"}
         /\ Brings(VoiceCmd(v), "voice") = v
         /\ \A x \in Linked : Brings(VoiceCmd(v), x) = Preset(v, x)
  BY NamesDiffer DEF VoiceCmd, Sets, Brings, Settings

LEMMA NumbersSet ==
  /\ \A x : Sets(NumberMode, x) <=> x = "numbers"
  /\ \A x : Brings(NumberMode, x) = TRUE
  BY DEF NumberMode, Sets, Brings

LEMMA ShownAspects ==
  /\ Shows(Shown, "voice") = voice
  /\ Shows(Shown, "numbers") = TRUE
  /\ \A s \in Settings : Shows(Shown, s) = ToCard(s, slider[s])
  <1>1. Shown.voice = voice /\ Shown.numbers = TRUE
    BY DEF Shown
  <1>2. \A s \in Settings : Shown.at[s] = ToCard(s, slider[s])
    BY DEF Shown
  <1>3. QED
    BY <1>1, <1>2, NamesDiffer DEF Shows

\* The prefix leaves any card as the sliders show it: what it does not send is
\* what the voice has preset.
LEMMA PrefixAnchored ==
  ASSUME voice \in Voices, slider \in [Settings -> Int], NEW x \in Aspects
  PROVE  Anchored(Prefix, Len(Prefix) + 1, x, Shows(Shown, x))
  <1> DEFINE n == Shows(Shown, x)
             p == Prefix
  <1>1. /\ Len(p) \in Nat /\ Len(p) >= 2 /\ p[1] = VoiceCmd(voice) /\ p[2] = NumberMode
        /\ \A k \in 3..Len(p) : p[k] \in Moved
        /\ \A s \in Sent : \E k \in 3..Len(p) : p[k] = SetCmd(s, ToCard(s, slider[s]))
    BY PrefixParts
  <1>2. Sent \subseteq Settings /\ Linked \subseteq Settings
    BY DEF Sent, Settings
  <1> HIDE DEF p, n
  <1>3. ASSUME NEW k \in 2..Len(p), Sets(p[k], x) PROVE Brings(p[k], x) = n
    <2>1. CASE k = 2
      <3>1. x = "numbers" /\ Brings(p[k], x) = TRUE
        BY <1>1, <1>3, <2>1, NumbersSet
      <3>2. QED
        BY <3>1, ShownAspects DEF n
    <2>2. CASE k # 2
      <3>1. p[k] \in Moved
        BY <1>1, <2>2
      <3>2. x \in Sent /\ Brings(p[k], x) = ToCard(x, slider[x])
        BY <1>3, <3>1, MovedSets
      <3>3. QED
        BY <1>2, <3>2, ShownAspects DEF n
    <2>3. QED
      BY <2>1, <2>2
  <1>4. \E j \in 1..Len(p) : Sets(p[j], x) /\ Brings(p[j], x) = n
    <2>1. CASE x = "voice"
      <3>1. Sets(p[1], x) /\ Brings(p[1], x) = n
        BY <1>1, <2>1, VoiceSets, ShownAspects DEF n
      <3>2. QED
        BY <1>1, <3>1
    <2>2. CASE x = "numbers"
      <3>1. Sets(p[2], x)
        BY <1>1, <2>2, NumbersSet
      <3>2. Brings(p[2], x) = n
        BY <1>1, <2>2, NumbersSet, ShownAspects DEF n
      <3>3. 2 \in 1..Len(p)
        BY <1>1
      <3>4. QED
        BY <3>1, <3>2, <3>3
    <2>3. CASE x \in Sent
      <3>1. PICK k \in 3..Len(p) : p[k] = SetCmd(x, ToCard(x, slider[x]))
        BY <1>1, <2>3
      <3>2. Sets(p[k], x) /\ Brings(p[k], x) = ToCard(x, slider[x])
        BY <3>1 DEF Sets, Brings, SetCmd
      <3>3. QED
        BY <1>1, <1>2, <2>3, <3>2, ShownAspects DEF n
    <2>4. CASE x \in Linked \ Sent
      <3>1. Sets(p[1], x) /\ Brings(p[1], x) = Preset(voice, x)
        BY <1>1, <2>4, VoiceSets
      <3>2. ToCard(x, slider[x]) = Preset(voice, x)
        BY <2>4 DEF Sent
      <3>3. QED
        BY <1>1, <1>2, <2>4, <3>1, <3>2, ShownAspects DEF n
    <2>5. QED
      BY <2>1, <2>2, <2>3, <2>4 DEF Aspects, Settings, Sent
  <1>5. PICK j \in 1..Len(p) : Sets(p[j], x) /\ Brings(p[j], x) = n
    BY <1>4
  <1>6. Holds(p, j, Len(p) + 1, x, n)
    BY <1>1, <1>3 DEF Holds
  <1>7. j < Len(p) + 1
    BY <1>1
  <1>8. QED
    BY <1>5, <1>6, <1>7 DEF Anchored, n, p

\* One message further on.
LEMMA AnchoredNext ==
  ASSUME NEW s \in Seq(Messages), NEW i \in 1..Len(s), NEW x, NEW n,
         Sets(s[i], x) => Brings(s[i], x) = n,
         Sets(s[i], x) \/ Anchored(s, i, x, n)
  PROVE  Anchored(s, i + 1, x, n)
  <1>1. Len(s) \in Nat
    BY LenProperties
  <1>2. CASE Sets(s[i], x)
    <2>1. Holds(s, i, i + 1, x, n)
      BY <1>1 DEF Holds
    <2>2. QED
      BY <1>1, <1>2, <2>1 DEF Anchored
  <1>3. CASE Anchored(s, i, x, n)
    <2>1. PICK j \in 1..Len(s) : j < i /\ Sets(s[j], x) /\ Brings(s[j], x) = n
                                 /\ Holds(s, j, i, x, n)
      BY <1>3 DEF Anchored
    <2>2. Holds(s, j, i + 1, x, n)
      BY <1>1, <2>1 DEF Holds
    <2>3. QED
      BY <1>1, <2>1, <2>2 DEF Anchored
  <1>4. QED
    BY <1>2, <1>3

LEMMA ShownCard ==
  ASSUME voice \in Voices, slider \in [Settings -> Int]
  PROVE  Shown \in Cards
  BY CardInt DEF Shown, Cards

LEMMA PlainContained ==
  ASSUME voice \in Voices, slider \in [Settings -> Int]
  PROVE  /\ SelfContained(Plain)
         /\ Len(Plain) \in Nat /\ Len(Plain) >= 1
         /\ Plain[Len(Plain)] = Text(Shown)
  <1> DEFINE e == <<Text(Shown)>>
  <1>1. Prefix \in Seq(Commands) /\ Len(Prefix) \in Nat
    BY PrefixParts
  <1>2. Prefix \in Seq(Messages)
    BY <1>1, SeqMonotonic DEF Messages
  <1>3. Text(Shown) \in Messages
    BY ShownCard DEF Messages
  <1>4. e \in Seq(Messages) /\ Len(e) = 1 /\ e[1] = Text(Shown)
    BY <1>3
  <1>5. Plain = Prefix \o e
    BY DEF Plain
  <1> HIDE DEF e
  <1>6. /\ Plain \in Seq(Messages) /\ Len(Plain) = Len(Prefix) + Len(e)
        /\ \A i \in 1..(Len(Prefix) + Len(e)) :
             Plain[i] = IF i <= Len(Prefix) THEN Prefix[i] ELSE e[i - Len(Prefix)]
    BY <1>2, <1>4, <1>5, ConcatProperties
  <1>7. Len(Plain) = Len(Prefix) + 1 /\ Plain[Len(Plain)] = Text(Shown)
    BY <1>1, <1>4, <1>6
  <1>8. \A i \in 1..Len(Prefix) : Plain[i].is # "text"
    <2>1. \A i \in 1..Len(Prefix) : Plain[i] = Prefix[i] /\ Prefix[i] \in Commands
      BY <1>1, <1>4, <1>6, ElementOfSeq
    <2>2. \A m \in Commands : m.is # "text"
      BY DEF Commands, VoiceCmd, SetCmd, NumberMode
    <2>3. QED
      BY <2>1, <2>2
  <1>9. ASSUME NEW x \in Aspects PROVE Anchored(Plain, Len(Plain), x, Shows(Shown, x))
    <2>1. Anchored(Prefix, Len(Prefix) + 1, x, Shows(Shown, x))
      BY PrefixAnchored
    <2>2. Len(Prefix) + 1 \in 1..(Len(Prefix) + 1)
      BY <1>1
    <2>3. Anchored(Prefix \o e, Len(Prefix) + 1, x, Shows(Shown, x))
      BY <1>2, <1>4, <2>1, <2>2, FirstAnchored
    <2>4. QED
      BY <1>5, <1>7, <2>3
  <1>10. Text(Shown).want = Shown
    BY DEF Text
  <1>11. \A i \in 1..Len(Plain) : Plain[i].is = "text" => i = Len(Plain)
    BY <1>1, <1>7, <1>8
  <1>12. QED
    BY <1>1, <1>6, <1>7, <1>9, <1>10, <1>11 DEF SelfContained

\* The text whose pitch is raised, between two that are sent in full.
LEMMA CapitalContained ==
  ASSUME voice \in Voices, slider \in [Settings -> Int], "pitch" \in Linked
  PROVE  SelfContained(Capital)
  <1> DEFINE high == [Shown EXCEPT !.at["pitch"] = Raised]
             cmd  == SetCmd("pitch", Raised)
             e    == <<cmd, Text(high)>>
             t    == Plain \o e
             L    == Len(Plain)
  <1>1. SelfContained(Plain) /\ L \in Nat /\ L >= 1 /\ Plain[L] = Text(Shown)
    BY PlainContained
  <1>2. "pitch" \in Settings /\ "pitch" # "voice" /\ "pitch" # "numbers"
    BY DEF Settings
  <1>3. Raised \in Int
    <2>1. slider["pitch"] + Offset \in Int
      BY <1>2, SettingsAssumption
    <2>2. Bounded(0, 100, slider["pitch"] + Offset) \in Int
      BY <2>1 DEF Bounded
    <2>3. QED
      BY <1>2, <2>2, CardInt DEF Raised
  <1> DEFINE usual == Shown.at
  <1>4. /\ high = [voice |-> Shown.voice, numbers |-> Shown.numbers,
                  at |-> [usual EXCEPT !["pitch"] = Raised]]
        /\ Shown.voice \in Voices /\ Shown.numbers \in BOOLEAN /\ usual \in [Settings -> Int]
    BY ShownCard DEF Cards
  <1> HIDE DEF usual
  <1>5. high \in Cards
    BY <1>3, <1>4 DEF Cards
  <1>6. Shows(high, "pitch") = Raised
    BY <1>2, <1>4 DEF Shows
  <1>7. \A x \in Aspects : x # "pitch" => Shows(high, x) = Shows(Shown, x)
    <2>1. high.voice = Shown.voice /\ high.numbers = Shown.numbers
      BY <1>4
    <2>2. \A s \in Settings : s # "pitch" => high.at[s] = Shown.at[s]
      BY <1>4 DEF usual
    <2> HIDE DEF high
    <2>3. QED
      BY <2>1, <2>2 DEF Shows, Aspects
  <1> HIDE DEF high
  <1>8. cmd \in Messages /\ Text(high) \in Messages
    BY <1>2, <1>3, <1>5 DEF Messages, Commands
  <1>9. /\ \A x : Sets(cmd, x) <=> x = "pitch"
        /\ Brings(cmd, "pitch") = Raised
        /\ cmd.is # "text"
    BY DEF Sets, Brings, SetCmd
  <1>10. Text(high).is = "text" /\ Text(high).want = high /\ \A x : ~Sets(Text(high), x)
    BY DEF Text, Sets
  <1>11. \A x : ~Sets(Text(Shown), x)
    BY DEF Text, Sets
  <1> HIDE DEF cmd
  <1>12. e \in Seq(Messages) /\ Len(e) = 2 /\ e[1] = cmd /\ e[2] = Text(high)
    BY <1>8
  <1>13. Plain \in Seq(Messages)
    BY <1>1 DEF SelfContained
  <1> HIDE DEF e
  <1>14. /\ t \in Seq(Messages) /\ Len(t) = L + Len(e)
         /\ \A i \in 1..(L + Len(e)) : t[i] = IF i <= L THEN Plain[i] ELSE e[i - L]
    BY <1>12, <1>13, ConcatProperties
  <1> HIDE DEF t, L
  <1>15. /\ Len(t) = L + 2 /\ t[L] = Text(Shown) /\ t[L + 1] = cmd /\ t[L + 2] = Text(high)
         /\ \A i \in 1..L : t[i] = Plain[i]
    BY <1>1, <1>12, <1>14
  <1>16. \A i \in 1..Len(t) : i \in 1..L \/ i = L + 1 \/ i = L + 2
    BY <1>1, <1>15
  <1>17. L \in 1..Len(t) /\ L + 1 \in 1..Len(t) /\ (L + 1) + 1 = L + 2
    BY <1>1, <1>15
  <1>18. ASSUME NEW i \in 1..L, t[i].is = "text", NEW x \in Aspects
         PROVE  Anchored(t, i, x, Shows(t[i].want, x))
    <2>1. t[i] = Plain[i]
      BY <1>15
    <2>2. Anchored(Plain, i, x, Shows(t[i].want, x))
      BY <1>1, <1>18, <2>1 DEF SelfContained, L
    <2>3. i \in 1..(Len(Plain) + 1)
      BY <1>1 DEF L
    <2>4. QED
      BY <1>12, <1>13, <2>2, <2>3, FirstAnchored DEF t
  <1>19. ASSUME NEW x \in Aspects PROVE Anchored(t, L + 2, x, Shows(high, x))
    <2>1. CASE x = "pitch"
      <3>1. Sets(t[L + 1], x) /\ Brings(t[L + 1], x) = Shows(high, x)
        BY <1>6, <1>9, <1>15, <2>1
      <3>2. QED
        BY <1>14, <1>17, <3>1, AnchoredNext
    <2>2. CASE x # "pitch"
      <3>1. Text(Shown).is = "text" /\ Text(Shown).want = Shown
        BY DEF Text
      <3>2. L \in 1..L
        BY <1>1
      <3>3. Anchored(t, L, x, Shows(Shown, x))
        BY <1>15, <1>18, <3>1, <3>2
      <3>4. ~Sets(t[L], x) /\ ~Sets(t[L + 1], x)
        BY <1>9, <1>11, <1>15, <2>2
      <3>5. Anchored(t, L + 1, x, Shows(Shown, x))
        BY <1>14, <1>17, <3>3, <3>4, AnchoredNext
      <3>6. Anchored(t, (L + 1) + 1, x, Shows(Shown, x))
        BY <1>14, <1>17, <3>4, <3>5, AnchoredNext
      <3>7. QED
        BY <1>7, <1>17, <2>2, <3>6
    <2>3. QED
      BY <2>1, <2>2
  <1>20. SelfContained(t)
    <2>1. ASSUME NEW i \in 1..Len(t), t[i].is = "text", NEW x \in Aspects
          PROVE  Anchored(t, i, x, Shows(t[i].want, x))
      BY <1>9, <1>10, <1>15, <1>16, <1>18, <1>19, <2>1
    <2>2. QED
      BY <1>14, <2>1 DEF SelfContained
  <1>21. Capital = t \o Plain
    <2>1. Prefix \in Seq(Messages)
      BY PrefixParts, SeqMonotonic DEF Messages
    <2>2. <<Text(Shown)>> \in Seq(Messages)
      BY ShownCard DEF Messages
    <2>3. (t \o Prefix) \o <<Text(Shown)>> = t \o (Prefix \o <<Text(Shown)>>)
      BY <1>14, <2>1, <2>2, ConcatAssociative
    <2>4. QED
      BY <2>3 DEF Capital, Plain, t, e, cmd, high
  <1>22. QED
    BY <1>1, <1>20, <1>21, Joined2Contained

-----------------------------------------------------------------------------
(* What you see is what you hear.                                          *)

LEMMA SliderInt ==
  ASSUME NEW v \in Voices, NEW s \in Settings, NEW x \in Int
  PROVE  /\ Clamped(s, x) \in Int
         /\ s \in Linked => ToSlider(s, Preset(v, s)) \in Int
  <1>1. Clamped(s, x) \in Int
    BY DEF Clamped, Bounded, MinVal
  <1>2. ASSUME NEW n \in Int PROVE ToSlider(s, n) \in Int
    BY DEF ToSlider, Round
  <1>3. QED
    BY <1>1, <1>2, PresetInt

LEMMA InitSettings == DriverInit => SettingsInv
  <1> SUFFICES ASSUME DriverInit PROVE SettingsInv
    OBVIOUS
  <1>1. voice = 0 /\ 0 \in Voices
    BY SettingsAssumption DEF DriverInit
  <1>2. \A s \in Settings : s \notin Global => s \in Linked
    BY DEF Settings
  <1>3. slider \in [Settings -> Int]
    BY <1>1, <1>2, SliderInt DEF DriverInit
  <1>4. [s \in Settings |-> IF s \in Global THEN 5 ELSE Preset(0, s)] \in [Settings -> Int]
    BY <1>1, <1>2, PresetInt
  <1>5. card \in Cards
    BY <1>1, <1>4 DEF DriverInit, Cards
  <1>6. stream \in Seq(Messages) /\ Len(stream) = 0
    BY DEF DriverInit
  <1>7. QED
    BY <1>1, <1>3, <1>5, <1>6 DEF SettingsInv, Heard

LEMMA StepSettings == SettingsInv /\ [DriverNext]_driverVars => SettingsInv'
  <1> SUFFICES ASSUME SettingsInv, [DriverNext]_driverVars PROVE SettingsInv'
    OBVIOUS
  <1>1. voice \in Voices /\ slider \in [Settings -> Int] /\ stream \in Seq(Messages)
        /\ card \in Cards /\ Heard
    BY DEF SettingsInv
  <1>2. ASSUME UNCHANGED <<stream, card>> PROVE Heard' /\ stream' \in Seq(Messages) /\ card' \in Cards
    BY <1>1, <1>2 DEF Heard
  <1>3. ASSUME UNCHANGED <<voice, slider, stream, card>> PROVE SettingsInv'
    BY <1>1, <1>2, <1>3 DEF SettingsInv
  <1>4. ASSUME NEW v \in Voices, SetVoice(v) PROVE SettingsInv'
    <2>1. AfterVoice(v, FALSE) \in [Settings -> Int]
      BY <1>1, SliderInt DEF AfterVoice
    <2>2. QED
      BY <1>2, <1>4, <2>1 DEF SetVoice, SettingsInv
  <1>5. ASSUME NEW s \in Settings, NEW x \in SliderValues, SetSlider(s, x) PROVE SettingsInv'
    <2>1. x \in Int
      BY SettingsAssumption
    <2>2. QED
      BY <1>1, <1>2, <1>5, <2>1 DEF SetSlider, SettingsInv
  <1>6. ASSUME NEW p \in Profiles, NEW o \in BOOLEAN, LoadSettings(p, o) PROVE SettingsInv'
    <2>1. p.voice \in Voices /\ p.slider \in [Settings -> Int]
      BY SettingsAssumption
    <2>2. ASSUME NEW s \in Settings
          PROVE  (IF o /\ slider[s] = Clamped(s, p.slider[s]) THEN AfterVoice(p.voice, TRUE)[s]
                  ELSE Clamped(s, p.slider[s])) \in Int
      <3>1. AfterVoice(p.voice, TRUE)[s] = slider[s]
        BY DEF AfterVoice
      <3>2. QED
        BY <1>1, <2>1, <3>1, SliderInt
    <2>3. slider' \in [Settings -> Int]
      BY <1>6, <2>2 DEF LoadSettings
    <2>4. QED
      BY <1>2, <1>6, <2>1, <2>3 DEF LoadSettings, SettingsInv
  <1>7. CASE Speak
    <2>1. PICK t : SelfContained(t) /\ stream' = stream \o t
      BY <1>1, <1>7, PlainContained, CapitalContained DEF Speak
    <2>2. UNCHANGED <<voice, slider, card>>
      BY <1>7 DEF Speak
    <2>3. QED
      BY <1>1, <2>1, <2>2, AppendedHeard DEF SettingsInv
  <1>8. CASE Cancel
    <2>1. stream' \in Seq(Messages) /\ Len(stream') = 0
      BY <1>8 DEF Cancel
    <2>2. QED
      BY <1>1, <1>8, <2>1 DEF Cancel, SettingsInv, Heard
  <1>9. CASE CardTakes
    <2>1. stream # <<>> /\ stream' = Tail(stream) /\ card' = Obey(card, Head(stream))
          /\ UNCHANGED <<voice, slider>>
      BY <1>9 DEF CardTakes
    <2>2. /\ Head(stream) \in Messages /\ Tail(stream) \in Seq(Messages)
          /\ Len(Tail(stream)) = Len(stream) - 1
          /\ \A i \in 1..Len(Tail(stream)) : Tail(stream)[i] = stream[i + 1]
      BY <1>1, <2>1, HeadTailProperties
    <2>3. card' \in Cards
      BY <1>1, <2>1, <2>2, ObeyShows
    <2>4. ASSUME NEW i \in 1..Len(Tail(stream)), Tail(stream)[i].is = "text", NEW x \in Aspects
          PROVE  Settled(card', Tail(stream), i, x, Shows(Tail(stream)[i].want, x))
      <3>1. i + 1 \in 1..Len(stream) /\ stream[i + 1] = Tail(stream)[i]
        BY <1>1, <2>2, LenProperties
      <3>2. Settled(card, stream, i + 1, x, Shows(Tail(stream)[i].want, x))
        BY <1>1, <2>4, <3>1 DEF Heard
      <3>3. QED
        BY <1>1, <2>1, <3>2, TakenSettled
    <2>5. Heard'
      BY <2>1, <2>4 DEF Heard
    <2>6. QED
      BY <1>1, <2>1, <2>2, <2>3, <2>5 DEF SettingsInv
  <1>10. QED
    BY <1>3, <1>4, <1>5, <1>6, <1>7, <1>8, <1>9 DEF DriverNext, driverVars, Open, SetBoost

\* What you see is what you hear: when the card comes to a text its settings
\* are those the sliders showed when the text was sent, for every order of
\* changes, profiles, cancels and capitals.
THEOREM SeenIsHeard == DriverSpec => []HeardAsShown
  <1>1. SettingsInv => HeardAsShown
    <2> SUFFICES ASSUME SettingsInv, stream # <<>>, Head(stream).is = "text"
                 PROVE  card = Head(stream).want
      BY DEF HeardAsShown
    <2>1. /\ stream \in Seq(Messages) /\ 1 \in 1..Len(stream) /\ Head(stream) = stream[1]
          /\ stream[1] \in Messages
      BY EmptySeq, LenProperties, ElementOfSeq DEF SettingsInv
    <2>2. \A x \in Aspects : Settled(card, stream, 1, x, Shows(stream[1].want, x))
      BY <2>1 DEF SettingsInv, Heard
    <2>3. \A x \in Aspects : Shows(card, x) = Shows(stream[1].want, x)
      BY <2>2 DEF Settled, Anchored
    <2>4. stream[1].want \in Cards
      BY <2>1 DEF Messages, Commands, Text, VoiceCmd, SetCmd, NumberMode
    <2>5. QED
      BY <2>1, <2>3, <2>4, SameCard DEF SettingsInv
  <1>2. QED
    BY <1>1, InitSettings, StepSettings, PTL DEF DriverSpec
=============================================================================
