-------------------------- MODULE NvdaDriver_proofs --------------------------
(***************************************************************************)
(* For every number of utterances, cancels, chunks and marks, any buffer   *)
(* and any number of marker numbers: the synth thread counts the samples   *)
(* the instance has handed out, and of the speech that was cancelled only  *)
(* what the thread had in hand is heard.  Until speak gives out a marker   *)
(* number that is outstanding, NVDA hears of its indexes in the order of   *)
(* the text, and what it is told is done, if no cancel followed, was       *)
(* spoken to the end.                                                      *)
(***************************************************************************)
EXTENDS NvdaDriver, SequenceTheorems, FiniteSetTheorems, TLAPS

-----------------------------------------------------------------------------
(* Numbers and positions.                                                  *)

\* Induction: a set of numbers has a least element.
LEMMA LeastNumber ==
  ASSUME NEW T \in SUBSET Nat, T # {}
  PROVE  \E m \in T : \A k \in T : m <= k
  <1> DEFINE R == OpToRel(<, Nat)
  <1>1. IsWellFoundedOn(R, Nat)
    BY NatLessThanWellFounded
  <1>2. \A x, y \in Nat : x < y => <<x, y>> \in R
    BY DEF OpToRel
  <1> HIDE DEF R
  <1>3. PICK m \in T : \A k \in T : ~(<<k, m>> \in R)
    BY <1>1, WFMin
  <1>4. ASSUME NEW k \in T PROVE m <= k
    <2>1. ~(k < m)
      BY <1>2, <1>3
    <2>2. QED
      BY <2>1
  <1>5. QED
    BY <1>4

LEMMA LargestNumber ==
  ASSUME NEW T \in SUBSET Nat, T # {}, NEW n \in Nat, \A k \in T : k <= n
  PROVE  \E m \in T : \A k \in T : k <= m
  <1> DEFINE D == {d \in Nat : n - d \in T}
  <1>1. PICK t \in T : TRUE
    OBVIOUS
  <1>2. n - t \in D
    BY <1>1
  <1>3. PICK d \in D : \A e \in D : d <= e
    BY <1>2, LeastNumber
  <1>4. ASSUME NEW k \in T PROVE k <= n - d
    <2>1. n - k \in D
      BY <1>4
    <2>2. QED
      BY <1>3, <2>1
  <1>5. QED
    BY <1>3, <1>4

LEMMA Positions ==
  ASSUME NEW n \in Nat, NEW I \in SUBSET (1..n)
  PROVE  IsFiniteSet(I) /\ Cardinality(I) \in Nat /\ (\A i \in I : i \in Nat)
  <1>1. IsFiniteSet(1..n)
    BY FS_Interval
  <1>2. IsFiniteSet(I)
    BY <1>1, FS_Subset
  <1>3. QED
    BY <1>2, FS_CardinalityType

\* The number of positions up to i: the first position has rank 1.
Rank(I, i) == Cardinality({j \in I : j <= i})

LEMMA RankGrows ==
  ASSUME NEW n \in Nat, NEW I \in SUBSET (1..n), NEW i \in I, NEW j \in I, i < j
  PROVE  Rank(I, i) < Rank(I, j)
  <1> DEFINE A == {k \in I : k <= i}
             B == {k \in I : k <= j}
  <1>1. IsFiniteSet(I) /\ (\A k \in I : k \in Nat) /\ i \in Nat /\ j \in Nat
    BY Positions
  <1>2. B \in SUBSET I /\ j \in B /\ j \notin A
    BY <1>1
  <1>3. A \in SUBSET B
    <2>1. \A k \in I : k <= i => k <= j
      BY <1>1
    <2>2. QED
      BY <2>1
  <1>4. B \in SUBSET I /\ A \in SUBSET B /\ j \in B /\ j \notin A
    BY <1>2, <1>3
  <1>5. IsFiniteSet(B)
    BY <1>1, <1>4, FS_Subset
  <1>6. Cardinality(A) <= Cardinality(B) /\ Cardinality(A) # Cardinality(B)
    BY <1>5, <1>4, FS_Subset
  <1>7. Cardinality(A) \in Nat /\ Cardinality(B) \in Nat
    BY <1>5, <1>4, FS_Subset, FS_CardinalityType
  <1>8. QED
    BY <1>6, <1>7 DEF Rank

\* Every rank up to the number of positions is that of one position.
LEMMA RankExists ==
  ASSUME NEW n \in Nat, NEW I \in SUBSET (1..n)
  PROVE  /\ IsFiniteSet(I) /\ Cardinality(I) \in Nat
         /\ \A i \in I : Rank(I, i) \in 1..Cardinality(I)
         /\ \A k \in 1..Cardinality(I) : \E i \in I : Rank(I, i) = k
  <1>1. IsFiniteSet(I) /\ Cardinality(I) \in Nat /\ \A i \in I : i \in Nat
    BY Positions
  <1>2. ASSUME NEW i \in I PROVE Rank(I, i) \in 1..Cardinality(I)
    <2> DEFINE A == {j \in I : j <= i}
    <2>1. A \in SUBSET I /\ i \in A
      OBVIOUS
    <2>2. IsFiniteSet(A) /\ Cardinality(A) <= Cardinality(I) /\ Cardinality(A) \in Nat
      BY <1>1, <2>1, FS_Subset, FS_CardinalityType
    <2>3. Cardinality(A) # 0
      BY <2>1, <2>2, FS_EmptySet
    <2>4. QED
      BY <1>1, <2>2, <2>3 DEF Rank
  <1>3. ASSUME NEW k \in 1..Cardinality(I) PROVE \E i \in I : Rank(I, i) = k
    <2> DEFINE T == {i \in I : k <= Rank(I, i)}
    <2>1. I # {} /\ I \subseteq Nat /\ \A i \in I : i <= n
      BY <1>3, FS_EmptySet
    <2>2. PICK last \in I : \A i \in I : i <= last
      BY <2>1, LargestNumber
    <2>3. {j \in I : j <= last} = I
      BY <2>2
    <2>4. last \in T
      BY <2>3 DEF Rank
    <2>5. PICK m \in T : \A i \in T : m <= i
      BY <2>1, <2>4, LeastNumber
    <2> DEFINE A == {j \in I : j <= m}
               B == {j \in I : j < m}
    <2>6. Rank(I, m) \in Nat /\ k <= Rank(I, m) /\ m \in I /\ m \in Nat
      BY <1>1, <1>2, <2>1, <2>5
    <2>7. \A j \in I : j <= m <=> j < m \/ j = m
      BY <1>1, <2>6
    <2>8. A = B \cup {m} /\ m \notin B /\ B \in SUBSET I
      <3>1. A = B \cup {m}
        BY <2>6, <2>7
      <3>2. m \notin B
        BY <2>6
      <3>3. QED
        BY <3>1, <3>2
    <2>9. IsFiniteSet(B)
      BY <1>1, <2>8, FS_Subset
    <2>10. Rank(I, m) = Cardinality(B) + 1 /\ Cardinality(B) \in Nat
      BY <2>8, <2>9, FS_AddElement, FS_CardinalityType DEF Rank
    <2>11. CASE B = {}
      BY <1>1, <2>6, <2>10, <2>11, FS_EmptySet
    <2>12. CASE B # {}
      <3>1. PICK p \in B : \A i \in B : i <= p
        BY <2>1, <2>12, LargestNumber
      <3>2. {j \in I : j <= p} = B
        <4>1. p \in I /\ p \in Nat /\ p < m
          BY <2>1, <3>1
        <4>2. \A j \in I : j <= p <=> j < m
          <5>1. \A j \in I : j \in Nat /\ (j < m => j <= p)
            BY <2>1, <3>1
          <5>2. QED
            BY <2>6, <4>1, <5>1
        <4>3. QED
          BY <4>2
      <3>3. ~(k <= Cardinality(B))
        BY <2>1, <2>5, <2>6, <3>1, <3>2 DEF Rank
      <3>4. QED
        BY <1>1, <2>6, <2>10, <3>3
    <2>13. QED
      BY <2>11, <2>12
  <1>4. QED
    BY <1>1, <1>2, <1>3

\* The element of I with rank k.
At(I, k) == CHOOSE i \in I : Rank(I, i) = k

LEMMA AtRank ==
  ASSUME NEW n \in Nat, NEW I \in SUBSET (1..n)
  PROVE  /\ \A k \in 1..Cardinality(I) : At(I, k) \in I
         /\ \A k, l \in 1..Cardinality(I) : k < l => At(I, k) < At(I, l)
         /\ \A i \in I : \E k \in 1..Cardinality(I) : At(I, k) = i
  <1>1. ASSUME NEW k \in 1..Cardinality(I)
        PROVE  At(I, k) \in I /\ Rank(I, At(I, k)) = k
    BY RankExists DEF At
  <1>2. ASSUME NEW i \in I, NEW j \in I, Rank(I, i) = Rank(I, j) PROVE i = j
    <2>1. i \in Nat /\ j \in Nat /\ Cardinality(I) \in Nat
      BY Positions
    <2>2. Rank(I, i) \in 1..Cardinality(I)
      BY RankExists
    <2>3. i < j => Rank(I, i) < Rank(I, j)
      BY RankGrows
    <2>4. j < i => Rank(I, j) < Rank(I, i)
      BY RankGrows
    <2>5. QED
      BY <1>2, <2>1, <2>2, <2>3, <2>4
  <1>3. ASSUME NEW k \in 1..Cardinality(I), NEW l \in 1..Cardinality(I), k < l
        PROVE  At(I, k) < At(I, l)
    <2>1. At(I, k) \in I /\ At(I, l) \in I /\ Rank(I, At(I, k)) = k /\ Rank(I, At(I, l)) = l
      BY <1>1
    <2>2. (\A i \in I : i \in Nat) /\ Cardinality(I) \in Nat
      BY Positions
    <2>3. k \in Nat /\ l \in Nat
      BY <2>2
    <2>4. At(I, k) \in Nat /\ At(I, l) \in Nat
      BY <2>1, <2>2
    <2>5. At(I, k) \in Nat /\ At(I, l) \in Nat /\ k \in Nat /\ l \in Nat
      BY <2>3, <2>4
    <2>6. At(I, l) < At(I, k) => l < k
      BY <2>1, RankGrows
    <2>7. At(I, k) # At(I, l)
      BY <1>3, <2>1, <2>5
    <2>8. QED
      BY <1>3, <2>5, <2>6, <2>7
  <1>4. ASSUME NEW i \in I PROVE \E k \in 1..Cardinality(I) : At(I, k) = i
    <2>1. Rank(I, i) \in 1..Cardinality(I)
      BY RankExists
    <2>2. At(I, Rank(I, i)) = i
      BY <1>1, <1>2, <2>1
    <2>3. QED
      BY <2>1, <2>2
  <1>5. QED
    BY <1>1, <1>3, <1>4

\* What is picked from a sequence, and in which order.
LEMMA PickedElements ==
  ASSUME NEW S, NEW s \in Seq(S), NEW I \in SUBSET DOMAIN s, NEW p, p = Picked(s, I)
  PROVE  /\ p \in Seq(S) /\ Len(p) = Cardinality(I)
         /\ \A k \in DOMAIN p : At(I, k) \in I /\ p[k] = s[At(I, k)]
         /\ \A k, l \in DOMAIN p : k < l => At(I, k) < At(I, l)
         /\ \A i \in I : \E k \in DOMAIN p : p[k] = s[i]
  <1>1. Len(s) \in Nat /\ DOMAIN s = 1..Len(s) /\ \A i \in DOMAIN s : s[i] \in S
    BY LenProperties, ElementOfSeq
  <1>2. p = [k \in 1..Cardinality(I) |-> s[At(I, k)]]
    BY DEF Picked, At, Rank
  <1>3. /\ Cardinality(I) \in Nat
        /\ \A k \in 1..Cardinality(I) : At(I, k) \in I
        /\ \A k, l \in 1..Cardinality(I) : k < l => At(I, k) < At(I, l)
        /\ \A i \in I : \E k \in 1..Cardinality(I) : At(I, k) = i
    BY <1>1, AtRank, RankExists
  <1>4. p \in Seq(S) /\ Len(p) = Cardinality(I) /\ DOMAIN p = 1..Cardinality(I)
    BY <1>1, <1>2, <1>3
  <1>5. QED
    BY <1>2, <1>3, <1>4
-----------------------------------------------------------------------------
(* Types.                                                                  *)

Placed == [pos : Int, index : Nat]
Work   == [utt : Utterances, made : 0..(Length - 1), marked : 0..MarksEach]
Chunk  == [of : Utterances \cup {None}, fired : Seq(Placed)]

MainAt  == {"free", "drain", "stop", "clear", "player", "put", "join", "close", "gone"}
SynthAt == {"get", "clear", "queue", "test", "call", "map", "feed", "ended", "idle", "gone",
            "lost"}

MainType  == main \in [at : MainAt, ending : BOOLEAN] /\ stopping \in BOOLEAN
QueueType == queue \in Seq(Utterances \cup {None}) /\ markMap \in [Numbers -> Nat]
DtType    == dt \in [alive : BOOLEAN, todo : Seq(Work), pos : Nat, marks : Seq(Placed)]
SynthRecord == [at : SynthAt, utt : Utterances \cup {None}, n : 0..1,
                new : Seq(Placed), pending : Seq(Placed), fired : Seq(Placed),
                of : Utterances \cup {None}, samplesDone : Nat]
SynthType == /\ synth \in SynthRecord
             /\ synth.at \notin {"get", "gone"} => synth.utt \in Utterances
PlayerType == player \in [open : BOOLEAN, chunks : Seq(Chunk)]
HistType  == hist \in [said : 0..MaxUtterances, cancels : Nat, silenced : 0..MaxUtterances,
                       fed : [Utterances -> Nat], done : SUBSET (Utterances \cup {None}),
                       notified : Seq(Placed), raised : BOOLEAN,
                       inHand : SUBSET (Utterances \cup {None}),
                       reused : BOOLEAN, unread : SUBSET Utterances]

Types == MainType /\ QueueType /\ DtType /\ SynthType /\ PlayerType /\ HistType

LEMMA Sizes ==
  /\ MaxUtterances \in Nat /\ MaxCancels \in Nat /\ MarksEach \in Nat
  /\ Length \in Nat /\ Length > 0 /\ MarkNumbers \in Nat /\ MarkNumbers > 0
  /\ MarksPerRead \in Nat /\ MarksPerRead > 0 /\ Buffer \in Nat /\ Buffer > 0
  BY DriverAssumption

\* Speak gives a number the last of its indexes.
LEMMA SpokenLast ==
  ASSUME NEW u \in Utterances, NEW v \in Numbers,
         NEW mine, mine = {i \in IndexesOf(u) : NumberOf(i) = v}, mine # {}
  PROVE  (CHOOSE i \in mine : \A j \in mine : j <= i) \in mine
  <1>1. u * MarksEach \in Nat /\ mine \subseteq Nat /\ \A i \in mine : i <= u * MarksEach
    <2>1. ASSUME NEW k \in 1..MarksEach
          PROVE  (u - 1) * MarksEach + k \in Nat /\ (u - 1) * MarksEach + k <= u * MarksEach
      <3>1. (u - 1) * MarksEach \in Nat /\ (u - 1) * MarksEach + MarksEach = u * MarksEach
        BY Sizes DEF Utterances
      <3>2. QED
        BY <3>1, Sizes
    <2>2. QED
      BY <2>1, Sizes DEF IndexesOf, Utterances
  <1>2. \E i \in mine : \A j \in mine : j <= i
    BY <1>1, LargestNumber
  <1>3. QED
    BY <1>2

LEMMA Shifted == \A b, d, k \in Int : b + (d + 1) + k - 1 = b + (d + k)
  OBVIOUS

LEMMA InOrderShifted ==
  \A b, d, i, j \in Nat : i < j => b + (d + i) < b + (d + j)
  OBVIOUS

\* The last index before those of an utterance.
Base(u) == (u - 1) * MarksEach

\* The marks of an utterance from one number to another, counted from those
\* made before.
Numbered(s, u, done, m, start) ==
  /\ s \in Seq(Placed) /\ Len(s) = m - done
  /\ \A k \in 1..(m - done) : /\ s[k].index = Base(u) + (done + k)
                              /\ s[k].pos = start + ChunkOf(done + k)

LEMMA MarkNumbering ==
  ASSUME NEW u \in Utterances, NEW done \in 0..MarksEach, NEW m \in done..MarksEach,
         NEW start \in Int, NEW s, s = MarksOf(u, done + 1, m, start)
  PROVE  Numbered(s, u, done, m, start)
  <1> DEFINE b == Base(u)
             record(k) == [pos   |-> start + ChunkOf((done + 1) + k - 1),
                           index |-> b + (done + 1) + k - 1]
  <1>1. /\ done \in Int /\ m \in Int /\ MarksEach \in Int /\ m - (done + 1) + 1 = m - done
        /\ m - done \in Nat /\ b \in Nat /\ done \in Nat
    <2>1. u \in Nat /\ u > 0
      BY DEF Utterances
    <2>2. b \in Nat
      BY <2>1, Sizes DEF Base
    <2>3. QED
      BY <2>2, Sizes
  <1>2. s = [k \in 1..(m - done) |-> record(k)]
    BY <1>1 DEF MarksOf, Base
  <1> HIDE DEF b
  <1>3. ASSUME NEW k \in 1..(m - done)
        PROVE  /\ record(k).index = b + (done + k)
               /\ record(k).pos = start + ChunkOf(done + k)
               /\ record(k) \in Placed
    <2>1. k \in Int
      BY <1>1
    <2>2. b + (done + 1) + k - 1 = b + (done + k)
      BY <1>1, <2>1, Shifted
    <2>3. (done + 1) + k - 1 = done + k
      BY <1>1, <2>1
    <2>4. b + (done + k) \in Nat /\ done + k \in Int
      BY <1>1, <2>1
    <2>5. start + ChunkOf(done + k) \in Int
      BY <2>4, Sizes DEF ChunkOf
    <2>6. QED
      BY <2>2, <2>3, <2>4, <2>5 DEF Placed
  <1> HIDE DEF record
  <1>4. s \in Seq(Placed) /\ Len(s) = m - done
    BY <1>1, <1>2, <1>3
  <1>5. \A k \in 1..(m - done) : s[k] = record(k)
    BY <1>2
  <1>6. QED
    BY <1>3, <1>4, <1>5 DEF Numbered, b

\* What dtalk_synth16 makes of the instance, with names for its parts.
Synthesized(m, head, made, start, marks, read) ==
  /\ m \in head.marked .. MarksEach /\ \A k \in 1..MarksEach : ChunkOf(k) <= made => k <= m
  /\ head = dt.todo[1] /\ head \in Work /\ made = head.made + 1
  /\ start = dt.pos - head.made
  /\ marks = dt.marks \o MarksOf(head.utt, head.marked + 1, m, start)
  /\ marks \in Seq(Placed) /\ read \in 0..Len(marks)
  /\ read = IF Len(marks) < MarksPerRead THEN Len(marks) ELSE MarksPerRead
  /\ dt' = [dt EXCEPT !.pos = @ + 1, !.marks = SubSeq(marks, read + 1, Len(marks)),
                      !.todo = (IF made = Length THEN <<>>
                                ELSE <<[head EXCEPT !.made = made, !.marked = m]>>) \o Tail(@)]
  /\ synth' = [synth EXCEPT !.at = "map", !.n = 1, !.of = head.utt, !.new = SubSeq(marks, 1, read)]

LEMMA SynthParts ==
  ASSUME Types, DtalkSynth, dt.todo # <<>>
  PROVE  \E m, head, made, start, marks, read : Synthesized(m, head, made, start, marks, read)
  <1> DEFINE head == Head(dt.todo)
             made == head.made + 1
             start == dt.pos - head.made
  <1>1. dt.todo \in Seq(Work) /\ dt.pos \in Nat /\ dt.marks \in Seq(Placed)
    BY DEF Types, DtType
  <1>2. head = dt.todo[1] /\ head \in Work
    BY <1>1, HeadTailProperties
  <1>3. PICK m \in head.marked .. MarksEach :
          LET marks == dt.marks \o MarksOf(head.utt, head.marked + 1, m, start)
              read  == IF Len(marks) < MarksPerRead THEN Len(marks) ELSE MarksPerRead
          IN  /\ \A k \in 1..MarksEach : ChunkOf(k) <= made => k <= m
              /\ dt' = [dt EXCEPT
                   !.pos = @ + 1,
                   !.marks = SubSeq(marks, read + 1, Len(marks)),
                   !.todo = (IF made = Length THEN <<>>
                             ELSE <<[head EXCEPT !.made = made, !.marked = m]>>) \o Tail(@)]
              /\ synth' = [synth EXCEPT !.at = "map", !.n = 1, !.of = head.utt,
                                        !.new = SubSeq(marks, 1, read)]
    BY Zenon DEF DtalkSynth
  <1> DEFINE placed == MarksOf(head.utt, head.marked + 1, m, start)
             marks == dt.marks \o placed
             read == IF Len(marks) < MarksPerRead THEN Len(marks) ELSE MarksPerRead
  <1>4. head.utt \in Utterances /\ head.marked \in 0..MarksEach /\ start \in Int
    BY <1>1, <1>2 DEF Work
  <1>5. placed \in Seq(Placed)
    <2> DEFINE u == head.utt
               done == head.marked
    <2>1. /\ u \in Utterances /\ done \in 0..MarksEach /\ m \in done..MarksEach
          /\ placed = MarksOf(u, done + 1, m, start)
      BY <1>3, <1>4
    <2> HIDE DEF start, placed, u, done
    <2>2. Numbered(placed, u, done, m, start)
      BY <1>4, <2>1, MarkNumbering
    <2>3. QED
      BY <2>2 DEF Numbered
  <1> HIDE DEF placed
  <1>6. marks \in Seq(Placed) /\ Len(marks) \in Nat
    BY <1>1, <1>5, ConcatProperties, LenProperties
  <1>7. read \in 0..Len(marks)
    BY <1>6, Sizes
  <1>8. Synthesized(m, head, made, start, marks, read)
    BY <1>2, <1>3, <1>6, <1>7 DEF Synthesized, placed
  <1>9. QED
    BY <1>8
\* The instance's next state: its sample and mark counts, and what is left to do.
LEMMA SynthTypes ==
  ASSUME Types, NEW m, NEW head, NEW made, NEW start, NEW marks, NEW read, dt.todo # <<>>,
         Synthesized(m, head, made, start, marks, read)
  PROVE  /\ made \in 1..Length /\ start \in Int /\ m \in 0..MarksEach
         /\ SubSeq(marks, read + 1, Len(marks)) \in Seq(Placed)
         /\ SubSeq(marks, 1, read) \in Seq(Placed)
         /\ made # Length => [head EXCEPT !.made = made, !.marked = m] \in Work
         /\ Tail(dt.todo) \in Seq(Work)
         /\ dt'.todo = (IF made = Length THEN <<>>
                        ELSE <<[head EXCEPT !.made = made, !.marked = m]>>) \o Tail(dt.todo)
         /\ dt'.todo \in Seq(Work)
  <1>1. dt.todo \in Seq(Work) /\ dt.pos \in Nat /\ head \in Work
    BY DEF Types, DtType, Synthesized
  <1>2. made \in 1..Length /\ start \in Int /\ m \in head.marked .. MarksEach
    <2>1. head.made \in 0..(Length - 1) /\ head.marked \in 0..MarksEach
      BY <1>1 DEF Work
    <2>2. made = head.made + 1 /\ start = dt.pos - head.made /\ m \in head.marked .. MarksEach
      BY Zenon DEF Synthesized
    <2>3. QED
      BY <1>1, <2>1, <2>2, Sizes
  <1>3. m \in 0..MarksEach
    BY <1>1, <1>2, Sizes DEF Work
  <1>4. /\ SubSeq(marks, read + 1, Len(marks)) \in Seq(Placed)
        /\ SubSeq(marks, 1, read) \in Seq(Placed)
    <2>1. marks \in Seq(Placed) /\ Len(marks) \in Nat /\ read \in 0..Len(marks)
      BY LenProperties, Zenon DEF Synthesized
    <2>2. \A i \in 1..Len(marks) : marks[i] \in Placed
      BY <2>1, ElementOfSeq
    <2>3. read + 1 \in Int /\ 1 \in Int /\ read \in Int /\ Len(marks) \in Int
      BY <2>1
    <2>4. \A i \in (read + 1)..Len(marks) : marks[i] \in Placed
      BY <2>1, <2>2
    <2>5. \A i \in 1..read : marks[i] \in Placed
      BY <2>1, <2>2
    <2>6. QED
      BY <2>3, <2>4, <2>5, SubSeqProperties
  <1>5. made # Length => [head EXCEPT !.made = made, !.marked = m] \in Work
    <2>1. made # Length => made \in 0..(Length - 1)
      BY <1>2, Sizes
    <2>2. QED
      BY <1>1, <1>3, <2>1, Zenon DEF Work
  <1>6. Tail(dt.todo) \in Seq(Work)
    BY <1>1, HeadTailProperties
  <1>7. dt'.todo = (IF made = Length THEN <<>>
                    ELSE <<[head EXCEPT !.made = made, !.marked = m]>>) \o Tail(dt.todo)
    BY Zenon DEF Synthesized, Types, DtType
  <1>8. dt'.todo \in Seq(Work)
    <2>1. CASE made = Length
      BY <1>6, <1>7, <2>1, ConcatEmptySeq
    <2>2. CASE made # Length
      <3> DEFINE w == [head EXCEPT !.made = made, !.marked = m]
      <3>1. w \in Work
        BY <1>5, <2>2
      <3> HIDE DEF w
      <3>2. <<w>> \in Seq(Work)
        BY <3>1
      <3>3. dt'.todo = <<w>> \o Tail(dt.todo)
        BY <1>7, <2>2 DEF w
      <3>4. QED
        BY <1>6, <3>2, <3>3, ConcatProperties
    <2>3. QED
      BY <2>1, <2>2
  <1>9. QED
    BY <1>2, <1>3, <1>4, <1>5, <1>6, <1>7, <1>8

LEMMA InitTypes ==
  ASSUME Init
  PROVE  Types
  <1>1. <<>> \in Seq(Placed) /\ <<>> \in Seq(Placed) /\ <<>> \in Seq(Work) /\ <<>> \in Seq(Chunk)
    OBVIOUS
  <1>2. MainType
    BY DEF Init, MainType, MainAt
  <1>3. QueueType
    BY DEF Init, QueueType, None
  <1>4. DtType
    BY <1>1 DEF Init, DtType
  <1>5. SynthType
    BY <1>1 DEF Init, SynthType, SynthRecord, SynthAt
  <1>6. PlayerType
    BY <1>1 DEF Init, PlayerType
  <1>7. HistType
    BY <1>1, Sizes DEF Init, HistType
  <1>8. QED
    BY <1>2, <1>3, <1>4, <1>5, <1>6, <1>7 DEF Types

LEMMA MainTypes ==
  ASSUME Types, MainThread
  PROVE  Types'
  <1>1. SynthType'
    BY DEF Types, SynthType, SynthRecord, MainThread, Speak, CancelBegin, CancelDrain, CancelStop,
           CancelClear, CancelPlayer, TerminatePut, TerminateJoin, JoinGivesUp, TerminateClose
  <1>2. MainType'
    <2>1. CASE CancelBegin
      <3>1. /\ stopping' = TRUE
            /\ \/ main' = [at |-> "drain", ending |-> FALSE]
               \/ main' = [at |-> "drain", ending |-> TRUE]
        BY <2>1 DEF CancelBegin
      <3>2. CASE main' = [at |-> "drain", ending |-> FALSE]
        BY <3>1, <3>2 DEF MainType, MainAt
      <3>3. CASE main' = [at |-> "drain", ending |-> TRUE]
        BY <3>1, <3>3 DEF MainType, MainAt
      <3>4. QED
        BY <3>1, <3>2, <3>3
    <2>2. CASE UNCHANGED main
      BY <2>2 DEF Types, MainType, MainAt, MainThread, Speak, CancelDrain, CancelStop,
             CancelClear, CancelPlayer, TerminatePut, TerminateJoin, JoinGivesUp, TerminateClose, CancelBegin
    <2>3. CASE CancelDrain
      BY <2>3 DEF Types, MainType, MainAt, CancelDrain
    <2>4. CASE CancelStop \/ CancelClear
      BY <2>4 DEF Types, MainType, MainAt, CancelStop, CancelClear
    <2>5. CASE CancelPlayer
      BY <2>5 DEF Types, MainType, MainAt, CancelPlayer
    <2>6. CASE TerminatePut \/ TerminateJoin \/ JoinGivesUp \/ TerminateClose
      BY <2>6 DEF Types, MainType, MainAt, TerminatePut, TerminateJoin, JoinGivesUp, TerminateClose
    <2>7. QED
      BY <2>1, <2>2, <2>3, <2>4, <2>5, <2>6 DEF MainThread, Speak
  <1>3. queue' \in Seq(Utterances \cup {None})
    <2>1. queue \in Seq(Utterances \cup {None}) /\ hist.said \in 0..MaxUtterances
      BY DEF Types, QueueType, HistType
    <2>2. CASE Speak
      <3>1. hist.said + 1 \in Utterances \cup {None} /\ queue' = Append(queue, hist.said + 1)
        BY <2>1, <2>2, Sizes DEF Speak, Utterances
      <3>2. QED
        BY <2>1, <3>1, AppendProperties
    <2>3. CASE CancelDrain
      BY <2>1, <2>3, HeadTailProperties DEF CancelDrain
    <2>4. CASE TerminatePut
      BY <2>1, <2>4, AppendProperties DEF TerminatePut
    <2>5. CASE UNCHANGED queue
      BY <2>1, <2>5
    <2>6. QED
      BY <2>2, <2>3, <2>4, <2>5
         DEF MainThread, CancelBegin, CancelStop, CancelClear, CancelPlayer,
             TerminateJoin, JoinGivesUp, TerminateClose
  <1>4. markMap' \in [Numbers -> Nat]
    <2>1. markMap \in [Numbers -> Nat] /\ hist.said \in 0..MaxUtterances
      BY DEF Types, QueueType, HistType
    <2>2. CASE Speak
      <3> DEFINE u == hist.said + 1
                 mine(v) == {i \in IndexesOf(u) : NumberOf(i) = v}
      <3>1. u \in Utterances
        BY <2>1, <2>2, Sizes DEF Speak, Utterances
      <3>2. markMap' = [v \in Numbers |->
                          IF mine(v) = {} THEN markMap[v]
                          ELSE CHOOSE i \in mine(v) : \A j \in mine(v) : j <= i]
        BY <2>2 DEF Speak
      <3>3. IndexesOf(u) \subseteq Nat
        <4>1. (u - 1) * MarksEach \in Nat
          BY <3>1, Sizes DEF Utterances
        <4>2. QED
          BY <4>1, Sizes DEF IndexesOf
      <3> HIDE DEF u
      <3>4. ASSUME NEW v \in Numbers, mine(v) # {}
            PROVE  (CHOOSE i \in mine(v) : \A j \in mine(v) : j <= i) \in Nat
        BY <3>1, <3>3, <3>4, SpokenLast
      <3>5. QED
        BY <2>1, <3>2, <3>4
    <2>3. CASE CancelClear
      BY <2>3 DEF CancelClear, None
    <2>4. CASE UNCHANGED markMap
      BY <2>1, <2>4
    <2>5. QED
      BY <2>2, <2>3, <2>4
         DEF MainThread, CancelBegin, CancelDrain, CancelStop, CancelPlayer, TerminatePut,
             TerminateJoin, JoinGivesUp, TerminateClose
  <1>5. DtType'
    <2>1. CASE CancelStop
      <3>1. <<>> \in Seq(Work) /\ <<>> \in Seq(Placed)
        OBVIOUS
      <3>2. QED
        BY <2>1, <3>1 DEF Types, DtType, CancelStop
    <2>2. CASE TerminateClose
      BY <2>2 DEF Types, DtType, TerminateClose
    <2>3. CASE UNCHANGED dt
      BY <2>3 DEF Types, DtType
    <2>4. QED
      BY <2>1, <2>2, <2>3
         DEF MainThread, Speak, CancelBegin, CancelDrain, CancelClear, CancelPlayer,
             TerminatePut, TerminateJoin, JoinGivesUp
  <1>6. PlayerType'
    <2>1. CASE CancelPlayer \/ TerminateJoin \/ JoinGivesUp
      <3>1. <<>> \in Seq(Chunk)
        OBVIOUS
      <3>2. QED
        BY <2>1, <3>1 DEF Types, PlayerType, CancelPlayer, TerminateJoin, JoinGivesUp
    <2>2. CASE UNCHANGED player
      BY <2>2 DEF Types, PlayerType
    <2>3. QED
      BY <2>1, <2>2
         DEF MainThread, Speak, CancelBegin, CancelDrain, CancelStop, CancelClear,
             TerminatePut, TerminateClose
  <1>7. HistType'
    <2>1. InHand \in SUBSET (Utterances \cup {None})
      BY DEF InHand, Types, SynthType, SynthRecord
    <2>2. CASE Speak
      <3>1. hist.said + 1 \in 0..MaxUtterances
        BY <2>2, Sizes DEF Types, HistType, Speak
      <3>2. PICK r \in BOOLEAN : hist' = [hist EXCEPT !.said = hist.said + 1, !.reused = r]
        <4>1. hist' = [hist EXCEPT !.said = hist.said + 1,
                                  !.reused = hist.reused \/ Reuses(hist.said + 1)]
          BY <2>2, Zenon DEF Speak
        <4>2. (hist.reused \/ Reuses(hist.said + 1)) \in BOOLEAN
          BY Zenon
        <4>3. QED
          BY <4>1, <4>2, Zenon
      <3>3. QED
        BY <3>1, <3>2 DEF Types, HistType
    <2>3. CASE CancelBegin
      <3>1. PICK c \in {hist.cancels, hist.cancels + 1} :
              hist' = [hist EXCEPT !.cancels = c, !.silenced = hist.said]
        BY <2>3 DEF CancelBegin
      <3>2. c \in Nat /\ hist.said \in 0..MaxUtterances
        BY <3>1 DEF Types, HistType
      <3>3. QED
        BY <3>1, <3>2 DEF Types, HistType
    <2>4. CASE CancelStop
      BY <2>1, <2>4 DEF Types, HistType, CancelStop
    <2>5. CASE UNCHANGED hist
      BY <2>5 DEF Types, HistType
    <2>6. QED
      BY <2>2, <2>4, <2>5, <2>3
         DEF MainThread, CancelDrain, CancelClear, CancelPlayer, TerminatePut,
             TerminateJoin, JoinGivesUp, TerminateClose
  <1>8. QED
    BY <1>1, <1>2, <1>3, <1>4, <1>5, <1>6, <1>7 DEF Types, QueueType
\* What the thread's own steps do to its state, one part at a time.
LEMMA ThreadTypes ==
  ASSUME Types, SynthThread \/ Play
  PROVE  Types'
  <1>1. MainType'
    BY Zenon DEF Types, MainType, SynthThread, Get, ClearStopping, DtalkQueue, TestStopping, CallDestroyed, DtalkSynth,
           PopMark, Select, Feed, FeedRaises, Ended, IdleAndNotify, Play
  <1>2. QueueType'
    <2>1. CASE Get
      BY <2>1, HeadTailProperties DEF Types, QueueType, Get
    <2>2. CASE PopMark
      BY <2>2, Zenon DEF Types, QueueType, PopMark, None
    <2>3. CASE UNCHANGED <<queue, markMap>>
      BY <2>3 DEF Types, QueueType
    <2>4. QED
      BY <2>1, <2>2, <2>3, Zenon
         DEF SynthThread, ClearStopping, DtalkQueue, TestStopping, CallDestroyed, DtalkSynth, Select,
             Feed, FeedRaises, Ended, IdleAndNotify, Play
  <1>3. DtType'
    <2>1. CASE DtalkQueue
      <3> DEFINE w == [utt |-> synth.utt, made |-> 0, marked |-> 0]
                 todo == Append(dt.todo, w)
      <3>1. w \in Work
        BY <2>1, Sizes DEF Types, SynthType, SynthRecord, DtalkQueue, Work
      <3>2. todo \in Seq(Work)
        <4> HIDE DEF w
        <4>1. QED
          BY <3>1, AppendProperties DEF Types, DtType
      <3>3. dt' = [dt EXCEPT !.todo = todo]
        BY <2>1 DEF DtalkQueue
      <3> HIDE DEF todo
      <3>4. QED
        BY <3>2, <3>3 DEF Types, DtType
    <2>2. CASE DtalkSynth /\ dt.todo # <<>>
      <3>1. PICK m, head, made, start, marks, read :
              Synthesized(m, head, made, start, marks, read)
        BY <2>2, SynthParts
      <3>2. dt'.todo \in Seq(Work) /\ SubSeq(marks, read + 1, Len(marks)) \in Seq(Placed)
        BY <2>2, <3>1, SynthTypes
      <3>3. PICK todo : dt' = [dt EXCEPT !.pos = dt.pos + 1, !.todo = todo,
                                         !.marks = SubSeq(marks, read + 1, Len(marks))]
        BY <3>1, ZenonT(30) DEF Synthesized
      <3> DEFINE left == SubSeq(marks, read + 1, Len(marks))
      <3> HIDE DEF left
      <3>4. dt' = [alive |-> dt.alive, todo |-> todo, pos |-> dt.pos + 1, marks |-> left]
        BY <3>3 DEF left, Types, DtType
      <3>5. todo \in Seq(Work) /\ left \in Seq(Placed)
        BY <3>2, <3>4 DEF left
      <3>6. QED
        BY <3>4, <3>5 DEF Types, DtType
    <2>3. CASE UNCHANGED dt
      BY <2>3 DEF Types, DtType
    <2>4. QED
      BY <2>1, <2>2, <2>3, Zenon
         DEF SynthThread, Get, ClearStopping, TestStopping, CallDestroyed, DtalkSynth, PopMark, Select, Feed,
             FeedRaises, Ended, IdleAndNotify, Play
  <1>4. SynthType'
    <2>1. CASE Get
      <3>1. Head(queue) \in Utterances \cup {None} /\ (Head(queue) # None => Head(queue) \in Utterances)
        BY <2>1, HeadTailProperties DEF Types, QueueType, Get
      <3>2. QED
        BY <2>1, <3>1 DEF Types, SynthType, SynthRecord, SynthAt, Get
    <2>2. CASE ClearStopping
      <3>1. <<>> \in Seq(Placed)
        OBVIOUS
      <3>2. QED
        BY <2>2, <3>1 DEF Types, SynthType, SynthRecord, SynthAt, ClearStopping
    <2>3. CASE DtalkQueue \/ TestStopping \/ CallDestroyed \/ Ended \/ IdleAndNotify
      BY <2>3 DEF Types, SynthType, SynthRecord, SynthAt, DtalkQueue, TestStopping, CallDestroyed, Ended, IdleAndNotify
    <2>4. CASE DtalkSynth /\ dt.todo = <<>>
      <3>1. synth.at = "call" /\ synth' = [synth EXCEPT !.at = "ended", !.n = 0]
        BY <2>4 DEF DtalkSynth
      <3>2. synth.utt \in Utterances /\ 0 \in 0..1
        BY <3>1 DEF Types, SynthType, SynthRecord
      <3>3. synth' \in SynthRecord
        BY <3>1, <3>2 DEF Types, SynthType, SynthRecord, SynthAt
      <3>4. QED
        BY <3>1, <3>2, <3>3 DEF Types, SynthType, SynthRecord
    <2>5. CASE DtalkSynth /\ dt.todo # <<>>
      <3>1. PICK m, head, made, start, marks, read :
              Synthesized(m, head, made, start, marks, read)
        BY <2>5, SynthParts
      <3>2. SubSeq(marks, 1, read) \in Seq(Placed)
        BY <2>5, <3>1, SynthTypes
      <3>3. head.utt \in Utterances \cup {None}
        BY <3>1, Zenon DEF Synthesized, Work
      <3>4. /\ synth.at = "call"
            /\ synth' = [synth EXCEPT !.at = "map", !.n = 1, !.of = head.utt,
                                      !.new = SubSeq(marks, 1, read)]
        BY <2>5, <3>1, Zenon DEF Synthesized, DtalkSynth
      <3> DEFINE new == SubSeq(marks, 1, read)
      <3>5. new \in Seq(Placed) /\ synth' = [synth EXCEPT !.at = "map", !.n = 1, !.of = head.utt,
                                                        !.new = new]
        BY <3>2, <3>4
      <3> HIDE DEF new
      <3>6. synth.utt \in Utterances
        BY <3>4 DEF Types, SynthType, SynthRecord
      <3>7. synth' = [at |-> "map", utt |-> synth.utt, n |-> 1, new |-> new,
                      pending |-> synth.pending, fired |-> synth.fired, of |-> head.utt,
                      samplesDone |-> synth.samplesDone]
        BY <3>5 DEF Types, SynthType, SynthRecord
      <3>8. 1 \in 0..1 /\ synth \in SynthRecord
        BY DEF Types, SynthType
      <3>9. synth' \in SynthRecord
        BY <3>3, <3>5, <3>7, <3>8 DEF SynthRecord, SynthAt
      <3>10. QED
        BY <3>6, <3>7, <3>9 DEF SynthType
    <2>6. CASE PopMark
      <3>1. Tail(synth.new) \in Seq(Placed) /\ Head(synth.new) \in Placed
        BY <2>6, HeadTailProperties DEF Types, SynthType, SynthRecord, PopMark
      <3> DEFINE mapped == markMap[NumberOf(Head(synth.new).index)]
                 placed == IF mapped = None THEN synth.pending
                           ELSE Append(synth.pending, [pos |-> Head(synth.new).pos, index |-> mapped])
      <3>2. placed \in Seq(Placed)
        <4>1. [pos |-> Head(synth.new).pos, index |-> mapped] \in Placed
          <5>1. Head(synth.new).index \in Nat /\ Head(synth.new).pos \in Int
            BY <3>1 DEF Placed
          <5>2. NumberOf(Head(synth.new).index) \in Numbers
            BY <5>1, Sizes DEF NumberOf, Numbers
          <5>3. mapped \in Nat
            BY <5>2 DEF Types, QueueType
          <5> HIDE DEF mapped
          <5>4. QED
            BY <5>1, <5>3 DEF Placed
        <4>2. QED
          BY <4>1, AppendProperties DEF Types, SynthType, SynthRecord
      <3>3. synth' = [synth EXCEPT !.new = Tail(synth.new), !.pending = placed]
        BY <2>6 DEF PopMark
      <3> HIDE DEF placed
      <3>4. QED
        BY <3>1, <3>2, <3>3 DEF Types, SynthType, SynthRecord
    <2>7. CASE Select
      <3> DEFINE passed == UpTo(synth.samplesDone + synth.n)
                 fired == Picked(synth.pending, passed)
                 left == Picked(synth.pending, DOMAIN synth.pending \ passed)
      <3>1. passed \in SUBSET DOMAIN synth.pending /\ synth.pending \in Seq(Placed)
        BY DEF UpTo, Types, SynthType, SynthRecord
      <3> HIDE DEF passed
      <3>2. fired \in Seq(Placed) /\ left \in Seq(Placed)
        BY <3>1, PickedElements
      <3>3. synth' = [synth EXCEPT !.at = "feed", !.fired = fired, !.pending = left]
            /\ synth.at = "map"
        BY <2>7 DEF Select, passed
      <3> HIDE DEF fired, left
      <3>4. QED
        BY <3>2, <3>3 DEF Types, SynthType, SynthRecord, SynthAt
    <2>8. CASE Feed \/ FeedRaises
      <3>1. <<>> \in Seq(Placed)
        OBVIOUS
      <3>2. CASE Feed
        <4>1. /\ synth.at = "feed"
              /\ synth' = [synth EXCEPT !.at = "test", !.samplesDone = synth.samplesDone + synth.n,
                                        !.n = 0, !.fired = <<>>]
          BY <3>2 DEF Feed
        <4>2. synth.samplesDone + synth.n \in Nat /\ synth.utt \in Utterances
          BY <4>1 DEF Types, SynthType, SynthRecord
        <4> DEFINE done == synth.samplesDone + synth.n
        <4>3. done \in Nat /\ synth' = [synth EXCEPT !.at = "test", !.samplesDone = done,
                                                    !.n = 0, !.fired = <<>>]
          BY <4>1, <4>2
        <4> HIDE DEF done
        <4>4. synth' = [at |-> "test", utt |-> synth.utt, n |-> 0, new |-> synth.new,
                        pending |-> synth.pending, fired |-> <<>>, of |-> synth.of,
                        samplesDone |-> done]
          BY <4>3 DEF Types, SynthType, SynthRecord
        <4>5. 0 \in 0..1 /\ synth \in SynthRecord
          BY DEF Types, SynthType
        <4>6. synth' \in SynthRecord
          BY <3>1, <4>3, <4>4, <4>5 DEF SynthRecord, SynthAt
        <4>7. QED
          BY <4>2, <4>4, <4>6 DEF SynthType
      <3>3. CASE FeedRaises
        <4>1. synth' = [synth EXCEPT !.at = "get", !.n = 0, !.fired = <<>>]
          BY <3>3 DEF FeedRaises
        <4>2. synth' = [at |-> "get", utt |-> synth.utt, n |-> 0, new |-> synth.new,
                        pending |-> synth.pending, fired |-> <<>>, of |-> synth.of,
                        samplesDone |-> synth.samplesDone]
          BY <4>1, Zenon DEF Types, SynthType, SynthRecord
        <4>3. 0 \in 0..1 /\ synth \in SynthRecord
          BY DEF Types, SynthType
        <4>4. synth' \in SynthRecord
          BY <3>1, <4>2, <4>3 DEF SynthRecord, SynthAt
        <4>5. QED
          BY <4>2, <4>4 DEF SynthType
      <3>4. QED
        BY <2>8, <3>2, <3>3
    <2>9. CASE Play
      BY <2>9 DEF Types, SynthType, SynthRecord, Play
    <2>10. QED
      BY <2>1, <2>2, <2>3, <2>4, <2>5, <2>6, <2>7, <2>8, <2>9 DEF SynthThread
  <1>5. PlayerType'
    <2>1. CASE Feed
      <3> DEFINE c == [of |-> synth.of, fired |-> synth.fired]
                 chunks == Append(player.chunks, c)
      <3>1. c \in Chunk
        BY DEF Types, SynthType, SynthRecord, Chunk
      <3>2. chunks \in Seq(Chunk)
        <4> HIDE DEF c
        <4>1. QED
          BY <3>1, AppendProperties DEF Types, PlayerType
      <3>3. player' = [player EXCEPT !.chunks = chunks]
        BY <2>1 DEF Feed
      <3> HIDE DEF chunks
      <3>4. QED
        BY <3>2, <3>3 DEF Types, PlayerType
    <2>2. CASE Play
      BY <2>2, HeadTailProperties, Zenon DEF Types, PlayerType, Play
    <2>3. CASE UNCHANGED player
      BY <2>3 DEF Types, PlayerType
    <2>4. QED
      BY <2>1, <2>2, <2>3, Zenon
         DEF SynthThread, Get, ClearStopping, DtalkQueue, TestStopping, CallDestroyed, DtalkSynth, PopMark,
             Select, FeedRaises, Ended, IdleAndNotify
  <1>6. HistType'
    <2>1. CASE Feed
      <3> DEFINE fed == [hist.fed EXCEPT ![synth.of] = @ + 1]
      <3>1. fed \in [Utterances -> Nat]
        <4>1. hist.fed \in [Utterances -> Nat]
          BY DEF Types, HistType
        <4>2. ASSUME NEW u \in Utterances PROVE fed[u] \in Nat
          <5>1. hist.fed[u] \in Nat
            BY <4>1
          <5>2. CASE u = synth.of
            BY <4>1, <5>1, <5>2
          <5>3. CASE u # synth.of
            BY <4>1, <5>1, <5>3
          <5>4. QED
            BY <5>2, <5>3
        <4>3. QED
          BY <4>1, <4>2
      <3>2. hist' = [hist EXCEPT !.fed = fed]
        BY <2>1 DEF Feed
      <3> HIDE DEF fed
      <3>3. QED
        BY <3>1, <3>2 DEF Types, HistType
    <2>2. CASE FeedRaises
      BY <2>2 DEF Types, HistType, FeedRaises
    <2>3. CASE IdleAndNotify
      BY <2>3 DEF Types, HistType, SynthType, SynthRecord, IdleAndNotify
    <2>4. CASE Play
      <3> DEFINE told == hist.notified \o Head(player.chunks).fired
      <3>1. Head(player.chunks) \in Chunk
        BY <2>4, HeadTailProperties DEF Types, PlayerType, Play
      <3>2. Head(player.chunks).fired \in Seq(Placed)
        BY <3>1 DEF Chunk
      <3>3. told \in Seq(Placed)
        BY <3>2, ConcatProperties DEF Types, HistType
      <3>4. hist' = [hist EXCEPT !.notified = told]
        BY <2>4 DEF Play
      <3> HIDE DEF told
      <3>5. QED
        BY <3>3, <3>4 DEF Types, HistType
    <2>5. CASE UNCHANGED hist
      BY <2>5 DEF Types, HistType
    <2>6. CASE DtalkSynth /\ dt.todo = <<>>
      <3>1. PICK left \in {hist.unread, hist.unread \cup {synth.utt}} :
              hist' = [hist EXCEPT !.unread = left]
        BY <2>6 DEF DtalkSynth
      <3>2. synth.utt \in Utterances
        BY <2>6 DEF DtalkSynth, Types, SynthType
      <3>3. left \in SUBSET Utterances
        BY <3>1, <3>2 DEF Types, HistType
      <3>4. QED
        BY <3>1, <3>3 DEF Types, HistType
    <2>7. QED
      BY <2>1, <2>2, <2>3, <2>4, <2>5, <2>6, Zenon
         DEF SynthThread, Get, ClearStopping, DtalkQueue, TestStopping, CallDestroyed, DtalkSynth, PopMark,
             Select, Ended
  <1>7. QED
    BY <1>1, <1>2, <1>3, <1>4, <1>5, <1>6 DEF Types

LEMMA TypesHold == Safe => []Types
  <1>1. Types /\ UNCHANGED vars => Types'
    BY DEF Types, MainType, QueueType, DtType, SynthType, PlayerType, HistType, vars
  <1>2. Types /\ [Next]_vars => Types'
    BY <1>1, MainTypes, ThreadTypes DEF Next
  <1>3. QED
    BY <1>2, InitTypes, PTL DEF Safe

-----------------------------------------------------------------------------
(* The position the thread counts is the instance's.  The thread holds a   *)
(* chunk exactly between the synthesis and the feed; without that the      *)
(* sum would not be kept by a step that resets n.                          *)

Holding == synth.n = IF synth.at \in {"map", "feed"} THEN 1 ELSE 0
Counted == Holding /\ SamplesInStep

LEMMA CountedStep ==
  ASSUME Types, Counted, [Next]_vars
  PROVE  Counted'
  <1>1. synth \in SynthRecord /\ dt.pos \in Nat /\ hist.raised \in BOOLEAN
    BY DEF Types, SynthType, DtType, HistType
  <1>2. CASE UNCHANGED <<synth, dt.pos, hist.raised>>
    BY <1>2 DEF Counted, Holding, SamplesInStep
  <1>3. CASE DtalkSynth /\ dt.todo = <<>>
    <2>1. /\ synth.at = "call" /\ synth' = [synth EXCEPT !.at = "ended", !.n = 0]
          /\ UNCHANGED dt /\ hist'.raised = hist.raised
      BY <1>3 DEF DtalkSynth, Types, HistType
    <2>2. synth'.at = "ended" /\ synth'.n = 0 /\ synth'.samplesDone = synth.samplesDone
      BY <1>1, <2>1 DEF SynthRecord
    <2>3. QED
      BY <1>1, <2>1, <2>2 DEF Counted, Holding, SamplesInStep, SynthRecord
  <1>4. CASE DtalkSynth /\ dt.todo # <<>>
    <2>1. PICK m, head, made, start, marks, read : Synthesized(m, head, made, start, marks, read)
      BY <1>4, SynthParts
    <2>2. synth.at = "call" /\ UNCHANGED hist
      BY <1>4, Zenon DEF DtalkSynth
    <2>3. synth'.at = "map" /\ synth'.n = 1 /\ synth'.samplesDone = synth.samplesDone
      BY <1>1, <2>1, Zenon DEF Synthesized, SynthRecord
    <2>4. dt'.pos = dt.pos + 1
      BY <2>1 DEF Synthesized, Types, DtType
    <2>5. QED
      BY <1>1, <2>2, <2>3, <2>4 DEF Counted, Holding, SamplesInStep, SynthRecord
  <1>5. CASE Feed
    <2>1. /\ synth.at = "feed" /\ UNCHANGED dt /\ hist'.raised = hist.raised
          /\ synth' = [synth EXCEPT !.at = "test", !.samplesDone = synth.samplesDone + synth.n,
                                    !.n = 0, !.fired = <<>>]
      BY <1>5 DEF Feed, Types, HistType
    <2>2. synth'.at = "test" /\ synth'.n = 0 /\ synth'.samplesDone = synth.samplesDone + synth.n
      BY <1>1, <2>1 DEF SynthRecord
    <2>3. QED
      BY <1>1, <2>1, <2>2 DEF Counted, Holding, SamplesInStep, SynthRecord
  <1>6. CASE FeedRaises
    <2>1. synth'.at = "get" /\ synth'.n = 0 /\ hist'.raised = TRUE
      BY <1>1, <1>6 DEF FeedRaises, Types, HistType, SynthRecord
    <2>2. QED
      BY <2>1 DEF Counted, Holding, SamplesInStep
  <1>7. CASE Get \/ ClearStopping \/ DtalkQueue \/ TestStopping \/ CallDestroyed \/ PopMark \/ Select \/ Ended
             \/ IdleAndNotify
    <2>1. /\ synth'.n = synth.n /\ synth'.samplesDone = synth.samplesDone
          /\ synth'.at \in {"map", "feed"} <=> synth.at \in {"map", "feed"}
      BY <1>1, <1>7 DEF SynthRecord, Get, ClearStopping, DtalkQueue, TestStopping, CallDestroyed, PopMark, Select,
         Ended, IdleAndNotify
    <2>2. dt'.pos = dt.pos /\ hist'.raised = hist.raised
      BY <1>7 DEF Get, ClearStopping, DtalkQueue, TestStopping, CallDestroyed, PopMark, Select, Ended,
         IdleAndNotify, Types, DtType, HistType
    <2>3. QED
      BY <2>1, <2>2 DEF Counted, Holding, SamplesInStep
  <1>8. CASE MainThread \/ Play
    <2>1. UNCHANGED <<synth, dt.pos, hist.raised>>
      BY <1>8, ZenonT(30) DEF Types, DtType, HistType, MainThread, Speak, CancelBegin, CancelDrain,
         CancelStop, CancelClear, CancelPlayer, TerminatePut, TerminateJoin, JoinGivesUp, TerminateClose, Play
    <2>2. QED
      BY <1>2, <2>1
  <1>9. QED
    BY <1>2, <1>3, <1>4, <1>5, <1>6, <1>7, <1>8 DEF Next, SynthThread, vars

\* The comment of _synthLoop on samplesDone: "Cumulative dtalk_synth() output
\* position; matches the emulator's own absolute sample counter", whatever the
\* threads do between each other's steps, as long as no feed raised.
THEOREM SamplesCounted == Safe => []SamplesInStep
  <1>1. Init => Counted
    BY DEF Init, Counted, Holding, SamplesInStep
  <1>2. Types /\ Counted /\ [Next]_vars => Counted'
    BY CountedStep
  <1>3. Counted => SamplesInStep
    BY DEF Counted
  <1>4. QED
    BY <1>1, <1>2, <1>3, TypesHold, PTL DEF Safe

-----------------------------------------------------------------------------
(* What a cancel leaves audible.  An utterance is live when it is newer    *)
(* than the last cancel or was in the thread's hand when that cancel       *)
(* stopped the instance.  Between two cancels everything that can still    *)
(* reach the player is live: what the thread holds, and what it has given  *)
(* to the instance; the queue holds newer utterances only.  While a cancel *)
(* drains the queue nothing is claimed: the thread may take from it, and   *)
(* what it took is in its hand at the stop.                                *)

Live(u) == u <= hist.silenced => u \in hist.inHand

Drained   == main.at = "stop" => queue = <<>>
Settled   == main.at \notin {"drain", "stop"}
QueueNew  == \A i \in DOMAIN queue : queue[i] # None => queue[i] > hist.silenced
TodoLive  == \A i \in DOMAIN dt.todo : Live(dt.todo[i].utt)
TakenLive == synth.at \notin {"get", "gone", "lost"} => Live(synth.utt)
HeldLive  == synth.n > 0 => Live(synth.of)

AllLive == /\ hist.silenced <= hist.said /\ Holding /\ Drained
           /\ Settled => QueueNew /\ TodoLive /\ TakenLive /\ HeldLive

\* The head and the tail of a sequence by their positions.
LEMMA HeadAndTail ==
  ASSUME NEW S, NEW s \in Seq(S), s # <<>>
  PROVE  /\ Len(s) \in Nat /\ Len(s) > 0 /\ DOMAIN s = 1..Len(s)
         /\ Head(s) = s[1] /\ 1 \in DOMAIN s /\ Head(s) \in S
         /\ Tail(s) \in Seq(S) /\ Len(Tail(s)) = Len(s) - 1
         /\ DOMAIN Tail(s) = 1..(Len(s) - 1)
         /\ \A i \in DOMAIN Tail(s) : i + 1 \in DOMAIN s /\ Tail(s)[i] = s[i + 1]
  <1>1. Len(s) \in Nat /\ Len(s) > 0 /\ DOMAIN s = 1..Len(s)
    BY EmptySeq, LenProperties
  <1>2. /\ Head(s) = s[1] /\ Head(s) \in S /\ Tail(s) \in Seq(S) /\ Len(Tail(s)) = Len(s) - 1
        /\ \A i \in 1..Len(Tail(s)) : Tail(s)[i] = s[i + 1]
    BY HeadTailProperties
  <1>3. DOMAIN Tail(s) = 1..(Len(s) - 1)
    BY <1>2, LenProperties
  <1>4. QED
    BY <1>1, <1>2, <1>3

LEMMA AllLiveMain ==
  ASSUME Types, AllLive, MainThread
  PROVE  AllLive'
  <1>1. /\ main \in [at : MainAt, ending : BOOLEAN] /\ queue \in Seq(Utterances \cup {None})
        /\ hist.said \in Nat /\ hist.silenced \in Nat /\ synth \in SynthRecord
        /\ dt.todo \in Seq(Work)
    BY DEF Types, MainType, QueueType, HistType, SynthType, DtType
  <1>2. UNCHANGED synth /\ Holding'
    BY DEF AllLive, Holding, MainThread, Speak, CancelBegin, CancelDrain, CancelStop,
       CancelClear, CancelPlayer, TerminatePut, TerminateJoin, JoinGivesUp, TerminateClose
  <1>3. CASE Speak
    <2>1. /\ main.at = "free" /\ UNCHANGED <<main, dt>>
          /\ queue' = Append(queue, hist.said + 1)
          /\ hist'.said = hist.said + 1 /\ hist'.silenced = hist.silenced
          /\ hist'.inHand = hist.inHand
      BY <1>3 DEF Speak, Types, HistType
    <2>2. QueueNew /\ TodoLive /\ TakenLive /\ HeldLive /\ hist.silenced <= hist.said
      BY <2>1 DEF AllLive, Settled
    <2>3. QueueNew'
      <3>1. ASSUME NEW i \in DOMAIN queue' PROVE queue'[i] # None => queue'[i] > hist.silenced
        <4>1. /\ DOMAIN queue' = 1..(Len(queue) + 1) /\ DOMAIN queue = 1..Len(queue)
              /\ Len(queue) \in Nat
          BY <1>1, <2>1, AppendProperties, LenProperties
        <4>2. CASE i \in DOMAIN queue
          <5>1. queue'[i] = queue[i]
            BY <1>1, <2>1, <4>1, <4>2, AppendProperties
          <5>2. QED
            BY <2>2, <4>2, <5>1 DEF QueueNew
        <4>3. CASE i \notin DOMAIN queue
          <5>1. queue'[i] = hist.said + 1
            BY <1>1, <2>1, <4>1, <4>3, AppendProperties
          <5>2. QED
            BY <1>1, <2>2, <5>1
        <4>4. QED
          BY <4>2, <4>3
      <3>2. QED
        BY <2>1, <3>1 DEF QueueNew
    <2>4. TodoLive' /\ TakenLive' /\ HeldLive'
      BY <1>2, <2>1, <2>2 DEF TodoLive, TakenLive, HeldLive, Live
    <2>5. QED
      BY <1>1, <1>2, <2>1, <2>2, <2>3, <2>4 DEF AllLive, Drained, Settled
  <1>4. CASE CancelBegin
    <2>1. main'.at = "drain" /\ hist'.said = hist.said /\ hist'.silenced = hist.said
      BY <1>4 DEF CancelBegin, Types, HistType
    <2>2. QED
      BY <1>1, <1>2, <2>1 DEF AllLive, Drained, Settled
  <1>5. CASE CancelDrain
    <2>1. main'.at \in {"drain", "stop"} /\ (main'.at = "stop" => queue' = <<>>) /\ UNCHANGED hist
      BY <1>1, <1>5 DEF CancelDrain
    <2>2. QED
      BY <1>2, <2>1 DEF AllLive, Drained, Settled
  <1>6. CASE CancelStop
    <2>1. /\ queue = <<>> /\ queue' = <<>> /\ main'.at = "clear" /\ dt'.todo = <<>>
          /\ hist'.said = hist.said /\ hist'.silenced = hist.silenced /\ hist'.inHand = InHand
      BY <1>1, <1>6 DEF CancelStop, AllLive, Drained, Types, HistType, DtType
    <2>2. QueueNew' /\ TodoLive'
      BY <2>1 DEF QueueNew, TodoLive
    <2>3. TakenLive' /\ HeldLive'
      BY <1>2, <2>1 DEF TakenLive, HeldLive, Live, InHand
    <2>4. QED
      BY <1>2, <2>1, <2>2, <2>3 DEF AllLive, Drained, Settled
  <1>7. CASE TerminatePut
    <2>1. /\ main.at = "put" /\ main'.at = "join" /\ UNCHANGED <<dt, hist>>
          /\ queue' = Append(queue, None)
      BY <1>1, <1>7 DEF TerminatePut
    <2>2. QueueNew /\ TodoLive /\ TakenLive /\ HeldLive
      BY <2>1 DEF AllLive, Settled
    <2>3. QueueNew'
      <3>1. ASSUME NEW i \in DOMAIN queue' PROVE queue'[i] # None => queue'[i] > hist.silenced
        <4>1. /\ DOMAIN queue' = 1..(Len(queue) + 1) /\ DOMAIN queue = 1..Len(queue)
              /\ Len(queue) \in Nat /\ None \in Utterances \cup {None}
          BY <1>1, <2>1, AppendProperties, LenProperties
        <4>2. CASE i \in DOMAIN queue
          <5>1. queue'[i] = queue[i]
            BY <1>1, <2>1, <4>1, <4>2, AppendProperties
          <5>2. QED
            BY <2>2, <4>2, <5>1 DEF QueueNew
        <4>3. CASE i \notin DOMAIN queue
          BY <1>1, <2>1, <4>1, <4>3, AppendProperties
        <4>4. QED
          BY <4>2, <4>3
      <3>2. QED
        BY <2>1, <3>1 DEF QueueNew
    <2>4. TodoLive' /\ TakenLive' /\ HeldLive'
      BY <1>2, <2>1, <2>2 DEF TodoLive, TakenLive, HeldLive, Live
    <2>5. QED
      BY <1>2, <2>1, <2>3, <2>4 DEF AllLive, Drained, Settled
  <1>8. CASE CancelClear \/ CancelPlayer \/ TerminateJoin \/ JoinGivesUp \/ TerminateClose
    <2>1. /\ main.at \notin {"drain", "stop"} /\ main'.at \notin {"drain", "stop"}
          /\ UNCHANGED <<queue, hist>> /\ dt'.todo = dt.todo
      BY <1>1, <1>8 DEF CancelClear, CancelPlayer, TerminateJoin, JoinGivesUp, TerminateClose, Types, DtType
    <2>2. QED
      BY <1>2, <2>1 DEF AllLive, Drained, Settled, QueueNew, TodoLive, TakenLive, HeldLive, Live
  <1>9. QED
    BY <1>3, <1>4, <1>5, <1>6, <1>7, <1>8 DEF MainThread

LEMMA AllLiveThread ==
  ASSUME Types, AllLive, SynthThread \/ Play, Holding'
  PROVE  AllLive'
  <1>1. /\ queue \in Seq(Utterances \cup {None}) /\ synth \in SynthRecord
        /\ dt.todo \in Seq(Work)
    BY DEF Types, QueueType, SynthType, DtType
  <1>2. /\ UNCHANGED main /\ hist'.said = hist.said /\ hist'.silenced = hist.silenced
        /\ hist'.inHand = hist.inHand
    BY Zenon DEF Types, HistType, SynthThread, Get, ClearStopping, DtalkQueue, TestStopping, CallDestroyed, DtalkSynth,
       PopMark, Select, Feed, FeedRaises, Ended, IdleAndNotify, Play
  <1>3. hist'.silenced <= hist'.said
    BY <1>2 DEF AllLive
  <1>4. Drained' /\ (Settled => QueueNew')
    <2>1. CASE Get
      <3>1. queue # <<>> /\ queue' = Tail(queue)
        BY <2>1 DEF Get
      <3>2. main.at # "stop"
        BY <3>1 DEF AllLive, Drained
      <3>3. Settled => QueueNew'
        BY <1>1, <1>2, <3>1, HeadAndTail DEF AllLive, QueueNew
      <3>4. QED
        BY <1>2, <3>2, <3>3 DEF Drained
    <2>2. CASE UNCHANGED queue
      BY <1>2, <2>2 DEF AllLive, Drained, QueueNew
    <2>3. QED
      BY <2>1, <2>2, Zenon DEF SynthThread, ClearStopping, DtalkQueue, TestStopping, CallDestroyed, DtalkSynth,
         PopMark, Select, Feed, FeedRaises, Ended, IdleAndNotify, Play
  <1>5. Settled => TodoLive' /\ TakenLive' /\ HeldLive'
    <2> SUFFICES ASSUME Settled PROVE TodoLive' /\ TakenLive' /\ HeldLive'
      OBVIOUS
    <2>1. QueueNew /\ TodoLive /\ TakenLive /\ HeldLive
      BY DEF AllLive
    <2>2. \A u : Live(u)' <=> Live(u)
      BY <1>2 DEF Live
    <2>3. CASE Get
      <3>1. /\ UNCHANGED dt /\ synth'.n = synth.n /\ synth'.of = synth.of
            /\ synth'.utt = queue[1] /\ (synth'.at # "gone" => queue[1] # None)
            /\ 1 \in DOMAIN queue /\ queue[1] \in Utterances \cup {None}
        BY <1>1, <2>3, HeadAndTail DEF Get, SynthRecord
      <3>2. queue[1] # None => Live(queue[1])
        <4>1. queue[1] # None => queue[1] > hist.silenced
          BY <2>1, <3>1 DEF QueueNew
        <4>2. hist.silenced \in Nat /\ queue[1] \in Nat
          BY <3>1 DEF Types, HistType, Utterances, None
        <4>3. QED
          BY <4>1, <4>2 DEF Live
      <3>3. TakenLive'
        BY <2>2, <3>1, <3>2 DEF TakenLive
      <3>4. TodoLive' /\ HeldLive'
        BY <2>1, <2>2, <3>1 DEF TodoLive, HeldLive
      <3>5. QED
        BY <3>3, <3>4
    <2>4. CASE DtalkQueue
      <3> DEFINE w == [utt |-> synth.utt, made |-> 0, marked |-> 0]
      <3>1. /\ synth.at = "queue" /\ synth' = [synth EXCEPT !.at = "test"]
            /\ dt'.todo = Append(dt.todo, w)
        BY <2>4 DEF DtalkQueue, Types, DtType
      <3>2. w \in Work
        BY <3>1, Sizes DEF Types, SynthType, Work
      <3>3. w.utt = synth.utt /\ Live(synth.utt)
        BY <2>1, <3>1 DEF TakenLive
      <3> HIDE DEF w
      <3>4. TodoLive'
        <4>1. ASSUME NEW i \in DOMAIN dt'.todo PROVE Live(dt'.todo[i].utt)
          <5>1. /\ DOMAIN dt'.todo = 1..(Len(dt.todo) + 1) /\ DOMAIN dt.todo = 1..Len(dt.todo)
                /\ Len(dt.todo) \in Nat
            BY <1>1, <3>1, <3>2, AppendProperties, LenProperties
          <5>2. CASE i \in DOMAIN dt.todo
            <6>1. dt'.todo[i] = dt.todo[i]
              BY <1>1, <3>1, <3>2, <5>1, <5>2, AppendProperties
            <6>2. QED
              BY <2>1, <5>2, <6>1 DEF TodoLive
          <5>3. CASE i \notin DOMAIN dt.todo
            <6>1. dt'.todo[i] = w
              BY <1>1, <3>1, <3>2, <5>1, <5>3, AppendProperties
            <6>2. QED
              BY <3>3, <6>1
          <5>4. QED
            BY <5>2, <5>3
        <4>2. QED
          BY <2>2, <4>1 DEF TodoLive
      <3>5. synth'.utt = synth.utt /\ synth'.n = synth.n /\ synth'.of = synth.of
        BY <1>1, <3>1 DEF SynthRecord
      <3>6. QED
        BY <2>1, <2>2, <3>3, <3>4, <3>5 DEF TakenLive, HeldLive
    <2>5. CASE DtalkSynth /\ dt.todo # <<>>
      <3>1. PICK m, head, made, start, marks, read : Synthesized(m, head, made, start, marks, read)
        BY <2>5, SynthParts
      <3>2. synth.at = "call" /\ synth'.utt = synth.utt /\ synth'.of = head.utt
        BY <1>1, <2>5, <3>1, Zenon DEF DtalkSynth, Synthesized, SynthRecord
      <3>3. /\ head = dt.todo[1] /\ head \in Work
            /\ dt'.todo = (IF made = Length THEN <<>>
                           ELSE <<[head EXCEPT !.made = made, !.marked = m]>>) \o Tail(dt.todo)
        BY <3>1, Zenon DEF Synthesized, Types, DtType
      <3>4. /\ 1 \in DOMAIN dt.todo /\ Live(head.utt)
            /\ \A i \in DOMAIN Tail(dt.todo) : Live(Tail(dt.todo)[i].utt)
            /\ Tail(dt.todo) \in Seq(Work)
        BY <1>1, <2>1, <2>5, <3>3, HeadAndTail DEF TodoLive
      <3>5. TodoLive'
        <4>1. CASE made = Length
          BY <2>2, <3>3, <3>4, <4>1, ConcatEmptySeq DEF TodoLive
        <4>2. CASE made # Length
          <5> DEFINE w == [head EXCEPT !.made = made, !.marked = m]
                     rest == Tail(dt.todo)
          <5>1. w \in Work /\ w.utt = head.utt
            <6>1. w.utt = head.utt
              BY <3>3 DEF Work
            <6>2. w \in Work
              <7>1. head \in Work /\ made = head.made + 1 /\ m \in head.marked .. MarksEach
                BY <3>1, Zenon DEF Synthesized
              <7>2. made \in 0..(Length - 1) /\ m \in 0..MarksEach
                BY <4>2, <7>1, Sizes DEF Work
              <7>3. QED
                BY <7>1, <7>2, Zenon DEF Work
            <6>3. QED
              BY <6>1, <6>2
          <5> HIDE DEF w
          <5>2. dt'.todo = <<w>> \o rest
            BY <3>3, <4>2 DEF w
          <5>3. <<w>> \in Seq(Work) /\ Len(<<w>>) = 1 /\ <<w>>[1] = w /\ rest \in Seq(Work)
            BY <3>4, <5>1
          <5> HIDE DEF rest
          <5>4. ASSUME NEW i \in DOMAIN dt'.todo PROVE Live(dt'.todo[i].utt)
            <6>1. /\ i \in 1..(1 + Len(rest)) /\ Len(rest) \in Nat
                  /\ dt'.todo[i] = IF i <= 1 THEN <<w>>[i] ELSE rest[i - 1]
              BY <5>2, <5>3, <5>4, ConcatProperties, LenProperties
            <6>2. i > 1 => i - 1 \in DOMAIN rest
              BY <5>3, <6>1, LenProperties
            <6>3. CASE i = 1
              BY <3>4, <5>1, <5>3, <6>1, <6>3
            <6>4. CASE i > 1
              BY <3>4, <6>1, <6>2, <6>4 DEF rest
            <6>5. QED
              BY <6>1, <6>3, <6>4
          <5>5. QED
            BY <2>2, <5>4 DEF TodoLive
        <4>3. QED
          BY <4>1, <4>2
      <3>6. QED
        BY <2>1, <2>2, <3>2, <3>4, <3>5 DEF TakenLive, HeldLive
    <2>6. CASE Feed \/ FeedRaises \/ (DtalkSynth /\ dt.todo = <<>>)
      <3>1. /\ UNCHANGED dt /\ synth'.n = 0 /\ synth'.utt = synth.utt
            /\ synth.at \notin {"get", "gone", "lost"}
        BY <1>1, <2>6, Zenon DEF Feed, FeedRaises, DtalkSynth, SynthRecord
      <3>2. HeldLive'
        BY <3>1 DEF HeldLive
      <3>3. QED
        BY <2>1, <2>2, <3>1, <3>2 DEF TodoLive, TakenLive
    <2>7. CASE ClearStopping \/ TestStopping \/ CallDestroyed \/ PopMark \/ Select \/ Ended \/ IdleAndNotify \/ Play
      <3>1. /\ UNCHANGED dt /\ synth'.n = synth.n /\ synth'.of = synth.of
            /\ synth'.utt = synth.utt
            /\ synth'.at \notin {"get", "gone", "lost"} => synth.at \notin {"get", "gone", "lost"}
        BY <1>1, <2>7 DEF ClearStopping, TestStopping, CallDestroyed, PopMark, Select, Ended, IdleAndNotify, Play,
           SynthRecord
      <3>2. QED
        BY <2>1, <2>2, <3>1 DEF TodoLive, TakenLive, HeldLive
    <2>8. QED
      BY <2>3, <2>4, <2>5, <2>6, <2>7 DEF SynthThread
  <1>6. QED
    BY <1>2, <1>3, <1>4, <1>5 DEF AllLive, Settled

\* What a cancel leaves audible: once cancel has returned, the only cancelled
\* speech that still reaches the player is what the thread had in hand when
\* dtalk_stop was called, however the accesses of the two threads to _stopping,
\* the queue and the instance interleave, and whatever feeds raised before.
THEOREM CancelledIsSilent == Safe => OnlyInHandIsHeard
  <1>1. Init => Counted /\ AllLive
    BY DEF Init, Counted, Holding, SamplesInStep, AllLive, Drained, Settled, QueueNew, TodoLive,
       TakenLive, HeldLive
  <1>2. Types /\ Counted /\ AllLive /\ [Next]_vars => (Counted /\ AllLive)'
    <2> SUFFICES ASSUME Types, Counted, AllLive, [Next]_vars PROVE (Counted /\ AllLive)'
      OBVIOUS
    <2>1. Counted'
      BY CountedStep
    <2>2. AllLive'
      <3>1. Holding'
        BY <2>1 DEF Counted
      <3>2. CASE UNCHANGED vars
        BY <3>2 DEF AllLive, Holding, Drained, Settled, QueueNew, TodoLive, TakenLive, HeldLive,
           Live, vars
      <3>3. QED
        BY <3>1, <3>2, AllLiveMain, AllLiveThread DEF Next
    <2>3. QED
      BY <2>1, <2>2
  <1>3. Types /\ AllLive => (Feed /\ main.at = "free" /\ synth.of <= hist.silenced
                              => synth.of \in hist.inHand)
    <2> SUFFICES ASSUME Types, AllLive, Feed, main.at = "free", synth.of <= hist.silenced
                 PROVE  synth.of \in hist.inHand
      OBVIOUS
    <2>1. synth.n = 1
      BY DEF AllLive, Holding, Feed
    <2>2. Live(synth.of)
      BY <2>1 DEF AllLive, Settled, HeldLive
    <2>3. QED
      BY <2>2 DEF Live
  <1>4. QED
    BY <1>1, <1>2, <1>3, TypesHold, PTL DEF Safe, OnlyInHandIsHeard

-----------------------------------------------------------------------------
(* Notifications in order.  An index is on its way from the instance to    *)
(* the notifications: marks of the instance, marks just read, pending      *)
(* marks, marks of the chunk in hand, chunks of the player, notifications. *)
(* Each stage holds larger indexes than those after it, and nothing on its *)
(* way is beyond the frontier: what the instance has looked ahead to.      *)

Ix(s) == {s[i].index : i \in DOMAIN s}
Rising(s) == \A i, j \in DOMAIN s : i < j => s[i].index < s[j].index
Below(A, B) == \A a \in A, b \in B : a < b

Sounding == UNION {Ix(player.chunks[i].fired) : i \in DOMAIN player.chunks}

Chain(N, C, F, D, E, M) ==
  /\ Below(N, C \cup F \cup D \cup E \cup M)
  /\ Below(C, F \cup D \cup E \cup M)
  /\ Below(F, D \cup E \cup M)
  /\ Below(D, E \cup M)
  /\ Below(E, M)

LEMMA MarkFields == \A m \in Placed : m.index \in Nat /\ m.pos \in Int
  BY DEF Placed

LEMMA IndexTypes == \A s \in Seq(Placed) : Ix(s) \subseteq Nat
  <1> SUFFICES ASSUME NEW s \in Seq(Placed) PROVE Ix(s) \subseteq Nat
    OBVIOUS
  <1>1. \A i \in DOMAIN s : s[i] \in Placed
    BY ElementOfSeq, LenProperties
  <1>2. QED
    BY <1>1 DEF Ix, Placed

\* Joining two sequences keeps the order if the second is beyond the first.
LEMMA JoinedRising ==
  ASSUME NEW s \in Seq(Placed), NEW t \in Seq(Placed), NEW j, j = s \o t
  PROVE  /\ Ix(j) = Ix(s) \cup Ix(t)
         /\ Rising(s) /\ Rising(t) /\ Below(Ix(s), Ix(t)) => Rising(j)
  <1>1. /\ Len(s) \in Nat /\ Len(t) \in Nat /\ DOMAIN s = 1..Len(s) /\ DOMAIN t = 1..Len(t)
        /\ j \in Seq(Placed) /\ DOMAIN j = 1..(Len(s) + Len(t))
        /\ \A i \in 1..(Len(s) + Len(t)) : j[i] = IF i <= Len(s) THEN s[i] ELSE t[i - Len(s)]
    BY ConcatProperties, LenProperties
  <1>2. \A i \in DOMAIN s : i \in DOMAIN j /\ j[i] = s[i]
    BY <1>1
  <1>3. \A i \in DOMAIN t : i + Len(s) \in DOMAIN j /\ j[i + Len(s)] = t[i]
    BY <1>1
  <1>4. \A i \in DOMAIN j : \/ i \in DOMAIN s /\ j[i] = s[i]
                            \/ i - Len(s) \in DOMAIN t /\ i > Len(s) /\ j[i] = t[i - Len(s)]
    BY <1>1
  <1>5. Ix(j) = Ix(s) \cup Ix(t)
    <2>1. \A i \in DOMAIN s : s[i].index \in Ix(j)
      BY <1>2 DEF Ix
    <2>2. \A i \in DOMAIN t : t[i].index \in Ix(j)
      BY <1>3 DEF Ix
    <2>3. \A i \in DOMAIN j : j[i].index \in Ix(s) \cup Ix(t)
      BY <1>4 DEF Ix
    <2>4. Ix(s) \subseteq Ix(j) /\ Ix(t) \subseteq Ix(j)
      BY <2>1, <2>2 DEF Ix
    <2>5. Ix(j) \subseteq Ix(s) \cup Ix(t)
      <3>1. \A x \in Ix(j) : \E i \in DOMAIN j : x = j[i].index
        BY DEF Ix
      <3>2. QED
        BY <2>3, <3>1
    <2>6. QED
      BY <2>4, <2>5
  <1>6. ASSUME Rising(s), Rising(t), Below(Ix(s), Ix(t)), NEW a \in DOMAIN j, NEW b \in DOMAIN j, a < b
        PROVE  j[a].index < j[b].index
    <2>1. CASE b \in DOMAIN s /\ a \in DOMAIN s
      BY <1>1, <1>2, <1>6, <2>1 DEF Rising
    <2>2. CASE b \notin DOMAIN s /\ a \in DOMAIN s
      <3>1. j[a].index \in Ix(s) /\ j[b].index \in Ix(t)
        BY <1>2, <1>4, <1>6, <2>2 DEF Ix
      <3>2. QED
        BY <1>6, <3>1 DEF Below
    <2>3. CASE b \notin DOMAIN s /\ a \notin DOMAIN s
      <3>1. /\ a - Len(s) \in DOMAIN t /\ j[a] = t[a - Len(s)]
            /\ b - Len(s) \in DOMAIN t /\ j[b] = t[b - Len(s)]
            /\ a - Len(s) < b - Len(s)
        BY <1>1, <1>4, <1>6, <2>3
      <3>2. QED
        BY <1>6, <3>1 DEF Rising
    <2>4. QED
      BY <1>1, <1>6, <2>1, <2>2, <2>3
  <1>7. QED
    BY <1>5, <1>6 DEF Rising

\* Cutting a sequence in two, and a rising one.
LEMMA Cuts ==
  ASSUME NEW s \in Seq(Placed), NEW r \in 0..Len(s),
         NEW a, a = SubSeq(s, 1, r), NEW b, b = SubSeq(s, r + 1, Len(s))
  PROVE  /\ a \in Seq(Placed) /\ b \in Seq(Placed)
         /\ Len(s) \in Nat /\ DOMAIN s = 1..Len(s) /\ \A i \in DOMAIN s : s[i] \in Placed
         /\ DOMAIN a = 1..r /\ DOMAIN b = 1..(Len(s) - r)
         /\ \A i \in DOMAIN a : i \in DOMAIN s /\ a[i] = s[i]
         /\ \A i \in DOMAIN b : i + r \in DOMAIN s /\ b[i] = s[i + r]
  <1>1. Len(s) \in Nat /\ DOMAIN s = 1..Len(s) /\ \A i \in 1..Len(s) : s[i] \in Placed
    BY LenProperties, ElementOfSeq
  <1>2. /\ a \in Seq(Placed) /\ DOMAIN a = 1..r /\ \A i \in 1..r : a[i] = s[i]
    <2>1. 1 \in Int /\ r \in Int /\ \A i \in 1..r : s[i] \in Placed
      BY <1>1
    <2>2. /\ a \in Seq(Placed) /\ Len(a) = IF 1 <= r THEN r - 1 + 1 ELSE 0
          /\ \A i \in 1..(r - 1 + 1) : a[i] = s[1 + i - 1]
      BY <2>1, SubSeqProperties
    <2>3. Len(a) = r
      BY <1>1, <2>2
    <2>4. QED
      BY <1>1, <2>2, <2>3, LenProperties
  <1>3. /\ b \in Seq(Placed) /\ DOMAIN b = 1..(Len(s) - r)
        /\ \A i \in 1..(Len(s) - r) : b[i] = s[i + r]
    <2>1. r + 1 \in Int /\ Len(s) \in Int /\ \A i \in (r + 1)..Len(s) : s[i] \in Placed
      BY <1>1
    <2>2. /\ b \in Seq(Placed)
          /\ Len(b) = IF r + 1 <= Len(s) THEN Len(s) - (r + 1) + 1 ELSE 0
          /\ \A i \in 1..(Len(s) - (r + 1) + 1) : b[i] = s[r + 1 + i - 1]
      BY <2>1, SubSeqProperties
    <2>3. Len(b) = Len(s) - r
      <3> DEFINE lb == Len(b)
                 ls == Len(s)
      <3>1. ls \in Nat /\ r \in 0..ls /\ lb = IF r + 1 <= ls THEN ls - (r + 1) + 1 ELSE 0
        BY <1>1, <2>2
      <3> HIDE DEF lb, ls
      <3>2. lb = ls - r
        BY <3>1
      <3>3. QED
        BY <3>2 DEF lb, ls
    <2>4. \A i \in 1..(Len(s) - r) : b[i] = s[i + r]
      <3>1. ASSUME NEW i \in 1..(Len(s) - r) PROVE b[i] = s[i + r]
        <4>1. r + 1 + i - 1 = i + r /\ i \in 1..(Len(s) - (r + 1) + 1)
          BY <1>1
        <4>2. QED
          BY <2>2, <4>1
      <3>2. QED
        BY <3>1
    <2>5. QED
      BY <1>1, <2>2, <2>3, <2>4, LenProperties
  <1>4. /\ \A i \in DOMAIN a : i \in DOMAIN s /\ a[i] = s[i]
        /\ \A i \in DOMAIN b : i + r \in DOMAIN s /\ b[i] = s[i + r]
    <2>1. \A i \in 1..(Len(s) - r) : i + r \in 1..Len(s)
      BY <1>1
    <2>2. r \in 0..Len(s) => \A i \in 1..r : i \in 1..Len(s)
      BY <1>1
    <2>3. QED
      BY <1>1, <1>2, <1>3, <2>1, <2>2
  <1>5. QED
    BY <1>1, <1>2, <1>3, <1>4

LEMMA CutRising ==
  ASSUME NEW s \in Seq(Placed), Rising(s), NEW r \in 0..Len(s),
         NEW a, a = SubSeq(s, 1, r), NEW b, b = SubSeq(s, r + 1, Len(s))
  PROVE  /\ Rising(a) /\ Rising(b)
         /\ Ix(a) \subseteq Ix(s) /\ Ix(b) \subseteq Ix(s) /\ Below(Ix(a), Ix(b))
  <1>1. /\ Len(s) \in Nat /\ DOMAIN s = 1..Len(s) /\ \A i \in DOMAIN s : s[i] \in Placed
        /\ DOMAIN a = 1..r /\ DOMAIN b = 1..(Len(s) - r)
        /\ \A i \in DOMAIN a : i \in DOMAIN s /\ a[i] = s[i]
        /\ \A i \in DOMAIN b : i + r \in DOMAIN s /\ b[i] = s[i + r]
    BY Cuts
  <1>2. Rising(a) /\ Rising(b)
    <2>1. \A i, j \in DOMAIN a : i < j => a[i].index < a[j].index
      BY <1>1 DEF Rising
    <2>2. ASSUME NEW i \in DOMAIN b, NEW j \in DOMAIN b, i < j PROVE b[i].index < b[j].index
      <3>1. i + r < j + r
        BY <1>1, <2>2
      <3>2. QED
        BY <1>1, <3>1 DEF Rising
    <2>3. QED
      BY <2>1, <2>2 DEF Rising
  <1>3. Ix(a) \subseteq Ix(s) /\ Ix(b) \subseteq Ix(s)
    BY <1>1 DEF Ix
  <1>4. Below(Ix(a), Ix(b))
    <2>1. ASSUME NEW i \in DOMAIN a, NEW j \in DOMAIN b PROVE a[i].index < b[j].index
      <3>1. i < j + r
        BY <1>1
      <3>2. s[i].index < s[j + r].index
        BY <1>1, <3>1 DEF Rising
      <3>3. s[i] \in Placed /\ s[j + r] \in Placed
        BY <1>1
      <3>4. s[i].index \in Int /\ s[j + r].index \in Int
        BY <3>3, MarkFields
      <3>5. QED
        BY <1>1, <3>2, <3>4
    <2>2. QED
      BY <2>1 DEF Below, Ix
  <1>5. QED
    BY <1>1, <1>2, <1>3, <1>4

LEMMA TailRising ==
  ASSUME NEW s \in Seq(Placed), Rising(s), s # <<>>
  PROVE  /\ Rising(Tail(s)) /\ Ix(Tail(s)) \subseteq Ix(s) /\ Head(s).index \in Ix(s)
         /\ Below({Head(s).index}, Ix(Tail(s)))
  <1> DEFINE t == Tail(s)
  <1>1. /\ Len(s) \in Nat /\ DOMAIN s = 1..Len(s) /\ 1 \in DOMAIN s /\ Head(s) = s[1]
        /\ DOMAIN t = 1..(Len(s) - 1) /\ \A i \in DOMAIN s : s[i] \in Placed
        /\ \A i \in DOMAIN t : i + 1 \in DOMAIN s /\ t[i] = s[i + 1]
    BY HeadAndTail, ElementOfSeq
  <1> HIDE DEF t
  <1>2. Rising(t)
    <2>1. ASSUME NEW i \in DOMAIN t, NEW j \in DOMAIN t, i < j PROVE t[i].index < t[j].index
      <3>1. i + 1 < j + 1
        BY <1>1, <2>1
      <3>2. QED
        BY <1>1, <3>1 DEF Rising
    <2>2. QED
      BY <2>1 DEF Rising
  <1>3. Ix(t) \subseteq Ix(s)
    BY <1>1 DEF Ix
  <1>4. Head(s).index \in Ix(s)
    BY <1>1 DEF Ix
  <1>5. ASSUME NEW i \in DOMAIN t PROVE Head(s).index < t[i].index
    <2>1. 1 < i + 1
      BY <1>1
    <2>2. s[1].index < s[i + 1].index
      BY <1>1, <2>1 DEF Rising
    <2>3. s[1].index \in Nat /\ s[i + 1].index \in Nat
      BY <1>1, MarkFields
    <2>4. QED
      BY <1>1, <2>2, <2>3
  <1>6. Below({Head(s).index}, Ix(t))
    BY <1>5 DEF Below, Ix
  <1>7. QED
    BY <1>2, <1>3, <1>4, <1>6 DEF t

LEMMA PickedRising ==
  ASSUME NEW s \in Seq(Placed), NEW I \in SUBSET DOMAIN s, NEW p, p = Picked(s, I)
  PROVE  /\ p \in Seq(Placed) /\ \A k \in DOMAIN p : \E i \in I : p[k] = s[i]
         /\ Rising(s) => Rising(p)
  <1>1. /\ p \in Seq(Placed)
        /\ \A k \in DOMAIN p : At(I, k) \in I /\ p[k] = s[At(I, k)]
        /\ \A k, l \in DOMAIN p : k < l => At(I, k) < At(I, l)
    BY PickedElements
  <1>2. Rising(s) => Rising(p)
    BY <1>1 DEF Rising
  <1>3. QED
    BY <1>1, <1>2

\* What keeps the chain: stages that lose indexes, and the front part of a
\* stage that moves on to the next.
LEMMA ShrunkChain ==
  ASSUME NEW N, NEW C, NEW F, NEW D, NEW E, NEW M, Chain(N, C, F, D, E, M),
         NEW n \in SUBSET N, NEW c \in SUBSET C, NEW f \in SUBSET F, NEW d \in SUBSET D,
         NEW e \in SUBSET E, NEW m \in SUBSET M
  PROVE  Chain(n, c, f, d, e, m)
  BY DEF Chain, Below

LEMMA MovedChain ==
  ASSUME NEW N, NEW C, NEW F, NEW D, NEW E, NEW M, Chain(N, C, F, D, E, M),
         NEW X, NEW R, Below(X, R)
  PROVE  /\ X \cup R \subseteq C => Chain(N \cup X, R, F, D, E, M)
         /\ X \cup R \subseteq F => Chain(N, C \cup X, R, D, E, M)
         /\ X \cup R \subseteq D => Chain(N, C, F \cup X, R, E, M)
         /\ X \cup R \subseteq E => Chain(N, C, F, D \cup X, R, M)
         /\ X \cup R \subseteq M => Chain(N, C, F, D, E \cup X, R)
  <1>1. X \cup R \subseteq C => Chain(N \cup X, R, F, D, E, M)
    BY DEF Chain, Below
  <1>2. X \cup R \subseteq F => Chain(N, C \cup X, R, D, E, M)
    BY DEF Chain, Below
  <1>3. X \cup R \subseteq D => Chain(N, C, F \cup X, R, E, M)
    BY DEF Chain, Below
  <1>4. X \cup R \subseteq E => Chain(N, C, F, D \cup X, R, M)
    BY DEF Chain, Below
  <1>5. X \cup R \subseteq M => Chain(N, C, F, D, E \cup X, R)
    BY DEF Chain, Below
  <1>6. QED
    BY <1>1, <1>2, <1>3, <1>4, <1>5

LEMMA GrownChain ==
  ASSUME NEW N, NEW C, NEW F, NEW D, NEW E, NEW M, Chain(N, C, F, D, E, M),
         NEW P, Below(N \cup C \cup F \cup D \cup E, P)
  PROVE  Chain(N, C, F, D, E, M \cup P)
  BY DEF Chain, Below

\* Products by MarksEach keep the order of utterances.
LEMMA Bases ==
  ASSUME NEW u \in Nat, NEW v \in Nat, u < v
  PROVE  /\ Base(v) \in Nat /\ u * MarksEach \in Nat /\ u * MarksEach <= Base(v)
         /\ u > 0 => Base(u) \in Nat /\ Base(u) + MarksEach = u * MarksEach
         /\ Base(v) + MarksEach = v * MarksEach /\ Base(v) <= v * MarksEach
  <1>1. MarksEach \in Nat
    BY Sizes
  <1>2. PICK d \in Nat : v = u + 1 + d
    <2>1. v - u - 1 \in Nat /\ v = u + 1 + (v - u - 1)
      OBVIOUS
    <2>2. QED
      BY <2>1
  <1>3. \A x \in Nat : x * MarksEach \in Nat /\ (x + 1) * MarksEach = x * MarksEach + MarksEach
    BY <1>1
  <1>4. (u + d) * MarksEach = u * MarksEach + d * MarksEach
    BY <1>1, <1>2
  <1>5. Base(v) = (u + d) * MarksEach
    <2>1. v - 1 = u + d
      BY <1>2
    <2>2. QED
      BY <2>1 DEF Base
  <1>6. u * MarksEach <= Base(v) /\ Base(v) \in Nat
    BY <1>3, <1>4, <1>5
  <1>7. u > 0 => Base(u) \in Nat /\ Base(u) + MarksEach = u * MarksEach
    <2>1. u > 0 => u - 1 \in Nat /\ (u - 1) + 1 = u
      OBVIOUS
    <2>2. QED
      BY <1>3, <2>1 DEF Base
  <1>8. Base(v) + MarksEach = v * MarksEach
    <2>1. v - 1 \in Nat /\ (v - 1) + 1 = v
      BY <1>2
    <2>2. QED
      BY <1>3, <2>1 DEF Base
  <1>9. QED
    BY <1>1, <1>3, <1>6, <1>7, <1>8

\* Which lists the thread fills where.
Slots == /\ synth.at # "map" => synth.new = <<>>
         /\ synth.at # "feed" => synth.fired = <<>>
         /\ synth.at = "queue" => synth.pending = <<>>

LEMMA SlotsStep ==
  ASSUME Types, Slots, [Next]_vars
  PROVE  Slots'
  <1>1. synth \in SynthRecord
    BY DEF Types, SynthType
  <1>2. CASE UNCHANGED synth
    BY <1>2 DEF Slots
  <1>3. CASE DtalkSynth /\ dt.todo = <<>>
    BY <1>1, <1>3, Zenon DEF Slots, SynthRecord, DtalkSynth
  <1>4. CASE DtalkSynth /\ dt.todo # <<>>
    <2>1. PICK m, head, made, start, marks, read : Synthesized(m, head, made, start, marks, read)
      BY <1>4, SynthParts
    <2>2. synth.at = "call" /\ synth'.at = "map" /\ synth'.fired = synth.fired
      BY <1>1, <1>4, <2>1, Zenon DEF Synthesized, DtalkSynth, SynthRecord
    <2>3. QED
      BY <2>2 DEF Slots
  <1>5. CASE Get \/ ClearStopping \/ DtalkQueue \/ TestStopping \/ CallDestroyed \/ Ended \/ IdleAndNotify
    BY <1>1, <1>5 DEF Slots, SynthRecord, Get, ClearStopping, DtalkQueue, TestStopping, CallDestroyed, Ended,
       IdleAndNotify
  <1>6. CASE PopMark \/ Select
    BY <1>1, <1>6 DEF Slots, SynthRecord, PopMark, Select
  <1>7. CASE Feed \/ FeedRaises
    <2>1. /\ synth.at = "feed" /\ synth'.at \in {"test", "get"}
          /\ synth'.new = synth.new /\ synth'.fired = <<>>
      BY <1>1, <1>7 DEF SynthRecord, Feed, FeedRaises
    <2>2. QED
      BY <2>1 DEF Slots
  <1>8. CASE MainThread \/ Play
    BY <1>2, <1>8 DEF MainThread, Speak, CancelBegin, CancelDrain, CancelStop, CancelClear,
       CancelPlayer, TerminatePut, TerminateJoin, JoinGivesUp, TerminateClose, Play
  <1>9. QED
    BY <1>2, <1>3, <1>4, <1>5, <1>6, <1>7, <1>8 DEF Next, SynthThread, vars

\* Utterances come in order: queued behind the thread's, the thread's behind
\* those of the instance, of which only the first has been begun.
Queued == /\ synth.utt <= hist.said
          /\ \A i \in DOMAIN queue : queue[i] # None => synth.utt < queue[i] /\ queue[i] <= hist.said
          /\ \A i, j \in DOMAIN queue :
               i < j /\ queue[i] # None /\ queue[j] # None => queue[i] < queue[j]

LEMMA QueuedStep ==
  ASSUME Types, Queued, [Next]_vars
  PROVE  Queued'
  <1>1. /\ synth \in SynthRecord /\ queue \in Seq(Utterances \cup {None}) /\ hist.said \in Nat
        /\ synth.utt \in Nat /\ \A i \in DOMAIN queue : queue[i] \in Nat
    <2>1. synth \in SynthRecord /\ queue \in Seq(Utterances \cup {None}) /\ hist.said \in Nat
      BY DEF Types, SynthType, QueueType, HistType
    <2>2. \A i \in DOMAIN queue : queue[i] \in Utterances \cup {None}
      BY <2>1, ElementOfSeq, LenProperties
    <2>3. synth.utt \in Utterances \cup {None}
      BY <2>1 DEF SynthRecord
    <2>4. QED
      BY <2>1, <2>2, <2>3 DEF Utterances, None
  <1>2. CASE UNCHANGED <<queue, synth.utt, hist.said>>
    BY <1>2 DEF Queued
  <1>3. CASE Speak \/ TerminatePut
    <2> DEFINE last == IF Speak THEN hist.said + 1 ELSE None
    <2>1. /\ queue' = Append(queue, last) /\ synth' = synth
          /\ hist'.said \in Nat /\ hist'.said >= hist.said
          /\ last # None => last = hist'.said
          /\ last # None => last = hist.said + 1
      <3>1. CASE Speak
        BY <1>1, <3>1 DEF Speak, Types, HistType
      <3>2. CASE TerminatePut /\ ~Speak
        BY <1>1, <3>2 DEF TerminatePut
      <3>3. QED
        BY <1>3, <3>1, <3>2
    <2>2. last \in Utterances \cup {None} /\ last \in Nat
      <3>1. Speak => hist.said + 1 \in Utterances
        BY Sizes DEF Types, HistType, Speak, Utterances
      <3>2. QED
        BY <3>1 DEF Utterances, None
    <2> HIDE DEF last
    <2>3. /\ Len(queue) \in Nat /\ DOMAIN queue = 1..Len(queue)
          /\ DOMAIN queue' = 1..(Len(queue) + 1)
          /\ \A i \in 1..Len(queue) : queue'[i] = queue[i]
          /\ queue'[Len(queue) + 1] = last
      BY <1>1, <2>1, <2>2, AppendProperties, LenProperties
    <2>4. /\ \A i \in DOMAIN queue : queue[i] # None =>
                synth.utt < queue[i] /\ queue[i] <= hist.said
          /\ \A i, j \in DOMAIN queue :
               i < j /\ queue[i] # None /\ queue[j] # None => queue[i] < queue[j]
          /\ synth.utt <= hist.said
      BY DEF Queued
    <2>5. \A i \in DOMAIN queue' : queue'[i] # None =>
             synth.utt < queue'[i] /\ queue'[i] <= hist'.said
      <3>1. ASSUME NEW i \in DOMAIN queue', queue'[i] # None
            PROVE  synth.utt < queue'[i] /\ queue'[i] <= hist'.said
        <4>1. CASE i \in DOMAIN queue
          BY <1>1, <2>1, <2>3, <2>4, <3>1, <4>1
        <4>2. CASE i = Len(queue) + 1
          BY <1>1, <2>1, <2>2, <2>3, <2>4, <3>1, <4>2
        <4>3. QED
          BY <2>3, <3>1, <4>1, <4>2
      <3>2. QED
        BY <3>1
    <2>6. \A i, j \in DOMAIN queue' :
             i < j /\ queue'[i] # None /\ queue'[j] # None => queue'[i] < queue'[j]
      <3>1. ASSUME NEW i \in DOMAIN queue', NEW j \in DOMAIN queue', i < j,
                   queue'[i] # None, queue'[j] # None
            PROVE  queue'[i] < queue'[j]
        <4>1. i \in DOMAIN queue /\ queue'[i] = queue[i]
          BY <2>3, <3>1
        <4>2. CASE j \in DOMAIN queue
          BY <2>3, <2>4, <3>1, <4>1, <4>2
        <4>3. CASE j = Len(queue) + 1
          BY <1>1, <2>1, <2>2, <2>3, <2>4, <3>1, <4>1, <4>3
        <4>4. QED
          BY <2>3, <3>1, <4>2, <4>3
      <3>2. QED
        BY <3>1
    <2>7. synth'.utt <= hist'.said
      BY <1>1, <2>1, <2>4
    <2>8. QED
      BY <2>1, <2>5, <2>6, <2>7 DEF Queued
  <1>4. CASE Get \/ (CancelDrain /\ queue # <<>>)
    <2>1. /\ queue # <<>> /\ queue' = Tail(queue) /\ hist' = hist
          /\ synth'.utt = synth.utt \/ synth'.utt = queue[1]
      BY <1>1, <1>4, HeadAndTail DEF Get, CancelDrain, SynthRecord
    <2>2. /\ 1 \in DOMAIN queue /\ queue[1] \in Nat /\ DOMAIN queue = 1..Len(queue)
          /\ \A i \in DOMAIN queue' : i \in Nat /\ i > 0 /\ i + 1 \in DOMAIN queue
                                      /\ queue'[i] = queue[i + 1]
      BY <1>1, <2>1, HeadAndTail
    <2>3. synth'.utt <= hist.said
      BY <1>1, <2>1, <2>2, SMTT(30) DEF Queued, None
    <2>4. \A i \in DOMAIN queue' : queue'[i] # None =>
             synth'.utt < queue'[i] /\ queue'[i] <= hist'.said
      <3>1. ASSUME NEW i \in DOMAIN queue', queue'[i] # None
            PROVE  synth'.utt < queue'[i] /\ queue'[i] <= hist'.said
        <4>1. i + 1 \in DOMAIN queue /\ queue'[i] = queue[i + 1] /\ 1 < i + 1
          BY <2>2
        <4>2. /\ synth.utt < queue[i + 1] /\ queue[i + 1] <= hist.said
              /\ queue[1] # None => queue[1] < queue[i + 1]
          BY <2>2, <3>1, <4>1 DEF Queued
        <4>3. queue[1] = None => queue[1] < queue[i + 1]
          BY <1>1, <3>1, <4>1 DEF None
        <4>4. QED
          BY <2>1, <4>1, <4>2, <4>3
      <3>2. QED
        BY <3>1
    <2>5. \A i, j \in DOMAIN queue' :
             i < j /\ queue'[i] # None /\ queue'[j] # None => queue'[i] < queue'[j]
      <3>1. ASSUME NEW i \in DOMAIN queue', NEW j \in DOMAIN queue', i < j,
                   queue'[i] # None, queue'[j] # None
            PROVE  queue'[i] < queue'[j]
        <4>1. /\ i + 1 < j + 1 /\ i + 1 \in DOMAIN queue /\ j + 1 \in DOMAIN queue
              /\ queue'[i] = queue[i + 1] /\ queue'[j] = queue[j + 1]
          BY <2>2, <3>1
        <4>2. QED
          BY <3>1, <4>1 DEF Queued
      <3>2. QED
        BY <3>1
    <2>6. QED
      BY <2>1, <2>3, <2>4, <2>5 DEF Queued
  <1>5. CASE CancelBegin \/ (CancelDrain /\ queue = <<>>) \/ CancelStop
    BY <1>2, <1>5 DEF CancelBegin, CancelDrain, CancelStop, Types, HistType
  <1>6. CASE CancelClear \/ CancelPlayer \/ TerminateJoin \/ JoinGivesUp \/ TerminateClose \/ Play
    BY <1>2, <1>6 DEF CancelClear, CancelPlayer, TerminateJoin, JoinGivesUp, TerminateClose, Play, Types, HistType
  <1>7. CASE DtalkSynth
    <2>1. synth'.utt = synth.utt
      <3>1. CASE dt.todo = <<>>
        BY <1>1, <1>7, <3>1, Zenon DEF DtalkSynth, SynthRecord
      <3>2. CASE dt.todo # <<>>
        <4>1. PICK m, head, made, start, marks, read :
                Synthesized(m, head, made, start, marks, read)
          BY <1>7, <3>2, SynthParts
        <4>2. QED
          BY <1>1, <4>1, Zenon DEF Synthesized, SynthRecord
      <3>3. QED
        BY <3>1, <3>2
    <2>2. UNCHANGED queue /\ hist'.said = hist.said
      BY <1>7, Zenon DEF DtalkSynth, Types, HistType
    <2>3. QED
      BY <1>2, <2>1, <2>2
  <1>8. CASE ClearStopping \/ DtalkQueue \/ TestStopping \/ CallDestroyed \/ PopMark \/ Select \/ Feed
             \/ FeedRaises \/ Ended \/ IdleAndNotify
    <2>1. synth'.utt = synth.utt /\ UNCHANGED queue
      BY <1>1, <1>8 DEF ClearStopping, DtalkQueue, TestStopping, CallDestroyed, PopMark, Select, Feed,
         FeedRaises, Ended, IdleAndNotify, SynthRecord
    <2>2. hist'.said = hist.said
      BY <1>8 DEF ClearStopping, DtalkQueue, TestStopping, CallDestroyed, PopMark, Select, Feed,
         FeedRaises, Ended, IdleAndNotify, Types, HistType
    <2>3. QED
      BY <1>2, <2>1, <2>2
  <1>9. CASE UNCHANGED vars
    BY <1>2, <1>9 DEF vars
  <1>10. MainThread => Queued'
    BY <1>3, <1>4, <1>5, <1>6 DEF MainThread
  <1>11. SynthThread => Queued'
    BY <1>4, <1>7, <1>8 DEF SynthThread
  <1>12. QED
    BY <1>6, <1>9, <1>10, <1>11 DEF Next

\* What is left to do after a synthesis: the first utterance goes when it is
\* whole, otherwise it goes on.
LEMMA SynthTodo ==
  ASSUME Types, dt.todo # <<>>, NEW m, NEW head, NEW made, NEW start, NEW marks, NEW read,
         Synthesized(m, head, made, start, marks, read)
  PROVE  /\ Len(dt.todo) \in Nat /\ Len(dt.todo) > 0 /\ DOMAIN dt.todo = 1..Len(dt.todo)
         /\ made = Length =>
              /\ DOMAIN dt'.todo = 1..(Len(dt.todo) - 1)
              /\ \A i \in DOMAIN dt'.todo : i + 1 \in DOMAIN dt.todo /\ dt'.todo[i] = dt.todo[i + 1]
         /\ made # Length =>
              /\ DOMAIN dt'.todo = DOMAIN dt.todo
              /\ dt'.todo[1].utt = head.utt /\ dt'.todo[1].made = made /\ dt'.todo[1].marked = m
              /\ \A i \in DOMAIN dt'.todo : i > 1 => dt'.todo[i] = dt.todo[i]
  <1> DEFINE rest == Tail(dt.todo)
             w == [head EXCEPT !.made = made, !.marked = m]
  <1>1. /\ dt.todo \in Seq(Work) /\ head = dt.todo[1] /\ head \in Work
        /\ dt'.todo = (IF made = Length THEN <<>> ELSE <<w>>) \o rest
    BY Zenon DEF Synthesized, Types, DtType
  <1>2. /\ Len(dt.todo) \in Nat /\ Len(dt.todo) > 0 /\ DOMAIN dt.todo = 1..Len(dt.todo)
        /\ rest \in Seq(Work) /\ Len(rest) = Len(dt.todo) - 1
        /\ DOMAIN rest = 1..(Len(dt.todo) - 1)
        /\ \A i \in DOMAIN rest : i + 1 \in DOMAIN dt.todo /\ rest[i] = dt.todo[i + 1]
    BY <1>1, HeadAndTail
  <1> HIDE DEF rest
  <1>3. CASE made = Length
    <2>1. dt'.todo = rest
      BY <1>1, <1>2, <1>3, ConcatEmptySeq
    <2>2. QED
      BY <1>2, <1>3, <2>1
  <1>4. CASE made # Length
    <2>1. w.utt = head.utt /\ w.made = made /\ w.marked = m
      BY <1>1 DEF Work
    <2>2. w \in Work
      <3>1. made = head.made + 1 /\ m \in head.marked .. MarksEach
        BY Zenon DEF Synthesized
      <3>2. made \in 0..(Length - 1) /\ m \in 0..MarksEach
        BY <1>1, <1>4, <3>1, Sizes, SMTT(30) DEF Work
      <3>3. QED
        BY <1>1, <3>2, Zenon DEF Work
    <2> HIDE DEF w
    <2>3. <<w>> \in Seq(Work) /\ Len(<<w>>) = 1 /\ <<w>>[1] = w /\ dt'.todo = <<w>> \o rest
      BY <1>1, <1>4, <2>2
    <2>4. /\ DOMAIN dt'.todo = 1..(1 + Len(rest))
          /\ \A i \in 1..(1 + Len(rest)) :
               dt'.todo[i] = IF i <= 1 THEN <<w>>[i] ELSE rest[i - 1]
      BY <1>2, <2>3, ConcatProperties, LenProperties
    <2>5. DOMAIN dt'.todo = DOMAIN dt.todo /\ dt'.todo[1] = w
      BY <1>2, <2>3, <2>4
    <2>6. ASSUME NEW i \in DOMAIN dt'.todo, i > 1 PROVE dt'.todo[i] = dt.todo[i]
      <3>1. i - 1 \in DOMAIN rest /\ dt'.todo[i] = rest[i - 1] /\ (i - 1) + 1 = i
        BY <1>2, <2>4, <2>6
      <3>2. QED
        BY <1>2, <3>1
    <2>7. QED
      BY <1>2, <1>4, <2>1, <2>5, <2>6
  <1>5. QED
    BY <1>2, <1>3, <1>4

\* What dtalk_queue appends.
LEMMA QueueTodo ==
  ASSUME Types, DtalkQueue
  PROVE  /\ Len(dt.todo) \in Nat /\ DOMAIN dt.todo = 1..Len(dt.todo)
         /\ DOMAIN dt'.todo = 1..(Len(dt.todo) + 1)
         /\ \A i \in DOMAIN dt.todo : dt'.todo[i] = dt.todo[i]
         /\ dt'.todo[Len(dt.todo) + 1] = [utt |-> synth.utt, made |-> 0, marked |-> 0]
         /\ synth.at = "queue" /\ synth'.at = "test" /\ synth'.utt = synth.utt
         /\ synth'.new = synth.new /\ synth'.fired = synth.fired /\ synth'.pending = synth.pending
         /\ dt'.pos = dt.pos /\ dt'.marks = dt.marks
  <1> DEFINE w == [utt |-> synth.utt, made |-> 0, marked |-> 0]
  <1>1. dt.todo \in Seq(Work) /\ dt'.todo = Append(dt.todo, w) /\ dt'.pos = dt.pos
        /\ dt'.marks = dt.marks
    BY DEF Types, DtType, DtalkQueue
  <1>2. w \in Work
    BY Sizes DEF Types, SynthType, DtalkQueue, Work
  <1> HIDE DEF w
  <1>3. /\ Len(dt.todo) \in Nat /\ DOMAIN dt.todo = 1..Len(dt.todo)
        /\ DOMAIN dt'.todo = 1..(Len(dt.todo) + 1)
        /\ \A i \in DOMAIN dt.todo : dt'.todo[i] = dt.todo[i]
        /\ dt'.todo[Len(dt.todo) + 1] = w
    BY <1>1, <1>2, AppendProperties, LenProperties
  <1>4. /\ synth.at = "queue" /\ synth'.at = "test" /\ synth'.utt = synth.utt
        /\ synth'.new = synth.new /\ synth'.fired = synth.fired /\ synth'.pending = synth.pending
    BY DEF Types, SynthType, SynthRecord, DtalkQueue
  <1>5. QED
    BY <1>1, <1>3, <1>4 DEF w

TodoUtterances ==
  /\ \A i \in DOMAIN dt.todo : dt.todo[i].utt \in Utterances /\ dt.todo[i].utt \in Nat
  /\ synth.utt \in Nat

LEMMA TodoTypes ==
  ASSUME Types PROVE TodoUtterances
  <1>1. \A i \in DOMAIN dt.todo : dt.todo[i] \in Work
    BY ElementOfSeq, LenProperties DEF Types, DtType
  <1>2. synth.utt \in Utterances \cup {None}
    BY DEF Types, SynthType, SynthRecord
  <1>3. QED
    BY <1>1, <1>2 DEF Work, Utterances, None, TodoUtterances

InLine == /\ synth.at # "gone" => \A i \in DOMAIN dt.todo :
               /\ dt.todo[i].utt <= synth.utt
               /\ synth.at \in {"clear", "queue"} => dt.todo[i].utt < synth.utt
          /\ \A i, j \in DOMAIN dt.todo : i < j => dt.todo[i].utt < dt.todo[j].utt
          /\ \A i \in DOMAIN dt.todo : i > 1 => dt.todo[i].made = 0 /\ dt.todo[i].marked = 0

LEMMA InLineStep ==
  ASSUME Types, Queued, InLine, [Next]_vars
  PROVE  InLine'
  <1>1. synth \in SynthRecord /\ dt.todo \in Seq(Work) /\ TodoUtterances
    BY TodoTypes DEF Types, SynthType, DtType
  <1>2. CASE UNCHANGED <<synth, dt.todo>>
    BY <1>2 DEF InLine
  <1>3. CASE CancelStop
    <2>1. dt'.todo = <<>>
      BY <1>3 DEF CancelStop, Types, DtType
    <2>2. DOMAIN dt'.todo = {}
      BY <2>1
    <2>3. QED
      BY <2>2 DEF InLine
  <1>4. CASE Get
    <2>1. /\ UNCHANGED dt /\ synth.at = "get" /\ 1 \in DOMAIN queue
          /\ synth'.utt = queue[1] /\ synth'.at \in {"gone", "clear"}
          /\ synth'.at # "gone" => queue[1] # None
      <3>1. queue \in Seq(Utterances \cup {None}) /\ queue # <<>>
        BY <1>4 DEF Types, QueueType, Get
      <3>2. Head(queue) = queue[1] /\ 1 \in DOMAIN queue
        BY <3>1, HeadAndTail
      <3>3. QED
        BY <1>1, <1>4, <3>2 DEF Get, SynthRecord
    <2>2. synth'.at # "gone" => synth.utt < queue[1]
      BY <2>1 DEF Queued
    <2>3. queue[1] \in Nat
      <3>1. queue[1] \in Utterances \cup {None}
        BY <2>1, ElementOfSeq, LenProperties DEF Types, QueueType
      <3>2. QED
        BY <3>1 DEF Utterances, None
    <2>4. synth'.at # "gone" => \A i \in DOMAIN dt.todo : dt.todo[i].utt < synth'.utt
      BY <1>1, <2>1, <2>2, <2>3 DEF InLine, TodoUtterances
    <2>5. synth'.at # "gone" => \A i \in DOMAIN dt.todo : dt.todo[i].utt <= synth'.utt
      BY <1>1, <2>1, <2>3, <2>4 DEF TodoUtterances
    <2>6. QED
      BY <2>1, <2>4, <2>5 DEF InLine
  <1>5. CASE DtalkQueue
    <2>1. /\ synth.at = "queue" /\ synth'.at = "test" /\ synth'.utt = synth.utt
          /\ DOMAIN dt'.todo = 1..(Len(dt.todo) + 1) /\ DOMAIN dt.todo = 1..Len(dt.todo)
          /\ Len(dt.todo) \in Nat
          /\ \A i \in DOMAIN dt.todo : dt'.todo[i] = dt.todo[i]
          /\ dt'.todo[Len(dt.todo) + 1].utt = synth.utt
          /\ dt'.todo[Len(dt.todo) + 1].made = 0 /\ dt'.todo[Len(dt.todo) + 1].marked = 0
      BY <1>5, QueueTodo
    <2>2. \A i \in DOMAIN dt.todo : dt.todo[i].utt < synth.utt
      BY <2>1 DEF InLine
    <2>3. \A i \in DOMAIN dt'.todo : i \in DOMAIN dt.todo \/ i = Len(dt.todo) + 1
      BY <2>1
    <2>4. \A i \in DOMAIN dt'.todo : dt'.todo[i].utt <= synth.utt
      BY <1>1, <2>1, <2>2, <2>3 DEF TodoUtterances
    <2>5. ASSUME NEW i \in DOMAIN dt'.todo, NEW j \in DOMAIN dt'.todo, i < j
          PROVE  dt'.todo[i].utt < dt'.todo[j].utt
      <3>1. i \in DOMAIN dt.todo
        BY <2>1, <2>5
      <3>2. CASE j \in DOMAIN dt.todo
        BY <2>1, <2>5, <3>1, <3>2 DEF InLine
      <3>3. CASE j = Len(dt.todo) + 1
        BY <2>1, <2>2, <3>1, <3>3
      <3>4. QED
        BY <2>3, <3>2, <3>3
    <2>6. \A i \in DOMAIN dt'.todo : i > 1 => dt'.todo[i].made = 0 /\ dt'.todo[i].marked = 0
      BY <2>1, <2>3 DEF InLine
    <2>7. QED
      BY <2>1, <2>4, <2>5, <2>6 DEF InLine
  <1>6. CASE DtalkSynth /\ dt.todo # <<>>
    <2>1. PICK m, head, made, start, marks, read : Synthesized(m, head, made, start, marks, read)
      BY <1>6, SynthParts
    <2>2. /\ synth.at = "call" /\ synth'.at = "map" /\ synth'.utt = synth.utt
          /\ head = dt.todo[1]
      BY <1>1, <1>6, <2>1, Zenon DEF Synthesized, DtalkSynth, SynthRecord
    <2>3. \A i \in DOMAIN dt.todo : dt.todo[i].utt <= synth.utt
      BY <2>2 DEF InLine
    <2>4. CASE made = Length
      <3>1. \A i \in DOMAIN dt'.todo : i \in Nat /\ i > 0 /\ i + 1 > 1 /\ i + 1 \in DOMAIN dt.todo
                                        /\ dt'.todo[i] = dt.todo[i + 1]
        BY <1>6, <2>1, <2>4, SynthTodo
      <3>2. ASSUME NEW i \in DOMAIN dt'.todo, NEW j \in DOMAIN dt'.todo, i < j
            PROVE  dt'.todo[i].utt < dt'.todo[j].utt
        <4>1. i + 1 < j + 1
          BY <3>1, <3>2
        <4>2. QED
          BY <3>1, <4>1 DEF InLine
      <3>3. \A i \in DOMAIN dt'.todo : dt'.todo[i].made = 0 /\ dt'.todo[i].marked = 0
        BY <3>1 DEF InLine
      <3>4. \A i \in DOMAIN dt'.todo : dt'.todo[i].utt <= synth.utt
        BY <2>3, <3>1
      <3>5. QED
        BY <2>2, <3>2, <3>3, <3>4 DEF InLine
    <2>5. CASE made # Length
      <3>1. /\ DOMAIN dt'.todo = DOMAIN dt.todo /\ dt'.todo[1].utt = dt.todo[1].utt
            /\ \A i \in DOMAIN dt'.todo : i \in Nat /\ i > 0
            /\ \A i \in DOMAIN dt'.todo : i > 1 => dt'.todo[i] = dt.todo[i]
        BY <1>6, <2>1, <2>2, <2>5, SynthTodo
      <3>2. \A i \in DOMAIN dt'.todo : dt'.todo[i].utt = dt.todo[i].utt
        <4>1. \A i \in DOMAIN dt'.todo : i = 1 \/ i > 1
          BY <3>1
        <4>2. QED
          BY <3>1, <4>1
      <3>3. QED
        BY <2>2, <2>3, <3>1, <3>2 DEF InLine
    <2>6. QED
      BY <2>4, <2>5
  <1>7. CASE \/ ClearStopping \/ TestStopping \/ CallDestroyed \/ PopMark \/ Select \/ Feed \/ FeedRaises \/ Ended
             \/ IdleAndNotify \/ (DtalkSynth /\ dt.todo = <<>>)
    <2>1. /\ UNCHANGED dt /\ synth'.utt = synth.utt /\ synth.at # "gone"
          /\ synth'.at \in {"clear", "queue"} => synth.at \in {"clear", "queue"}
      BY <1>1, <1>7, Zenon DEF ClearStopping, TestStopping, CallDestroyed, PopMark, Select, Feed, FeedRaises, Ended,
         IdleAndNotify, DtalkSynth, SynthRecord
    <2>2. QED
      BY <2>1 DEF InLine
  <1>8. MainThread \/ Play => InLine'
    <2>1. CASE \/ Speak \/ CancelBegin \/ CancelDrain \/ CancelClear \/ CancelPlayer \/ TerminatePut
               \/ TerminateJoin \/ JoinGivesUp \/ TerminateClose \/ Play
      BY <1>2, <2>1 DEF Speak, CancelBegin, CancelDrain, CancelClear, CancelPlayer, TerminatePut,
         TerminateJoin, JoinGivesUp, TerminateClose, Play, Types, DtType
    <2>2. QED
      BY <1>3, <2>1 DEF MainThread
  <1>9. SynthThread => InLine'
    BY <1>4, <1>5, <1>6, <1>7 DEF SynthThread
  <1>10. CASE UNCHANGED vars
    BY <1>2, <1>10 DEF vars
  <1>11. QED
    BY <1>8, <1>9, <1>10 DEF Next

\* The indexes whose number is in use, by where they are.
Waits(i)    == \E j \in DOMAIN queue : queue[j] # None /\ i \in IndexesOf(queue[j])
Held(i)     == synth.at \in {"clear", "queue"} /\ i \in IndexesOf(synth.utt)
Unmarked(i) == \E j \in DOMAIN dt.todo : \E k \in (dt.todo[j].marked + 1)..MarksEach :
                  i = Base(dt.todo[j].utt) + k
Unread(i)   == i \in Ix(dt.marks) \cup Ix(synth.new)

Parted == \A i : i \in Outstanding <=> Waits(i) \/ Held(i) \/ Unmarked(i) \/ Unread(i)

LEMMA OutstandingParts == Parted
  <1> SUFFICES ASSUME NEW x
               PROVE  x \in Outstanding <=> Waits(x) \/ Held(x) \/ Unmarked(x) \/ Unread(x)
    BY DEF Parted
  <1> DEFINE waiting == UNION {IndexesOf(queue[i]) : i \in {j \in DOMAIN queue : queue[j] # None}}
             held == IF synth.at \in {"clear", "queue"} THEN IndexesOf(synth.utt) ELSE {}
             ahead(i) == {(dt.todo[i].utt - 1) * MarksEach + k : k \in (dt.todo[i].marked + 1)..MarksEach}
             unmarked == UNION {ahead(i) : i \in DOMAIN dt.todo}
             left == {dt.marks[i].index : i \in DOMAIN dt.marks}
             new == {synth.new[i].index : i \in DOMAIN synth.new}
  <1>1. x \in waiting <=> Waits(x)
    BY Zenon DEF Waits
  <1>2. x \in held <=> Held(x)
    BY DEF Held
  <1>3. x \in unmarked <=> Unmarked(x)
    <2>1. x \in unmarked <=> \E i \in DOMAIN dt.todo : x \in ahead(i)
      BY Zenon
    <2>2. \A i : x \in ahead(i) <=> \E k \in (dt.todo[i].marked + 1)..MarksEach :
                                      x = Base(dt.todo[i].utt) + k
      BY Zenon DEF Base
    <2> HIDE DEF ahead
    <2>3. QED
      BY <2>1, <2>2, Zenon DEF Unmarked
  <1>4. x \in left \cup new <=> Unread(x)
    BY Zenon DEF Unread, Ix
  <1>5. x \in Outstanding <=> x \in waiting \/ x \in held \/ x \in unmarked \/ x \in left \/ x \in new
    BY DEF Outstanding
  <1> HIDE DEF waiting, held, unmarked, left, new
  <1>6. QED
    BY <1>1, <1>2, <1>3, <1>4, <1>5

LEMMA IndexesAreNumbered ==
  ASSUME NEW u \in Utterances
  PROVE  /\ \A i \in IndexesOf(u) : i \in Nat /\ NumberOf(i) \in Numbers
         /\ \A k \in 1..MarksEach : Base(u) + k \in IndexesOf(u)
         /\ \A i \in IndexesOf(u) : \E k \in 1..MarksEach : i = Base(u) + k
  <1>1. u \in Nat /\ u > 0
    BY DEF Utterances
  <1>2. Base(u) \in Nat
    BY <1>1, Bases
  <1>3. \A i \in Int : NumberOf(i) \in Numbers
    BY Sizes DEF NumberOf, Numbers
  <1>4. ASSUME NEW k \in 1..MarksEach PROVE Base(u) + k \in Nat /\ Base(u) + k \in IndexesOf(u)
    BY <1>2, Sizes DEF IndexesOf, Base
  <1>5. \A i \in IndexesOf(u) : \E k \in 1..MarksEach : i = Base(u) + k
    BY DEF IndexesOf, Base
  <1>6. QED
    BY <1>3, <1>4, <1>5

LEMMA OutstandingTypes ==
  ASSUME Types, NEW i \in Outstanding
  PROVE  i \in Nat /\ NumberOf(i) \in Numbers
  <1>1. \A j \in Nat : NumberOf(j) \in Numbers
    BY Sizes DEF NumberOf, Numbers
  <1>2. CASE Waits(i)
    <2>1. PICK j \in DOMAIN queue : queue[j] # None /\ i \in IndexesOf(queue[j])
      BY <1>2 DEF Waits
    <2>2. queue[j] \in Utterances
      BY <2>1, ElementOfSeq, LenProperties DEF Types, QueueType
    <2>3. QED
      BY <2>1, <2>2, IndexesAreNumbered
  <1>3. CASE Held(i)
    <2>1. synth.utt \in Utterances
      BY <1>3 DEF Held, Types, SynthType
    <2>2. QED
      BY <1>3, <2>1, IndexesAreNumbered DEF Held
  <1>4. CASE Unmarked(i)
    <2>1. PICK j \in DOMAIN dt.todo : \E k \in (dt.todo[j].marked + 1)..MarksEach :
                                        i = Base(dt.todo[j].utt) + k
      BY <1>4 DEF Unmarked
    <2>2. dt.todo[j] \in Work
      BY <2>1, ElementOfSeq, LenProperties DEF Types, DtType
    <2>3. dt.todo[j].utt \in Utterances /\ dt.todo[j].marked \in Nat
      BY <2>2, Sizes DEF Work
    <2>4. PICK k \in (dt.todo[j].marked + 1)..MarksEach : i = Base(dt.todo[j].utt) + k
      BY <2>1
    <2>5. k \in 1..MarksEach
      BY <2>3, <2>4, Sizes
    <2>6. QED
      BY <2>3, <2>4, <2>5, IndexesAreNumbered
  <1>5. CASE Unread(i)
    BY <1>1, <1>5, IndexTypes DEF Unread, Types, DtType, SynthType, SynthRecord
  <1>6. QED
    BY <1>2, <1>3, <1>4, <1>5, OutstandingParts DEF Parted

\* An index that a synthesis has placed had not been marked.
LEMMA SynthOutstanding ==
  ASSUME Types, DtalkSynth, dt.todo # <<>>, NEW i, Unmarked(i)' \/ Unread(i)'
  PROVE  Unmarked(i) \/ Unread(i)
  <1>1. PICK m, head, made, start, marks, read : Synthesized(m, head, made, start, marks, read)
    BY SynthParts
  <1> DEFINE placed == MarksOf(head.utt, head.marked + 1, m, start)
  <1>2. /\ head = dt.todo[1] /\ head \in Work /\ made = head.made + 1 /\ start = dt.pos - head.made
        /\ m \in head.marked .. MarksEach
        /\ marks = dt.marks \o placed /\ marks \in Seq(Placed) /\ read \in 0..Len(marks)
    BY <1>1, Zenon DEF Synthesized
  <1>3. synth'.new = SubSeq(marks, 1, read) /\ dt'.marks = SubSeq(marks, read + 1, Len(marks))
    BY <1>1, ZenonT(30) DEF Synthesized, Types, SynthType, SynthRecord, DtType
  <1>4. /\ head.utt \in Utterances /\ head.marked \in 0..MarksEach /\ head.made \in Int
        /\ dt.pos \in Int /\ start \in Int /\ dt.marks \in Seq(Placed) /\ 1 \in DOMAIN dt.todo
    <2>1. 1 \in DOMAIN dt.todo /\ dt.marks \in Seq(Placed) /\ dt.pos \in Nat
      BY HeadAndTail DEF Types, DtType
    <2>2. head.utt \in Utterances /\ head.marked \in 0..MarksEach /\ head.made \in 0..(Length - 1)
      BY <1>2 DEF Work
    <2>3. QED
      BY <1>2, <2>1, <2>2, Sizes
  <1>5. Numbered(placed, head.utt, head.marked, m, start)
    BY <1>2, <1>4, MarkNumbering
  <1>6. ASSUME NEW k \in DOMAIN placed PROVE Unmarked(placed[k].index)
    <2>1. k \in 1..(m - head.marked) /\ placed[k].index = Base(head.utt) + (head.marked + k)
      BY <1>5, <1>6, LenProperties DEF Numbered
    <2>2. head.marked + k \in (head.marked + 1)..MarksEach
      <3>1. \A g \in 0..MarksEach : \A n \in g..MarksEach : \A l \in 1..(n - g) :
               g + l \in (g + 1)..MarksEach
        BY Sizes
      <3>2. QED
        BY <1>2, <1>4, <2>1, <3>1
    <2>3. QED
      BY <1>2, <1>4, <2>1, <2>2 DEF Unmarked
  <1>7. placed \in Seq(Placed)
    BY <1>5 DEF Numbered
  <1> HIDE DEF placed
  <1>8. ASSUME NEW k \in DOMAIN marks
        PROVE  Unmarked(marks[k].index) \/ marks[k].index \in Ix(dt.marks)
    <2>1. \/ k \in DOMAIN dt.marks /\ marks[k] = dt.marks[k]
          \/ k - Len(dt.marks) \in DOMAIN placed /\ marks[k] = placed[k - Len(dt.marks)]
      BY <1>2, <1>4, <1>7, ConcatProperties, LenProperties, SMTT(30)
    <2>2. QED
      BY <1>6, <2>1 DEF Ix
  <1>9. CASE Unread(i)'
    <2>1. \A k \in DOMAIN synth'.new : k \in DOMAIN marks /\ synth'.new[k] = marks[k]
      BY <1>2, <1>3, Cuts
    <2>2. \A k \in DOMAIN dt'.marks : k + read \in DOMAIN marks /\ dt'.marks[k] = marks[k + read]
      <3> DEFINE left == SubSeq(marks, read + 1, Len(marks))
      <3>1. \A k \in DOMAIN left : k + read \in DOMAIN marks /\ left[k] = marks[k + read]
        <4> DEFINE first == SubSeq(marks, 1, read)
        <4>1. /\ marks \in Seq(Placed) /\ read \in 0..Len(marks)
              /\ first = SubSeq(marks, 1, read) /\ left = SubSeq(marks, read + 1, Len(marks))
          BY <1>2
        <4> HIDE DEF first, left
        <4>2. QED
          BY <4>1, Cuts
      <3>2. dt'.marks = left
        BY <1>3
      <3> HIDE DEF left
      <3>3. QED
        BY <3>1, <3>2
    <2>3. (\E k \in DOMAIN synth'.new : i = synth'.new[k].index)
             \/ \E k \in DOMAIN dt'.marks : i = dt'.marks[k].index
      BY <1>9 DEF Unread, Ix
    <2>4. \E k \in DOMAIN marks : i = marks[k].index
      BY <2>1, <2>2, <2>3
    <2>5. QED
      BY <1>8, <2>4 DEF Unread
  <1>10. CASE Unmarked(i)'
    <2>1. PICK j \in DOMAIN dt'.todo : \E k \in (dt'.todo[j].marked + 1)..MarksEach :
                                         i = Base(dt'.todo[j].utt) + k
      BY <1>10 DEF Unmarked, Base
    <2>2. CASE made = Length
      <3>1. j + 1 \in DOMAIN dt.todo /\ dt'.todo[j] = dt.todo[j + 1]
        BY <1>1, <2>1, <2>2, SynthTodo
      <3>2. QED
        BY <2>1, <3>1 DEF Unmarked
    <2>3. CASE made # Length /\ j > 1
      <3>1. j \in DOMAIN dt.todo /\ dt'.todo[j] = dt.todo[j]
        BY <1>1, <2>1, <2>3, SynthTodo
      <3>2. QED
        BY <2>1, <3>1 DEF Unmarked
    <2>4. CASE made # Length /\ ~(j > 1)
      <3>1. /\ Len(dt.todo) \in Nat /\ DOMAIN dt'.todo = DOMAIN dt.todo
            /\ DOMAIN dt.todo = 1..Len(dt.todo) /\ dt'.todo[1].utt = head.utt /\ dt'.todo[1].marked = m
        BY <1>1, <2>4, SynthTodo
      <3>2. j = 1
        BY <2>1, <2>4, <3>1
      <3>3. PICK k \in (m + 1)..MarksEach : i = Base(head.utt) + k
        BY <2>1, <3>1, <3>2
      <3>4. k \in (head.marked + 1)..MarksEach
        <4>1. \A g \in 0..MarksEach : \A n \in g..MarksEach : \A l \in (n + 1)..MarksEach :
                 l \in (g + 1)..MarksEach
          BY Sizes
        <4>2. QED
          BY <1>2, <1>4, <3>3, <4>1
      <3>5. QED
        BY <1>2, <1>4, <3>3, <3>4 DEF Unmarked
    <2>5. QED
      BY <2>2, <2>3, <2>4
  <1>11. QED
    BY <1>9, <1>10

\* Only speak gives out numbers; the other steps at most make use of them.
LEMMA OutstandingStep ==
  ASSUME Types, [Next]_vars, ~Speak, NEW i \in Outstanding'
  PROVE  i \in Outstanding
  <1>1. Waits(i)' \/ Held(i)' \/ Unmarked(i)' \/ Unread(i)'
    <2>1. Parted'
      BY OutstandingParts, PTL
    <2>2. QED
      BY <2>1 DEF Parted
  <1> SUFFICES Waits(i) \/ Held(i) \/ Unmarked(i) \/ Unread(i)
    BY OutstandingParts DEF Parted
  <1>2. /\ synth \in SynthRecord /\ queue \in Seq(Utterances \cup {None})
        /\ dt \in [alive : BOOLEAN, todo : Seq(Work), pos : Nat, marks : Seq(Placed)]
    BY DEF Types, SynthType, QueueType, DtType
  <1>3. CASE Get \/ (CancelDrain /\ queue # <<>>)
    <2>1. /\ queue' = Tail(queue) /\ queue # <<>> /\ dt' = dt /\ synth'.new = synth.new
          /\ \/ synth'.at = "gone" \/ synth' = synth
             \/ synth'.utt = Head(queue) /\ Head(queue) # None
      BY <1>2, <1>3 DEF Get, CancelDrain, SynthRecord
    <2>2. /\ 1 \in DOMAIN queue /\ Head(queue) = queue[1]
          /\ \A j \in DOMAIN Tail(queue) : j + 1 \in DOMAIN queue /\ Tail(queue)[j] = queue[j + 1]
      BY <1>2, <2>1, HeadAndTail
    <2>3. Waits(i)' => Waits(i)
      BY <2>1, <2>2 DEF Waits, IndexesOf
    <2>4. Held(i)' => Waits(i) \/ Held(i)
      BY <2>1, <2>2 DEF Waits, Held, IndexesOf
    <2>5. Unmarked(i)' => Unmarked(i)
      BY <2>1, Zenon DEF Unmarked, Base
    <2>6. Unread(i)' => Unread(i)
      BY <2>1, Zenon DEF Unread, Ix
    <2>7. QED
      BY <1>1, <2>3, <2>4, <2>5, <2>6
  <1>4. CASE TerminatePut
    <2>1. queue' = Append(queue, None) /\ UNCHANGED <<synth, dt>>
      BY <1>4 DEF TerminatePut
    <2>2. \A j \in DOMAIN queue' : queue'[j] # None => j \in DOMAIN queue /\ queue'[j] = queue[j]
      BY <1>2, <2>1, AppendProperties, LenProperties
    <2>3. Waits(i)' => Waits(i)
      BY <2>2 DEF Waits, IndexesOf
    <2>4. (Held(i)' => Held(i)) /\ (Unmarked(i)' => Unmarked(i)) /\ (Unread(i)' => Unread(i))
      BY <2>1, Zenon DEF Held, Unmarked, Unread, Ix, Base, IndexesOf
    <2>5. QED
      BY <1>1, <2>3, <2>4
  <1>5. CASE CancelStop
    <2>1. /\ dt'.todo = <<>> /\ dt'.marks = <<>> /\ DOMAIN <<>> = {} /\ UNCHANGED <<queue, synth>>
      BY <1>2, <1>5 DEF CancelStop
    <2>2. (Waits(i)' => Waits(i)) /\ (Held(i)' => Held(i))
      BY <2>1, Zenon DEF Waits, Held, IndexesOf
    <2>3. ~Unmarked(i)' /\ (Unread(i)' => Unread(i))
      BY <2>1 DEF Unmarked, Unread, Ix
    <2>4. QED
      BY <1>1, <2>2, <2>3
  <1>6. CASE DtalkQueue
    <2>1. /\ synth.at = "queue" /\ synth'.at = "test" /\ synth'.new = synth.new
          /\ dt'.marks = dt.marks /\ UNCHANGED queue
          /\ Len(dt.todo) \in Nat /\ DOMAIN dt.todo = 1..Len(dt.todo)
          /\ DOMAIN dt'.todo = 1..(Len(dt.todo) + 1)
          /\ \A j \in DOMAIN dt.todo : dt'.todo[j] = dt.todo[j]
          /\ dt'.todo[Len(dt.todo) + 1] = [utt |-> synth.utt, made |-> 0, marked |-> 0]
      BY <1>6, QueueTodo DEF DtalkQueue
    <2>2. Waits(i)' => Waits(i)
      BY <2>1, Zenon DEF Waits, IndexesOf
    <2>3. ~Held(i)' /\ (Unread(i)' => Unread(i))
      BY <2>1 DEF Held, Unread, Ix
    <2>4. ASSUME Unmarked(i)' PROVE Unmarked(i) \/ Held(i)
      <3>1. PICK j \in DOMAIN dt'.todo : \E k \in (dt'.todo[j].marked + 1)..MarksEach :
                                           i = Base(dt'.todo[j].utt) + k
        BY <2>4 DEF Unmarked, Base
      <3>2. CASE j \in DOMAIN dt.todo
        BY <2>1, <3>1, <3>2 DEF Unmarked
      <3>3. CASE j \notin DOMAIN dt.todo
        <4>1. dt'.todo[j].marked = 0 /\ dt'.todo[j].utt = synth.utt
          BY <2>1, <3>1, <3>3
        <4>2. PICK k \in 1..MarksEach : i = Base(synth.utt) + k
          BY <3>1, <4>1
        <4>3. QED
          BY <2>1, <4>2 DEF Held, IndexesOf, Base
      <3>4. QED
        BY <3>2, <3>3
    <2>5. QED
      BY <1>1, <2>2, <2>3, <2>4
  <1>7. CASE DtalkSynth /\ dt.todo # <<>>
    <2>1. UNCHANGED queue /\ synth'.at = "map"
      BY <1>2, <1>7, Zenon DEF DtalkSynth, SynthRecord
    <2>2. (Waits(i)' => Waits(i)) /\ ~Held(i)'
      BY <2>1 DEF Waits, Held, IndexesOf
    <2>3. Unmarked(i)' \/ Unread(i)' => Unmarked(i) \/ Unread(i)
      BY <1>7, SynthOutstanding
    <2>4. QED
      BY <1>1, <2>2, <2>3
  <1>8. CASE PopMark
    <2>1. /\ UNCHANGED <<queue, dt>> /\ synth'.new = Tail(synth.new) /\ synth.new # <<>>
          /\ synth'.at = synth.at /\ synth'.utt = synth.utt /\ synth.new \in Seq(Placed)
      BY <1>2, <1>8 DEF PopMark, SynthRecord
    <2>2. \A j \in DOMAIN Tail(synth.new) :
             j + 1 \in DOMAIN synth.new /\ Tail(synth.new)[j] = synth.new[j + 1]
      BY <2>1, HeadAndTail
    <2>3. Unread(i)' => Unread(i)
      BY <2>1, <2>2 DEF Unread, Ix
    <2>4. (Waits(i)' => Waits(i)) /\ (Held(i)' => Held(i)) /\ (Unmarked(i)' => Unmarked(i))
      BY <2>1, Zenon DEF Waits, Held, Unmarked, IndexesOf, Base
    <2>5. QED
      BY <1>1, <2>3, <2>4
  <1>9. CASE /\ UNCHANGED <<queue, dt.todo, dt.marks>>
             /\ synth'.new = synth.new
             /\ synth'.at \in {"clear", "queue"} =>
                  synth.at \in {"clear", "queue"} /\ synth'.utt = synth.utt
    BY <1>1, <1>9, Zenon DEF Waits, Held, Unmarked, Unread, Ix, Base, IndexesOf
  <1>10. CASE \/ CancelBegin \/ (CancelDrain /\ queue = <<>>) \/ CancelClear \/ CancelPlayer
              \/ TerminateJoin \/ JoinGivesUp \/ TerminateClose \/ Play \/ UNCHANGED vars
    BY <1>2, <1>9, <1>10 DEF CancelBegin, CancelDrain, CancelClear, CancelPlayer, TerminateJoin,
       JoinGivesUp, TerminateClose, Play, vars
  <1>11. CASE \/ ClearStopping \/ CallDestroyed \/ TestStopping \/ Select \/ Feed \/ FeedRaises
              \/ Ended \/ IdleAndNotify \/ (DtalkSynth /\ dt.todo = <<>>)
    <2>1. UNCHANGED <<queue, dt>> /\ synth'.new = synth.new /\ synth'.utt = synth.utt
          /\ (synth'.at \in {"clear", "queue"} => synth.at \in {"clear", "queue"})
      BY <1>2, <1>11, Zenon DEF ClearStopping, CallDestroyed, TestStopping, Select, Feed, FeedRaises,
         Ended, IdleAndNotify, DtalkSynth, SynthRecord
    <2>2. QED
      BY <1>9, <2>1
  <1>12. QED
    BY <1>3, <1>4, <1>5, <1>6, <1>7, <1>8, <1>10, <1>11, Zenon DEF Next, MainThread, SynthThread

\* Where no number has been given out twice, none had been before.
LEMMA Unreused ==
  ASSUME Types, [Next]_vars, ~hist'.reused
  PROVE  ~hist.reused /\ (Speak => ~Reuses(hist.said + 1))
  <1>1. CASE Speak
    <2>1. hist'.reused = (hist.reused \/ Reuses(hist.said + 1))
      BY <1>1, Zenon DEF Speak, Types, HistType
    <2>2. QED
      BY <2>1
  <1>2. CASE ~Speak
    <2>1. hist'.reused = hist.reused
      BY <1>2, Zenon DEF Next, MainThread, SynthThread, vars, CancelBegin, CancelDrain, CancelStop,
         CancelClear, CancelPlayer, TerminatePut, TerminateJoin, JoinGivesUp, TerminateClose, Get,
         ClearStopping, CallDestroyed, DtalkQueue, TestStopping, DtalkSynth, PopMark, Select, Feed,
         FeedRaises, Ended, IdleAndNotify, Play, Types, HistType
    <2>2. QED
      BY <1>2, <2>1
  <1>3. QED
    BY <1>1, <1>2

\* The number of an index that is outstanding is that of no other: the map has
\* its index, or a cancel has cleared it.
MapTrue == \A i \in Outstanding : markMap[NumberOf(i)] \in {None, i}

\* What speak puts in the map, unless it gives a number out twice.
LEMMA SpeakMaps ==
  ASSUME Types, Speak, ~Reuses(hist.said + 1), NEW i,
         i \in Outstanding \/ i \in IndexesOf(hist.said + 1)
  PROVE  /\ i \in IndexesOf(hist.said + 1) => markMap'[NumberOf(i)] = i
         /\ markMap'[NumberOf(i)] \in {markMap[NumberOf(i)], i}
  <1> DEFINE u == hist.said + 1
             v == NumberOf(i)
             mine == {j \in IndexesOf(u) : NumberOf(j) = v}
  <1>1. u \in Utterances
    BY Sizes DEF Types, HistType, Speak, Utterances
  <1>2. v \in Numbers
    BY <1>1, OutstandingTypes, IndexesAreNumbered
  <1>3. markMap'[v] = IF mine = {} THEN markMap[v]
                      ELSE CHOOSE j \in mine : \A k \in mine : k <= j
    BY <1>2 DEF Speak
  <1>4. \A j \in mine : j = i
    BY Zenon DEF Reuses
  <1>5. i \in IndexesOf(u) => i \in mine
    OBVIOUS
  <1>6. mine # {} => (CHOOSE j \in mine : \A k \in mine : k <= j) \in mine
    <2> HIDE DEF u, v
    <2>1. QED
      BY <1>1, <1>2, SpokenLast
  <1>7. QED
    BY <1>3, <1>4, <1>5, <1>6

LEMMA MapTrueStep ==
  ASSUME ~hist'.reused, Types, MapTrue, [Next]_vars
  PROVE  MapTrue'
  <1> SUFFICES ASSUME NEW i \in Outstanding' PROVE markMap'[NumberOf(i)] \in {None, i}
    BY DEF MapTrue, NumberOf
  <1>1. CASE Speak
    <2>1. i \in Outstanding \/ i \in IndexesOf(hist.said + 1)
      <3>1. Waits(i)' \/ Held(i)' \/ Unmarked(i)' \/ Unread(i)'
        <4>1. Parted'
          BY OutstandingParts, PTL
        <4>2. QED
          BY <4>1 DEF Parted
      <3>2. queue \in Seq(Utterances \cup {None}) /\ hist.said + 1 \in Utterances
        BY <1>1, Sizes DEF Types, QueueType, HistType, Speak, Utterances
      <3>3. queue' = Append(queue, hist.said + 1) /\ UNCHANGED <<synth, dt>>
        BY <1>1 DEF Speak
      <3>4. \A j \in DOMAIN queue' : \/ j \in DOMAIN queue /\ queue'[j] = queue[j]
                                     \/ queue'[j] = hist.said + 1
        BY <3>2, <3>3, AppendProperties, LenProperties
      <3>5. Waits(i)' => Waits(i) \/ i \in IndexesOf(hist.said + 1)
        BY <3>4 DEF Waits, IndexesOf
      <3>6. (Held(i)' => Held(i)) /\ (Unmarked(i)' => Unmarked(i)) /\ (Unread(i)' => Unread(i))
        BY <3>3, Zenon DEF Held, Unmarked, Unread, Ix, Base, IndexesOf
      <3>7. QED
        BY <3>1, <3>5, <3>6, OutstandingParts DEF Parted
    <2>2. ~Reuses(hist.said + 1)
      BY <1>1, Unreused
    <2>3. markMap'[NumberOf(i)] = i \/ (i \in Outstanding /\ markMap'[NumberOf(i)] = markMap[NumberOf(i)])
      BY <1>1, <2>1, <2>2, SpeakMaps
    <2>4. QED
      BY <2>3 DEF MapTrue
  <1>2. CASE ~Speak
    <2>1. i \in Outstanding /\ NumberOf(i) \in Numbers /\ markMap \in [Numbers -> Nat]
      BY <1>2, OutstandingStep, OutstandingTypes DEF Types, QueueType
    <2>2. markMap'[NumberOf(i)] \in {None, markMap[NumberOf(i)]}
      <3>1. CASE CancelClear
        BY <2>1, <3>1 DEF CancelClear
      <3>2. CASE PopMark
        BY <2>1, <3>2 DEF PopMark
      <3>3. CASE UNCHANGED markMap
        BY <3>3
      <3>4. QED
        BY <1>2, <3>1, <3>2, <3>3, Zenon
           DEF Next, MainThread, SynthThread, vars, CancelBegin, CancelDrain, CancelStop, CancelPlayer,
               TerminatePut, TerminateJoin, JoinGivesUp, TerminateClose, Get, ClearStopping,
               CallDestroyed, DtalkQueue, TestStopping, DtalkSynth, Select, Feed, FeedRaises, Ended,
               IdleAndNotify, Play
    <2>3. QED
      BY <2>1, <2>2 DEF MapTrue
  <1>3. QED
    BY <1>1, <1>2

\* How far the instance has looked ahead, as an index.
Frontier == IF dt.todo # <<>> THEN Base(dt.todo[1].utt) + dt.todo[1].marked
            ELSE IF synth.at \in {"clear", "queue"} THEN Base(synth.utt)
            ELSE synth.utt * MarksEach

LEMMA Multiples ==
  ASSUME NEW u \in Nat, NEW v \in Nat, u <= v
  PROVE  u * MarksEach \in Nat /\ v * MarksEach \in Nat /\ u * MarksEach <= v * MarksEach
  <1>1. u * MarksEach \in Nat /\ v * MarksEach \in Nat
    BY Sizes
  <1>2. CASE u = v
    BY <1>1, <1>2
  <1>3. CASE u < v
    <2>1. u * MarksEach <= Base(v) /\ Base(v) <= v * MarksEach /\ Base(v) \in Nat
      BY <1>3, Bases
    <2>2. QED
      BY <1>1, <2>1
  <1>4. QED
    BY <1>1, <1>2, <1>3

\* The first utterance of the instance and its part of the frontier.
LEMMA FirstToDo ==
  ASSUME Types, dt.todo # <<>>
  PROVE  /\ 1 \in DOMAIN dt.todo /\ dt.todo[1] \in Work
         /\ dt.todo[1].utt \in Utterances /\ dt.todo[1].utt \in Nat /\ dt.todo[1].utt > 0
         /\ dt.todo[1].made \in 0..(Length - 1) /\ dt.todo[1].marked \in 0..MarksEach
         /\ Base(dt.todo[1].utt) \in Nat /\ Frontier \in Nat
         /\ Base(dt.todo[1].utt) + MarksEach = dt.todo[1].utt * MarksEach
         /\ Frontier = Base(dt.todo[1].utt) + dt.todo[1].marked
         /\ Frontier <= dt.todo[1].utt * MarksEach
  <1>1. 1 \in DOMAIN dt.todo /\ dt.todo[1] \in Work
    BY HeadAndTail DEF Types, DtType
  <1>2. /\ dt.todo[1].utt \in Utterances
        /\ dt.todo[1].made \in 0..(Length - 1) /\ dt.todo[1].marked \in 0..MarksEach
    BY <1>1 DEF Work
  <1>3. dt.todo[1].utt \in Nat /\ dt.todo[1].utt > 0
    BY <1>2 DEF Utterances
  <1>4. /\ Base(dt.todo[1].utt) \in Nat
        /\ Base(dt.todo[1].utt) + MarksEach = dt.todo[1].utt * MarksEach
    BY <1>3, Bases
  <1>5. Frontier = Base(dt.todo[1].utt) + dt.todo[1].marked
    BY DEF Frontier
  <1>6. Frontier \in Nat /\ Frontier <= dt.todo[1].utt * MarksEach
    <2> DEFINE b == Base(dt.todo[1].utt)
               k == dt.todo[1].marked
               p == dt.todo[1].utt * MarksEach
    <2>1. b \in Nat /\ k \in 0..MarksEach /\ b + MarksEach = p /\ Frontier = b + k
      BY <1>2, <1>4, <1>5
    <2> HIDE DEF b, k, p
    <2>2. Frontier \in Nat /\ Frontier <= p
      BY <2>1, Sizes
    <2>3. QED
      BY <2>2 DEF p
  <1>7. QED
    BY <1>1, <1>2, <1>3, <1>4, <1>5, <1>6

LEMMA FrontierType == Types /\ synth.at # "gone" => Frontier \in Nat
  <1> SUFFICES ASSUME Types, synth.at # "gone" PROVE Frontier \in Nat
    OBVIOUS
  <1>1. CASE dt.todo # <<>>
    BY <1>1, FirstToDo
  <1>2. CASE dt.todo = <<>>
    <2>1. CASE synth.at \in {"clear", "queue"}
      <3>1. synth.utt \in Nat /\ synth.utt > 0
        BY <2>1 DEF Types, SynthType, Utterances
      <3>2. QED
        BY <1>2, <2>1, <3>1, Bases DEF Frontier
    <2>2. CASE synth.at \notin {"clear", "queue"}
      <3>1. synth.utt \in Nat
        BY TodoTypes DEF TodoUtterances
      <3>2. QED
        BY <1>2, <2>2, <3>1, Multiples DEF Frontier
    <2>3. QED
      BY <2>1, <2>2
  <1>3. QED
    BY <1>1, <1>2

\* A synthesis moves the frontier to the last mark it knows of.
LEMMA SynthFrontier ==
  ASSUME Types, Types', InLine, DtalkSynth, dt.todo # <<>>,
         NEW m, NEW head, NEW made, NEW start, NEW marks, NEW read,
         Synthesized(m, head, made, start, marks, read)
  PROVE  /\ Frontier = Base(head.utt) + head.marked /\ Base(head.utt) + m <= Frontier'
         /\ Base(head.utt) \in Nat /\ m \in head.marked .. MarksEach /\ head.marked \in 0..MarksEach
         /\ Frontier \in Nat /\ Frontier <= Frontier' /\ Frontier' \in Nat
  <1>1. /\ head = dt.todo[1] /\ m \in head.marked .. MarksEach /\ synth.at = "call"
        /\ synth'.at = "map" /\ synth'.utt = synth.utt
    BY Zenon DEF Synthesized, DtalkSynth, Types, SynthType, SynthRecord
  <1>2. /\ Frontier = Base(head.utt) + head.marked /\ Base(head.utt) \in Nat /\ Frontier \in Nat
        /\ head.marked \in 0..MarksEach /\ head.utt \in Nat
        /\ Base(head.utt) + MarksEach = head.utt * MarksEach
    BY <1>1, FirstToDo
  <1>3. Frontier' \in Nat
    <2>1. (synth.at # "gone")'
      BY <1>1
    <2>2. (Types /\ synth.at # "gone" => Frontier \in Nat)'
      BY FrontierType, PTL
    <2>3. QED
      BY <2>1, <2>2
  <1>4. Base(head.utt) + m <= Frontier'
    <2>1. CASE made # Length
      <3>1. 1 \in DOMAIN dt'.todo /\ dt'.todo[1].utt = head.utt /\ dt'.todo[1].marked = m
        BY <2>1, SynthTodo
      <3>2. Frontier' = Base(head.utt) + m
        <4>1. dt'.todo # <<>>
          BY <3>1
        <4>2. QED
          BY <3>1, <4>1 DEF Frontier, Base
      <3>3. QED
        BY <1>1, <1>2, <3>2, Sizes
    <2>2. CASE made = Length /\ dt'.todo # <<>>
      <3>1. dt'.todo \in Seq(Work)
        BY DEF Types, DtType
      <3>2. 1 \in DOMAIN dt'.todo
        BY <2>2, <3>1, HeadAndTail
      <3>3. 1 + 1 \in DOMAIN dt.todo /\ dt'.todo[1] = dt.todo[1 + 1] /\ 1 \in DOMAIN dt.todo
        BY <2>2, <3>2, SynthTodo
      <3>4. head.utt < dt'.todo[1].utt /\ dt'.todo[1].marked = 0 /\ dt'.todo[1].utt \in Nat
        BY <1>1, <3>3, TodoTypes DEF InLine, TodoUtterances
      <3>5. /\ head.utt * MarksEach <= Base(dt'.todo[1].utt) /\ head.utt * MarksEach \in Nat
            /\ Base(dt'.todo[1].utt) \in Nat
        BY <1>2, <3>4, Bases
      <3>6. Frontier' = Base(dt'.todo[1].utt) + 0
        BY <2>2, <3>4 DEF Frontier, Base
      <3>7. QED
        BY <1>1, <1>2, <3>5, <3>6, Sizes
    <2>3. CASE made = Length /\ dt'.todo = <<>>
      <3>1. Frontier' = synth.utt * MarksEach
        BY <1>1, <2>3 DEF Frontier
      <3>2. head.utt <= synth.utt /\ synth.utt \in Nat
        BY <1>1, FirstToDo, TodoTypes DEF InLine, TodoUtterances
      <3>3. head.utt * MarksEach <= synth.utt * MarksEach
            /\ head.utt * MarksEach \in Nat /\ synth.utt * MarksEach \in Nat
        BY <1>2, <3>2, Multiples
      <3>4. QED
        BY <1>1, <1>2, <3>1, <3>3, Sizes
    <2>4. QED
      BY <2>1, <2>2, <2>3
  <1>5. Frontier <= Frontier'
    BY <1>1, <1>2, <1>3, <1>4, Sizes
  <1>6. QED
    BY <1>1, <1>2, <1>3, <1>4, <1>5

LEMMA FrontierGrows ==
  ASSUME Types, Types', Queued, InLine, [Next]_vars, synth'.at # "gone"
  PROVE  /\ synth.at # "gone" /\ Frontier \in Nat /\ Frontier' \in Nat /\ Frontier <= Frontier'
  <1>1. /\ synth \in SynthRecord /\ dt.todo \in Seq(Work) /\ synth.utt \in Nat
    BY TodoTypes DEF Types, SynthType, DtType, TodoUtterances
  <1>2. Frontier' \in Nat
    <2>1. (synth.at # "gone")'
      OBVIOUS
    <2>2. (Types /\ synth.at # "gone" => Frontier \in Nat)'
      BY FrontierType, PTL
    <2>3. QED
      BY <2>1, <2>2
  <1>3. synth.at # "gone" => Frontier \in Nat
    BY FrontierType
  <1>4. ASSUME synth.at # "gone", UNCHANGED dt.todo, synth'.utt = synth.utt,
               synth'.at \in {"clear", "queue"} <=> synth.at \in {"clear", "queue"}
        PROVE  Frontier' = Frontier
    BY <1>4 DEF Frontier, Base
  <1>5. CASE CancelStop
    <2>1. dt'.todo = <<>> /\ synth' = synth
      BY <1>5 DEF CancelStop, Types, DtType
    <2>2. CASE dt.todo = <<>>
      BY <1>2, <1>3, <1>4, <2>1, <2>2
    <2>3. CASE dt.todo # <<>>
      <3> DEFINE t == dt.todo[1].utt
      <3>1. t \in Nat /\ t > 0 /\ Frontier \in Nat /\ Frontier <= t * MarksEach /\ 1 \in DOMAIN dt.todo
        BY <2>3, FirstToDo
      <3>2. t <= synth.utt /\ (synth.at \in {"clear", "queue"} => t < synth.utt)
        BY <2>1, <3>1 DEF InLine
      <3>3. CASE synth.at \in {"clear", "queue"}
        <4>1. Frontier' = Base(synth.utt)
          BY <2>1, <3>3 DEF Frontier, Base
        <4>2. t * MarksEach <= Base(synth.utt) /\ t * MarksEach \in Nat
          BY <1>1, <3>1, <3>2, <3>3, Bases
        <4>3. QED
          BY <1>2, <2>1, <3>1, <4>1, <4>2
      <3>4. CASE synth.at \notin {"clear", "queue"}
        <4>1. Frontier' = synth.utt * MarksEach
          BY <2>1, <3>4 DEF Frontier
        <4>2. t * MarksEach <= synth.utt * MarksEach /\ t * MarksEach \in Nat
          BY <1>1, <3>1, <3>2, Multiples
        <4>3. QED
          BY <1>2, <2>1, <3>1, <4>1, <4>2
      <3>5. QED
        BY <3>3, <3>4
    <2>4. QED
      BY <2>2, <2>3
  <1>6. CASE Get
    <2>1. /\ UNCHANGED dt /\ synth.at = "get" /\ synth'.at = "clear" /\ synth'.utt = queue[1]
          /\ 1 \in DOMAIN queue /\ queue[1] # None
      <3>1. queue \in Seq(Utterances \cup {None}) /\ queue # <<>>
        BY <1>6 DEF Types, QueueType, Get
      <3>2. Head(queue) = queue[1] /\ 1 \in DOMAIN queue
        BY <3>1, HeadAndTail
      <3>3. QED
        BY <1>1, <1>6, <3>2 DEF Get, SynthRecord
    <2>2. synth.utt < queue[1] /\ synth'.utt \in Nat
      <3>1. synth'.utt \in Utterances \cup {None}
        BY DEF Types, SynthType, SynthRecord
      <3>2. QED
        BY <2>1, <3>1 DEF Queued, Utterances, None
    <2>3. CASE dt.todo = <<>>
      <3>1. Frontier = synth.utt * MarksEach
        BY <2>1, <2>3 DEF Frontier
      <3>2. Frontier' = Base(queue[1])
        BY <2>1, <2>3 DEF Frontier, Base
      <3>3. QED
        BY <1>1, <1>2, <2>1, <2>2, <3>1, <3>2, Bases
    <2>4. CASE dt.todo # <<>>
      <3>1. Frontier' = Frontier
        BY <2>1, <2>4 DEF Frontier, Base
      <3>2. QED
        BY <1>2, <2>1, <3>1
    <2>5. QED
      BY <2>3, <2>4
  <1>7. CASE DtalkQueue
    <2>1. /\ synth.at = "queue" /\ synth'.at = "test" /\ synth'.utt = synth.utt
          /\ DOMAIN dt'.todo = 1..(Len(dt.todo) + 1) /\ DOMAIN dt.todo = 1..Len(dt.todo)
          /\ Len(dt.todo) \in Nat
          /\ \A i \in DOMAIN dt.todo : dt'.todo[i] = dt.todo[i]
          /\ dt'.todo[Len(dt.todo) + 1] = [utt |-> synth.utt, made |-> 0, marked |-> 0]
      BY <1>7, QueueTodo
    <2>2. dt'.todo # <<>>
      BY <2>1
    <2>3. CASE dt.todo = <<>>
      <3>1. Frontier = Base(synth.utt)
        BY <2>1, <2>3 DEF Frontier
      <3>2. dt'.todo[1] = [utt |-> synth.utt, made |-> 0, marked |-> 0]
        BY <2>1, <2>3
      <3>3. Frontier' = Base(synth.utt) + 0
        BY <2>2, <3>2 DEF Frontier, Base
      <3>4. QED
        BY <1>2, <1>3, <2>1, <3>1, <3>3
    <2>4. CASE dt.todo # <<>>
      <3>1. 1 \in DOMAIN dt.todo
        BY <2>4, FirstToDo
      <3>2. Frontier' = Frontier
        BY <2>1, <2>2, <2>4, <3>1 DEF Frontier, Base
      <3>3. QED
        BY <1>2, <2>1, <3>2
    <2>5. QED
      BY <2>3, <2>4
  <1>8. CASE DtalkSynth /\ dt.todo # <<>>
    <2>1. PICK m, head, made, start, marks, read : Synthesized(m, head, made, start, marks, read)
      BY <1>8, SynthParts
    <2>2. synth.at # "gone"
      BY <1>8, Zenon DEF DtalkSynth
    <2>3. QED
      BY <1>8, <2>1, <2>2, SynthFrontier
  <1>9. CASE \/ ClearStopping \/ TestStopping \/ PopMark \/ Select \/ Feed \/ FeedRaises \/ Ended
             \/ IdleAndNotify \/ (DtalkSynth /\ dt.todo = <<>>)
    <2>1. /\ UNCHANGED dt /\ synth'.utt = synth.utt /\ synth.at # "gone"
          /\ synth'.at \in {"clear", "queue"} <=> synth.at \in {"clear", "queue"}
      BY <1>1, <1>9, Zenon DEF ClearStopping, TestStopping, PopMark, Select, Feed, FeedRaises, Ended,
         IdleAndNotify, DtalkSynth, SynthRecord
    <2>2. QED
      BY <1>2, <1>3, <1>4, <2>1
  <1>16. CASE CallDestroyed
    <2>1. /\ UNCHANGED dt /\ synth'.utt = synth.utt /\ synth.at \in {"queue", "call"}
          /\ synth'.at = "lost"
      BY <1>1, <1>16 DEF CallDestroyed, SynthRecord
    <2>2. CASE dt.todo # <<>>
      <3>1. Frontier' = Frontier
        BY <2>1, <2>2 DEF Frontier, Base
      <3>2. QED
        BY <1>2, <2>1, <3>1
    <2>3. CASE dt.todo = <<>>
      <3>1. Frontier' = synth.utt * MarksEach
        BY <2>1, <2>3 DEF Frontier
      <3>2. synth.utt > 0
        BY <2>1 DEF Types, SynthType, Utterances
      <3>3. Frontier \in {Base(synth.utt), synth.utt * MarksEach}
        BY <2>1, <2>3 DEF Frontier
      <3>4. Frontier <= Frontier'
        <4>1. Base(synth.utt) \in Nat /\ Base(synth.utt) + MarksEach = synth.utt * MarksEach
          BY <1>1, <3>2, Bases
        <4>2. \A b, p \in Nat : b + MarksEach = p => b <= p /\ p <= p
          BY Sizes
        <4>3. synth.utt * MarksEach \in Nat
          BY <1>2, <3>1
        <4>4. QED
          BY <3>1, <3>3, <4>1, <4>2, <4>3
      <3>5. QED
        BY <1>2, <1>3, <2>1, <3>4
    <2>4. QED
      BY <2>2, <2>3
  <1>10. CASE UNCHANGED <<synth, dt.todo>>
    BY <1>2, <1>3, <1>4, <1>10
  <1>11. CASE \/ Speak \/ CancelBegin \/ CancelDrain \/ CancelClear \/ CancelPlayer \/ TerminatePut
              \/ TerminateJoin \/ JoinGivesUp \/ TerminateClose \/ Play
    BY <1>10, <1>11 DEF Speak, CancelBegin, CancelDrain, CancelClear, CancelPlayer, TerminatePut,
       TerminateJoin, JoinGivesUp, TerminateClose, Play, Types, DtType
  <1>12. CASE UNCHANGED vars
    BY <1>10, <1>12 DEF vars
  <1>13. CASE MainThread
    BY <1>5, <1>11, <1>13 DEF MainThread
  <1>14. CASE SynthThread
    BY <1>6, <1>7, <1>8, <1>9, <1>14, <1>16 DEF SynthThread
  <1>15. QED
    BY <1>11, <1>12, <1>13, <1>14 DEF Next

-----------------------------------------------------------------------------
(* The stages.                                                             *)

Stages == Chain(Ix(hist.notified), Sounding, Ix(synth.fired), Ix(synth.pending), Ix(synth.new),
                Ix(dt.marks))

Sorted == /\ Rising(hist.notified) /\ Rising(synth.fired) /\ Rising(synth.pending)
          /\ Rising(synth.new) /\ Rising(dt.marks)
          /\ \A i \in DOMAIN player.chunks : Rising(player.chunks[i].fired)
          /\ \A i, j \in DOMAIN player.chunks :
               i < j => Below(Ix(player.chunks[i].fired), Ix(player.chunks[j].fired))

OnTheWay == Ix(hist.notified) \cup Sounding \cup Ix(synth.fired) \cup Ix(synth.pending)
              \cup Ix(synth.new) \cup Ix(dt.marks)
Reached  == synth.at # "gone" => \A x \in OnTheWay : x <= Frontier

\* The marks that wait for their sample: index and position.
Ahead == {<<synth.pending[i].index, synth.pending[i].pos>> : i \in DOMAIN synth.pending}
           \cup {<<synth.new[i].index, synth.new[i].pos>> : i \in DOMAIN synth.new}
           \cup {<<dt.marks[i].index, dt.marks[i].pos>> : i \in DOMAIN dt.marks}

\* Later marks are at later samples, and those of the utterance begun are at
\* their chunks; the others are behind it.
Mono   == \A x, y \in Ahead : x[1] < y[1] => x[2] <= y[2]
Start  == dt.pos - dt.todo[1].made
Behind == dt.todo # <<>> => \A x \in Ahead :
            \/ x[2] <= Start
            \/ x[1] > Base(dt.todo[1].utt) /\ x[2] = Start + ChunkOf(x[1] - Base(dt.todo[1].utt))
Past   == dt.todo = <<>> => \A i \in DOMAIN dt.marks : dt.marks[i].pos <= dt.pos

Flow == Stages /\ Sorted /\ Reached /\ Mono /\ Behind /\ Past

LEMMA WayTypes ==
  ASSUME Types
  PROVE  /\ Ix(hist.notified) \subseteq Nat /\ Ix(synth.fired) \subseteq Nat
         /\ Ix(synth.pending) \subseteq Nat /\ Ix(synth.new) \subseteq Nat
         /\ Ix(dt.marks) \subseteq Nat /\ Sounding \subseteq Nat /\ OnTheWay \subseteq Nat
  <1>1. /\ Ix(hist.notified) \subseteq Nat /\ Ix(synth.fired) \subseteq Nat
        /\ Ix(synth.pending) \subseteq Nat /\ Ix(synth.new) \subseteq Nat
        /\ Ix(dt.marks) \subseteq Nat
    BY IndexTypes DEF Types, HistType, SynthType, SynthRecord, DtType
  <1>2. Sounding \subseteq Nat
    <2>1. \A i \in DOMAIN player.chunks : player.chunks[i] \in Chunk
      BY ElementOfSeq, LenProperties DEF Types, PlayerType
    <2>2. \A i \in DOMAIN player.chunks : Ix(player.chunks[i].fired) \subseteq Nat
      BY <2>1, IndexTypes DEF Chunk
    <2>3. QED
      BY <2>2 DEF Sounding
  <1>3. QED
    BY <1>1, <1>2 DEF OnTheWay

LEMMA ReachedKept ==
  ASSUME Types, Types', Queued, InLine, [Next]_vars, Reached, OnTheWay' \subseteq OnTheWay
  PROVE  Reached'
  <1> SUFFICES ASSUME synth'.at # "gone", NEW x \in OnTheWay' PROVE x <= Frontier'
    BY DEF Reached
  <1>1. synth.at # "gone" /\ Frontier \in Nat /\ Frontier' \in Nat /\ Frontier <= Frontier'
    BY FrontierGrows
  <1>2. x \in OnTheWay /\ x \in Nat
    BY WayTypes
  <1>3. QED
    BY <1>1, <1>2 DEF Reached

\* A step after which no more is on its way, and no more is ahead, keeps the
\* frontier and the positions.
LEMMA KeptFlow ==
  ASSUME Types, Types', Queued, InLine, [Next]_vars, Flow,
         OnTheWay' \subseteq OnTheWay, Ahead' \subseteq Ahead,
         dt'.todo = dt.todo, dt'.pos = dt.pos, dt'.marks = dt.marks
  PROVE  Reached' /\ Mono' /\ Behind' /\ Past'
  <1>1. Reached'
    BY ReachedKept DEF Flow
  <1>2. Mono'
    BY DEF Flow, Mono
  <1>3. Behind'
    <2>1. Start' = Start
      BY DEF Start
    <2>2. Behind
      BY DEF Flow
    <2> SUFFICES ASSUME dt.todo # <<>>, NEW x \in Ahead'
                 PROVE  \/ x[2] <= Start
                        \/ /\ x[1] > Base(dt.todo[1].utt)
                           /\ x[2] = Start + ChunkOf(x[1] - Base(dt.todo[1].utt))
      BY <2>1 DEF Behind, Base, ChunkOf
    <2>3. QED
      BY <2>2 DEF Behind
  <1>4. Past'
    BY DEF Flow, Past
  <1>5. QED
    BY <1>1, <1>2, <1>3, <1>4

\* Steps that at most empty a stage.
LEMMA QuietFlow ==
  ASSUME Types, Types', Queued, InLine, [Next]_vars, Flow,
         hist'.notified = hist.notified, synth'.new = synth.new,
         player'.chunks \in {player.chunks, <<>>}, synth'.fired \in {synth.fired, <<>>},
         synth'.pending \in {synth.pending, <<>>}, dt'.marks \in {dt.marks, <<>>},
         dt'.pos = dt.pos,
         \/ dt'.todo = dt.todo /\ dt'.marks = dt.marks
         \/ dt'.todo = <<>> /\ dt'.marks = <<>>
  PROVE  Flow'
  <1>1. DOMAIN <<>> = {}
    OBVIOUS
  <1>2. /\ Ix(hist'.notified) = Ix(hist.notified) /\ Ix(synth'.new) = Ix(synth.new)
        /\ Ix(synth'.fired) \subseteq Ix(synth.fired)
        /\ Ix(synth'.pending) \subseteq Ix(synth.pending)
        /\ Ix(dt'.marks) \subseteq Ix(dt.marks)
    BY <1>1 DEF Ix
  <1>3. Sounding' \subseteq Sounding
    <2>1. CASE player'.chunks = player.chunks
      BY <2>1 DEF Sounding, Ix
    <2>2. CASE player'.chunks = <<>>
      BY <2>2, <1>1 DEF Sounding
    <2>3. QED
      BY <2>1, <2>2
  <1>4. OnTheWay' \subseteq OnTheWay
    BY <1>2, <1>3 DEF OnTheWay, Ix
  <1>5. Ahead' \subseteq Ahead
    <2>1. \A i \in DOMAIN synth'.pending :
             i \in DOMAIN synth.pending /\ synth'.pending[i] = synth.pending[i]
      BY <1>1
    <2>2. \A i \in DOMAIN dt'.marks : i \in DOMAIN dt.marks /\ dt'.marks[i] = dt.marks[i]
      BY <1>1
    <2>3. QED
      BY <2>1, <2>2 DEF Ahead
  <1>6. Stages'
    <2>1. Chain(Ix(hist.notified), Sounding, Ix(synth.fired), Ix(synth.pending),
                Ix(synth.new), Ix(dt.marks))
      BY DEF Flow, Stages
    <2>2. Chain(Ix(hist'.notified), Sounding', Ix(synth'.fired), Ix(synth'.pending),
                Ix(synth'.new), Ix(dt'.marks))
      BY <1>2, <1>3, <2>1, ShrunkChain
    <2>3. QED
      BY <2>2 DEF Stages, Ix
  <1>7. Sorted'
    <2>1. Sorted
      BY DEF Flow
    <2>2. /\ Rising(hist'.notified) /\ Rising(synth'.fired) /\ Rising(synth'.pending)
          /\ Rising(synth'.new) /\ Rising(dt'.marks)
      BY <1>1, <2>1 DEF Sorted, Rising
    <2>3. /\ \A i \in DOMAIN player'.chunks : Rising(player'.chunks[i].fired)
          /\ \A i, j \in DOMAIN player'.chunks :
               i < j => Below(Ix(player'.chunks[i].fired), Ix(player'.chunks[j].fired))
      <3>1. CASE player'.chunks = player.chunks
        BY <2>1, <3>1 DEF Sorted
      <3>2. CASE player'.chunks = <<>>
        BY <1>1, <3>2
      <3>3. QED
        BY <3>1, <3>2
    <2>4. QED
      BY <2>2, <2>3 DEF Sorted, Rising, Below, Ix
  <1>8. CASE dt'.todo = dt.todo /\ dt'.marks = dt.marks
    BY <1>4, <1>5, <1>6, <1>7, <1>8, KeptFlow DEF Flow
  <1>9. CASE dt'.todo = <<>> /\ dt'.marks = <<>>
    <2>1. Reached'
      BY <1>4, ReachedKept DEF Flow
    <2>2. Mono'
      BY <1>5 DEF Flow, Mono
    <2>3. Behind' /\ Past'
      BY <1>1, <1>9 DEF Behind, Past
    <2>4. QED
      BY <1>6, <1>7, <2>1, <2>2, <2>3 DEF Flow
  <1>10. QED
    BY <1>8, <1>9

LEMMA QueueFlow ==
  ASSUME Types, Types', Queued, InLine, Slots, [Next]_vars, Flow, DtalkQueue
  PROVE  Flow'
  <1>1. /\ Len(dt.todo) \in Nat /\ DOMAIN dt.todo = 1..Len(dt.todo)
        /\ DOMAIN dt'.todo = 1..(Len(dt.todo) + 1)
        /\ \A i \in DOMAIN dt.todo : dt'.todo[i] = dt.todo[i]
        /\ dt'.todo[Len(dt.todo) + 1] = [utt |-> synth.utt, made |-> 0, marked |-> 0]
        /\ synth.at = "queue"
    BY QueueTodo
  <1>2. /\ synth'.new = synth.new /\ synth'.fired = synth.fired /\ synth'.pending = synth.pending
        /\ dt'.pos = dt.pos /\ dt'.marks = dt.marks /\ dt.pos \in Nat
        /\ UNCHANGED <<player, hist>>
    BY QueueTodo DEF DtalkQueue, Types, DtType
  <1>3. OnTheWay' \subseteq OnTheWay /\ Ahead' = Ahead
    BY <1>2 DEF OnTheWay, Sounding, Ix, Ahead
  <1>4. Stages' /\ Sorted' /\ Mono'
    <2>1. Stages'
      <3>1. Chain(Ix(hist.notified), Sounding, Ix(synth.fired), Ix(synth.pending), Ix(synth.new),
                  Ix(dt.marks))
        BY DEF Flow, Stages
      <3>2. QED
        BY <1>2, <3>1 DEF Stages, Sounding, Ix
    <2>2. Sorted'
      BY <1>2 DEF Flow, Sorted, Rising, Below, Ix
    <2>3. Mono'
      BY <1>3 DEF Flow, Mono
    <2>4. QED
      BY <2>1, <2>2, <2>3
  <1>5. Reached'
    BY <1>3, ReachedKept DEF Flow
  <1>6. dt'.todo # <<>>
    BY <1>1
  <1>7. Behind'
    <2>1. CASE dt.todo # <<>>
      <3>1. 1 \in DOMAIN dt.todo
        BY <2>1, FirstToDo
      <3>2. dt'.todo[1] = dt.todo[1] /\ Start' = Start
        BY <1>1, <1>2, <3>1 DEF Start
      <3>3. QED
        BY <1>3, <2>1, <3>2 DEF Flow, Behind, Base, ChunkOf
    <2>2. CASE dt.todo = <<>>
      <3>1. dt'.todo[1].made = 0
        BY <1>1, <2>2
      <3>2. Start' = dt.pos
        BY <1>2, <3>1 DEF Start
      <3>3. synth.new = <<>> /\ synth.pending = <<>>
        BY <1>1 DEF Slots
      <3>4. \A i \in DOMAIN dt.marks : dt.marks[i].pos <= dt.pos
        BY <2>2 DEF Flow, Past
      <3>5. \A x \in Ahead : x[2] <= dt.pos
        BY <3>3, <3>4 DEF Ahead
      <3>6. QED
        BY <1>3, <3>2, <3>5 DEF Behind
    <2>3. QED
      BY <2>1, <2>2
  <1>8. Past'
    BY <1>6 DEF Past
  <1>9. QED
    BY <1>4, <1>5, <1>7, <1>8 DEF Flow

\* A mark read is pending, or its number means nothing any more.
LEMMA PopFlow ==
  ASSUME Types, Types', Queued, InLine, MapTrue, [Next]_vars, Flow, PopMark
  PROVE  Flow'
  <1> DEFINE m == Head(synth.new)
             x == m.index
             v == markMap[NumberOf(x)]
  <1>1. /\ synth.new \in Seq(Placed) /\ synth.new # <<>> /\ synth.pending \in Seq(Placed)
        /\ markMap \in [Numbers -> Nat] /\ Rising(synth.new) /\ Rising(synth.pending) /\ Sorted
    BY DEF PopMark, Types, SynthType, SynthRecord, QueueType, Flow, Sorted
  <1>2. /\ m = synth.new[1] /\ 1 \in DOMAIN synth.new /\ m \in Placed
        /\ \A i \in DOMAIN Tail(synth.new) :
             i + 1 \in DOMAIN synth.new /\ Tail(synth.new)[i] = synth.new[i + 1]
    BY <1>1, HeadAndTail
  <1>3. x \in Nat /\ m.pos \in Int /\ m.index = x
    BY <1>2, MarkFields DEF Placed
  <1>4. /\ Rising(Tail(synth.new)) /\ Ix(Tail(synth.new)) \subseteq Ix(synth.new)
        /\ x \in Ix(synth.new) /\ Below({x}, Ix(Tail(synth.new)))
    BY <1>1, TailRising
  <1>5. /\ synth'.new = Tail(synth.new) /\ synth'.fired = synth.fired
        /\ synth'.pending = IF v = None THEN synth.pending
                            ELSE Append(synth.pending, [pos |-> m.pos, index |-> v])
        /\ UNCHANGED <<dt, player, hist>>
    BY DEF PopMark, Types, SynthType, SynthRecord
  <1>6. v \in {None, x}
    <2>1. x \in Outstanding
      BY <1>4, OutstandingParts DEF Parted, Unread
    <2>2. QED
      BY <2>1 DEF MapTrue
  <1>7. Chain(Ix(hist.notified), Sounding, Ix(synth.fired), Ix(synth.pending), Ix(synth.new),
              Ix(dt.marks))
    BY DEF Flow, Stages
  <1>8. \A i \in DOMAIN Tail(synth.new) :
           <<Tail(synth.new)[i].index, Tail(synth.new)[i].pos>> \in Ahead
    BY <1>2 DEF Ahead
  <1> HIDE DEF v, x, m
  <1>9. /\ Rising(synth'.pending)
        /\ Ix(synth'.pending) \subseteq Ix(synth.pending) \cup {x}
        /\ \A i \in DOMAIN synth'.pending :
             <<synth'.pending[i].index, synth'.pending[i].pos>> \in Ahead
    <2>1. CASE v = None
      BY <1>1, <1>5, <2>1 DEF Ahead
    <2>2. CASE v # None
      <3> DEFINE p == [pos |-> m.pos, index |-> x]
      <3>1. p \in Placed /\ p.index = x /\ p.pos = m.pos
        BY <1>3 DEF Placed
      <3>2. synth'.pending = Append(synth.pending, p)
        BY <1>5, <1>6, <2>2
      <3> HIDE DEF p
      <3>3. /\ <<p>> \in Seq(Placed) /\ DOMAIN <<p>> = {1} /\ <<p>>[1] = p
            /\ synth'.pending = synth.pending \o <<p>>
        BY <1>1, <3>1, <3>2, AppendIsConcat
      <3>4. Ix(<<p>>) = {x} /\ Rising(<<p>>)
        BY <3>1, <3>3 DEF Ix, Rising
      <3>5. Below(Ix(synth.pending), {x})
        BY <1>4, <1>7 DEF Chain, Below
      <3>6. Rising(synth'.pending) /\ Ix(synth'.pending) = Ix(synth.pending) \cup {x}
        <4> DEFINE one == <<p>>
        <4>1. one \in Seq(Placed) /\ synth'.pending = synth.pending \o one
          BY <3>3
        <4>2. Ix(one) = {x} /\ Rising(one)
          BY <3>4
        <4> HIDE DEF one
        <4>3. /\ Ix(synth'.pending) = Ix(synth.pending) \cup Ix(one)
              /\ Rising(synth.pending) /\ Rising(one) /\ Below(Ix(synth.pending), Ix(one))
                   => Rising(synth'.pending)
          BY <1>1, <4>1, JoinedRising
        <4>4. QED
          BY <1>1, <3>5, <4>2, <4>3
      <3>7. \A i \in DOMAIN synth'.pending :
               \/ i \in DOMAIN synth.pending /\ synth'.pending[i] = synth.pending[i]
               \/ synth'.pending[i] = p
        BY <1>1, <3>1, <3>2, AppendProperties, LenProperties
      <3>8. <<x, m.pos>> \in Ahead
        BY <1>2 DEF Ahead, x
      <3>9. QED
        BY <3>1, <3>6, <3>7, <3>8 DEF Ahead
    <2>3. QED
      BY <2>1, <2>2
  <1>10. Stages'
    <2>1. Chain(Ix(hist.notified), Sounding, Ix(synth.fired), Ix(synth.pending) \cup {x},
                Ix(Tail(synth.new)), Ix(dt.marks))
      <3>1. {x} \cup Ix(Tail(synth.new)) \subseteq Ix(synth.new)
        BY <1>4
      <3>2. QED
        BY <1>4, <1>7, <3>1, MovedChain
    <2>2. Chain(Ix(hist.notified), Sounding, Ix(synth.fired), Ix(synth'.pending),
                Ix(Tail(synth.new)), Ix(dt.marks))
      BY <1>9, <2>1, ShrunkChain
    <2>3. Chain(Ix(hist.notified), Sounding, Ix(synth.fired), Ix(synth'.pending),
                Ix(synth'.new), Ix(dt.marks))
      BY <1>5, <2>2
    <2>4. /\ hist' = hist /\ player' = player /\ dt' = dt /\ synth'.fired = synth.fired
      BY <1>5
    <2>5. QED
      BY <2>3, <2>4 DEF Stages, Sounding, Ix
  <1>11. Sorted'
    <2>1. Rising(synth'.new) /\ Rising(synth'.pending)
      BY <1>4, <1>5, <1>9
    <2>2. /\ hist' = hist /\ player' = player /\ dt' = dt /\ synth'.fired = synth.fired /\ Sorted
      BY <1>1, <1>5
    <2>3. QED
      BY <2>1, <2>2 DEF Sorted, Rising, Below, Ix
  <1>12. OnTheWay' \subseteq OnTheWay
    <2>1. Ix(synth'.pending) \subseteq OnTheWay /\ Ix(synth'.new) \subseteq OnTheWay
      BY <1>4, <1>5, <1>9 DEF OnTheWay
    <2>2. OnTheWay' = Ix(hist'.notified) \cup Sounding' \cup Ix(synth'.fired)
                       \cup Ix(synth'.pending) \cup Ix(synth'.new) \cup Ix(dt'.marks)
      BY DEF OnTheWay, Ix
    <2>3. Sounding' = Sounding
      BY <1>5 DEF Sounding, Ix
    <2>4. QED
      BY <1>5, <2>1, <2>2, <2>3 DEF OnTheWay
  <1>13. Ahead' \subseteq Ahead
    BY <1>5, <1>8, <1>9, SMTT(30) DEF Ahead
  <1>14. Reached' /\ Mono' /\ Behind' /\ Past'
    BY <1>5, <1>12, <1>13, KeptFlow
  <1>15. QED
    BY <1>10, <1>11, <1>14, SMTT(30) DEF Flow

\* The marks that the chunk passes are the first of those pending.
LEMMA SelectFlow ==
  ASSUME Types, Types', Queued, InLine, Slots, [Next]_vars, Flow, Select
  PROVE  Flow'
  <1> DEFINE passed == UpTo(synth.samplesDone + synth.n)
             rest == DOMAIN synth.pending \ passed
  <1>1. /\ synth.pending \in Seq(Placed) /\ Rising(synth.pending) /\ Sorted
        /\ passed \in SUBSET DOMAIN synth.pending /\ rest \in SUBSET DOMAIN synth.pending
        /\ synth.fired = <<>>
    BY DEF Types, SynthType, SynthRecord, Flow, Sorted, UpTo, Slots, Select
  <1>2. /\ synth'.fired = Picked(synth.pending, passed)
        /\ synth'.pending = Picked(synth.pending, rest)
        /\ synth'.new = synth.new /\ UNCHANGED <<dt, player, hist>>
    BY DEF Select, Types, SynthType, SynthRecord
  <1>3. ASSUME NEW i \in passed, NEW j \in rest
        PROVE  synth.pending[i].index < synth.pending[j].index
    <2>1. i \in DOMAIN synth.pending /\ j \in DOMAIN synth.pending
      BY <1>1, <1>3
    <2>2. synth.pending[i] \in Placed /\ synth.pending[j] \in Placed
      BY <1>1, <2>1, ElementOfSeq, LenProperties
    <2>3. /\ synth.pending[i].index \in Nat /\ synth.pending[j].index \in Nat
          /\ synth.pending[i].pos \in Int /\ synth.pending[j].pos \in Int
      BY <2>2 DEF Placed
    <2>4. /\ synth.pending[i].pos <= synth.samplesDone + synth.n
          /\ ~(synth.pending[j].pos <= synth.samplesDone + synth.n)
      BY <1>3, <2>1 DEF UpTo
    <2>5. synth.samplesDone + synth.n \in Int
      BY DEF Types, SynthType, SynthRecord
    <2>6. synth.pending[j].index < synth.pending[i].index
            => synth.pending[j].pos <= synth.pending[i].pos
      <3>1. /\ <<synth.pending[i].index, synth.pending[i].pos>> \in Ahead
            /\ <<synth.pending[j].index, synth.pending[j].pos>> \in Ahead
        BY <2>1 DEF Ahead
      <3>2. QED
        BY <3>1 DEF Flow, Mono
    <2>7. synth.pending[i].index # synth.pending[j].index
      <3>1. i \in Nat /\ j \in Nat /\ i # j
        BY <1>1, <1>3, <2>1, LenProperties
      <3>2. i < j \/ j < i
        BY <3>1
      <3>3. QED
        BY <1>1, <2>1, <2>3, <3>2 DEF Rising
    <2>8. QED
      BY <2>3, <2>4, <2>5, <2>6, <2>7
  <1> HIDE DEF passed, rest
  <1>4. /\ \A k \in DOMAIN synth'.fired : \E i \in passed : synth'.fired[k] = synth.pending[i]
        /\ Rising(synth'.fired)
        /\ \A k \in DOMAIN synth'.pending : \E i \in rest : synth'.pending[k] = synth.pending[i]
        /\ Rising(synth'.pending)
    BY <1>1, <1>2, PickedRising
  <1>5. Below(Ix(synth'.fired), Ix(synth'.pending))
    <2>1. ASSUME NEW k \in DOMAIN synth'.fired, NEW l \in DOMAIN synth'.pending
          PROVE  synth'.fired[k].index < synth'.pending[l].index
      BY <1>3, <1>4
    <2>2. QED
      BY <2>1 DEF Below, Ix
  <1>6. Ix(synth'.fired) \cup Ix(synth'.pending) \subseteq Ix(synth.pending)
    BY <1>1, <1>4 DEF Ix
  <1>7. Chain(Ix(hist.notified), Sounding, Ix(synth'.fired), Ix(synth'.pending), Ix(synth.new),
              Ix(dt.marks))
    <2>1. Chain(Ix(hist.notified), Sounding, Ix(synth.fired), Ix(synth.pending), Ix(synth.new),
                Ix(dt.marks))
      BY DEF Flow, Stages
    <2>2. Chain(Ix(hist.notified), Sounding, Ix(synth.fired) \cup Ix(synth'.fired),
                Ix(synth'.pending), Ix(synth.new), Ix(dt.marks))
      BY <1>5, <1>6, <2>1, MovedChain
    <2>3. Ix(synth.fired) = {}
      BY <1>1 DEF Ix
    <2>4. Ix(synth.fired) \cup Ix(synth'.fired) = Ix(synth'.fired)
      BY <2>3
    <2>5. QED
      BY <2>2, <2>4
  <1>8. Stages'
    BY <1>2, <1>7 DEF Stages, Sounding, Ix
  <1>9. Sorted'
    BY <1>1, <1>2, <1>4 DEF Sorted, Rising, Below, Ix
  <1>10. OnTheWay' \subseteq OnTheWay
    <2>1. Ix(synth'.pending) \subseteq OnTheWay /\ Ix(synth'.fired) \subseteq OnTheWay
      BY <1>6 DEF OnTheWay
    <2>2. OnTheWay' = Ix(hist'.notified) \cup Sounding' \cup Ix(synth'.fired)
                       \cup Ix(synth'.pending) \cup Ix(synth'.new) \cup Ix(dt'.marks)
      BY DEF OnTheWay, Ix
    <2>3. Sounding' = Sounding
      BY <1>2 DEF Sounding, Ix
    <2>4. QED
      BY <1>2, <2>1, <2>2, <2>3 DEF OnTheWay
  <1>11. Ahead' \subseteq Ahead
    <2>1. \A k \in DOMAIN synth'.pending :
             <<synth'.pending[k].index, synth'.pending[k].pos>> \in Ahead
      BY <1>1, <1>4 DEF Ahead
    <2>2. QED
      BY <1>2, <2>1 DEF Ahead
  <1>12. Reached' /\ Mono' /\ Behind' /\ Past'
    BY <1>2, <1>10, <1>11, KeptFlow
  <1>13. QED
    BY <1>8, <1>9, <1>12 DEF Flow

LEMMA FeedFlow ==
  ASSUME Types, Types', Queued, InLine, [Next]_vars, Flow, Feed
  PROVE  Flow'
  <1> DEFINE c == [of |-> synth.of, fired |-> synth.fired]
  <1>1. /\ player.chunks \in Seq(Chunk) /\ c \in Chunk /\ Sorted
        /\ player'.chunks = Append(player.chunks, c) /\ c.fired = synth.fired
    BY DEF Types, PlayerType, SynthType, SynthRecord, Chunk, Feed, Flow
  <1>2. /\ synth'.fired = <<>> /\ synth'.new = synth.new /\ synth'.pending = synth.pending
        /\ hist'.notified = hist.notified /\ dt' = dt
    BY DEF Feed, Types, SynthType, SynthRecord, HistType
  <1> HIDE DEF c
  <1>3. /\ DOMAIN player.chunks = 1..Len(player.chunks) /\ Len(player.chunks) \in Nat
        /\ DOMAIN player'.chunks = 1..(Len(player.chunks) + 1)
        /\ \A i \in DOMAIN player.chunks : player'.chunks[i] = player.chunks[i]
        /\ player'.chunks[Len(player.chunks) + 1] = c
    BY <1>1, AppendProperties, LenProperties
  <1>4. \A i \in DOMAIN player'.chunks : i \in DOMAIN player.chunks \/ i = Len(player.chunks) + 1
    BY <1>3
  <1>5. Chain(Ix(hist.notified), Sounding, Ix(synth.fired), Ix(synth.pending), Ix(synth.new),
              Ix(dt.marks))
    BY DEF Flow, Stages
  <1>6. Sounding' \subseteq Sounding \cup Ix(synth.fired)
    <2>1. \A i \in DOMAIN player'.chunks :
             Ix(player'.chunks[i].fired) \subseteq Sounding \cup Ix(synth.fired)
      BY <1>1, <1>3, <1>4 DEF Sounding
    <2>2. Sounding' = UNION {Ix(player'.chunks[i].fired) : i \in DOMAIN player'.chunks}
      BY DEF Sounding, Ix
    <2>3. QED
      BY <2>1, <2>2
  <1>7. Stages'
    <2>1. Chain(Ix(hist.notified), Sounding \cup Ix(synth.fired), {}, Ix(synth.pending),
                Ix(synth.new), Ix(dt.marks))
      <3>1. Below(Ix(synth.fired), {}) /\ Ix(synth.fired) \cup {} \subseteq Ix(synth.fired)
        BY DEF Below
      <3>2. QED
        BY <1>5, <3>1, MovedChain
    <2>2. Ix(synth'.fired) = {}
      BY <1>2 DEF Ix
    <2>3. Chain(Ix(hist.notified), Sounding', Ix(synth'.fired), Ix(synth.pending),
                Ix(synth.new), Ix(dt.marks))
      BY <1>6, <2>1, <2>2, ShrunkChain
    <2>4. QED
      BY <1>2, <2>3 DEF Stages, Ix
  <1>8. Sorted'
    <2>1. \A i \in DOMAIN player'.chunks : Rising(player'.chunks[i].fired)
      BY <1>1, <1>3, <1>4 DEF Sorted
    <2>2. ASSUME NEW i \in DOMAIN player'.chunks, NEW j \in DOMAIN player'.chunks, i < j
          PROVE  Below(Ix(player'.chunks[i].fired), Ix(player'.chunks[j].fired))
      <3>1. i \in DOMAIN player.chunks /\ player'.chunks[i] = player.chunks[i]
        BY <1>3, <2>2
      <3>2. CASE j \in DOMAIN player.chunks
        BY <1>1, <1>3, <2>2, <3>1, <3>2 DEF Sorted
      <3>3. CASE j = Len(player.chunks) + 1
        <4>1. player'.chunks[j].fired = synth.fired
          BY <1>1, <1>3, <3>3
        <4>2. Ix(player.chunks[i].fired) \subseteq Sounding
          BY <3>1 DEF Sounding
        <4>3. Below(Sounding, Ix(synth.fired))
          BY <1>5 DEF Chain, Below
        <4>4. QED
          BY <3>1, <4>1, <4>2, <4>3 DEF Below
      <3>4. QED
        BY <1>4, <3>2, <3>3
    <2>3. Rising(synth'.fired)
      BY <1>2 DEF Rising
    <2>4. /\ Rising(hist'.notified) /\ Rising(synth'.pending) /\ Rising(synth'.new)
          /\ Rising(dt'.marks)
      BY <1>1, <1>2 DEF Sorted
    <2>5. QED
      BY <2>1, <2>2, <2>3, <2>4 DEF Sorted, Rising, Below, Ix
  <1>9. OnTheWay' \subseteq OnTheWay
    <2>1. OnTheWay' = Ix(hist'.notified) \cup Sounding' \cup Ix(synth'.fired)
                       \cup Ix(synth'.pending) \cup Ix(synth'.new) \cup Ix(dt'.marks)
      BY DEF OnTheWay, Ix
    <2>2. Ix(synth'.fired) = {}
      BY <1>2 DEF Ix
    <2>3. QED
      BY <1>2, <1>6, <2>1, <2>2 DEF OnTheWay
  <1>10. Ahead' \subseteq Ahead
    BY <1>2 DEF Ahead
  <1>11. Reached' /\ Mono' /\ Behind' /\ Past'
    BY <1>2, <1>9, <1>10, KeptFlow
  <1>12. QED
    BY <1>7, <1>8, <1>11 DEF Flow

LEMMA PlayFlow ==
  ASSUME Types, Types', Queued, InLine, [Next]_vars, Flow, Play
  PROVE  Flow'
  <1> DEFINE first == Head(player.chunks).fired
  <1>1. /\ player.chunks \in Seq(Chunk) /\ player.chunks # <<>> /\ Sorted
        /\ player'.chunks = Tail(player.chunks) /\ hist'.notified = hist.notified \o first
        /\ hist.notified \in Seq(Placed) /\ dt' = dt /\ synth' = synth
    BY DEF Types, PlayerType, HistType, Play, Flow
  <1>2. /\ 1 \in DOMAIN player.chunks /\ Head(player.chunks) = player.chunks[1]
        /\ Head(player.chunks) \in Chunk
        /\ \A i \in DOMAIN player'.chunks :
             /\ i \in Nat /\ i > 0 /\ i + 1 \in DOMAIN player.chunks
             /\ player'.chunks[i] = player.chunks[i + 1]
    <2>1. DOMAIN player'.chunks = 1..(Len(player.chunks) - 1)
      BY <1>1, HeadAndTail
    <2>2. QED
      BY <1>1, <2>1, HeadAndTail
  <1>3. first \in Seq(Placed) /\ first = player.chunks[1].fired
    BY <1>2 DEF Chunk
  <1> HIDE DEF first
  <1>4. Sounding' = UNION {Ix(player'.chunks[i].fired) : i \in DOMAIN player'.chunks}
    BY DEF Sounding, Ix
  <1>5. Ix(first) \cup Sounding' \subseteq Sounding
    <2>1. Ix(first) \subseteq Sounding
      BY <1>2, <1>3 DEF Sounding
    <2>2. Sounding' \subseteq Sounding
      BY <1>2, <1>4 DEF Sounding
    <2>3. QED
      BY <2>1, <2>2
  <1>6. Below(Ix(first), Sounding')
    <2>1. ASSUME NEW i \in DOMAIN player'.chunks
          PROVE  Below(Ix(first), Ix(player'.chunks[i].fired))
      <3>1. 1 < i + 1 /\ i + 1 \in DOMAIN player.chunks
        BY <1>2
      <3>2. QED
        BY <1>1, <1>2, <1>3, <3>1 DEF Sorted
    <2>2. QED
      BY <1>4, <2>1 DEF Below
  <1>7. Chain(Ix(hist.notified), Sounding, Ix(synth.fired), Ix(synth.pending), Ix(synth.new),
              Ix(dt.marks))
    BY DEF Flow, Stages
  <1>8. Below(Ix(hist.notified), Ix(first))
    BY <1>5, <1>7 DEF Chain, Below
  <1>9. /\ Ix(hist'.notified) = Ix(hist.notified) \cup Ix(first)
        /\ Rising(hist'.notified)
    <2>1. Rising(hist.notified) /\ Rising(first)
      BY <1>1, <1>2, <1>3 DEF Sorted
    <2> DEFINE old == hist.notified
               all == hist'.notified
    <2>2. /\ old \in Seq(Placed) /\ all = old \o first
          /\ Rising(old) /\ Rising(first) /\ Below(Ix(old), Ix(first))
      BY <1>1, <1>8, <2>1
    <2> HIDE DEF old, all
    <2>3. Ix(all) = Ix(old) \cup Ix(first) /\ Rising(all)
      BY <1>3, <2>2, JoinedRising
    <2>4. QED
      BY <2>3 DEF old, all
  <1>10. Stages'
    <2>1. Chain(Ix(hist.notified) \cup Ix(first), Sounding', Ix(synth.fired), Ix(synth.pending),
                Ix(synth.new), Ix(dt.marks))
      BY <1>5, <1>6, <1>7, MovedChain
    <2>2. Chain(Ix(hist'.notified), Sounding', Ix(synth'.fired), Ix(synth'.pending),
                Ix(synth'.new), Ix(dt'.marks))
      BY <1>1, <1>9, <2>1
    <2>3. QED
      BY <2>2 DEF Stages, Ix
  <1>11. Sorted'
    <2>1. \A i \in DOMAIN player'.chunks : Rising(player'.chunks[i].fired)
      BY <1>1, <1>2 DEF Sorted
    <2>2. ASSUME NEW i \in DOMAIN player'.chunks, NEW j \in DOMAIN player'.chunks, i < j
          PROVE  Below(Ix(player'.chunks[i].fired), Ix(player'.chunks[j].fired))
      <3>1. i + 1 < j + 1
        BY <1>2, <2>2
      <3>2. QED
        BY <1>1, <1>2, <3>1 DEF Sorted
    <2>3. /\ Rising(synth'.fired) /\ Rising(synth'.pending) /\ Rising(synth'.new)
          /\ Rising(dt'.marks)
      BY <1>1 DEF Sorted
    <2>4. QED
      BY <1>9, <2>1, <2>2, <2>3 DEF Sorted, Rising, Below, Ix
  <1>12. OnTheWay' \subseteq OnTheWay
    <2>1. OnTheWay' = Ix(hist'.notified) \cup Sounding' \cup Ix(synth'.fired)
                       \cup Ix(synth'.pending) \cup Ix(synth'.new) \cup Ix(dt'.marks)
      BY DEF OnTheWay, Ix
    <2>2. QED
      BY <1>1, <1>5, <1>9, <2>1 DEF OnTheWay
  <1>13. Ahead' \subseteq Ahead
    BY <1>1 DEF Ahead
  <1>14. Reached' /\ Mono' /\ Behind' /\ Past'
    BY <1>1, <1>12, <1>13, KeptFlow
  <1>15. QED
    BY <1>10, <1>11, <1>14 DEF Flow

LEMMA Chunks ==
  /\ \A i \in Int : ChunkOf(i) \in Int /\ ChunkOf(i) <= Length /\ (i >= 1 => ChunkOf(i) >= 1)
  /\ \A i, j \in Int : i <= j => ChunkOf(i) <= ChunkOf(j)
  BY Sizes DEF ChunkOf

\* The marks s are some of those after the first done of utterance u, by index.
InPlace(s, u, done, m, start) ==
  \A k \in DOMAIN s : \E j \in (done + 1)..m :
     s[k].index = Base(u) + j /\ s[k].pos = start + ChunkOf(j)

LEMMA PlacedMarks ==
  ASSUME NEW u \in Utterances, NEW done \in 0..MarksEach, NEW m \in done..MarksEach,
         NEW start \in Int, NEW s, s = MarksOf(u, done + 1, m, start)
  PROVE  s \in Seq(Placed) /\ Rising(s) /\ InPlace(s, u, done, m, start)
  <1>1. done \in Nat /\ m \in Nat /\ m <= MarksEach /\ done <= m /\ MarksEach \in Nat
    BY Sizes
  <1>2. /\ s \in Seq(Placed) /\ Len(s) = m - done
        /\ \A k \in 1..(m - done) : /\ s[k].index = Base(u) + (done + k)
                                    /\ s[k].pos = start + ChunkOf(done + k)
    <2>1. Numbered(s, u, done, m, start)
      BY MarkNumbering
    <2>2. QED
      BY <2>1 DEF Numbered
  <1>3. Base(u) \in Nat
    <2>1. u \in Nat /\ u > 0
      BY DEF Utterances
    <2>2. QED
      BY <2>1, Bases
  <1>4. DOMAIN s = 1..(m - done)
    BY <1>2, LenProperties
  <1>5. ASSUME NEW k \in DOMAIN s
        PROVE  /\ done + k \in (done + 1)..m
               /\ s[k].index = Base(u) + (done + k) /\ s[k].pos = start + ChunkOf(done + k)
    <2>1. k \in 1..(m - done)
      BY <1>4
    <2>2. done + k \in (done + 1)..m
      BY <1>1, <2>1
    <2>3. QED
      BY <1>2, <2>1, <2>2
  <1>6. Rising(s)
    <2>1. ASSUME NEW i \in DOMAIN s, NEW j \in DOMAIN s, i < j PROVE s[i].index < s[j].index
      <3>1. i \in Nat /\ j \in Nat
        BY <1>4
      <3>2. s[i].index = Base(u) + (done + i) /\ s[j].index = Base(u) + (done + j)
        BY <1>5
      <3>3. Base(u) + (done + i) < Base(u) + (done + j)
        BY <1>1, <1>3, <2>1, <3>1, InOrderShifted
      <3>4. QED
        BY <3>2, <3>3, Zenon
    <2>2. QED
      BY <2>1 DEF Rising
  <1>7. QED
    BY <1>2, <1>5, <1>6 DEF InPlace

LEMMA AheadTypes ==
  ASSUME Types, NEW x \in Ahead
  PROVE  x[1] \in OnTheWay /\ x[1] \in Nat /\ x[2] \in Int
  <1>1. x[1] \in OnTheWay
    BY DEF Ahead, OnTheWay, Ix
  <1>2. x[1] \in Nat
    BY <1>1, WayTypes
  <1>3. /\ \A i \in DOMAIN synth.pending : synth.pending[i].pos \in Int
        /\ \A i \in DOMAIN synth.new : synth.new[i].pos \in Int
        /\ \A i \in DOMAIN dt.marks : dt.marks[i].pos \in Int
    <2>1. /\ \A i \in DOMAIN synth.pending : synth.pending[i] \in Placed
          /\ \A i \in DOMAIN synth.new : synth.new[i] \in Placed
          /\ \A i \in DOMAIN dt.marks : dt.marks[i] \in Placed
      BY ElementOfSeq, LenProperties DEF Types, SynthType, SynthRecord, DtType
    <2>2. QED
      BY <2>1 DEF Placed, Placed
  <1>4. x[2] \in Int
    BY <1>3 DEF Ahead
  <1>5. QED
    BY <1>1, <1>2, <1>4

\* The instance makes a chunk and shows marks that it has looked ahead to.
LEMMA SynthFlow ==
  ASSUME Types, Types', Queued, InLine, Slots, [Next]_vars, Flow, DtalkSynth, dt.todo # <<>>
  PROVE  Flow' /\ (dt'.todo = <<>> => \A x \in Ahead' : x[2] <= dt'.pos)
  <1>1. PICK m, head, made, start, marks, read : Synthesized(m, head, made, start, marks, read)
    BY SynthParts
  <1> DEFINE placed == MarksOf(head.utt, head.marked + 1, m, start)
             pairs == {<<placed[k].index, placed[k].pos>> : k \in DOMAIN placed}
             first == SubSeq(marks, 1, read)
             last == SubSeq(marks, read + 1, Len(marks))
             base == Base(head.utt)
  <1>2. /\ head = dt.todo[1] /\ head \in Work /\ made = head.made + 1 /\ start = dt.pos - head.made
        /\ marks = dt.marks \o placed /\ marks \in Seq(Placed) /\ read \in 0..Len(marks)
        /\ synth.at = "call"
    BY <1>1, Zenon DEF Synthesized, DtalkSynth
  <1>3. /\ synth'.new = first /\ synth'.pending = synth.pending /\ synth'.fired = synth.fired
        /\ synth'.at = "map" /\ dt'.marks = last /\ dt'.pos = dt.pos + 1
        /\ UNCHANGED <<player, hist>>
    BY <1>1, ZenonT(30) DEF Synthesized, DtalkSynth, Types, SynthType, SynthRecord, DtType
  <1>4. /\ head.utt \in Utterances /\ head.made \in 0..(Length - 1) /\ dt.pos \in Nat
        /\ dt.marks \in Seq(Placed) /\ start \in Int /\ start = Start
    BY <1>2, SMTT(30) DEF Work, Types, DtType, Start
  <1>5. /\ Frontier = base + head.marked /\ base + m <= Frontier' /\ base \in Nat
        /\ m \in head.marked .. MarksEach /\ head.marked \in 0..MarksEach
        /\ Frontier \in Nat /\ Frontier <= Frontier' /\ Frontier' \in Nat
    BY <1>1, SynthFrontier
  <1>6. /\ placed \in Seq(Placed) /\ Rising(placed)
        /\ \A k \in DOMAIN placed : \E j \in (head.marked + 1)..m :
             placed[k].index = base + j /\ placed[k].pos = start + ChunkOf(j)
    <2> DEFINE u == head.utt
               done == head.marked
    <2>1. /\ u \in Utterances /\ done \in 0..MarksEach /\ m \in done..MarksEach /\ start \in Int
          /\ placed = MarksOf(u, done + 1, m, start) /\ base = Base(u)
      BY <1>4, <1>5
    <2> HIDE DEF u, done, placed, base
    <2>2. placed \in Seq(Placed) /\ Rising(placed) /\ InPlace(placed, u, done, m, start)
      BY <2>1, PlacedMarks
    <2>3. QED
      BY <2>1, <2>2 DEF done, InPlace
  <1> HIDE DEF placed
  <1>7. \A y \in pairs : \E j \in (head.marked + 1)..m :
           y[1] = base + j /\ y[2] = start + ChunkOf(j)
    BY <1>6
  <1>8. \A y \in Ix(placed) : y \in Nat /\ y > Frontier /\ y <= Frontier'
    <2>1. ASSUME NEW y \in Ix(placed) PROVE y \in Nat /\ y > Frontier /\ y <= Frontier'
      <3>1. PICK j \in (head.marked + 1)..m : y = base + j
        BY <1>6 DEF Ix
      <3>2. QED
        BY <1>5, <3>1, Sizes
    <2>2. QED
      BY <2>1
  <1>9. \A x \in OnTheWay : x \in Nat /\ x <= Frontier
    BY <1>2, WayTypes DEF Flow, Reached
  <1>10. Below(OnTheWay, Ix(placed))
    BY <1>5, <1>8, <1>9 DEF Below
  <1>11. /\ Ix(marks) = Ix(dt.marks) \cup Ix(placed) /\ Rising(marks)
    <2>1. Rising(dt.marks)
      BY DEF Flow, Sorted
    <2>2. Below(Ix(dt.marks), Ix(placed))
      BY <1>10 DEF Below, OnTheWay
    <2>3. QED
      BY <1>2, <1>4, <1>6, <2>1, <2>2, JoinedRising
  <1>12. /\ first \in Seq(Placed) /\ last \in Seq(Placed)
         /\ \A i \in DOMAIN first : i \in DOMAIN marks /\ first[i] = marks[i]
         /\ \A i \in DOMAIN last : i + read \in DOMAIN marks /\ last[i] = marks[i + read]
         /\ Rising(first) /\ Rising(last)
         /\ Ix(first) \subseteq Ix(marks) /\ Ix(last) \subseteq Ix(marks)
         /\ Below(Ix(first), Ix(last))
    <2>1. /\ marks \in Seq(Placed) /\ Rising(marks) /\ read \in 0..Len(marks)
          /\ first = SubSeq(marks, 1, read) /\ last = SubSeq(marks, read + 1, Len(marks))
      BY <1>2, <1>11
    <2> HIDE DEF first, last
    <2>2. /\ first \in Seq(Placed) /\ last \in Seq(Placed)
          /\ \A i \in DOMAIN first : i \in DOMAIN marks /\ first[i] = marks[i]
          /\ \A i \in DOMAIN last : i + read \in DOMAIN marks /\ last[i] = marks[i + read]
      BY <2>1, Cuts
    <2>3. /\ Rising(first) /\ Rising(last)
          /\ Ix(first) \subseteq Ix(marks) /\ Ix(last) \subseteq Ix(marks)
          /\ Below(Ix(first), Ix(last))
      BY <2>1, CutRising
    <2>4. QED
      BY <2>2, <2>3
  <1>13. \A i \in DOMAIN marks : <<marks[i].index, marks[i].pos>> \in Ahead \cup pairs
    <2>1. \A i \in DOMAIN marks :
             \/ i \in DOMAIN dt.marks /\ marks[i] = dt.marks[i]
             \/ i - Len(dt.marks) \in DOMAIN placed /\ marks[i] = placed[i - Len(dt.marks)]
      BY <1>2, <1>4, <1>6, ConcatProperties, LenProperties, SMTT(30)
    <2>2. QED
      BY <2>1 DEF Ahead
  <1> HIDE DEF first, last, base
  <1>14. synth.new = <<>> /\ Ix(synth.new) = {}
    <2>1. synth.new = <<>>
      BY <1>2 DEF Slots
    <2>2. QED
      BY <2>1 DEF Ix
  <1>15. Stages'
    <2>1. Chain(Ix(hist.notified), Sounding, Ix(synth.fired), Ix(synth.pending), Ix(synth.new),
                Ix(dt.marks))
      BY DEF Flow, Stages
    <2>2. Below(Ix(hist.notified) \cup Sounding \cup Ix(synth.fired) \cup Ix(synth.pending)
                  \cup Ix(synth.new), Ix(placed))
      BY <1>10 DEF Below, OnTheWay
    <2>3. Chain(Ix(hist.notified), Sounding, Ix(synth.fired), Ix(synth.pending), Ix(synth.new),
                Ix(marks))
      BY <1>11, <2>1, <2>2, GrownChain
    <2>4. Ix(first) \cup Ix(last) \subseteq Ix(marks)
      BY <1>12
    <2>5. Chain(Ix(hist.notified), Sounding, Ix(synth.fired), Ix(synth.pending),
                Ix(synth.new) \cup Ix(first), Ix(last))
      BY <1>12, <2>3, <2>4, MovedChain
    <2>6. Ix(synth.new) \cup Ix(first) = Ix(synth'.new) /\ Ix(last) = Ix(dt'.marks)
      BY <1>3, <1>14
    <2>7. Chain(Ix(hist.notified), Sounding, Ix(synth.fired), Ix(synth.pending),
                Ix(synth'.new), Ix(dt'.marks))
      BY <2>5, <2>6
    <2>8. /\ hist' = hist /\ player' = player /\ synth'.fired = synth.fired
          /\ synth'.pending = synth.pending
      BY <1>3
    <2>9. QED
      BY <2>7, <2>8 DEF Stages, Sounding, Ix
  <1>16. Sorted'
    <2>1. Rising(synth'.new) /\ Rising(dt'.marks)
      BY <1>3, <1>12
    <2>2. /\ hist' = hist /\ player' = player /\ synth'.fired = synth.fired
          /\ synth'.pending = synth.pending /\ Sorted
      BY <1>3 DEF Flow
    <2>3. QED
      BY <2>1, <2>2 DEF Sorted, Rising, Below, Ix
  <1>17. Reached'
    <2>1. OnTheWay' \subseteq OnTheWay \cup Ix(placed)
      <3>1. OnTheWay' = Ix(hist'.notified) \cup Sounding' \cup Ix(synth'.fired)
                         \cup Ix(synth'.pending) \cup Ix(synth'.new) \cup Ix(dt'.marks)
        BY DEF OnTheWay, Ix
      <3>2. Sounding' = Sounding
        BY <1>3 DEF Sounding, Ix
      <3>3. Ix(synth'.new) \cup Ix(dt'.marks) \subseteq Ix(dt.marks) \cup Ix(placed)
        BY <1>3, <1>11, <1>12
      <3>4. QED
        BY <1>3, <3>1, <3>2, <3>3 DEF OnTheWay
    <2>2. ASSUME NEW x \in OnTheWay' PROVE x <= Frontier'
      <3>1. CASE x \in OnTheWay
        BY <1>5, <1>9, <3>1
      <3>2. CASE x \in Ix(placed)
        BY <1>8, <3>2
      <3>3. QED
        BY <2>1, <3>1, <3>2
    <2>3. QED
      BY <2>2 DEF Reached
  <1>18. Ahead' \subseteq Ahead \cup pairs
    <2>1. \A i \in DOMAIN synth'.new :
             <<synth'.new[i].index, synth'.new[i].pos>> \in Ahead \cup pairs
      BY <1>3, <1>12, <1>13
    <2>2. \A i \in DOMAIN dt'.marks :
             <<dt'.marks[i].index, dt'.marks[i].pos>> \in Ahead \cup pairs
      BY <1>3, <1>12, <1>13
    <2>3. \A i \in DOMAIN synth'.pending :
             <<synth'.pending[i].index, synth'.pending[i].pos>> \in Ahead
      BY <1>3 DEF Ahead
    <2> HIDE DEF pairs
    <2>4. QED
      BY <2>1, <2>2, <2>3 DEF Ahead
  <1> HIDE DEF pairs
  <1>19. \A x \in Ahead : /\ x[1] \in Nat /\ x[2] \in Int /\ x[1] <= Frontier
                          /\ \/ x[2] <= start
                             \/ x[1] > base /\ x[2] = start + ChunkOf(x[1] - base)
    BY <1>2, <1>4, <1>9, AheadTypes DEF Flow, Behind, base
  <1>20. \A y \in pairs : /\ y[1] \in Nat /\ y[2] \in Int /\ y[1] > Frontier /\ y[1] > base
                          /\ y[2] = start + ChunkOf(y[1] - base) /\ y[2] >= start
    <2>1. ASSUME NEW y \in pairs
          PROVE  /\ y[1] \in Nat /\ y[2] \in Int /\ y[1] > Frontier /\ y[1] > base
                 /\ y[2] = start + ChunkOf(y[1] - base) /\ y[2] >= start
      <3>1. PICK j \in (head.marked + 1)..m : y[1] = base + j /\ y[2] = start + ChunkOf(j)
        BY <1>7
      <3>2. j \in Nat /\ j >= 1 /\ j > head.marked
        BY <1>5, <3>1
      <3>3. ChunkOf(j) \in Int /\ ChunkOf(j) >= 1
        BY <3>2, Chunks
      <3>4. y[1] - base = j
        BY <1>5, <3>1, <3>2
      <3>5. y[1] \in Nat /\ y[1] > Frontier /\ y[1] > base
        BY <1>5, <3>1, <3>2
      <3>6. y[2] \in Int /\ y[2] >= start
        BY <1>4, <3>1, <3>3
      <3>7. QED
        BY <3>1, <3>4, <3>5, <3>6
    <2>2. QED
      BY <2>1
  <1>21. Mono'
    <2> SUFFICES ASSUME NEW x \in Ahead', NEW y \in Ahead', x[1] < y[1] PROVE x[2] <= y[2]
      BY DEF Mono
    <2>1. CASE x \in Ahead /\ y \in Ahead
      BY <2>1 DEF Flow, Mono
    <2>2. CASE x \in pairs /\ y \in Ahead
      BY <1>5, <1>19, <1>20, <2>2
    <2>3. CASE y \in pairs
      <3>1. /\ y[1] \in Nat /\ y[2] \in Int /\ y[1] > base /\ y[2] = start + ChunkOf(y[1] - base)
            /\ y[2] >= start
        BY <1>20, <2>3
      <3>2. /\ x[1] \in Nat /\ x[2] \in Int
            /\ \/ x[2] <= start
               \/ x[1] > base /\ x[2] = start + ChunkOf(x[1] - base)
        BY <1>18, <1>19, <1>20
      <3>3. CASE x[2] <= start
        BY <1>4, <3>1, <3>2, <3>3
      <3>4. CASE x[1] > base /\ x[2] = start + ChunkOf(x[1] - base)
        <4>1. x[1] - base \in Int /\ y[1] - base \in Int /\ x[1] - base <= y[1] - base
          BY <1>5, <3>1, <3>2, SMTT(30)
        <4>2. /\ ChunkOf(x[1] - base) <= ChunkOf(y[1] - base)
              /\ ChunkOf(x[1] - base) \in Int /\ ChunkOf(y[1] - base) \in Int
          BY <4>1, Chunks
        <4>3. QED
          BY <1>4, <3>1, <3>4, <4>2
      <3>5. QED
        BY <3>2, <3>3, <3>4
    <2>4. QED
      BY <1>18, <2>1, <2>2, <2>3
  <1>22. \A x \in Ahead' : /\ x[1] \in Nat /\ x[2] \in Int
                           /\ \/ x[2] <= start
                              \/ x[1] > base /\ x[2] = start + ChunkOf(x[1] - base)
    BY <1>18, <1>19, <1>20
  <1>23. made = Length => \A x \in Ahead' : x[2] <= dt.pos + 1
    <2> SUFFICES ASSUME made = Length, NEW x \in Ahead' PROVE x[2] <= dt.pos + 1
      OBVIOUS
    <2>1. start + Length = dt.pos + 1
      <3> DEFINE p == dt.pos
                 h == head.made
      <3>1. p \in Int /\ h \in Int /\ start = p - h /\ Length = h + 1
        BY <1>2, <1>4, Sizes
      <3> HIDE DEF p, h
      <3>2. start + Length = p + 1
        BY <3>1
      <3>3. QED
        BY <3>2 DEF p
    <2>2. x[1] - base \in Int
      BY <1>5, <1>22
    <2>3. ChunkOf(x[1] - base) \in Int /\ ChunkOf(x[1] - base) <= Length
      BY <2>2, Chunks
    <2>4. QED
      BY <1>4, <1>22, <2>1, <2>3, Sizes
  <1>24. Behind'
    <2>1. CASE made # Length
      <3>1. /\ 1 \in DOMAIN dt.todo /\ dt'.todo[1].utt = head.utt /\ dt'.todo[1].made = made
        BY <1>1, <2>1, FirstToDo, SynthTodo
      <3>2. dt'.pos - dt'.todo[1].made = start
        BY <1>2, <1>3, <1>4, <3>1, Sizes, SMTT(30)
      <3>3. Start' = start
        BY <3>2 DEF Start
      <3>4. QED
        BY <1>22, <3>1, <3>3 DEF Behind, Base, ChunkOf, base
    <2>2. CASE made = Length /\ dt'.todo # <<>>
      <3>1. dt'.todo \in Seq(Work)
        BY DEF Types, DtType
      <3>2. 1 \in DOMAIN dt'.todo
        BY <2>2, <3>1, HeadAndTail
      <3>3. 1 + 1 \in DOMAIN dt.todo /\ dt'.todo[1] = dt.todo[1 + 1]
        BY <1>1, <2>2, <3>2, SynthTodo
      <3>4. dt'.todo[1].made = 0
        BY <3>3 DEF InLine
      <3>5. Start' = dt.pos + 1
        BY <1>3, <1>4, <3>4 DEF Start
      <3>6. QED
        BY <1>23, <2>2, <3>5 DEF Behind
    <2>3. CASE dt'.todo = <<>>
      BY <2>3 DEF Behind
    <2>4. QED
      BY <2>1, <2>2, <2>3
  <1>25. Past'
    <2> SUFFICES ASSUME dt'.todo = <<>>, NEW i \in DOMAIN dt'.marks
                 PROVE  dt'.marks[i].pos <= dt'.pos
      BY DEF Past
    <2>1. made = Length
      <3>1. made # Length => 1 \in DOMAIN dt'.todo
        BY <1>1, FirstToDo, SynthTodo
      <3>2. QED
        BY <3>1
    <2>2. <<dt'.marks[i].index, dt'.marks[i].pos>> \in Ahead'
      BY DEF Ahead
    <2>3. QED
      BY <1>3, <1>23, <2>1, <2>2
  <1>26. dt'.todo = <<>> => \A x \in Ahead' : x[2] <= dt'.pos
    <2>1. made # Length => 1 \in DOMAIN dt'.todo
      BY <1>1, FirstToDo, SynthTodo
    <2>2. QED
      BY <1>3, <1>23, <2>1
  <1>27. QED
    BY <1>15, <1>16, <1>17, <1>21, <1>24, <1>25, <1>26 DEF Flow

\* No other step of the synth thread passes a mark on.
LEMMA FlowThread ==
  ASSUME Types, Types', Queued, InLine, [Next]_vars, Flow,
         \/ Get \/ ClearStopping \/ TestStopping \/ CallDestroyed \/ FeedRaises \/ Ended \/ IdleAndNotify
         \/ (DtalkSynth /\ dt.todo = <<>>)
  PROVE  Flow'
  <1>1. synth \in SynthRecord
    BY DEF Types, SynthType
  <1>2. dt' = dt
    BY Zenon DEF Get, ClearStopping, TestStopping, CallDestroyed, FeedRaises, Ended, IdleAndNotify, DtalkSynth
  <1>3. player' = player /\ hist'.notified = hist.notified
    BY Zenon DEF Get, ClearStopping, TestStopping, CallDestroyed, FeedRaises, Ended, IdleAndNotify, DtalkSynth,
       Types, HistType
  <1>4. /\ synth'.new = synth.new /\ synth'.fired \in {synth.fired, <<>>}
        /\ synth'.pending \in {synth.pending, <<>>}
    BY <1>1, Zenon DEF Get, ClearStopping, TestStopping, CallDestroyed, FeedRaises, Ended, IdleAndNotify, DtalkSynth,
       SynthRecord
  <1>5. QED
    BY <1>2, <1>3, <1>4, QuietFlow

\* The main thread only drops marks: those of the instance, those of chunks.
LEMMA FlowMain ==
  ASSUME Types, Types', Queued, InLine, [Next]_vars, Flow, MainThread
  PROVE  Flow'
  <1>1. synth' = synth
    BY DEF MainThread, Speak, CancelBegin, CancelDrain, CancelStop, CancelClear, CancelPlayer,
       TerminatePut, TerminateJoin, JoinGivesUp, TerminateClose
  <1>2. hist'.notified = hist.notified
    BY DEF MainThread, Speak, CancelBegin, CancelDrain, CancelStop, CancelClear, CancelPlayer,
       TerminatePut, TerminateJoin, JoinGivesUp, TerminateClose, Types, HistType
  <1>3. player'.chunks \in {player.chunks, <<>>}
    BY DEF MainThread, Speak, CancelBegin, CancelDrain, CancelStop, CancelClear, CancelPlayer,
       TerminatePut, TerminateJoin, JoinGivesUp, TerminateClose, Types, PlayerType
  <1>4. /\ dt'.pos = dt.pos
        /\ \/ dt'.todo = dt.todo /\ dt'.marks = dt.marks
           \/ dt'.todo = <<>> /\ dt'.marks = <<>>
    BY DEF MainThread, Speak, CancelBegin, CancelDrain, CancelStop, CancelClear, CancelPlayer,
       TerminatePut, TerminateJoin, JoinGivesUp, TerminateClose, Types, DtType
  <1>5. QED
    BY <1>1, <1>2, <1>3, <1>4, QuietFlow

LEMMA FlowStep ==
  ASSUME Types, Types', MapTrue, Slots, Queued, InLine, Flow, [Next]_vars
  PROVE  Flow'
  <1>1. CASE UNCHANGED vars
    <2>1. /\ synth' = synth /\ hist' = hist /\ player' = player /\ dt' = dt
      BY <1>1 DEF vars
    <2>2. QED
      BY <2>1, QuietFlow
  <1>2. CASE MainThread
    BY <1>2, FlowMain
  <1>3. CASE SynthThread
    BY <1>3, FlowThread, QueueFlow, SynthFlow, PopFlow, SelectFlow, FeedFlow DEF SynthThread
  <1>4. CASE Play
    BY <1>4, PlayFlow
  <1>5. QED
    BY <1>1, <1>2, <1>3, <1>4 DEF Next

LEMMA FlowInit == Init => MapTrue /\ Slots /\ Queued /\ InLine /\ Flow
  <1> SUFFICES ASSUME Init PROVE MapTrue /\ Slots /\ Queued /\ InLine /\ Flow
    OBVIOUS
  <1>1. /\ DOMAIN <<>> = {} /\ queue = <<>> /\ dt.todo = <<>> /\ dt.marks = <<>>
        /\ synth.at = "get" /\ synth.utt = None /\ synth.new = <<>> /\ synth.pending = <<>>
        /\ synth.fired = <<>> /\ player.chunks = <<>> /\ hist.notified = <<>> /\ hist.said = 0
    BY DEF Init
  <1>10. Outstanding = {}
    <2>1. \A i : ~Waits(i) /\ ~Held(i) /\ ~Unmarked(i) /\ ~Unread(i)
      BY <1>1 DEF Waits, Held, Unmarked, Unread, Ix
    <2>2. QED
      BY <2>1, OutstandingParts DEF Parted
  <1>2. MapTrue /\ Slots
    BY <1>1, <1>10 DEF Init, MapTrue, Slots
  <1>3. Queued /\ InLine
    BY <1>1 DEF Queued, InLine, None
  <1>4. /\ Ix(hist.notified) = {} /\ Sounding = {} /\ Ix(synth.fired) = {}
        /\ Ix(synth.pending) = {} /\ Ix(synth.new) = {} /\ Ix(dt.marks) = {}
    BY <1>1 DEF Ix, Sounding
  <1>5. Stages /\ Reached
    BY <1>4 DEF Stages, Chain, Below, Reached, OnTheWay
  <1>6. Sorted
    BY <1>1 DEF Sorted, Rising
  <1>7. Ahead = {}
    BY <1>1 DEF Ahead
  <1>8. Mono /\ Behind /\ Past
    BY <1>1, <1>7 DEF Mono, Behind, Past
  <1>9. QED
    BY <1>2, <1>3, <1>5, <1>6, <1>8 DEF Flow

\* InOrder: NVDA hears of its indexes in the order of the text and of none
\* twice, for any number of utterances, cancels, chunks and marks, and however
\* often the marker numbers of _nextMark roll over; only a speak that gave a
\* number out while it was outstanding ends it.
THEOREM NotifiedInOrder == Safe => []InOrder
  <1> DEFINE IInv == Slots /\ Queued /\ InLine /\ (~hist.reused => MapTrue /\ Flow)
  <1>1. Init => IInv
    BY FlowInit
  <1>2. IInv /\ Types /\ Types' /\ [Next]_vars => IInv'
    <2> SUFFICES ASSUME IInv, Types, Types', [Next]_vars PROVE IInv'
      OBVIOUS
    <2>1. Slots' /\ Queued' /\ InLine'
      BY SlotsStep, QueuedStep, InLineStep
    <2>2. ASSUME ~hist'.reused PROVE MapTrue' /\ Flow'
      <3>1. MapTrue /\ Flow
        BY <2>2, Unreused
      <3>2. QED
        BY <2>2, <3>1, MapTrueStep, FlowStep
    <2>3. QED
      BY <2>1, <2>2
  <1>3. IInv => InOrder
    BY DEF Flow, Sorted, Rising, InOrder
  <1> HIDE DEF IInv
  <1>4. QED
    BY <1>1, <1>2, <1>3, TypesHold, PTL DEF Safe

-----------------------------------------------------------------------------
(* Done means spoken.  A wanted utterance is one that no cancel followed.   *)

Wanted(u) == u > hist.silenced /\ u <= hist.said

\* The thread is at work on the utterance it queued, or has yet to queue u.
AtWork   == synth.at \in {"test", "call", "map", "feed", "ended", "idle"}
ToCome(u) == u > synth.utt \/ (u = synth.utt /\ synth.at \in {"clear", "queue"})

\* While a cancel is under way, and once the instance is destroyed, nothing is
\* wanted.
Silent == /\ main.at # "free" => hist.said <= hist.silenced
          /\ ~dt.alive => main.at = "gone"

\* The stop flag is down while the thread speaks what is wanted.
Heard == (AtWork \/ synth.at = "queue") /\ Wanted(synth.utt) => ~stopping

\* What is to come has not been fed.
NotBegun ==
  /\ \A u \in hist.done : u <= hist.said
  /\ synth.at # "gone" =>
       /\ \A u \in Utterances : ToCome(u) => hist.fed[u] = 0
       /\ synth.at \in {"map", "feed"} => synth.of \in Utterances /\ synth.of <= synth.utt
       /\ \A u \in hist.done : u <= synth.utt /\ (synth.at # "get" => u < synth.utt)

\* The number of an index is in the map for it: so it is for all the indexes of
\* an utterance that waits or that the thread has yet to queue.
Meant(i)  == markMap[NumberOf(i)] = i
Coming(u) == \/ \E j \in DOMAIN queue : queue[j] = u
             \/ synth.at \in {"clear", "queue"} /\ synth.utt = u
Mapped == \A u \in Utterances : Wanted(u) /\ Coming(u) => \A k \in 1..MarksEach : Meant(Base(u) + k)

\* How far the thread's utterance has been made, the last in line, how far its
\* marks are known, and how many chunks of it were handed out.
Last  == dt.todo[Len(dt.todo)]
Made  == IF dt.todo = <<>> THEN Length ELSE Last.made
Known == IF dt.todo = <<>> THEN MarksEach ELSE Last.marked
Given == hist.fed[synth.utt]
           + (IF synth.at \in {"map", "feed"} /\ synth.of = synth.utt THEN 1 ELSE 0)

\* A mark that is known is at one of the stages.
Staged(i) == \/ i \in Ix(synth.new) \cup Ix(dt.marks) /\ Meant(i)
             \/ i \in Ix(synth.pending) \cup Ix(synth.fired) \cup Sounding \cup Ix(hist.notified)

\* Of what is wanted, the instance has only the thread's utterance.
Alone == /\ synth.at # "gone" => \A j \in DOMAIN dt.todo :
              Wanted(dt.todo[j].utt) => AtWork /\ dt.todo[j].utt = synth.utt
         /\ synth.at \in {"map", "feed"} /\ Wanted(synth.of) => synth.of = synth.utt

Accounted ==
  AtWork /\ Wanted(synth.utt) =>
    /\ dt.todo # <<>> => Last.utt = synth.utt
    /\ Given = Made
    /\ \A k \in 1..MarksEach : IF k <= Known THEN Staged(Base(synth.utt) + k)
                               ELSE Meant(Base(synth.utt) + k)

\* Once all has been made, no mark lies ahead.
Behindhand ==
  AtWork /\ Wanted(synth.utt) /\ dt.todo = <<>> =>
    /\ \A i \in DOMAIN synth.new : synth.new[i].pos <= dt.pos
    /\ \A i \in DOMAIN synth.pending : synth.pending[i].pos <= dt.pos
    /\ synth.at # "map" => synth.pending = <<>>

\* The instance has run out of samples; marks it still has are left unread.
Finished == synth.at \in {"ended", "idle"} =>
              dt.todo = <<>> /\ (dt.marks = <<>> \/ synth.utt \in hist.unread)

Told == \A u \in hist.done : Wanted(u) =>
          /\ hist.fed[u] = Length
          /\ u \in hist.unread \/ \A k \in 1..MarksEach : Base(u) + k \in Ix(hist.notified)

Speaking == Alone /\ Accounted /\ Behindhand /\ Told
Spoken   == ~hist.raised /\ ~hist.reused => Speaking
Ground   == Silent /\ Heard /\ NotBegun /\ Finished

\* The conjuncts that hold whatever has raised or rolled over.
LEMMA SilentStep ==
  ASSUME Types, Silent, [Next]_vars
  PROVE  /\ Silent'
         /\ MainThread \/ CallDestroyed => Speak \/ \A u \in Nat : ~Wanted(u)'
  <1>1. /\ main \in [at : MainAt, ending : BOOLEAN] /\ hist.said \in Nat /\ hist.silenced \in Nat
        /\ dt \in [alive : BOOLEAN, todo : Seq(Work), pos : Nat, marks : Seq(Placed)]
    BY DEF Types, MainType, HistType, DtType
  <1>2. CASE Speak
    BY <1>1, <1>2 DEF Speak, Silent
  <1>3. CASE CancelBegin
    <2>1. hist'.said = hist.said /\ hist'.silenced = hist.said
      BY <1>3 DEF CancelBegin, Types, HistType
    <2>2. dt' = dt /\ main.at = "free" /\ main'.at = "drain"
      BY <1>3 DEF CancelBegin
    <2>3. QED
      BY <1>1, <2>1, <2>2 DEF Silent, Wanted
  <1>4. CASE MainThread /\ ~Speak /\ ~CancelBegin
    <2>1. main.at # "free" /\ hist'.said = hist.said /\ hist'.silenced = hist.silenced
      BY <1>4 DEF MainThread, CancelDrain, CancelStop, CancelClear, CancelPlayer,
         TerminatePut, TerminateJoin, JoinGivesUp, TerminateClose, Types, HistType
    <2>2. ~dt'.alive => main'.at = "gone"
      <3>1. CASE TerminateClose
        BY <1>1, <3>1 DEF TerminateClose
      <3>2. CASE ~TerminateClose
        <4>1. dt'.alive = dt.alive /\ main.at # "gone"
          BY <1>1, <1>4, <3>2 DEF MainThread, CancelDrain, CancelStop, CancelClear, CancelPlayer,
             TerminatePut, TerminateJoin, JoinGivesUp
        <4>2. QED
          BY <4>1 DEF Silent
      <3>3. QED
        BY <3>1, <3>2
    <2>3. QED
      BY <1>1, <2>1, <2>2 DEF Silent, Wanted
  <1>5. CASE SynthThread \/ Play \/ UNCHANGED vars
    <2>1. UNCHANGED main /\ hist'.said = hist.said /\ hist'.silenced = hist.silenced
          /\ dt'.alive = dt.alive
      <3>1. UNCHANGED main /\ hist'.said = hist.said /\ hist'.silenced = hist.silenced
        BY <1>5, Zenon DEF SynthThread, Get, ClearStopping, DtalkQueue, TestStopping, CallDestroyed, DtalkSynth, PopMark,
           Select, Feed, FeedRaises, Ended, IdleAndNotify, Play, vars, Types, HistType
      <3>2. dt'.alive = dt.alive
        BY <1>1, <1>5, Zenon DEF SynthThread, Get, ClearStopping, DtalkQueue, TestStopping, CallDestroyed, DtalkSynth,
           PopMark, Select, Feed, FeedRaises, Ended, IdleAndNotify, Play, vars
      <3>3. QED
        BY <3>1, <3>2
    <2>2. ~MainThread \/ Speak \/ \A u \in Nat : ~Wanted(u)'
      BY <1>2, <1>3, <1>4 DEF Speak
    <2>3. CallDestroyed => \A u \in Nat : ~Wanted(u)'
      BY <1>1, <2>1 DEF CallDestroyed, Silent, Wanted
    <2>4. QED
      BY <2>1, <2>2, <2>3 DEF Silent
  <1>6. ~Speak /\ ~(MainThread /\ ~Speak /\ ~CancelBegin) /\ ~CancelBegin => ~MainThread
    OBVIOUS
  <1>7. QED
    BY <1>2, <1>3, <1>4, <1>5, <1>6 DEF Next

LEMMA FinishedStep ==
  ASSUME Types, Finished, [Next]_vars
  PROVE  Finished'
  <1>1. synth \in SynthRecord
    BY DEF Types, SynthType
  <1>2. hist.unread \subseteq hist'.unread
    BY Zenon DEF Next, MainThread, Speak, CancelBegin, CancelDrain, CancelStop, CancelClear,
       CancelPlayer, TerminatePut, TerminateJoin, JoinGivesUp, TerminateClose, Play, vars, SynthThread,
       Get, ClearStopping, DtalkQueue, TestStopping, CallDestroyed, DtalkSynth, PopMark, Select, Feed,
       FeedRaises, Ended, IdleAndNotify, Types, HistType
  <1>3. CASE MainThread \/ Play \/ UNCHANGED vars
    <2>1. UNCHANGED synth
      BY <1>3 DEF MainThread, Speak, CancelBegin, CancelDrain, CancelStop, CancelClear, CancelPlayer,
         TerminatePut, TerminateJoin, JoinGivesUp, TerminateClose, Play, vars
    <2>2. \/ dt'.todo = dt.todo /\ dt'.marks = dt.marks
          \/ dt'.todo = <<>> /\ dt'.marks = <<>>
      BY <1>3, Zenon DEF MainThread, Speak, CancelBegin, CancelDrain, CancelStop, CancelClear,
         CancelPlayer, TerminatePut, TerminateJoin, JoinGivesUp, TerminateClose, Play, vars, Types, DtType
    <2>3. QED
      BY <1>2, <2>1, <2>2 DEF Finished
  <1>4. CASE DtalkSynth /\ dt.todo = <<>>
    <2>1. /\ dt' = dt /\ synth'.utt = synth.utt
          /\ dt.marks # <<>> => synth.utt \in hist'.unread
      <3>1. dt' = dt /\ synth' = [synth EXCEPT !.at = "ended", !.n = 0]
        BY <1>4 DEF DtalkSynth
      <3>2. hist' = [hist EXCEPT !.unread = IF dt.marks = <<>> THEN @ ELSE @ \cup {synth.utt}]
        BY <1>4 DEF DtalkSynth
      <3>3. QED
        BY <1>1, <3>1, <3>2 DEF SynthRecord, Types, HistType
    <2>2. QED
      BY <1>4, <2>1 DEF Finished
  <1>5. CASE DtalkSynth /\ dt.todo # <<>>
    <2>1. synth'.at = "map"
      BY <1>1, <1>5, Zenon DEF DtalkSynth, SynthRecord
    <2>2. QED
      BY <2>1 DEF Finished
  <1>6. CASE Ended \/ IdleAndNotify
    <2>1. /\ dt' = dt /\ synth'.utt = synth.utt
          /\ synth'.at \in {"ended", "idle"} => synth.at \in {"ended", "idle"}
      BY <1>1, <1>6 DEF Ended, IdleAndNotify, SynthRecord
    <2>2. QED
      BY <1>2, <2>1 DEF Finished
  <1>7. CASE \/ Get \/ ClearStopping \/ DtalkQueue \/ TestStopping \/ CallDestroyed \/ PopMark
             \/ Select \/ Feed \/ FeedRaises
    <2>1. synth'.at \in {"gone", "clear", "queue", "test", "get", "call", "lost", "map", "feed"}
      <3>1. CASE Get \/ ClearStopping \/ DtalkQueue \/ TestStopping \/ CallDestroyed
        BY <1>1, <3>1 DEF Get, ClearStopping, DtalkQueue, TestStopping, CallDestroyed, SynthRecord
      <3>2. CASE PopMark \/ Select \/ Feed \/ FeedRaises
        BY <1>1, <3>2 DEF PopMark, Select, Feed, FeedRaises, SynthRecord
      <3>3. QED
        BY <1>7, <3>1, <3>2
    <2>2. QED
      BY <2>1 DEF Finished
  <1>8. QED
    BY <1>3, <1>4, <1>5, <1>6, <1>7 DEF Next, SynthThread

\* What is to come after a step was to come before it.
LEMMA ToComeBefore ==
  ASSUME Types, Types', Queued, [Next]_vars, synth'.at # "gone", NEW u \in Utterances, ToCome(u)'
  PROVE  /\ synth.at # "gone" /\ ToCome(u)
         /\ Get => synth.at = "get" /\ synth'.at = "clear" /\ synth.utt < synth'.utt
  <1>1. synth \in SynthRecord /\ synth.utt \in Nat /\ u \in Nat
    BY DEF Types, SynthType, SynthRecord, Utterances, None
  <1>2. CASE Get
    <2>1. queue \in Seq(Utterances \cup {None}) /\ queue # <<>>
      BY <1>2 DEF Types, QueueType, Get
    <2>2. Head(queue) = queue[1] /\ 1 \in DOMAIN queue /\ Head(queue) \in Utterances \cup {None}
      BY <2>1, HeadAndTail
    <2>3. /\ synth.at = "get" /\ synth'.at = "clear" /\ synth'.utt = queue[1] /\ queue[1] # None
      BY <1>1, <1>2, <2>2 DEF Get, SynthRecord
    <2>4. synth.utt < queue[1] /\ queue[1] \in Nat
      BY <2>2, <2>3 DEF Queued, Utterances, None
    <2>5. QED
      BY <1>1, <2>3, <2>4 DEF ToCome
  <1>3. CASE synth'.utt = synth.utt /\ ~Get
    <2>1. synth.at # "gone" /\ (synth'.at \in {"clear", "queue"} => synth.at \in {"clear", "queue"})
      <3>1. CASE SynthThread
        BY <1>1, <1>3, <3>1, Zenon DEF SynthThread, ClearStopping, DtalkQueue, TestStopping, CallDestroyed, DtalkSynth,
           PopMark, Select, Feed, FeedRaises, Ended, IdleAndNotify, SynthRecord
      <3>2. CASE ~SynthThread
        <4>1. UNCHANGED synth
          BY <3>2 DEF Next, MainThread, Speak, CancelBegin, CancelDrain, CancelStop, CancelClear,
             CancelPlayer, TerminatePut, TerminateJoin, JoinGivesUp, TerminateClose, Play, vars
        <4>2. QED
          BY <4>1
      <3>3. QED
        BY <3>1, <3>2
    <2>2. QED
      BY <1>3, <2>1 DEF ToCome
  <1>4. Get \/ synth'.utt = synth.utt
    BY <1>1, Zenon DEF Next, MainThread, Speak, CancelBegin, CancelDrain, CancelStop, CancelClear,
       CancelPlayer, TerminatePut, TerminateJoin, JoinGivesUp, TerminateClose, Play, vars, SynthThread,
       ClearStopping, DtalkQueue, TestStopping, CallDestroyed, DtalkSynth, PopMark, Select, Feed, FeedRaises,
       Ended, IdleAndNotify, SynthRecord
  <1>5. QED
    BY <1>2, <1>3, <1>4

\* The numbers that the steps compare.
Figures == /\ synth \in SynthRecord /\ synth.utt \in Nat /\ stopping \in BOOLEAN
           /\ synth.at \notin {"get", "gone"} => synth.utt \in Utterances
           /\ hist.said \in Nat /\ hist.silenced \in Nat
           /\ hist.fed \in [Utterances -> Nat] /\ hist.done \subseteq Nat

LEMMA FiguresHold ==
  ASSUME Types
  PROVE  Figures
  <1>1. synth \in SynthRecord /\ synth.utt \in Nat /\ stopping \in BOOLEAN
    BY DEF Types, MainType, SynthType, SynthRecord, Utterances, None
  <1>2. synth.at \notin {"get", "gone"} => synth.utt \in Utterances
    BY DEF Types, SynthType
  <1>3. hist.said \in Nat /\ hist.silenced \in Nat /\ hist.fed \in [Utterances -> Nat]
    BY DEF Types, HistType
  <1>4. hist.done \subseteq Nat
    BY DEF Types, HistType, Utterances, None
  <1>5. QED
    BY <1>1, <1>2, <1>3, <1>4 DEF Figures

LEMMA FiguresNext ==
  ASSUME Types'
  PROVE  Figures'
  BY FiguresHold, PTL

LEMMA HeardStep ==
  ASSUME Types, Types', Silent, Heard, Queued, [Next]_vars
  PROVE  Heard'
  <1>1. /\ synth \in SynthRecord /\ synth.utt \in Nat /\ synth'.utt \in Nat /\ stopping \in BOOLEAN
        /\ hist.said \in Nat /\ hist.silenced \in Nat
    BY FiguresHold, FiguresNext DEF Figures
  <1>2. CASE MainThread /\ ~Speak
    <2>1. ~Wanted(synth.utt)'
      BY <1>1, <1>2, SilentStep DEF Wanted
    <2>2. QED
      BY <2>1 DEF Heard
  <1>3. CASE Speak
    <2>1. UNCHANGED <<synth, stopping>> /\ hist'.silenced = hist.silenced
      BY <1>3 DEF Speak, Types, HistType
    <2>2. Wanted(synth.utt)' => Wanted(synth.utt)
      BY <1>1, <2>1 DEF Wanted, Queued
    <2>3. QED
      BY <2>1, <2>2 DEF Heard, AtWork, Wanted
  <1>4. CASE SynthThread \/ Play \/ UNCHANGED vars
    <2>1. hist'.said = hist.said /\ hist'.silenced = hist.silenced
      BY <1>4, Zenon DEF SynthThread, Get, ClearStopping, DtalkQueue, TestStopping, CallDestroyed, DtalkSynth, PopMark,
         Select, Feed, FeedRaises, Ended, IdleAndNotify, Play, vars, Types, HistType
    <2>2. CASE ClearStopping
      BY <2>2 DEF ClearStopping, Heard
    <2>3. CASE Play \/ UNCHANGED vars
      BY <2>3, <2>1, Zenon DEF Play, vars, Heard, AtWork, Wanted
    <2>4. CASE SynthThread /\ ~ClearStopping
      <3>1. stopping' = stopping
        BY <2>4, Zenon DEF SynthThread, Get, DtalkQueue, TestStopping, CallDestroyed, DtalkSynth, PopMark, Select, Feed,
           FeedRaises, Ended, IdleAndNotify
      <3>2. \/ synth'.utt = synth.utt /\ (AtWork \/ synth.at = "queue")
            \/ ~(AtWork' \/ synth'.at = "queue")
        BY <1>1, <2>4, Zenon DEF SynthThread, Get, DtalkQueue, TestStopping, CallDestroyed, DtalkSynth, PopMark, Select,
           Feed, FeedRaises, Ended, IdleAndNotify, AtWork, SynthRecord
      <3>3. QED
        BY <2>1, <3>1, <3>2 DEF Heard, Wanted
    <2>5. QED
      BY <1>4, <2>2, <2>3, <2>4
  <1>5. QED
    BY <1>2, <1>3, <1>4 DEF Next

\* The thread's step: what it does to the work of an utterance.
LEMMA NotBegunStep ==
  ASSUME Types, Types', Queued, InLine, NotBegun, [Next]_vars
  PROVE  NotBegun'
  <1>1. /\ synth \in SynthRecord /\ synth' \in SynthRecord /\ synth.utt \in Nat /\ synth'.utt \in Nat
        /\ hist.said \in Nat /\ hist.fed \in [Utterances -> Nat] /\ hist.done \subseteq Nat
        /\ synth.at \notin {"get", "gone"} => synth.utt \in Utterances
    BY FiguresHold, FiguresNext DEF Figures
  <1>2. hist'.done = hist.done \/ (IdleAndNotify /\ hist'.done = hist.done \cup {synth.utt})
    BY Zenon DEF Next, MainThread, Speak, CancelBegin, CancelDrain, CancelStop, CancelClear,
       CancelPlayer, TerminatePut, TerminateJoin, JoinGivesUp, TerminateClose, Play, vars, SynthThread,
       Get, ClearStopping, DtalkQueue, TestStopping, CallDestroyed, DtalkSynth, PopMark, Select, Feed, FeedRaises,
       Ended, IdleAndNotify, Types, HistType
  <1>3. hist'.said \in Nat /\ hist.said <= hist'.said
    <2>1. hist'.said = hist.said \/ hist'.said = hist.said + 1
     BY Zenon DEF Next, MainThread, Speak, CancelBegin, CancelDrain, CancelStop, CancelClear,
       CancelPlayer, TerminatePut, TerminateJoin, JoinGivesUp, TerminateClose, Play, vars, SynthThread,
       Get, ClearStopping, DtalkQueue, TestStopping, CallDestroyed, DtalkSynth, PopMark, Select, Feed, FeedRaises,
       Ended, IdleAndNotify, Types, HistType
    <2>2. QED
      BY <1>1, <2>1
  <1>4. \A u \in hist'.done : u <= hist'.said
    <2>1. \A u \in hist'.done : u \in Nat /\ u <= hist.said
      BY <1>1, <1>2 DEF NotBegun, Queued
    <2>2. QED
      BY <1>1, <1>3, <2>1
  <1> SUFFICES ASSUME synth'.at # "gone"
               PROVE  /\ \A u \in Utterances : ToCome(u)' => hist'.fed[u] = 0
                      /\ synth'.at \in {"map", "feed"} =>
                           synth'.of \in Utterances /\ synth'.of <= synth'.utt
                      /\ \A u \in hist'.done :
                           u <= synth'.utt /\ (synth'.at # "get" => u < synth'.utt)
    BY <1>4 DEF NotBegun
  <1>5. ASSUME NEW u \in Utterances, ToCome(u)' PROVE hist'.fed[u] = 0
    <2>1. synth.at # "gone" /\ ToCome(u) /\ u \in Nat
      BY <1>5, ToComeBefore DEF Utterances
    <2>2. hist.fed[u] = 0
      BY <2>1 DEF NotBegun
    <2>3. CASE Feed
      <3>1. synth.of # u
        BY <1>1, <2>1, <2>3 DEF Feed, ToCome, NotBegun, Utterances
      <3>2. hist'.fed = [hist.fed EXCEPT ![synth.of] = @ + 1]
        BY <2>3 DEF Feed, Types, HistType
      <3>3. QED
        BY <1>1, <2>2, <3>1, <3>2
    <2>4. CASE ~Feed
      <3>1. hist'.fed = hist.fed
        BY <2>4, Zenon DEF Next, MainThread, Speak, CancelBegin, CancelDrain, CancelStop, CancelClear,
           CancelPlayer, TerminatePut, TerminateJoin, JoinGivesUp, TerminateClose, Play, vars, SynthThread,
           Get, ClearStopping, DtalkQueue, TestStopping, CallDestroyed, DtalkSynth, PopMark, Select, FeedRaises,
           Ended, IdleAndNotify, Types, HistType
      <3>2. QED
        BY <2>2, <3>1
    <2>5. QED
      BY <2>3, <2>4
  <1>6. synth.at # "gone"
    BY <1>1, Zenon DEF Next, MainThread, Speak, CancelBegin, CancelDrain, CancelStop, CancelClear,
       CancelPlayer, TerminatePut, TerminateJoin, JoinGivesUp, TerminateClose, Play, vars, SynthThread,
       Get, ClearStopping, DtalkQueue, TestStopping, CallDestroyed, DtalkSynth, PopMark, Select, Feed, FeedRaises,
       Ended, IdleAndNotify
  <1>7. synth'.at \in {"map", "feed"} => synth'.of \in Utterances /\ synth'.of <= synth'.utt
    <2>1. CASE DtalkSynth /\ dt.todo # <<>>
      <3>1. PICK m, head, made, start, marks, read : Synthesized(m, head, made, start, marks, read)
        BY <2>1, SynthParts
      <3>2. /\ synth'.of = dt.todo[1].utt /\ synth'.utt = synth.utt
        BY <1>1, <3>1, Zenon DEF Synthesized, SynthRecord
      <3>3. QED
        BY <1>6, <2>1, <3>2, FirstToDo DEF InLine
    <2>2. CASE ~DtalkSynth \/ dt.todo = <<>>
      <3>1. synth'.at \in {"map", "feed"} =>
              synth.at \in {"map", "feed"} /\ synth'.of = synth.of /\ synth'.utt = synth.utt
        BY <1>1, <2>2, Zenon DEF Next, MainThread, Speak, CancelBegin, CancelDrain, CancelStop, CancelClear,
           CancelPlayer, TerminatePut, TerminateJoin, JoinGivesUp, TerminateClose, Play, vars, SynthThread,
           Get, ClearStopping, DtalkQueue, TestStopping, CallDestroyed, DtalkSynth, PopMark, Select, Feed,
           FeedRaises, Ended, IdleAndNotify, SynthRecord
      <3>2. QED
        BY <1>6, <3>1 DEF NotBegun
    <2>3. QED
      BY <2>1, <2>2
  <1>8. ASSUME NEW u \in hist'.done
        PROVE  u <= synth'.utt /\ (synth'.at # "get" => u < synth'.utt)
    <2>1. CASE Get
      <3>1. hist'.done = hist.done
        BY <2>1 DEF Get
      <3>2. u \in Nat /\ u <= synth.utt
        BY <1>1, <1>6, <1>8, <3>1 DEF NotBegun
      <3>3. queue \in Seq(Utterances \cup {None}) /\ queue # <<>>
        BY <2>1 DEF Types, QueueType, Get
      <3>4. Head(queue) = queue[1] /\ 1 \in DOMAIN queue
        BY <3>3, HeadAndTail
      <3>5. synth'.utt = queue[1] /\ queue[1] # None
        BY <1>1, <2>1, <3>4 DEF Get, SynthRecord
      <3>6. synth.utt < synth'.utt
        BY <3>4, <3>5 DEF Queued
      <3>7. QED
        BY <1>1, <3>2, <3>6
    <2>2. CASE IdleAndNotify
      <3>1. synth.at = "idle" /\ synth'.at = "get" /\ synth'.utt = synth.utt
        BY <1>1, <2>2 DEF IdleAndNotify, SynthRecord
      <3>2. QED
        BY <1>1, <1>2, <1>6, <1>8, <3>1 DEF NotBegun
    <2>3. CASE ~Get /\ ~IdleAndNotify
      <3>1. synth'.utt = synth.utt /\ (synth'.at # "get" => synth.at # "get")
        BY <1>1, <2>3, Zenon DEF Next, MainThread, Speak, CancelBegin, CancelDrain, CancelStop, CancelClear,
           CancelPlayer, TerminatePut, TerminateJoin, JoinGivesUp, TerminateClose, Play, vars, SynthThread,
           ClearStopping, DtalkQueue, TestStopping, CallDestroyed, DtalkSynth, PopMark, Select, Feed,
           FeedRaises, Ended, SynthRecord
      <3>2. QED
        BY <1>1, <1>2, <1>6, <1>8, <2>3, <3>1 DEF NotBegun
    <2>4. QED
      BY <2>1, <2>2, <2>3
  <1>9. QED
    BY <1>5, <1>7, <1>8

\* The frontier lies within the thread's utterance, and within what is known
\* of it when it is the last in line.
LEMMA FrontierBound ==
  ASSUME Types, InLine, synth.at \in {"test", "call", "map", "feed", "ended", "idle"}
  PROVE  /\ Base(synth.utt) \in Nat /\ Base(synth.utt) + MarksEach = synth.utt * MarksEach
         /\ Frontier \in Nat /\ Frontier <= synth.utt * MarksEach
         /\ (dt.todo # <<>> => Last.utt = synth.utt) =>
              Known \in 0..MarksEach /\ Frontier <= Base(synth.utt) + Known
  <1>1. synth.utt \in Utterances /\ synth.utt \in Nat /\ synth.utt > 0
    BY DEF Types, SynthType, Utterances
  <1>2. Base(synth.utt) \in Nat /\ Base(synth.utt) + MarksEach = synth.utt * MarksEach
    BY <1>1, Bases
  <1>3. CASE dt.todo = <<>>
    BY <1>2, <1>3, Sizes DEF Frontier, Known
  <1>4. CASE dt.todo # <<>>
    <2> DEFINE first == dt.todo[1]
    <2>1. /\ 1 \in DOMAIN dt.todo /\ first.utt \in Nat /\ first.utt > 0
          /\ first.marked \in 0..MarksEach /\ Frontier \in Nat
          /\ Frontier = Base(first.utt) + first.marked /\ Frontier <= first.utt * MarksEach
      BY <1>4, FirstToDo
    <2>2. first.utt <= synth.utt
      BY <2>1 DEF InLine
    <2>3. /\ first.utt * MarksEach \in Nat /\ synth.utt * MarksEach \in Nat
          /\ first.utt * MarksEach <= synth.utt * MarksEach
      BY <1>1, <2>1, <2>2, Multiples
    <2>4. Frontier <= synth.utt * MarksEach
      BY <2>1, <2>3
    <2>5. /\ Len(dt.todo) \in Nat /\ Len(dt.todo) \in DOMAIN dt.todo /\ Last \in Work
          /\ Known = Last.marked /\ Len(dt.todo) >= 1
      <3>1. dt.todo \in Seq(Work) /\ DOMAIN dt.todo = 1..Len(dt.todo) /\ Len(dt.todo) \in Nat
        BY LenProperties DEF Types, DtType
      <3>2. QED
        BY <1>4, <2>1, <3>1, ElementOfSeq DEF Last, Known
    <2>6. ASSUME Last.utt = synth.utt
          PROVE  Known \in 0..MarksEach /\ Frontier <= Base(synth.utt) + Known
      <3>1. Known \in 0..MarksEach
        BY <2>5 DEF Work
      <3>2. CASE first.utt = synth.utt
        <4>1. ~(1 < Len(dt.todo))
          BY <1>1, <2>1, <2>5, <2>6, <3>2 DEF InLine, Last
        <4>2. Last = first
          BY <2>5, <4>1 DEF Last
        <4>3. QED
          BY <2>1, <2>5, <3>1, <3>2, <4>2
      <3>3. CASE first.utt # synth.utt
        <4>1. first.utt < synth.utt
          BY <1>1, <2>1, <2>2, <3>3
        <4>2. first.utt * MarksEach <= Base(synth.utt)
          BY <1>1, <2>1, <4>1, Bases
        <4>3. QED
          BY <1>2, <2>1, <2>3, <3>1, <4>2, Sizes
      <3>4. QED
        BY <3>1, <3>2, <3>3
    <2>7. QED
      BY <1>2, <2>1, <2>4, <2>6
  <1>5. QED
    BY <1>3, <1>4

\* A mark that is popped is outstanding and within the frontier.
LEMMA PoppedMark ==
  ASSUME Types, InLine, Flow, PopMark
  PROVE  /\ synth.at = "map" /\ Head(synth.new) \in Placed
         /\ Head(synth.new).index \in Nat /\ Head(synth.new).index \in Outstanding
         /\ Head(synth.new).index \in Ix(synth.new)
         /\ Head(synth.new).index <= Frontier
         /\ markMap' = [markMap EXCEPT ![NumberOf(Head(synth.new).index)] = None]
  <1>1. synth.at = "map" /\ synth.new # <<>> /\ synth.new \in Seq(Placed)
    BY DEF PopMark, Types, SynthType, SynthRecord
  <1>2. 1 \in DOMAIN synth.new /\ Head(synth.new) = synth.new[1] /\ Head(synth.new) \in Placed
    BY <1>1, HeadAndTail
  <1>3. Head(synth.new).index \in Ix(synth.new)
    BY <1>2 DEF Ix
  <1>4. Head(synth.new).index <= Frontier
    BY <1>1, <1>3 DEF Flow, Reached, OnTheWay
  <1>5. Head(synth.new).index \in Nat
    BY <1>2, MarkFields
  <1>6. Head(synth.new).index \in Outstanding
    BY <1>3, OutstandingParts DEF Parted, Unread
  <1>7. QED
    BY <1>1, <1>2, <1>3, <1>4, <1>5, <1>6 DEF PopMark

\* The indexes of an utterance are not None.
LEMMA IndexRange ==
  ASSUME NEW u \in Utterances, NEW k \in 1..MarksEach
  PROVE  Base(u) + k \in Nat /\ Base(u) + k # None /\ Base(u) + k \in IndexesOf(u)
  <1>1. Base(u) \in Nat
    BY Bases DEF Utterances
  <1>2. Base(u) + k \in IndexesOf(u)
    BY IndexesAreNumbered
  <1>3. QED
    BY <1>1, <1>2, Sizes DEF None

\* What an index that is outstanding means stays so until its mark is popped or
\* a cancel clears the map.
LEMMA MeantKept ==
  ASSUME ~hist'.reused, Types, MapTrue, [Next]_vars, ~CancelClear,
         NEW i \in Outstanding, i # None, Meant(i), PopMark => Speak \/ i # Head(synth.new).index
  PROVE  Meant(i)'
  <1>1. markMap \in [Numbers -> Nat] /\ NumberOf(i) \in Numbers /\ markMap[NumberOf(i)] = i
    BY OutstandingTypes DEF Types, QueueType, Meant
  <1> SUFFICES markMap'[NumberOf(i)] = i
    BY DEF Meant, NumberOf
  <1>2. CASE Speak
    <2>1. ~Reuses(hist.said + 1)
      BY <1>2, Unreused
    <2>2. markMap'[NumberOf(i)] \in {markMap[NumberOf(i)], i}
      BY <1>2, <2>1, SpeakMaps
    <2>3. QED
      BY <1>1, <2>2
  <1>3. CASE PopMark /\ ~Speak
    <2> DEFINE x == Head(synth.new).index
    <2>1. /\ synth.new # <<>> /\ synth.new \in Seq(Placed)
          /\ markMap' = [markMap EXCEPT ![NumberOf(x)] = None]
      BY <1>3 DEF PopMark, Types, SynthType, SynthRecord
    <2>2. x \in Ix(synth.new)
      <3>1. 1 \in DOMAIN synth.new /\ Head(synth.new) = synth.new[1]
        BY <2>1, HeadAndTail
      <3>2. QED
        BY <3>1 DEF Ix
    <2>3. x \in Outstanding /\ i # x
      BY <1>3, <2>2, OutstandingParts DEF Parted, Unread
    <2> HIDE DEF x
    <2>4. NumberOf(x) # NumberOf(i)
      BY <1>1, <2>3 DEF MapTrue
    <2>5. QED
      BY <1>1, <2>1, <2>4
  <1>4. CASE UNCHANGED markMap
    BY <1>1, <1>4
  <1>5. QED
    BY <1>2, <1>3, <1>4, Zenon
       DEF Next, MainThread, SynthThread, vars, CancelBegin, CancelDrain, CancelStop, CancelPlayer,
           TerminatePut, TerminateJoin, JoinGivesUp, TerminateClose, Get, ClearStopping,
           CallDestroyed, DtalkQueue, TestStopping, DtalkSynth, Select, Feed, FeedRaises, Ended,
           IdleAndNotify, Play

\* What waits after a step waited before it, or is what speak queued.
LEMMA ComingBefore ==
  ASSUME Types, [Next]_vars, NEW u \in Utterances, Coming(u)'
  PROVE  Coming(u) \/ (Speak /\ u = hist.said + 1)
  <1>1. synth \in SynthRecord /\ queue \in Seq(Utterances \cup {None})
    BY DEF Types, SynthType, QueueType
  <1>2. CASE Get \/ (CancelDrain /\ queue # <<>>)
    <2>1. /\ queue' = Tail(queue) /\ queue # <<>>
          /\ \/ synth'.at = "gone" \/ synth' = synth
             \/ synth'.utt = Head(queue)
      BY <1>1, <1>2 DEF Get, CancelDrain, SynthRecord
    <2>2. /\ 1 \in DOMAIN queue /\ Head(queue) = queue[1]
          /\ \A j \in DOMAIN Tail(queue) : j + 1 \in DOMAIN queue /\ Tail(queue)[j] = queue[j + 1]
      BY <1>1, <2>1, HeadAndTail
    <2>3. QED
      BY <2>1, <2>2 DEF Coming
  <1>3. CASE Speak \/ TerminatePut
    <2> DEFINE last == IF Speak THEN hist.said + 1 ELSE None
    <2>1. queue' = Append(queue, last) /\ synth' = synth
      BY <1>3 DEF Speak, TerminatePut, None
    <2>2. last \in Utterances \cup {None}
      BY <1>3, Sizes DEF Types, HistType, Speak, Utterances
    <2>3. u # None
      BY DEF Utterances, None
    <2> HIDE DEF last
    <2>4. \A j \in DOMAIN queue' : (j \in DOMAIN queue /\ queue'[j] = queue[j]) \/ queue'[j] = last
      BY <1>1, <2>1, <2>2, AppendProperties, LenProperties
    <2>5. Coming(u) \/ u = last
      BY <2>1, <2>4 DEF Coming
    <2>6. QED
      BY <1>3, <2>3, <2>5 DEF last
  <1>4. CASE /\ queue' = queue
             /\ synth'.at \in {"clear", "queue"} =>
                  synth.at \in {"clear", "queue"} /\ synth'.utt = synth.utt
    BY <1>4 DEF Coming
  <1>5. CASE \/ CancelBegin \/ (CancelDrain /\ queue = <<>>) \/ CancelStop \/ CancelClear \/ CancelPlayer
             \/ TerminateJoin \/ JoinGivesUp \/ TerminateClose \/ Play \/ UNCHANGED vars
    BY <1>4, <1>5 DEF CancelBegin, CancelDrain, CancelStop, CancelClear, CancelPlayer, TerminateJoin,
       JoinGivesUp, TerminateClose, Play, vars
  <1>6. CASE SynthThread /\ ~Get
    <2>1. queue' = queue
      BY <1>6, Zenon DEF SynthThread, ClearStopping, CallDestroyed, DtalkQueue, TestStopping, DtalkSynth, PopMark,
         Select, Feed, FeedRaises, Ended, IdleAndNotify
    <2>2. synth'.at \in {"clear", "queue"} => synth.at \in {"clear", "queue"} /\ synth'.utt = synth.utt
      <3>1. CASE ClearStopping
        BY <1>1, <3>1 DEF ClearStopping, SynthRecord
      <3>2. CASE DtalkSynth /\ dt.todo = <<>>
        BY <1>1, <3>2 DEF DtalkSynth, SynthRecord
      <3>3. CASE DtalkSynth /\ dt.todo # <<>>
        <4>1. synth'.at = "map"
          BY <1>1, <3>3, Zenon DEF DtalkSynth, SynthRecord
        <4>2. QED
          BY <4>1
      <3>4. CASE CallDestroyed \/ DtalkQueue \/ TestStopping \/ Ended \/ IdleAndNotify
        BY <1>1, <3>4 DEF CallDestroyed, DtalkQueue, TestStopping, Ended, IdleAndNotify, SynthRecord
      <3>5. CASE PopMark \/ Select \/ Feed \/ FeedRaises
        BY <1>1, <3>5 DEF PopMark, Select, Feed, FeedRaises, SynthRecord
      <3>6. QED
        BY <1>6, <3>1, <3>2, <3>3, <3>4, <3>5 DEF SynthThread
    <2>3. QED
      BY <1>4, <2>1, <2>2
  <1>7. QED
    BY <1>2, <1>3, <1>5, <1>6, Zenon DEF Next, MainThread

LEMMA MappedStep ==
  ASSUME ~hist'.reused, Types, MapTrue, Silent, Queued, InLine, Flow, Mapped, [Next]_vars
  PROVE  Mapped'
  <1> SUFFICES ASSUME NEW u \in Utterances, Wanted(u)', Coming(u)', NEW k \in 1..MarksEach
               PROVE  Meant(Base(u) + k)'
    BY DEF Mapped, Base, Meant, Wanted, Coming
  <1> DEFINE i == Base(u) + k
  <1>1. i \in Nat /\ i # None /\ i \in IndexesOf(u) /\ u \in Nat /\ u > 0 /\ Figures
    BY IndexRange, FiguresHold DEF Utterances
  <1> SUFFICES Meant(i)'
    BY DEF Meant, Base
  <1>2. ~MainThread \/ Speak
    BY <1>1, SilentStep
  <1>3. CASE Speak /\ u = hist.said + 1
    <2>1. ~Reuses(hist.said + 1)
      BY <1>3, Unreused
    <2>2. markMap'[NumberOf(i)] = i
      BY <1>1, <1>3, <2>1, SpeakMaps
    <2>3. QED
      BY <2>2 DEF Meant, NumberOf, Base
  <1>4. CASE ~(Speak /\ u = hist.said + 1)
    <2>1. Coming(u)
      BY <1>4, ComingBefore
    <2>2. Wanted(u)
      <3>1. CASE Speak
        <4>1. hist'.said = hist.said + 1 /\ hist'.silenced = hist.silenced
          BY <3>1 DEF Speak, Types, HistType
        <4>2. QED
          BY <1>1, <1>4, <3>1, <4>1 DEF Wanted, Figures
      <3>2. CASE ~Speak
        <4>1. hist'.said = hist.said /\ hist'.silenced = hist.silenced
          BY <1>2, <3>2, Zenon DEF Next, SynthThread, Get, ClearStopping, DtalkQueue, TestStopping, CallDestroyed, DtalkSynth,
             PopMark, Select, Feed, FeedRaises, Ended, IdleAndNotify, Play, vars, Types, HistType
        <4>2. QED
          BY <4>1 DEF Wanted
      <3>3. QED
        BY <3>1, <3>2
    <2>3. Meant(i)
      BY <2>1, <2>2 DEF Mapped
    <2>4. i \in Outstanding
      <3>1. u # None
        BY <1>1 DEF None
      <3>2. Waits(i) \/ Held(i)
        BY <1>1, <2>1, <3>1 DEF Coming, Waits, Held
      <3>3. QED
        BY <3>2, OutstandingParts DEF Parted
    <2>5. PopMark => i # Head(synth.new).index
      <3> SUFFICES ASSUME PopMark PROVE i # Head(synth.new).index
        OBVIOUS
      <3> DEFINE x == Head(synth.new).index
                 p == synth.utt * MarksEach
                 b == Base(u)
      <3>1. synth.at = "map" /\ x \in Nat /\ x <= Frontier
        BY PoppedMark
      <3>2. Frontier \in Nat /\ Frontier <= p
        BY <3>1, FrontierBound
      <3>3. synth.utt < u
        <4>1. \E j \in DOMAIN queue : queue[j] = u
          BY <2>1, <3>1 DEF Coming
        <4>2. QED
          BY <1>1, <4>1 DEF Queued, None
      <3>4. p \in Nat /\ b \in Nat /\ p <= b
        BY <1>1, <3>3, Bases DEF Figures
      <3>5. i = b + k
        OBVIOUS
      <3> HIDE DEF x, p, b, i
      <3>6. i # x
        BY <3>1, <3>2, <3>4, <3>5, Sizes
      <3>7. QED
        BY <3>6 DEF x
    <2>6. ~CancelClear
      BY <1>2 DEF MainThread, CancelClear, Speak
    <2> HIDE DEF i
    <2>7. QED
      BY <1>1, <2>3, <2>4, <2>5, <2>6, MeantKept
  <1>5. QED
    BY <1>3, <1>4

\* The marks that a synthesis places, and those that were there, have been read
\* or are left in the instance.
LEMMA SynthReads ==
  ASSUME Types, dt.todo # <<>>,
         NEW m, NEW head, NEW made, NEW start, NEW marks, NEW read,
         Synthesized(m, head, made, start, marks, read)
  PROVE  /\ \A j \in (head.marked + 1)..m : Base(head.utt) + j \in Ix(synth'.new) \cup Ix(dt'.marks)
         /\ Ix(dt.marks) \subseteq Ix(synth'.new) \cup Ix(dt'.marks)
  <1> DEFINE placed == MarksOf(head.utt, head.marked + 1, m, start)
             first == SubSeq(marks, 1, read)
             left == SubSeq(marks, read + 1, Len(marks))
             done == head.marked
             b == Base(head.utt)
  <1>1. /\ head \in Work /\ m \in done..MarksEach /\ marks = dt.marks \o placed
        /\ marks \in Seq(Placed) /\ read \in 0..Len(marks)
    BY Zenon DEF Synthesized
  <1>2. synth'.new = first /\ dt'.marks = left
    BY ZenonT(30) DEF Synthesized, Types, SynthType, SynthRecord, DtType
  <1>3. /\ head.utt \in Utterances /\ done \in 0..MarksEach /\ start \in Int
        /\ dt.marks \in Seq(Placed)
    BY <1>1, SynthTypes DEF Work, Types, DtType
  <1>4. Numbered(placed, head.utt, done, m, start)
    BY <1>1, <1>3, MarkNumbering
  <1>5. /\ placed \in Seq(Placed) /\ DOMAIN placed = 1..(m - done)
        /\ \A k \in DOMAIN placed : placed[k].index = b + (done + k)
    BY <1>4, LenProperties DEF Numbered
  <1>6. Ix(marks) = Ix(dt.marks) \cup Ix(placed)
    <2> HIDE DEF placed
    <2>1. QED
      BY <1>1, <1>3, <1>5, JoinedRising
  <1>7. Ix(marks) \subseteq Ix(first) \cup Ix(left)
    <2>1. /\ marks \in Seq(Placed) /\ read \in 0..Len(marks)
          /\ first = SubSeq(marks, 1, read) /\ left = SubSeq(marks, read + 1, Len(marks))
      BY <1>1
    <2> HIDE DEF first, left
    <2>2. /\ Len(marks) \in Nat /\ DOMAIN marks = 1..Len(marks)
          /\ DOMAIN first = 1..read /\ DOMAIN left = 1..(Len(marks) - read)
          /\ \A i \in DOMAIN first : first[i] = marks[i]
          /\ \A i \in DOMAIN left : left[i] = marks[i + read]
      BY <2>1, Cuts
    <2>3. ASSUME NEW i \in DOMAIN marks PROVE marks[i].index \in Ix(first) \cup Ix(left)
      <3>1. CASE i <= read
        <4>1. i \in DOMAIN first
          BY <2>1, <2>2, <3>1
        <4>2. QED
          BY <2>2, <4>1 DEF Ix
      <3>2. CASE ~(i <= read)
        <4>1. i - read \in DOMAIN left /\ (i - read) + read = i
          BY <2>1, <2>2, <3>2
        <4>2. left[i - read] = marks[i]
          BY <2>2, <4>1
        <4>3. QED
          BY <4>1, <4>2 DEF Ix
      <3>3. QED
        BY <3>1, <3>2
    <2>4. QED
      BY <2>3 DEF Ix
  <1> HIDE DEF placed, first, left
  <1>8. ASSUME NEW j \in (done + 1)..m PROVE b + j \in Ix(placed)
    <2> DEFINE k == j - done
    <2>1. k \in 1..(m - done) /\ done + k = j
      <3>1. \A d \in 0..MarksEach : \A n \in d..MarksEach : \A l \in (d + 1)..n :
               l - d \in 1..(n - d) /\ d + (l - d) = l
        BY Sizes
      <3>2. QED
        BY <1>1, <1>3, <3>1
    <2> HIDE DEF k, b
    <2>2. QED
      BY <1>5, <2>1 DEF Ix
  <1>9. QED
    BY <1>2, <1>6, <1>7, <1>8

-----------------------------------------------------------------------------
(* The steps of the speech: what each does to an utterance that is wanted. *)

Way   == Slots /\ Queued /\ InLine /\ Counted
Drift == MapTrue /\ Flow /\ Mapped

LEMMA ToldKept ==
  ASSUME Told, hist'.done = hist.done, \A u \in hist.done : Wanted(u)' => Wanted(u),
         \A u \in hist.done : Wanted(u) => hist'.fed[u] = hist.fed[u],
         Ix(hist.notified) \subseteq Ix(hist'.notified), hist.unread \subseteq hist'.unread
  PROVE  Told'
  BY DEF Told, Ix, Base, Wanted

\* A cancel and the end: nothing is wanted.
LEMMA SpeakingUnwanted ==
  ASSUME Types', \A u \in Nat : ~Wanted(u)'
  PROVE  Speaking'
  <1>1. Figures'
    BY FiguresNext
  <1>2. \A u \in hist'.done : ~Wanted(u)'
    BY <1>1 DEF Figures
  <1>3. \A j \in DOMAIN dt'.todo : ~Wanted(dt.todo[j].utt)'
    <2>1. \A j \in DOMAIN dt'.todo : dt'.todo[j] \in Work
      BY ElementOfSeq, LenProperties DEF Types, DtType
    <2>2. \A j \in DOMAIN dt'.todo : dt'.todo[j].utt \in Nat
      BY <2>1 DEF Work, Utterances
    <2>3. QED
      BY <2>2 DEF Wanted
  <1>4. ~Wanted(synth.utt)' /\ ~Wanted(synth.of)'
    <2>1. synth'.utt \in Nat /\ synth'.of \in Nat
      BY DEF Types, SynthType, SynthRecord, Utterances, None
    <2>2. QED
      BY <2>1 DEF Wanted
  <1>5. QED
    BY <1>2, <1>3, <1>4 DEF Speaking, Alone, Accounted, Behindhand, Told, Wanted

\* Of the thread's utterance, last in line, the marks not known are outstanding.
LEMMA AheadOutstanding ==
  ASSUME Types, NEW k \in 1..MarksEach, ~(k <= Known), dt.todo # <<>> => Last.utt = synth.utt
  PROVE  Base(synth.utt) + k \in Outstanding
  <1>1. dt.todo # <<>> /\ Known = Last.marked /\ Last.utt = synth.utt
    BY Sizes DEF Known
  <1>2. Len(dt.todo) \in DOMAIN dt.todo /\ Last \in Work
    <2>1. dt.todo \in Seq(Work) /\ DOMAIN dt.todo = 1..Len(dt.todo) /\ Len(dt.todo) \in Nat
          /\ 1 \in DOMAIN dt.todo
      BY <1>1, LenProperties, FirstToDo DEF Types, DtType
    <2>2. Len(dt.todo) \in 1..Len(dt.todo)
      BY <2>1
    <2>3. QED
      BY <2>1, <2>2, ElementOfSeq DEF Last
  <1>3. k \in (Last.marked + 1)..MarksEach
    <2>1. Last.marked \in 0..MarksEach
      BY <1>2 DEF Work
    <2>2. QED
      BY <1>1, <2>1, Sizes
  <1>4. Unmarked(Base(synth.utt) + k)
    BY <1>1, <1>2, <1>3 DEF Unmarked, Last
  <1>5. QED
    BY <1>4, OutstandingParts DEF Parted

LEMMA SpeakingSpeak ==
  ASSUME ~hist'.reused, Types, Way, Drift, NotBegun, Speaking, [Next]_vars, Speak
  PROVE  Speaking'
  <1>1. /\ UNCHANGED <<synth, dt, player>> /\ hist'.silenced = hist.silenced
        /\ hist'.said = hist.said + 1 /\ hist'.done = hist.done /\ hist'.fed = hist.fed
        /\ hist'.notified = hist.notified /\ hist'.unread = hist.unread
    BY DEF Speak, Types, HistType
  <1>2. Figures /\ TodoUtterances
    BY FiguresHold, TodoTypes
  <1>3. \A u \in Nat : u <= hist.said /\ Wanted(u)' => Wanted(u)
    BY <1>1 DEF Wanted
  <1>4. synth.utt <= hist.said
    BY DEF Way, Queued
  <1>5. Alone'
    <2>1. synth.at # "gone" => \A j \in DOMAIN dt.todo : dt.todo[j].utt <= hist.said
      <3>1. synth.at # "gone" => \A j \in DOMAIN dt.todo : dt.todo[j].utt <= synth.utt
        BY DEF Way, InLine
      <3>2. QED
        BY <1>2, <1>4, <3>1 DEF Figures, TodoUtterances
    <2>2. synth.at # "gone" => \A j \in DOMAIN dt.todo : Wanted(dt.todo[j].utt)' => Wanted(dt.todo[j].utt)
      BY <1>1, <1>2, <2>1 DEF TodoUtterances, Figures, Wanted
    <2>3. synth.at \in {"map", "feed"} => (Wanted(synth.of)' => Wanted(synth.of))
      <3>1. synth.at \in {"map", "feed"} => synth.of \in Nat /\ synth.of <= synth.utt
        BY DEF NotBegun, Utterances
      <3>2. QED
        BY <1>1, <1>2, <1>4, <3>1 DEF Figures, Wanted
    <2>4. QED
      BY <1>1, <2>2, <2>3 DEF Alone, Speaking, AtWork, Wanted
  <1>6. Wanted(synth.utt)' => Wanted(synth.utt)
    BY <1>1, <1>2, <1>4 DEF Figures, Wanted
  <1>7. Accounted'
    <2> SUFFICES ASSUME AtWork', Wanted(synth.utt)'
                 PROVE  /\ dt'.todo # <<>> => Last'.utt = synth'.utt
                        /\ Given' = Made'
                        /\ \A k \in 1..MarksEach :
                             IF k <= Known' THEN Staged(Base(synth.utt) + k)'
                             ELSE Meant(Base(synth.utt) + k)'
      BY DEF Accounted
    <2>1. AtWork /\ Wanted(synth.utt) /\ synth.utt \in Utterances
      BY <1>1, <1>2, <1>6 DEF AtWork, Figures
    <2>2. Last' = Last /\ Given' = Given /\ Made' = Made /\ Known' = Known
      BY <1>1 DEF Last, Given, Made, Known
    <2>3. ASSUME NEW k \in 1..MarksEach
          PROVE  IF k <= Known' THEN Staged(Base(synth.utt) + k)' ELSE Meant(Base(synth.utt) + k)'
      <3>1. PICK i : i = Base(synth.utt) + k /\ i # None
        BY <2>1, IndexRange
      <3>2. Meant(i) /\ i \in Outstanding => Meant(i)'
        <4>1. ~CancelClear
          BY DEF Speak, CancelClear
        <4>2. QED
          BY <3>1, <4>1, MeantKept DEF Drift
      <3>3. Staged(i) => Staged(i)'
        <4>1. i \in Ix(synth.new) \cup Ix(dt.marks) => i \in Outstanding
          BY OutstandingParts DEF Parted, Unread
        <4>2. QED
          BY <1>1, <3>2, <4>1 DEF Staged, Sounding, Ix
      <3>4. CASE k <= Known
        <4>1. Staged(i)'
          BY <2>1, <3>1, <3>3, <3>4 DEF Speaking, Accounted
        <4>2. QED
          BY <1>1, <2>2, <3>1, <3>4, <4>1 DEF Staged, Meant, Base, Sounding, Ix
      <3>5. CASE ~(k <= Known)
        <4>1. Meant(i) /\ i \in Outstanding
          BY <2>1, <3>1, <3>5, AheadOutstanding DEF Speaking, Accounted
        <4>2. QED
          BY <1>1, <2>2, <3>1, <3>2, <3>5, <4>1 DEF Meant, Base
      <3>6. QED
        BY <3>4, <3>5
    <2>4. QED
      BY <1>1, <2>1, <2>2, <2>3 DEF Speaking, Accounted
  <1>8. Behindhand'
    BY <1>1, <1>6 DEF Speaking, Behindhand, AtWork, Wanted
  <1>9. Told'
    <2>1. \A u \in hist.done : Wanted(u)' => Wanted(u)
      BY <1>2, <1>3 DEF NotBegun, Figures
    <2>2. QED
      BY <1>1, <2>1, ToldKept DEF Speaking
  <1>10. QED
    BY <1>5, <1>7, <1>8, <1>9 DEF Speaking

\* Steps of the thread that move no mark, chunk or notification.
LEMMA SpeakingQuiet ==
  ASSUME Speaking, UNCHANGED <<dt, markMap, player>>,
         hist'.said = hist.said, hist'.silenced = hist.silenced, hist'.fed = hist.fed,
         hist'.done = hist.done, hist'.notified = hist.notified,
         hist.unread \subseteq hist'.unread,
         synth'.new = synth.new, synth'.fired = synth.fired,
         synth'.at \notin {"map", "feed"},
         AtWork' => /\ AtWork /\ synth.at \notin {"map", "feed"} /\ synth'.utt = synth.utt
                    /\ synth'.pending = synth.pending,
         AtWork' \/ \A j \in DOMAIN dt.todo : ~Wanted(dt.todo[j].utt)
  PROVE  Speaking'
  <1>1. Alone'
    <2>1. ASSUME NEW j \in DOMAIN dt'.todo, Wanted(dt.todo[j].utt)'
          PROVE  AtWork' /\ dt'.todo[j].utt = synth'.utt
      <3>1. j \in DOMAIN dt.todo /\ Wanted(dt.todo[j].utt) /\ AtWork'
        BY <2>1 DEF Wanted
      <3>2. AtWork /\ dt.todo[j].utt = synth.utt
        BY <3>1 DEF Speaking, Alone, AtWork
      <3>3. QED
        BY <3>1, <3>2
    <2>2. QED
      BY <2>1 DEF Alone
  <1>2. ASSUME AtWork', Wanted(synth.utt)' PROVE AtWork /\ Wanted(synth.utt) /\ synth'.utt = synth.utt
    BY <1>2 DEF Wanted
  <1>3. Accounted'
    <2> SUFFICES ASSUME AtWork', Wanted(synth.utt)'
                 PROVE  /\ dt'.todo # <<>> => Last'.utt = synth'.utt
                        /\ Given' = Made'
                        /\ \A k \in 1..MarksEach :
                             IF k <= Known' THEN Staged(Base(synth.utt) + k)'
                             ELSE Meant(Base(synth.utt) + k)'
      BY DEF Accounted
    <2>1. AtWork /\ Wanted(synth.utt) /\ synth'.utt = synth.utt /\ synth'.pending = synth.pending
          /\ synth.at \notin {"map", "feed"}
      BY <1>2
    <2>2. Last' = Last /\ Made' = Made /\ Known' = Known
      BY DEF Last, Made, Known
    <2>3. Given' = Given
      BY <2>1 DEF Given
    <2>4. ASSUME NEW k \in 1..MarksEach
          PROVE  /\ Meant(Base(synth.utt) + k) => Meant(Base(synth.utt) + k)'
                 /\ Staged(Base(synth.utt) + k) => Staged(Base(synth.utt) + k)'
      BY <2>1 DEF Staged, Meant, Base, Sounding, Ix
    <2>5. QED
      BY <2>1, <2>2, <2>3, <2>4 DEF Speaking, Accounted
  <1>4. Behindhand'
    <2> SUFFICES ASSUME AtWork', Wanted(synth.utt)', dt'.todo = <<>>
                 PROVE  /\ \A i \in DOMAIN synth'.new : synth'.new[i].pos <= dt'.pos
                        /\ \A i \in DOMAIN synth'.pending : synth'.pending[i].pos <= dt'.pos
                        /\ synth'.at # "map" => synth'.pending = <<>>
      BY DEF Behindhand
    <2>1. AtWork /\ Wanted(synth.utt) /\ synth'.pending = synth.pending /\ synth.at # "map"
      BY <1>2
    <2>2. QED
      BY <2>1 DEF Speaking, Behindhand
  <1>5. Told'
    <2>1. Told
      BY DEF Speaking
    <2>2. QED
      BY <2>1, ToldKept DEF Ix, Wanted
  <1>6. QED
    BY <1>1, <1>3, <1>4, <1>5 DEF Speaking

LEMMA SpeakingThread ==
  ASSUME Types, Types', Slots, Heard, Finished, Speaking,
         \/ Get \/ ClearStopping \/ TestStopping \/ Ended
         \/ (DtalkSynth /\ dt.todo = <<>>)
  PROVE  Speaking'
  <1>1. synth \in SynthRecord
    BY DEF Types, SynthType
  <1>2. /\ UNCHANGED <<dt, markMap, player>>
        /\ synth'.new = synth.new /\ synth'.fired = synth.fired
        /\ synth'.at \notin {"map", "feed"}
    BY <1>1, Zenon DEF Get, ClearStopping, TestStopping, Ended, DtalkSynth, SynthRecord
  <1>3. AtWork' => /\ AtWork /\ synth.at \notin {"map", "feed"} /\ synth'.utt = synth.utt
                   /\ synth'.pending = synth.pending
    BY <1>1, Zenon DEF Get, ClearStopping, TestStopping, Ended, DtalkSynth, SynthRecord, AtWork
  <1>4. AtWork' \/ \A j \in DOMAIN dt.todo : ~Wanted(dt.todo[j].utt)
    <2>1. CASE Get \/ ClearStopping
      BY <2>1 DEF Get, ClearStopping, Speaking, Alone, AtWork
    <2>2. CASE TestStopping
      <3>1. synth.at = "test" /\ (stopping \/ synth'.at = "call")
        BY <1>1, <2>2 DEF TestStopping, SynthRecord
      <3>2. CASE synth'.at = "call"
        BY <3>2 DEF AtWork
      <3>3. CASE stopping
        <4>1. ~Wanted(synth.utt)
          BY <3>1, <3>3 DEF Heard, AtWork
        <4>2. QED
          BY <3>1, <4>1 DEF Speaking, Alone
      <3>4. QED
        BY <3>1, <3>2, <3>3
    <2>3. CASE Ended \/ (DtalkSynth /\ dt.todo = <<>>)
      <3>1. dt.todo = <<>>
        BY <2>3 DEF Ended, Finished
      <3>2. DOMAIN dt.todo = {}
        BY <3>1
      <3>3. QED
        BY <3>2
    <2>4. QED
      BY <2>1, <2>2, <2>3
  <1>5. /\ hist'.said = hist.said /\ hist'.silenced = hist.silenced /\ hist'.fed = hist.fed
        /\ hist'.done = hist.done /\ hist'.notified = hist.notified
        /\ hist.unread \subseteq hist'.unread
    <2>1. CASE Get \/ ClearStopping \/ TestStopping \/ Ended
      BY <2>1 DEF Get, ClearStopping, TestStopping, Ended
    <2>2. CASE DtalkSynth /\ dt.todo = <<>>
      BY <2>2 DEF DtalkSynth, Types, HistType
    <2>3. QED
      BY <2>1, <2>2
  <1>6. QED
    BY <1>2, <1>3, <1>4, <1>5, SpeakingQuiet

\* A chunk is played: its marks are notified.
LEMMA SpeakingPlay ==
  ASSUME Types, Types', Speaking, Play
  PROVE  Speaking'
  <1> DEFINE first == Head(player.chunks).fired
  <1>1. /\ player.chunks \in Seq(Chunk) /\ player.chunks # <<>>
        /\ player'.chunks = Tail(player.chunks) /\ hist'.notified = hist.notified \o first
        /\ hist.notified \in Seq(Placed) /\ UNCHANGED <<dt, synth, markMap>>
        /\ hist'.said = hist.said /\ hist'.silenced = hist.silenced /\ hist'.done = hist.done
        /\ hist'.fed = hist.fed /\ hist'.unread = hist.unread
    BY DEF Types, PlayerType, HistType, Play
  <1>2. /\ DOMAIN player.chunks = 1..Len(player.chunks) /\ Len(player.chunks) \in Nat
        /\ 1 \in DOMAIN player.chunks /\ Head(player.chunks) = player.chunks[1]
        /\ Head(player.chunks) \in Chunk /\ DOMAIN player'.chunks = 1..(Len(player.chunks) - 1)
        /\ \A i \in DOMAIN player'.chunks : player'.chunks[i] = player.chunks[i + 1]
    BY <1>1, HeadAndTail
  <1>3. first \in Seq(Placed) /\ first = player.chunks[1].fired
    BY <1>2 DEF Chunk
  <1> HIDE DEF first
  <1>4. Ix(hist'.notified) = Ix(hist.notified) \cup Ix(first)
    <2> DEFINE old == hist.notified
               all == hist'.notified
    <2>1. old \in Seq(Placed) /\ all = old \o first
      BY <1>1
    <2> HIDE DEF old, all
    <2>2. Ix(all) = Ix(old) \cup Ix(first)
      BY <1>3, <2>1, JoinedRising
    <2>3. QED
      BY <2>2 DEF old, all
  <1>5. Sounding' = UNION {Ix(player'.chunks[i].fired) : i \in DOMAIN player'.chunks}
    BY DEF Sounding, Ix
  <1>6. Sounding \subseteq Sounding' \cup Ix(first)
    <2>1. ASSUME NEW i \in DOMAIN player.chunks
          PROVE  Ix(player.chunks[i].fired) \subseteq Sounding' \cup Ix(first)
      <3>1. CASE i = 1
        BY <1>3, <3>1
      <3>2. CASE i # 1
        <4>1. i - 1 \in DOMAIN player'.chunks /\ player'.chunks[i - 1] = player.chunks[(i - 1) + 1]
              /\ (i - 1) + 1 = i
          BY <1>2, <3>2
        <4>2. QED
          BY <1>5, <4>1
      <3>3. QED
        BY <3>1, <3>2
    <2>2. QED
      BY <2>1 DEF Sounding
  <1>7. \A i : Staged(i) => Staged(i)'
    <2>1. ASSUME NEW i, Staged(i) PROVE Staged(i)'
      <3>1. CASE i \in Sounding
        <4>1. i \in Sounding' \cup Ix(hist'.notified)
          BY <1>4, <1>6, <3>1
        <4>2. QED
          BY <4>1 DEF Staged, Ix
      <3>2. CASE i \notin Sounding
        <4>1. \/ i \in Ix(synth.new) \cup Ix(dt.marks) /\ Meant(i)
              \/ i \in Ix(synth.pending) \cup Ix(synth.fired) \cup Ix(hist'.notified)
          BY <1>4, <2>1, <3>2 DEF Staged
        <4>2. QED
          BY <1>1, <4>1 DEF Staged, Ix, Meant
      <3>3. QED
        BY <3>1, <3>2
    <2>2. QED
      BY <2>1
  <1>8. Alone'
    BY <1>1 DEF Speaking, Alone, AtWork, Wanted
  <1>9. Accounted'
    <2> SUFFICES ASSUME AtWork', Wanted(synth.utt)'
                 PROVE  /\ dt'.todo # <<>> => Last'.utt = synth'.utt
                        /\ Given' = Made'
                        /\ \A k \in 1..MarksEach :
                             IF k <= Known' THEN Staged(Base(synth.utt) + k)'
                             ELSE Meant(Base(synth.utt) + k)'
      BY DEF Accounted
    <2>1. AtWork /\ Wanted(synth.utt)
      BY <1>1 DEF AtWork, Wanted
    <2>2. Last' = Last /\ Made' = Made /\ Known' = Known /\ Given' = Given
      BY <1>1 DEF Last, Made, Known, Given
    <2>3. ASSUME NEW k \in 1..MarksEach
          PROVE  /\ Meant(Base(synth.utt) + k) => Meant(Base(synth.utt) + k)'
                 /\ Staged(Base(synth.utt) + k) => Staged(Base(synth.utt) + k)'
      <3>1. PICK i : i = Base(synth.utt) + k
        OBVIOUS
      <3>2. Staged(i) => Staged(i)'
        BY <1>7
      <3>3. QED
        BY <1>1, <3>1, <3>2 DEF Staged, Meant, Base, Ix, Sounding
    <2>4. QED
      BY <1>1, <2>1, <2>2, <2>3 DEF Speaking, Accounted
  <1>10. Behindhand'
    BY <1>1 DEF Speaking, Behindhand, AtWork, Wanted
  <1>11. Told'
    <2>1. Told /\ \A u \in hist.done : Wanted(u)' => Wanted(u)
      BY <1>1 DEF Speaking, Wanted
    <2>2. QED
      BY <1>1, <1>4, <2>1, ToldKept
  <1>12. QED
    BY <1>8, <1>9, <1>10, <1>11 DEF Speaking

\* The thread queues its utterance: nothing of it is made, all its marks mean
\* their indexes.
LEMMA SpeakingQueue ==
  ASSUME Types, Types', NotBegun, Mapped, Speaking, DtalkQueue
  PROVE  Speaking'
  <1> DEFINE n == Len(dt.todo) + 1
  <1>1. /\ Len(dt.todo) \in Nat /\ DOMAIN dt.todo = 1..Len(dt.todo) /\ DOMAIN dt'.todo = 1..n
        /\ \A i \in DOMAIN dt.todo : dt'.todo[i] = dt.todo[i]
        /\ dt'.todo[n] = [utt |-> synth.utt, made |-> 0, marked |-> 0]
        /\ synth.at = "queue" /\ synth'.at = "test" /\ synth'.utt = synth.utt
    BY QueueTodo
  <1>2. UNCHANGED <<markMap, hist>> /\ synth.utt \in Utterances /\ Figures
    BY <1>1, FiguresHold DEF DtalkQueue, Figures
  <1>3. dt'.todo # <<>> /\ Last' = dt'.todo[n]
    <2>1. dt'.todo \in Seq(Work)
      BY DEF Types, DtType
    <2>2. Len(dt'.todo) = n
      <3>1. DOMAIN dt'.todo = 1..Len(dt'.todo) /\ Len(dt'.todo) \in Nat
        BY <2>1, LenProperties
      <3>2. n \in Nat /\ n >= 1
        BY <1>1
      <3> HIDE DEF n
      <3>3. Len(dt'.todo) \in 1..n /\ n \in 1..Len(dt'.todo)
        BY <1>1, <3>1, <3>2
      <3>4. QED
        BY <3>1, <3>2, <3>3
    <2>3. n \in DOMAIN dt'.todo
      BY <1>1
    <2>4. QED
      BY <2>1, <2>2, <2>3 DEF Last
  <1>4. Alone'
    <2>1. ASSUME NEW j \in DOMAIN dt'.todo, Wanted(dt.todo[j].utt)'
          PROVE  dt'.todo[j].utt = synth'.utt
      <3>1. CASE j \in DOMAIN dt.todo
        <4>1. Wanted(dt.todo[j].utt)
          BY <1>1, <1>2, <2>1, <3>1 DEF Wanted
        <4>2. QED
          BY <1>1, <3>1, <4>1 DEF Speaking, Alone, AtWork
      <3>2. CASE j = n
        BY <1>1, <3>2
      <3>3. QED
        BY <1>1, <2>1, <3>1, <3>2
    <2>2. QED
      BY <1>1, <2>1 DEF Alone, AtWork
  <1>5. Accounted'
    <2> SUFFICES ASSUME Wanted(synth.utt)'
                 PROVE  /\ Last'.utt = synth'.utt /\ Given' = Made'
                        /\ \A k \in 1..MarksEach :
                             IF k <= Known' THEN Staged(Base(synth.utt) + k)'
                             ELSE Meant(Base(synth.utt) + k)'
      BY DEF Accounted
    <2>1. Wanted(synth.utt) /\ ToCome(synth.utt) /\ Coming(synth.utt)
      BY <1>1, <1>2 DEF Wanted, ToCome, Coming
    <2>2. hist.fed[synth.utt] = 0 /\ \A k \in 1..MarksEach : Meant(Base(synth.utt) + k)
      BY <1>1, <1>2, <2>1 DEF NotBegun, Mapped
    <2>3. Last'.utt = synth'.utt /\ Made' = 0 /\ Known' = 0
      BY <1>1, <1>3 DEF Made, Known
    <2>4. Given' = 0
      BY <1>1, <1>2, <2>2 DEF Given
    <2>5. \A k \in 1..MarksEach : Meant(Base(synth.utt) + k)'
      BY <1>1, <1>2, <2>2 DEF Meant, Base
    <2>6. QED
      BY <2>3, <2>4, <2>5
  <1>6. Behindhand'
    BY <1>3 DEF Behindhand
  <1>7. Told'
    <2>1. Told
      BY DEF Speaking
    <2>2. QED
      BY <1>2, <2>1 DEF Told, Ix, Base, Wanted
  <1>8. QED
    BY <1>4, <1>5, <1>6, <1>7 DEF Speaking

\* A mark leaves the list read for the list pending, under its index; no other
\* mark's number is touched.
LEMMA SpeakingPop ==
  ASSUME ~hist'.reused, Types, Types', MapTrue, InLine, Flow, Speaking, [Next]_vars, PopMark
  PROVE  Speaking'
  <1> DEFINE x == Head(synth.new).index
             value == markMap[NumberOf(x)]
             p == [pos |-> Head(synth.new).pos, index |-> value]
  <1>1. synth.at = "map" /\ x \in Nat /\ x \in Outstanding /\ x <= Frontier
    BY PoppedMark
  <1>2. /\ synth.new \in Seq(Placed) /\ synth.new # <<>> /\ synth.pending \in Seq(Placed)
        /\ synth' = [synth EXCEPT !.new = Tail(@),
                       !.pending = IF value = None THEN @ ELSE Append(@, p)]
        /\ UNCHANGED <<dt, player, hist>> /\ synth \in SynthRecord
    BY DEF PopMark, Types, SynthType, SynthRecord
  <1>3. /\ synth'.at = "map" /\ synth'.utt = synth.utt /\ synth'.of = synth.of
        /\ synth'.fired = synth.fired /\ synth'.new = Tail(synth.new)
        /\ synth'.pending = IF value = None THEN synth.pending ELSE Append(synth.pending, p)
    BY <1>1, <1>2 DEF SynthRecord
  <1>4. /\ DOMAIN synth.new = 1..Len(synth.new) /\ Len(synth.new) \in Nat
        /\ 1 \in DOMAIN synth.new /\ Head(synth.new) = synth.new[1] /\ Head(synth.new) \in Placed
        /\ DOMAIN synth'.new = 1..(Len(synth.new) - 1)
        /\ \A i \in DOMAIN synth'.new : i + 1 \in DOMAIN synth.new /\ synth'.new[i] = synth.new[i + 1]
    BY <1>2, <1>3, HeadAndTail
  <1>5. value \in Nat /\ Head(synth.new).pos \in Int
    <2>1. NumberOf(x) \in Numbers /\ markMap \in [Numbers -> Nat]
      BY <1>1, OutstandingTypes DEF Types, QueueType
    <2>2. QED
      BY <1>4, <2>1, MarkFields
  <1>6. p \in Placed /\ p.index = value /\ p.pos = Head(synth.new).pos
    BY <1>5 DEF Placed
  <1>7. value # None => value = x
    BY <1>1 DEF MapTrue
  <1> HIDE DEF value, p
  <1>8. \/ value = None /\ synth'.pending = synth.pending
        \/ /\ value # None /\ DOMAIN synth'.pending = 1..(Len(synth.pending) + 1)
           /\ \A i \in DOMAIN synth.pending : synth'.pending[i] = synth.pending[i]
           /\ synth'.pending[Len(synth.pending) + 1] = p
           /\ Len(synth.pending) \in Nat /\ DOMAIN synth.pending = 1..Len(synth.pending)
    BY <1>2, <1>3, <1>6, AppendProperties, LenProperties
  <1>9. Ix(synth.pending) \subseteq Ix(synth'.pending)
    BY <1>8 DEF Ix
  <1>10. \A i \in DOMAIN synth'.pending : \/ i \in DOMAIN synth.pending /\ synth'.pending[i] = synth.pending[i]
                                          \/ synth'.pending[i].pos = synth.new[1].pos
    BY <1>4, <1>6, <1>8
  <1>11. value # None => x \in Ix(synth'.pending)
    <2> SUFFICES ASSUME value # None PROVE x \in Ix(synth'.pending)
      OBVIOUS
    <2>1. Len(synth.pending) + 1 \in DOMAIN synth'.pending
      BY <1>8
    <2>2. synth'.pending[Len(synth.pending) + 1].index = x
      BY <1>6, <1>7, <1>8
    <2>3. QED
      BY <2>1, <2>2 DEF Ix
  <1>12. \A i \in Ix(synth.new) : i = x \/ i \in Ix(synth'.new)
    <2>1. ASSUME NEW j \in DOMAIN synth.new
          PROVE  synth.new[j].index = x \/ synth.new[j].index \in Ix(synth'.new)
      <3>1. CASE j = 1
        BY <1>4, <3>1
      <3>2. CASE j # 1
        <4>1. j - 1 \in DOMAIN synth'.new /\ (j - 1) + 1 = j
          BY <1>4, <3>2
        <4>2. synth'.new[j - 1] = synth.new[j]
          BY <1>4, <4>1
        <4>3. QED
          BY <4>1, <4>2 DEF Ix
      <3>3. QED
        BY <3>1, <3>2
    <2>2. QED
      BY <2>1 DEF Ix
  <1>13. ASSUME NEW i, i # None, Meant(i), i \in Outstanding, i # x PROVE Meant(i)'
    <2>1. ~CancelClear
      BY DEF PopMark, CancelClear, Types, MainType
    <2> HIDE DEF x
    <2>2. PopMark => Speak \/ i # Head(synth.new).index
      BY <1>13 DEF x
    <2>3. QED
      BY <1>13, <2>1, <2>2, MeantKept
  <1>14. ASSUME NEW i, i # None, Staged(i) PROVE Staged(i)'
    <2>1. CASE i \in Ix(synth.new) \cup Ix(dt.marks) /\ Meant(i) /\ i = x
      <3>1. value # None
        BY <1>14, <2>1 DEF Meant, value
      <3>2. i \in Ix(synth'.pending)
        BY <1>11, <2>1, <3>1
      <3>3. QED
        BY <3>2 DEF Staged, Ix
    <2>2. CASE i \in Ix(synth.new) \cup Ix(dt.marks) /\ Meant(i) /\ i # x
      <3>1. i \in Outstanding
        BY <2>2, OutstandingParts DEF Parted, Unread
      <3>2. Meant(i)'
        BY <1>13, <1>14, <2>2, <3>1
      <3>3. i \in Ix(synth'.new) \cup Ix(dt'.marks)
        BY <1>2, <1>12, <2>2
      <3>4. QED
        BY <3>2, <3>3 DEF Staged, Ix
    <2>3. CASE i \in Ix(synth.pending) \cup Ix(synth.fired) \cup Sounding \cup Ix(hist.notified)
      <3>1. i \in Ix(synth'.pending) \cup Ix(synth.fired) \cup Sounding \cup Ix(hist.notified)
        BY <1>9, <2>3
      <3>2. Sounding' = Sounding /\ synth'.fired = synth.fired /\ hist' = hist
        BY <1>2, <1>3 DEF Sounding, Ix
      <3>3. QED
        BY <3>1, <3>2 DEF Staged, Ix
    <2>4. QED
      BY <1>14, <2>1, <2>2, <2>3 DEF Staged
  <1>15. Alone'
    BY <1>1, <1>2, <1>3 DEF Speaking, Alone, AtWork, Wanted
  <1>16. AtWork /\ AtWork' /\ (Wanted(synth.utt)' => Wanted(synth.utt))
    BY <1>1, <1>2, <1>3 DEF AtWork, Wanted
  <1>17. Accounted'
    <2> SUFFICES ASSUME Wanted(synth.utt)'
                 PROVE  /\ dt'.todo # <<>> => Last'.utt = synth'.utt
                        /\ Given' = Made'
                        /\ \A k \in 1..MarksEach :
                             IF k <= Known' THEN Staged(Base(synth.utt) + k)'
                             ELSE Meant(Base(synth.utt) + k)'
      BY DEF Accounted
    <2>1. AtWork /\ Wanted(synth.utt) /\ synth.utt \in Utterances
      BY <1>1, <1>16 DEF Types, SynthType
    <2>2. Last' = Last /\ Made' = Made /\ Known' = Known /\ Given' = Given
      BY <1>1, <1>2, <1>3 DEF Last, Made, Known, Given
    <2>3. dt.todo # <<>> => Last.utt = synth.utt
      BY <2>1 DEF Speaking, Accounted
    <2>4. Known \in 0..MarksEach /\ Frontier \in Nat /\ Frontier <= Base(synth.utt) + Known
          /\ Base(synth.utt) \in Nat
      BY <1>1, <2>3, FrontierBound
    <2>5. ASSUME NEW k \in 1..MarksEach
          PROVE  IF k <= Known' THEN Staged(Base(synth.utt) + k)' ELSE Meant(Base(synth.utt) + k)'
      <3>1. PICK i : i = Base(synth.utt) + k /\ i # None
        BY <2>1, IndexRange
      <3>2. CASE k <= Known
        <4>1. Staged(i)
          BY <2>1, <3>1, <3>2 DEF Speaking, Accounted
        <4>2. Staged(i)'
          BY <1>14, <3>1, <4>1
        <4>3. QED
          BY <1>3, <2>2, <3>1, <3>2, <4>2 DEF Staged, Meant, Base, Ix, Sounding
      <3>3. CASE ~(k <= Known)
        <4>1. Meant(i) /\ i \in Outstanding
          BY <2>1, <2>3, <3>1, <3>3, AheadOutstanding DEF Speaking, Accounted
        <4>2. i # x
          <5> HIDE DEF x
          <5>1. QED
            BY <1>1, <2>4, <3>1, <3>3
        <4>3. Meant(i)'
          BY <1>13, <3>1, <4>1, <4>2
        <4>4. QED
          BY <1>3, <2>2, <3>1, <3>3, <4>3 DEF Meant, Base
      <3>4. QED
        BY <3>2, <3>3
    <2>6. QED
      BY <1>2, <1>3, <2>1, <2>2, <2>5 DEF Speaking, Accounted
  <1>18. Behindhand'
    <2> SUFFICES ASSUME Wanted(synth.utt)', dt'.todo = <<>>
                 PROVE  /\ \A i \in DOMAIN synth'.new : synth'.new[i].pos <= dt'.pos
                        /\ \A i \in DOMAIN synth'.pending : synth'.pending[i].pos <= dt'.pos
      BY <1>3 DEF Behindhand
    <2>1. /\ \A i \in DOMAIN synth.new : synth.new[i].pos <= dt.pos
          /\ \A i \in DOMAIN synth.pending : synth.pending[i].pos <= dt.pos
      BY <1>2, <1>16 DEF Speaking, Behindhand
    <2>2. QED
      BY <1>2, <1>4, <1>10, <2>1
  <1>19. Told'
    <2>1. Told
      BY DEF Speaking
    <2>2. QED
      BY <1>2, <2>1 DEF Told, Ix, Base, Wanted
  <1>20. QED
    BY <1>15, <1>17, <1>18, <1>19 DEF Speaking

\* Every pending mark fires with the chunk or stays pending; once all has been
\* made they all fire.
LEMMA SpeakingSelect ==
  ASSUME Types, Types', Slots, Counted, ~hist.raised, Speaking, Select
  PROVE  Speaking'
  <1> DEFINE passed == UpTo(synth.samplesDone + synth.n)
             rest == DOMAIN synth.pending \ passed
  <1>1. /\ synth.at = "map" /\ synth.new = <<>> /\ synth.pending \in Seq(Placed)
        /\ passed \in SUBSET DOMAIN synth.pending /\ rest \in SUBSET DOMAIN synth.pending
        /\ synth.fired = <<>> /\ synth \in SynthRecord
    BY DEF Types, SynthType, SynthRecord, UpTo, Slots, Select
  <1>2. /\ synth'.at = "feed" /\ synth'.fired = Picked(synth.pending, passed)
        /\ synth'.pending = Picked(synth.pending, rest)
        /\ synth'.new = synth.new /\ UNCHANGED <<dt, player, hist, markMap>>
        /\ synth'.utt = synth.utt /\ synth'.of = synth.of
    BY <1>1 DEF Select, SynthRecord
  <1>3. /\ \A i \in DOMAIN synth.pending : i \in passed \/ i \in rest
        /\ synth.samplesDone + synth.n = dt.pos =>
             ((\A i \in DOMAIN synth.pending : synth.pending[i].pos <= dt.pos) => rest = {})
    BY DEF UpTo
  <1> HIDE DEF passed, rest
  <1>4. Ix(synth.pending) \subseteq Ix(synth'.pending) \cup Ix(synth'.fired)
    <2>1. ASSUME NEW i \in DOMAIN synth.pending
          PROVE  synth.pending[i].index \in Ix(synth'.pending) \cup Ix(synth'.fired)
      <3>1. CASE i \in passed
        <4>1. \E k \in DOMAIN synth'.fired : synth'.fired[k] = synth.pending[i]
          BY <1>1, <1>2, <3>1, PickedElements
        <4>2. QED
          BY <4>1 DEF Ix
      <3>2. CASE i \notin passed
        <4>1. i \in rest
          BY <1>3, <3>2
        <4>2. \E k \in DOMAIN synth'.pending : synth'.pending[k] = synth.pending[i]
          BY <1>1, <1>2, <4>1, PickedElements
        <4>3. QED
          BY <4>2 DEF Ix
      <3>3. QED
        BY <3>1, <3>2
    <2>2. QED
      BY <2>1 DEF Ix
  <1>5. rest = {} => synth'.pending = <<>>
    <2> SUFFICES ASSUME rest = {} PROVE synth'.pending = <<>>
      OBVIOUS
    <2>1. synth'.pending \in Seq(Placed) /\ Len(synth'.pending) = Cardinality(rest)
      BY <1>1, <1>2, PickedElements
    <2>2. Cardinality(rest) = 0
      BY FS_EmptySet
    <2>3. QED
      BY <2>1, <2>2, EmptySeq
  <1>6. synth.samplesDone + synth.n = dt.pos
    BY DEF Counted, SamplesInStep
  <1>7. (\A i \in DOMAIN synth.pending : synth.pending[i].pos <= dt.pos) => rest = {}
    BY <1>3, <1>6
  <1>8. \A i : Staged(i) => Staged(i)'
    <2>1. ASSUME NEW i, Staged(i) PROVE Staged(i)'
      <3>1. \/ i \in Ix(dt.marks) /\ Meant(i)
            \/ i \in Ix(synth'.pending) \cup Ix(synth'.fired) \cup Sounding \cup Ix(hist.notified)
        <4>1. Ix(synth.new) = {} /\ Ix(synth.fired) = {}
          BY <1>1 DEF Ix
        <4>2. QED
          BY <1>4, <2>1, <4>1 DEF Staged
      <3>2. Sounding' = Sounding
        BY <1>2 DEF Sounding, Ix
      <3>3. QED
        BY <1>2, <3>1, <3>2 DEF Staged, Meant, Ix
    <2>2. QED
      BY <2>1
  <1>9. Alone'
    BY <1>1, <1>2 DEF Speaking, Alone, AtWork, Wanted
  <1>10. AtWork /\ AtWork' /\ (Wanted(synth.utt)' => Wanted(synth.utt))
    BY <1>1, <1>2 DEF AtWork, Wanted
  <1>11. Accounted'
    <2> SUFFICES ASSUME Wanted(synth.utt)'
                 PROVE  /\ dt'.todo # <<>> => Last'.utt = synth'.utt
                        /\ Given' = Made'
                        /\ \A k \in 1..MarksEach :
                             IF k <= Known' THEN Staged(Base(synth.utt) + k)'
                             ELSE Meant(Base(synth.utt) + k)'
      BY DEF Accounted
    <2>1. AtWork /\ Wanted(synth.utt)
      BY <1>10
    <2>2. Last' = Last /\ Made' = Made /\ Known' = Known /\ Given' = Given
      BY <1>1, <1>2 DEF Last, Made, Known, Given
    <2>3. ASSUME NEW k \in 1..MarksEach
          PROVE  /\ Meant(Base(synth.utt) + k) => Meant(Base(synth.utt) + k)'
                 /\ Staged(Base(synth.utt) + k) => Staged(Base(synth.utt) + k)'
      <3>1. PICK i : i = Base(synth.utt) + k
        OBVIOUS
      <3>2. Staged(i) => Staged(i)'
        BY <1>8
      <3>3. QED
        BY <1>2, <3>1, <3>2 DEF Staged, Meant, Base, Ix, Sounding
    <2>4. QED
      BY <1>2, <2>1, <2>2, <2>3 DEF Speaking, Accounted
  <1>12. Behindhand'
    <2> SUFFICES ASSUME Wanted(synth.utt)', dt'.todo = <<>>
                 PROVE  /\ \A i \in DOMAIN synth'.new : synth'.new[i].pos <= dt'.pos
                        /\ \A i \in DOMAIN synth'.pending : synth'.pending[i].pos <= dt'.pos
                        /\ synth'.pending = <<>>
      BY DEF Behindhand
    <2>1. \A i \in DOMAIN synth.pending : synth.pending[i].pos <= dt.pos
      BY <1>2, <1>10 DEF Speaking, Behindhand
    <2>2. synth'.pending = <<>> /\ synth'.new = <<>> /\ DOMAIN <<>> = {}
      BY <1>1, <1>2, <1>5, <1>7, <2>1
    <2>3. QED
      BY <2>2
  <1>13. Told'
    <2>1. Told
      BY DEF Speaking
    <2>2. QED
      BY <1>2, <2>1 DEF Told, Ix, Base, Wanted
  <1>14. QED
    BY <1>9, <1>11, <1>12, <1>13 DEF Speaking

\* The chunk and its marks go to the player, and count as fed.
LEMMA SpeakingFeed ==
  ASSUME Types, Types', NotBegun, Speaking, Feed
  PROVE  Speaking'
  <1> DEFINE c == [of |-> synth.of, fired |-> synth.fired]
  <1>1. /\ player.chunks \in Seq(Chunk) /\ c \in Chunk /\ c.fired = synth.fired
        /\ player'.chunks = Append(player.chunks, c) /\ synth \in SynthRecord
    BY DEF Types, PlayerType, SynthType, SynthRecord, Chunk, Feed
  <1>2. /\ synth.at = "feed" /\ synth'.at = "test" /\ synth'.utt = synth.utt
        /\ synth'.new = synth.new /\ synth'.pending = synth.pending
        /\ UNCHANGED <<dt, markMap>>
    BY <1>1 DEF Feed, SynthRecord
  <1>3. /\ hist'.said = hist.said /\ hist'.silenced = hist.silenced /\ hist'.done = hist.done
        /\ hist'.notified = hist.notified /\ hist'.unread = hist.unread
        /\ hist'.fed = [hist.fed EXCEPT ![synth.of] = @ + 1]
    BY DEF Feed, Types, HistType
  <1>4. /\ synth.of \in Utterances /\ synth.of <= synth.utt /\ synth.of \in Nat /\ Figures
        /\ synth.utt \in Utterances
    BY <1>2, FiguresHold DEF NotBegun, Utterances, Figures
  <1> HIDE DEF c
  <1>5. /\ DOMAIN player.chunks = 1..Len(player.chunks) /\ Len(player.chunks) \in Nat
        /\ DOMAIN player'.chunks = 1..(Len(player.chunks) + 1)
        /\ \A i \in DOMAIN player.chunks : player'.chunks[i] = player.chunks[i]
        /\ player'.chunks[Len(player.chunks) + 1] = c
    BY <1>1, AppendProperties, LenProperties
  <1>6. Sounding \cup Ix(synth.fired) \subseteq Sounding'
    <2>1. Sounding' = UNION {Ix(player'.chunks[i].fired) : i \in DOMAIN player'.chunks}
      BY DEF Sounding, Ix
    <2>2. ASSUME NEW i \in DOMAIN player.chunks
          PROVE  i \in DOMAIN player'.chunks /\ player.chunks[i].fired = player'.chunks[i].fired
      BY <1>5
    <2>3. Sounding \subseteq Sounding'
      BY <2>1, <2>2 DEF Sounding
    <2>4. Len(player.chunks) + 1 \in DOMAIN player'.chunks
      BY <1>5
    <2>5. Ix(synth.fired) \subseteq Sounding'
      BY <1>1, <1>5, <2>1, <2>4
    <2>6. QED
      BY <2>3, <2>5
  <1>7. \A i : Staged(i) => Staged(i)'
    <2>1. ASSUME NEW i, Staged(i) PROVE Staged(i)'
      <3>1. \/ i \in Ix(synth.new) \cup Ix(dt.marks) /\ Meant(i)
            \/ i \in Ix(synth.pending) \cup Sounding' \cup Ix(hist.notified)
        BY <1>6, <2>1 DEF Staged
      <3>2. QED
        BY <1>2, <1>3, <3>1 DEF Staged, Ix, Meant
    <2>2. QED
      BY <2>1
  <1>8. AtWork /\ AtWork' /\ (Wanted(synth.utt)' => Wanted(synth.utt))
    BY <1>2, <1>3 DEF AtWork, Wanted
  <1>9. Alone'
    BY <1>2, <1>3 DEF Speaking, Alone, AtWork, Wanted
  <1>10. Accounted'
    <2> SUFFICES ASSUME Wanted(synth.utt)'
                 PROVE  /\ dt'.todo # <<>> => Last'.utt = synth'.utt
                        /\ Given' = Made'
                        /\ \A k \in 1..MarksEach :
                             IF k <= Known' THEN Staged(Base(synth.utt) + k)'
                             ELSE Meant(Base(synth.utt) + k)'
      BY DEF Accounted
    <2>1. AtWork /\ Wanted(synth.utt)
      BY <1>8
    <2>2. Last' = Last /\ Made' = Made /\ Known' = Known
      BY <1>2 DEF Last, Made, Known
    <2>3. Given' = Given
      <3>1. Given' = hist'.fed[synth.utt] + 0
        BY <1>2 DEF Given
      <3>2. hist.fed[synth.utt] \in Nat
        BY <1>4 DEF Figures
      <3>3. CASE synth.of = synth.utt
        BY <1>2, <1>3, <1>4, <3>1, <3>2, <3>3 DEF Given, Figures
      <3>4. CASE synth.of # synth.utt
        BY <1>2, <1>3, <1>4, <3>1, <3>2, <3>4 DEF Given, Figures
      <3>5. QED
        BY <3>3, <3>4
    <2>4. ASSUME NEW k \in 1..MarksEach
          PROVE  /\ Meant(Base(synth.utt) + k) => Meant(Base(synth.utt) + k)'
                 /\ Staged(Base(synth.utt) + k) => Staged(Base(synth.utt) + k)'
      <3>1. PICK i : i = Base(synth.utt) + k
        OBVIOUS
      <3>2. Staged(i) => Staged(i)'
        BY <1>7
      <3>3. QED
        BY <1>2, <3>1, <3>2 DEF Staged, Meant, Base, Ix, Sounding
    <2>5. QED
      BY <1>2, <2>1, <2>2, <2>3, <2>4 DEF Speaking, Accounted
  <1>11. Behindhand'
    BY <1>2, <1>8 DEF Speaking, Behindhand
  <1>12. Told'
    <2>1. \A u \in hist.done : Wanted(u)' => Wanted(u)
      BY <1>3 DEF Wanted
    <2>2. \A u \in hist.done : Wanted(u) => hist'.fed[u] = hist.fed[u]
      <3>1. ASSUME NEW u \in hist.done, Wanted(u) PROVE hist'.fed[u] = hist.fed[u]
        <4>1. u < synth.utt
          BY <1>2, <3>1 DEF NotBegun
        <4>2. synth.of # u
          BY <1>2, <1>4, <3>1, <4>1 DEF Speaking, Alone
        <4>3. QED
          BY <1>3, <1>4, <4>2 DEF Figures
      <3>2. QED
        BY <3>1
    <2>3. Ix(hist'.notified) = Ix(hist.notified) /\ Told
      BY <1>3 DEF Speaking
    <2>4. QED
      BY <1>3, <2>1, <2>2, <2>3, ToldKept
  <1>13. QED
    BY <1>9, <1>10, <1>11, <1>12 DEF Speaking

\* The notification: everything has been made and fed, and every mark has
\* passed all the stages.
LEMMA SpeakingNotify ==
  ASSUME Types, Types', Slots, Finished, Speaking, IdleAndNotify
  PROVE  Speaking'
  <1>1. /\ synth.at = "idle" /\ synth'.at = "get" /\ player.chunks = <<>> /\ dt.todo = <<>>
        /\ UNCHANGED <<dt, markMap>> /\ Figures /\ synth.utt \in Utterances
    BY FiguresHold DEF IdleAndNotify, Finished, Types, SynthType, SynthRecord
  <1>2. /\ hist'.said = hist.said /\ hist'.silenced = hist.silenced
        /\ hist'.done = hist.done \cup {synth.utt} /\ hist'.fed = hist.fed
        /\ hist'.notified = hist.notified /\ hist'.unread = hist.unread
    BY DEF IdleAndNotify, Types, HistType
  <1>3. Alone' /\ Accounted' /\ Behindhand'
    <2>1. DOMAIN dt'.todo = {}
      BY <1>1
    <2>2. QED
      BY <1>1, <2>1 DEF Alone, Accounted, Behindhand, AtWork
  <1>4. ASSUME Wanted(synth.utt)
        PROVE  /\ hist.fed[synth.utt] = Length
               /\ \/ synth.utt \in hist.unread
                  \/ \A k \in 1..MarksEach : Base(synth.utt) + k \in Ix(hist.notified)
    <2>1. AtWork
      BY <1>1 DEF AtWork
    <2>2. Made = Length /\ Known = MarksEach /\ Given = hist.fed[synth.utt] + 0
      BY <1>1 DEF Made, Known, Given
    <2>3. Given = Made
      BY <1>4, <2>1 DEF Speaking, Accounted
    <2>4. hist.fed[synth.utt] = Length
      BY <1>1, <2>2, <2>3 DEF Figures
    <2>5. \A k \in 1..MarksEach : Staged(Base(synth.utt) + k)
      <3>1. \A k \in 1..MarksEach : k <= Known
        BY <2>2, Sizes
      <3>2. QED
        BY <1>4, <2>1, <3>1 DEF Speaking, Accounted
    <2>6. synth.new = <<>> /\ synth.fired = <<>> /\ synth.pending = <<>>
      BY <1>1, <1>4, <2>1 DEF Slots, Speaking, Behindhand
    <2>7. Ix(synth.new) = {} /\ Ix(synth.fired) = {} /\ Ix(synth.pending) = {} /\ Sounding = {}
      BY <1>1, <2>6 DEF Ix, Sounding
    <2>8. CASE dt.marks = <<>>
      <3>1. Ix(dt.marks) = {}
        BY <2>8 DEF Ix
      <3>2. \A i : Staged(i) => i \in Ix(hist.notified)
        BY <2>7, <3>1 DEF Staged
      <3>3. QED
        BY <2>4, <2>5, <3>2
    <2>9. CASE dt.marks # <<>>
      BY <1>1, <2>4, <2>9 DEF Finished
    <2>10. QED
      BY <2>8, <2>9
  <1>5. Told'
    <2>1. ASSUME NEW u \in hist'.done, Wanted(u)'
          PROVE  /\ hist'.fed[u] = Length
                 /\ \/ u \in hist'.unread
                    \/ \A k \in 1..MarksEach : Base(u) + k \in Ix(hist'.notified)
      <3>1. Wanted(u)
        BY <1>2, <2>1 DEF Wanted
      <3>2. CASE u = synth.utt
        BY <1>2, <1>4, <3>1, <3>2
      <3>3. CASE u \in hist.done
        BY <1>2, <3>1, <3>3 DEF Speaking, Told
      <3>4. QED
        BY <1>2, <2>1, <3>2, <3>3
    <2>2. QED
      BY <2>1 DEF Told, Ix, Base, Wanted
  <1>6. QED
    BY <1>3, <1>5 DEF Speaking

LEMMA SameLength ==
  ASSUME NEW a \in Nat, NEW b \in Nat, 1..a = 1..b
  PROVE  a = b
  <1>1. a > 0 => a \in 1..b
    OBVIOUS
  <1>2. b > 0 => b \in 1..a
    OBVIOUS
  <1>3. QED
    BY <1>1, <1>2

\* The instance makes a chunk: of the thread's utterance, whose new marks are
\* read or wait for a later read, or of an earlier one that is not wanted any
\* more.
LEMMA SpeakingSynth ==
  ASSUME Types, Types', Way, Flow, [Next]_vars, Speaking, DtalkSynth, dt.todo # <<>>
  PROVE  Speaking'
  <1>1. PICK m, head, made, start, marks, read : Synthesized(m, head, made, start, marks, read)
    BY SynthParts
  <1>2. /\ head = dt.todo[1] /\ made = head.made + 1 /\ m \in head.marked .. MarksEach
        /\ \A k \in 1..MarksEach : ChunkOf(k) <= made => k <= m
        /\ synth.at = "call" /\ synth'.at = "map" /\ synth'.utt = synth.utt /\ synth'.of = head.utt
        /\ synth'.pending = synth.pending /\ synth'.fired = synth.fired
        /\ UNCHANGED <<markMap, player, hist>>
    BY <1>1, ZenonT(30) DEF Synthesized, DtalkSynth, Types, SynthType, SynthRecord
  <1>3. /\ \A j \in (head.marked + 1)..m : Base(head.utt) + j \in Ix(synth'.new) \cup Ix(dt'.marks)
        /\ Ix(dt.marks) \subseteq Ix(synth'.new) \cup Ix(dt'.marks)
    BY <1>1, SynthReads
  <1>4. /\ Len(dt.todo) \in Nat /\ Len(dt.todo) > 0 /\ DOMAIN dt.todo = 1..Len(dt.todo)
        /\ made = Length =>
             /\ DOMAIN dt'.todo = 1..(Len(dt.todo) - 1)
             /\ \A i \in DOMAIN dt'.todo : i + 1 \in DOMAIN dt.todo /\ dt'.todo[i] = dt.todo[i + 1]
        /\ made # Length =>
             /\ DOMAIN dt'.todo = DOMAIN dt.todo
             /\ dt'.todo[1].utt = head.utt /\ dt'.todo[1].made = made /\ dt'.todo[1].marked = m
             /\ \A i \in DOMAIN dt'.todo : i > 1 => dt'.todo[i] = dt.todo[i]
    BY <1>1, SynthTodo
  <1>5. /\ 1 \in DOMAIN dt.todo /\ head.utt \in Nat /\ head.utt > 0 /\ head.marked \in 0..MarksEach
        /\ head.made \in 0..(Length - 1) /\ Base(head.utt) \in Nat
    BY <1>2, FirstToDo
  <1>6. Figures /\ TodoUtterances /\ AtWork /\ AtWork'
    BY <1>2, FiguresHold, TodoTypes DEF AtWork
  <1>7. \A u : Wanted(u)' => Wanted(u)
    BY <1>2 DEF Wanted
  <1>8. dt'.todo \in Seq(Work) /\ Len(dt'.todo) \in Nat /\ DOMAIN dt'.todo = 1..Len(dt'.todo)
    BY LenProperties DEF Types, DtType
  <1>9. Alone'
    <2>1. ASSUME NEW j \in DOMAIN dt'.todo
          PROVE  \E i \in DOMAIN dt.todo : dt'.todo[j].utt = dt.todo[i].utt
      <3>1. CASE made = Length
        BY <1>4, <3>1
      <3>2. CASE made # Length /\ j = 1
        BY <1>2, <1>4, <1>5, <3>2
      <3>3. CASE made # Length /\ j # 1
        <4>1. j \in DOMAIN dt.todo /\ j > 1 /\ dt'.todo[j] = dt.todo[j]
          BY <1>4, <3>3
        <4>2. QED
          BY <4>1
      <3>4. QED
        BY <3>1, <3>2, <3>3
    <2>2. \A i \in DOMAIN dt.todo : Wanted(dt.todo[i].utt) => dt.todo[i].utt = synth.utt
      BY <1>2 DEF Speaking, Alone
    <2>3. \A j \in DOMAIN dt'.todo : Wanted(dt.todo[j].utt)' => dt'.todo[j].utt = synth'.utt
      BY <1>2, <1>7, <2>1, <2>2 DEF Wanted
    <2>4. Wanted(synth.of)' => synth'.of = synth'.utt
      BY <1>2, <1>5, <2>2 DEF Wanted
    <2>5. QED
      BY <1>6, <2>3, <2>4 DEF Alone
  <1>10. ASSUME Wanted(synth.utt)'
         PROVE  /\ dt'.todo # <<>> => Last'.utt = synth'.utt
                /\ Given' = Made'
                /\ \A k \in 1..MarksEach :
                     IF k <= Known' THEN Staged(Base(synth.utt) + k)'
                     ELSE Meant(Base(synth.utt) + k)'
    <2>1. Wanted(synth.utt) /\ synth.utt \in Utterances /\ synth.utt \in Nat
      BY <1>2, <1>6, <1>10 DEF Wanted, Figures
    <2>2. /\ Last.utt = synth.utt /\ Given = Made /\ Made = Last.made /\ Known = Last.marked
          /\ \A k \in 1..MarksEach : IF k <= Known THEN Staged(Base(synth.utt) + k)
                                     ELSE Meant(Base(synth.utt) + k)
      BY <1>6, <2>1 DEF Speaking, Accounted, Made, Known
    <2>3. Given = hist.fed[synth.utt] /\ hist.fed[synth.utt] \in Nat
      BY <1>2, <1>6, <2>1 DEF Given, Figures
    <2>4. /\ hist'.fed[synth'.utt] = hist.fed[synth.utt]
          /\ Given' = hist'.fed[synth'.utt] + (IF head.utt = synth.utt THEN 1 ELSE 0)
      BY <1>2 DEF Given
    <2>5. synth.new = <<>> /\ Ix(synth.new) = {}
      BY <1>2 DEF Way, Slots, Ix
    <2>6. \A i : Staged(i) => Staged(i)'
      <3>1. ASSUME NEW i, Staged(i) PROVE Staged(i)'
        <4>1. \/ i \in Ix(synth'.new) \cup Ix(dt'.marks) /\ Meant(i)
              \/ i \in Ix(synth.pending) \cup Ix(synth.fired) \cup Sounding \cup Ix(hist.notified)
          BY <1>3, <2>5, <3>1 DEF Staged
        <4>2. Sounding' = Sounding
          BY <1>2 DEF Sounding, Ix
        <4>3. QED
          BY <1>2, <4>1, <4>2 DEF Staged, Meant, Ix
      <3>2. QED
        BY <3>1
    <2>7. CASE head.utt = synth.utt
      <3>1. Len(dt.todo) = 1
        <4>1. Len(dt.todo) \in DOMAIN dt.todo /\ dt.todo[Len(dt.todo)].utt = head.utt
          BY <1>4, <2>2, <2>7 DEF Last
        <4>2. ~(1 < Len(dt.todo))
          BY <1>2, <1>5, <4>1 DEF Way, InLine
        <4>3. \A n \in Nat : n > 0 /\ ~(1 < n) => n = 1
          OBVIOUS
        <4>4. Len(dt.todo) \in Nat /\ Len(dt.todo) > 0
          BY <1>4
        <4>5. QED
          BY <4>2, <4>3, <4>4
      <3>2. Last = head
        BY <1>2, <3>1 DEF Last
      <3>3. Given' = made
        BY <1>2, <1>5, <2>2, <2>3, <2>4, <2>7, <3>2
      <3>4. /\ dt'.todo # <<>> => Last'.utt = synth'.utt
            /\ Made' = made /\ Known' \in Nat /\ Known' = m
        <4>1. CASE made = Length
          <5>1. DOMAIN dt'.todo = 1..0
            BY <1>4, <3>1, <4>1
          <5>2. dt'.todo = <<>>
            <6>1. Len(dt'.todo) = 0
              BY <1>8, <5>1, SameLength
            <6>2. QED
              BY <1>8, <6>1, EmptySeq
          <5>3. m = MarksEach
            <6>1. \A k \in 1..MarksEach : k <= m
              BY <1>2, <4>1, Chunks, SMTT(30)
            <6>2. m \in Nat /\ m <= MarksEach
              BY <1>2, <1>5, Sizes
            <6>3. QED
              BY <6>1, <6>2, Sizes
          <5>4. QED
            BY <4>1, <5>2, <5>3, Sizes DEF Made, Known
        <4>2. CASE made # Length
          <5>1. DOMAIN dt'.todo = 1..1 /\ 1 \in DOMAIN dt'.todo
            BY <1>4, <3>1, <4>2
          <5>2. Len(dt'.todo) = 1 /\ dt'.todo # <<>>
            <6>1. Len(dt'.todo) = 1
              BY <1>8, <5>1, SameLength
            <6>2. DOMAIN <<>> = {}
              OBVIOUS
            <6>3. dt'.todo # <<>>
              BY <5>1, <6>2
            <6>4. QED
              BY <6>1, <6>3
          <5>3. Last' = dt'.todo[1]
            BY <5>2 DEF Last
          <5>4. m \in Nat
            BY <1>2, <1>5, Sizes
          <5>5. QED
            BY <1>2, <1>4, <2>7, <4>2, <5>2, <5>3, <5>4 DEF Made, Known
        <4>3. QED
          BY <4>1, <4>2
      <3>5. ASSUME NEW k \in 1..MarksEach
            PROVE  IF k <= Known' THEN Staged(Base(synth.utt) + k)' ELSE Meant(Base(synth.utt) + k)'
        <4>1. PICK i : i = Base(synth.utt) + k
          OBVIOUS
        <4>2. CASE k <= head.marked
          <5>1. Staged(i)'
            BY <2>2, <2>6, <3>2, <4>1, <4>2
          <5>2. k <= Known'
            BY <1>2, <1>5, <3>4, <4>2, Sizes, SMTT(30)
          <5>3. QED
            BY <1>2, <4>1, <5>1, <5>2 DEF Staged, Meant, Base, Ix, Sounding
        <4>3. CASE ~(k <= head.marked)
          <5>1. Meant(i)
            BY <2>2, <3>2, <4>1, <4>3
          <5>2. Meant(i)'
            BY <1>2, <5>1 DEF Meant
          <5>3. CASE k <= m
            <6>1. k \in (head.marked + 1)..m
              BY <1>5, <4>3, <5>3, Sizes
            <6>2. i \in Ix(synth'.new) \cup Ix(dt'.marks)
              BY <1>3, <2>7, <4>1, <6>1
            <6>3. Staged(i)'
              BY <5>2, <6>2 DEF Staged, Ix
            <6>4. QED
              BY <1>2, <3>4, <4>1, <5>3, <6>3 DEF Staged, Meant, Base, Ix, Sounding
          <5>4. CASE ~(k <= m)
            BY <1>2, <3>4, <4>1, <5>2, <5>4 DEF Meant, Base
          <5>5. QED
            BY <5>3, <5>4
        <4>4. QED
          BY <4>2, <4>3
      <3>6. QED
        BY <3>3, <3>4, <3>5
    <2>8. CASE head.utt # synth.utt
      <3>1. Len(dt.todo) > 1
        BY <1>2, <1>4, <2>2, <2>8 DEF Last
      <3>2. dt'.todo # <<>> /\ Last' = Last
        <4>1. CASE made = Length
          <5>1. Len(dt'.todo) = Len(dt.todo) - 1
            <6>1. DOMAIN dt'.todo = 1..(Len(dt.todo) - 1) /\ Len(dt.todo) - 1 \in Nat
              BY <1>4, <3>1, <4>1
            <6>2. QED
              BY <1>8, <6>1, SameLength
          <5>2. Len(dt'.todo) \in DOMAIN dt'.todo /\ Len(dt'.todo) + 1 = Len(dt.todo)
            BY <1>4, <1>8, <3>1, <5>1
          <5>3. dt'.todo[Len(dt'.todo)] = dt.todo[Len(dt.todo)]
            BY <1>4, <4>1, <5>2
          <5>4. QED
            BY <1>8, <5>2, <5>3 DEF Last
        <4>2. CASE made # Length
          <5>1. Len(dt'.todo) = Len(dt.todo)
            <6>1. DOMAIN dt'.todo = 1..Len(dt.todo) /\ Len(dt.todo) \in Nat
              BY <1>4, <4>2
            <6>2. QED
              BY <1>8, <6>1, SameLength
          <5>2. Len(dt'.todo) \in DOMAIN dt'.todo /\ Len(dt'.todo) > 1
            BY <1>4, <1>8, <3>1, <5>1
          <5>3. dt'.todo[Len(dt'.todo)] = dt.todo[Len(dt.todo)]
            BY <1>4, <4>2, <5>1, <5>2
          <5>4. QED
            BY <1>8, <5>2, <5>3 DEF Last
        <4>3. QED
          BY <4>1, <4>2
      <3>3. Made' = Last.made /\ Known' = Last.marked /\ Last'.utt = synth'.utt
        BY <1>2, <2>2, <3>2 DEF Made, Known
      <3>4. Given' = Made'
        BY <2>2, <2>3, <2>4, <2>8, <3>3
      <3>5. ASSUME NEW k \in 1..MarksEach
            PROVE  IF k <= Known' THEN Staged(Base(synth.utt) + k)' ELSE Meant(Base(synth.utt) + k)'
        <4>1. PICK i : i = Base(synth.utt) + k
          OBVIOUS
        <4>2. IF k <= Known' THEN Staged(i)' ELSE Meant(i)'
          BY <1>2, <2>2, <2>6, <3>3, <4>1 DEF Meant
        <4>3. QED
          BY <1>2, <4>1, <4>2 DEF Staged, Meant, Base, Ix, Sounding
      <3>6. QED
        BY <3>3, <3>4, <3>5
    <2>9. QED
      BY <2>7, <2>8
  <1>11. Accounted'
    BY <1>10 DEF Accounted
  <1>12. Behindhand'
    <2> SUFFICES ASSUME dt'.todo = <<>>
                 PROVE  /\ \A i \in DOMAIN synth'.new : synth'.new[i].pos <= dt'.pos
                        /\ \A i \in DOMAIN synth'.pending : synth'.pending[i].pos <= dt'.pos
      BY <1>2 DEF Behindhand
    <2>1. \A x \in Ahead' : x[2] <= dt'.pos
      BY SynthFlow DEF Way
    <2>2. /\ \A i \in DOMAIN synth'.new :
               <<synth'.new[i].index, synth'.new[i].pos>> \in Ahead'
          /\ \A i \in DOMAIN synth'.pending :
               <<synth'.pending[i].index, synth'.pending[i].pos>> \in Ahead'
      BY DEF Ahead
    <2>3. QED
      BY <2>1, <2>2
  <1>13. Told'
    <2>1. Told
      BY DEF Speaking
    <2>2. QED
      BY <1>2, <2>1 DEF Told, Ix, Base, Wanted
  <1>14. QED
    BY <1>9, <1>11, <1>12, <1>13 DEF Speaking

LEMMA GroundStep ==
  ASSUME Types, Types', Way, Ground, [Next]_vars
  PROVE  Ground'
  BY SilentStep, HeardStep, NotBegunStep, FinishedStep DEF Way, Ground

LEMMA DriftStep ==
  ASSUME ~hist'.reused, Types, Types', Way, Ground, Drift, [Next]_vars
  PROVE  Drift'
  BY MapTrueStep, FlowStep, MappedStep DEF Way, Ground, Drift

LEMMA SpokenStep ==
  ASSUME Types, Types', Way, Ground, ~hist.reused => Drift, Spoken, [Next]_vars
  PROVE  Spoken'
  <1> SUFFICES ASSUME ~hist'.raised, ~hist'.reused PROVE Speaking'
    BY DEF Spoken, Speaking, Alone, Accounted, Behindhand, Told
  <1>1. ~hist.raised /\ ~FeedRaises
    BY Zenon DEF Next, MainThread, Speak, CancelBegin, CancelDrain, CancelStop, CancelClear,
       CancelPlayer, TerminatePut, TerminateJoin, JoinGivesUp, TerminateClose, Play, vars, SynthThread,
       Get, ClearStopping, DtalkQueue, TestStopping, CallDestroyed, DtalkSynth, PopMark, Select, Feed, FeedRaises,
       Ended, IdleAndNotify, Types, HistType
  <1>2. ~hist.reused
    BY Unreused
  <1>3. Speaking /\ Drift /\ MapTrue /\ Flow /\ Mapped
    BY <1>1, <1>2 DEF Spoken, Drift
  <1>4. Slots /\ Queued /\ InLine /\ Counted /\ Silent /\ Heard /\ NotBegun /\ Finished
    BY DEF Way, Ground
  <1>5. CASE MainThread \/ CallDestroyed
    BY <1>3, <1>4, <1>5, SilentStep, SpeakingUnwanted, SpeakingSpeak
  <1>6. CASE Get \/ ClearStopping \/ TestStopping \/ Ended \/ (DtalkSynth /\ dt.todo = <<>>)
    BY <1>3, <1>4, <1>6, SpeakingThread
  <1>7. CASE DtalkQueue
    BY <1>3, <1>4, <1>7, SpeakingQueue
  <1>8. CASE DtalkSynth /\ dt.todo # <<>>
    BY <1>3, <1>4, <1>8, SpeakingSynth
  <1>9. CASE PopMark
    BY <1>3, <1>4, <1>9, SpeakingPop
  <1>10. CASE Select
    BY <1>1, <1>3, <1>4, <1>10, SpeakingSelect
  <1>11. CASE Feed
    BY <1>3, <1>4, <1>11, SpeakingFeed
  <1>12. CASE IdleAndNotify
    BY <1>3, <1>4, <1>12, SpeakingNotify
  <1>13. CASE Play
    BY <1>3, <1>13, SpeakingPlay
  <1>14. CASE UNCHANGED vars
    BY <1>3, <1>14 DEF vars, Speaking, Alone, Accounted, Behindhand, Told, AtWork, Wanted, Last,
       Made, Known, Given, Staged, Meant, Sounding, Ix, Base
  <1>15. QED
    BY <1>1, <1>5, <1>6, <1>7, <1>8, <1>9, <1>10, <1>11, <1>12, <1>13, <1>14
       DEF Next, SynthThread

LEMMA WayStep ==
  ASSUME Types, Types', Way, [Next]_vars
  PROVE  Way'
  BY SlotsStep, QueuedStep, InLineStep, CountedStep DEF Way

LEMMA SpokenInit == Init => Way /\ Ground /\ Drift /\ Spoken
  <1> SUFFICES ASSUME Init PROVE Way /\ Ground /\ Drift /\ Spoken
    OBVIOUS
  <1>1. /\ DOMAIN <<>> = {} /\ dt.todo = <<>> /\ dt.marks = <<>> /\ main.at = "free" /\ dt.alive
        /\ synth.at = "get" /\ synth.utt = None /\ hist.said = 0 /\ hist.silenced = 0
        /\ hist.done = {} /\ \A u \in Utterances : hist.fed[u] = 0
    BY DEF Init
  <1>2. Way
    BY FlowInit DEF Way, Init, Counted, Holding, SamplesInStep
  <1>3. \A u \in Nat : ~Wanted(u)
    BY <1>1 DEF Wanted
  <1>4. \A u \in Utterances : ~Wanted(u)
    BY <1>3 DEF Utterances
  <1>5. Ground
    BY <1>1, <1>4 DEF Ground, Silent, Heard, NotBegun, Finished, AtWork
  <1>6. Drift
    BY <1>4, FlowInit DEF Drift, Mapped
  <1>7. Spoken
    BY <1>1 DEF Spoken, Speaking, Alone, Accounted, Behindhand, Told, AtWork
  <1>8. QED
    BY <1>2, <1>5, <1>6, <1>7

\* DoneMeansSpoken: an utterance that NVDA is told is done, and that no cancel
\* followed, has been fed whole and, unless marks were left unread when its
\* samples ended, each of its indexes notified, however speak, cancel,
\* terminate, the synth thread and the player interleave, however many marks
\* one read takes and however often the marker numbers roll over, as long as no
\* feed raised and no number was given out while it was outstanding.
THEOREM SpokenToTheEnd == Safe => []DoneMeansSpoken
  <1> DEFINE IInv == Way /\ Ground /\ (~hist.reused => Drift) /\ Spoken
  <1>1. Init => IInv
    BY SpokenInit
  <1>2. IInv /\ Types /\ Types' /\ [Next]_vars => IInv'
    <2> SUFFICES ASSUME IInv, Types, Types', [Next]_vars PROVE IInv'
      OBVIOUS
    <2>1. Way' /\ Ground' /\ Spoken'
      BY WayStep, GroundStep, SpokenStep
    <2>2. ASSUME ~hist'.reused PROVE Drift'
      BY <2>2, Unreused, DriftStep
    <2>3. QED
      BY <2>1, <2>2
  <1>3. IInv /\ Types => DoneMeansSpoken
    <2> SUFFICES ASSUME Types, Ground, Spoken, NEW u \in hist.done, u > hist.silenced,
                        ~hist.raised, ~hist.reused
                 PROVE  hist.fed[u] = Length /\ (u \in hist.unread \/ IndexesOf(u) \subseteq Notified)
      BY DEF DoneMeansSpoken
    <2>1. Wanted(u)
      BY DEF Ground, NotBegun, Wanted
    <2>2. /\ hist.fed[u] = Length
          /\ u \in hist.unread \/ \A k \in 1..MarksEach : Base(u) + k \in Ix(hist.notified)
      BY <2>1 DEF Spoken, Speaking, Told
    <2>3. IndexesOf(u) = {Base(u) + k : k \in 1..MarksEach} /\ Notified = Ix(hist.notified)
      BY DEF IndexesOf, Base, Notified, Ix
    <2>4. QED
      BY <2>2, <2>3
  <1> HIDE DEF IInv
  <1>4. QED
    BY <1>1, <1>2, <1>3, TypesHold, PTL DEF Safe
=============================================================================
