--------------------------- MODULE Board_proofs ---------------------------
(***************************************************************************)
(* The board's two streams: the host's bytes, which go in (HostFeed), and  *)
(* the samples, which come out (DacStream).  Each holds for every value of *)
(* its constants under the assumptions its module states.                  *)
(*                                                                         *)
(* In: for every pace of the host and every card that, once its firmware   *)
(* has started, takes a byte before the host looks again (DropAssumption), *)
(* nothing is overwritten but the Ctrl-X that waits for a firmware that    *)
(* has not started, and the bytes arrive in order.  NoOverrun speaks of    *)
(* the moments when the host may write; Unread says why it holds there: a  *)
(* byte that waits is inside a run, and the card takes it before that run  *)
(* ends, unless it sleeps (Asleep).  A host that waits                     *)
(* until the card is ready again (InTime) stops feeding only when there is *)
(* no room.                                                                *)
(*                                                                         *)
(* Out: no sample is computed from a write the queue has already dropped,  *)
(* or from one that has not been made, and a silent stretch holds its last *)
(* level.  DacInv says why: the queue is the end of the recording, its     *)
(* cursor is a kernel behind its first write, never past the next sample,  *)
(* and the samples of the last pull are those the kernel gives on the      *)
(* whole recording.                                                        *)
(***************************************************************************)
EXTENDS HostFeed, DacStream, SequenceTheorems, FiniteSetTheorems, NaturalsInduction,
        WellFoundedInduction, TLAPS

-----------------------------------------------------------------------------
(* Bytes in: the host's feed.                                              *)

Unread == up /\ mail # <<>> => at = "run" /\ 0 <= due /\ due < left

\* A card whose firmware has not started shows no RDY, so feed leaves it alone;
\* what waits there is a Clear.
Asleep == ~up => /\ ~rdy /\ due # Never /\ held = 0
                 /\ mail = <<>> \/ mail = <<Clear>>

\* A run after a byte goes on in feed, and only there.
Thence == /\ then = "feed" => at \in {"run", "feed"}
          /\ then = "feed" => up

IInv == TypeOK /\ Unread /\ Asleep /\ Thence

\* The parameters, in the form the steps use.
LEMMA Parameters ==
  /\ AfterByte \in Nat /\ AfterFeed \in Nat
  /\ \A o \in Overshoots : o \in Nat
  /\ \A d \in Drops : d \in Nat /\ d < AfterByte /\ d < AfterFeed
  /\ \A d \in Backs : d \in Nat
  /\ \A d \in Boots : d \in Nat
BY HostFeedAssumption, DropAssumption

LEMMA InitInv == Init => IInv
BY DEF Init, IInv, TypeOK, Unread, Asleep, Thence, Never

\* After a write, the card takes the byte before the run ends, if it has
\* started.
LEMMA WriteInv ==
  ASSUME IInv, NEW b \in Nat, NEW n \in {AfterByte, AfterFeed}, NEW p \in {"host", "feed"},
         HostWrites(b), Runs(n, p), queue' \in Seq(Nat), count' \in Nat, stops' \in Nat,
         up \/ (b = Clear /\ p = "host")
  PROVE  IInv'
<1>1. PICK o \in Overshoots : left' = n + o
  BY DEF Runs
<1>2. due' \in Nat /\ (up => due' < n) /\ (~up => due' = due)
  BY Parameters DEF HostWrites, IInv, TypeOK, Asleep
<1>3. left' \in Nat /\ (up => due' < left')
  BY <1>1, <1>2, Parameters
<1>4. mail' \in Seq(Nat) /\ Len(mail') = 1 /\ mail' = <<b>>
  BY DEF HostWrites
<1>5. at' = "run" /\ then' = p /\ UNCHANGED <<rdy, up, held, taken>>
  BY DEF HostWrites, Runs
<1>6. TypeOK'
  BY <1>2, <1>3, <1>4, <1>5 DEF IInv, TypeOK
<1>7. Unread'
  BY <1>2, <1>3, <1>5 DEF Unread
<1>8. Asleep'
  BY <1>2, <1>4, <1>5 DEF IInv, Asleep
<1>9. Thence'
  BY <1>5 DEF Thence
<1> QED
  BY <1>6, <1>7, <1>8, <1>9 DEF IInv

LEMMA TakeInv ==
  ASSUME IInv, Take PROVE IInv'
<1> USE DEF IInv, TypeOK
<1>1. mail[1] \in Nat
  BY DEF Take
<1>2. taken' \in Seq(Nat)
  BY <1>1 DEF Take
<1>3. held' \in Nat /\ due' \in Nat
  BY Parameters DEF Take
<1>4. mail' \in Seq(Nat) /\ Len(mail') = 0
  BY DEF Take
<1>5. /\ UNCHANGED <<queue, count, stops, at, left, then>>
      /\ rdy' \in BOOLEAN /\ mail' = <<>> /\ up' = TRUE
  BY DEF Take, Host
<1> QED
  BY <1>2, <1>3, <1>4, <1>5 DEF Unread, Asleep, Thence

LEMMA PassInv ==
  ASSUME IInv, Pass PROVE IInv'
<1> USE DEF IInv, TypeOK
<1> DEFINE d == IF due # Never /\ due < left THEN due ELSE left
<1>1. d \in Nat /\ d <= left /\ (due # Never => d <= due)
  BY DEF Pass, Never
<1>2. left' \in Nat /\ due' \in Nat \cup {Never}
  BY <1>1 DEF Pass, Never
<1>3. Unread'
  <2> SUFFICES ASSUME up, mail # <<>> PROVE at' = "run" /\ 0 <= due' /\ due' < left'
    BY DEF Pass, Unread
  <2>1. due # Never /\ due < left /\ at = "run"
    BY DEF Unread, Never
  <2>2. left' = left - due /\ due' = due - due /\ due > 0
    BY <2>1 DEF Pass, Never
  <2> QED
    BY <2>1, <2>2 DEF Pass
<1>4. due # Never => due' # Never
  BY <1>1, <1>2 DEF Pass, Never
<1> QED
  BY <1>2, <1>3, <1>4 DEF Pass, Host, Asleep, Thence

LEMMA NextInv ==
  ASSUME IInv, [Next]_vars PROVE IInv'
<1> USE DEF IInv, TypeOK
<1>1. CASE Queue
  <2>1. PICK n \in 1..(MaxBytes - count) :
          queue' = queue \o [i \in 1..n |-> count + i] /\ count' = count + n
    BY <1>1 DEF Queue
  <2>2. MaxBytes \in Nat
    BY HostFeedAssumption
  <2>3. [i \in 1..n |-> count + i] \in Seq(Nat)
    BY <2>2, IsASeq
  <2>4. queue' \in Seq(Nat) /\ count' \in Nat
    BY <2>1, <2>2, <2>3
  <2> QED
    BY <1>1, <2>4 DEF Queue, Card, Unread, Asleep, Thence
<1>2. CASE Synth
  BY <1>2 DEF Synth, Card, Unread, Asleep, Thence
<1>3. CASE FeedByte
  <2>1. Head(queue) \in Nat /\ queue' \in Seq(Nat) /\ up
    BY <1>3 DEF FeedByte, Asleep
  <2> QED
    BY <1>3, <2>1, WriteInv DEF FeedByte
<1>4. CASE FeedEnd
  BY <1>4, Parameters DEF FeedEnd, Runs, Card, Unread, Asleep, Thence
<1>5. CASE FeedAgain
  BY <1>5 DEF FeedAgain, Card, Unread, Asleep, Thence
<1>6. CASE Stop
  <2>1. queue' \in Seq(Nat) /\ count' \in Nat /\ stops' \in Nat
    BY <1>6 DEF Stop
  <2> QED
    BY <1>6, <2>1, WriteInv DEF Stop, Clear
<1>7. CASE Reset
  <2>1. queue' \in Seq(Nat) /\ mail' \in Seq(Nat) /\ Len(mail') = 0 /\ taken' \in Seq(Nat)
    BY <1>7 DEF Reset
  <2>2. /\ rdy' \in BOOLEAN
        /\ held' \in Nat
        /\ stops' \in Nat
    <3>1. held' = 0 /\ stops' = stops + 1 /\ (rdy' = TRUE \/ rdy' = FALSE)
      BY <1>7 DEF Reset
    <3>2. stops \in Nat
      OBVIOUS
    <3> HIDE DEF IInv, TypeOK
    <3>3. rdy' \in BOOLEAN
      BY <3>1, Zenon
    <3> QED
      BY <3>1, <3>2, <3>3
  <2>3. /\ due' \in Nat \cup {Never} /\ up' \in BOOLEAN
        /\ ~up' => rdy' = FALSE /\ due' # Never /\ held' = 0
    <3>1. CASE rdy' = TRUE /\ up' = TRUE /\ due' = Never
      BY <3>1
    <3>2. CASE rdy' = FALSE /\ up' = FALSE /\ due' \in Boots
      <4>1. held' = 0
        BY <1>7 DEF Reset
      <4>2. due' \in Nat
        BY <3>2, Parameters
      <4>3. due' # Never
        BY <4>2 DEF Never
      <4>4. up' \in BOOLEAN
        BY <3>2, Zenon
      <4> HIDE DEF IInv, TypeOK
      <4> QED
        BY <3>2, <4>1, <4>2, <4>3, <4>4, Zenon
    <3> QED
      BY <1>7, <3>1, <3>2 DEF Reset
  <2>4. UNCHANGED <<at, left, then, count>> /\ mail' = <<>> /\ then # "feed"
    BY <1>7 DEF Reset, Thence
  <2> QED
    BY <2>1, <2>2, <2>3, <2>4 DEF Unread, Asleep, Thence
<1>8. CASE Pass
  BY <1>8, PassInv
<1>9. CASE Returns
  BY <1>9 DEF Returns, Card, Host, Unread, Asleep, Thence
<1>10. CASE Take
  BY <1>10, TakeInv
<1>11. CASE Raise
  BY <1>11 DEF Raise, Host, Unread, Asleep, Thence, Never
<1>12. CASE Speak
  BY <1>12 DEF Speak, Host, Unread, Asleep, Thence
<1>13. CASE UNCHANGED vars
  BY <1>13 DEF vars, Unread, Asleep, Thence
<1> QED
  BY <1>1, <1>2, <1>3, <1>4, <1>5, <1>6, <1>7, <1>8, <1>9, <1>10, <1>11, <1>12, <1>13
  DEF Next

LEMMA SpecInv == Spec => []IInv
BY InitInv, NextInv, PTL DEF Spec

\* Whatever the pace, no write of the host overwrites a byte that waits, but a
\* stop's Ctrl-X that of the stop before, on a card whose boot gave up.
THEOREM FedSafely == Spec => []NoOverrun
<1>1. IInv => NoOverrun
  BY DEF IInv, Unread, Asleep, NoOverrun
<1> QED
  BY <1>1, SpecInv, PTL

-----------------------------------------------------------------------------
(* The refinement.                                                         *)

\* A write moves a byte from the queue to an empty mailbox, and the line that
\* both make up stays the same.
LEMMA WriteMovesByte ==
  ASSUME IInv, FeedByte PROVE mail' \o queue' = mail \o queue /\ taken' = taken
<1> USE DEF IInv, TypeOK
<1>1. mail = <<>> /\ queue # <<>> /\ queue' = Tail(queue) /\ mail' = <<Head(queue)>>
  BY DEF FeedByte, HostWrites, Unread, Asleep
<1>2. <<Head(queue)>> \o Tail(queue) = queue
  BY <1>1
<1> QED
  BY <1>1, <1>2 DEF FeedByte, HostWrites

\* Sequences of at most one element.
LEMMA OneByte ==
  ASSUME NEW m \in Seq(Nat), Len(m) = 1 PROVE m[1] \in Nat /\ m = <<m[1]>>
<1>2. m[1] \in Nat
  BY ElementOfSeq
<1>3. <<m[1]>> \in Seq(Nat) /\ Len(<<m[1]>>) = 1 /\ <<m[1]>>[1] = m[1]
  BY <1>2
<1>4. \A i \in 1 .. Len(m) : m[i] = <<m[1]>>[i]
  BY <1>3
<1> QED
  BY <1>2, <1>3, <1>4, SeqEqual

LEMMA FirstOfLine ==
  ASSUME NEW b \in Nat, NEW q \in Seq(Nat)
  PROVE  <<b>> \o q # <<>> /\ Head(<<b>> \o q) = b /\ Tail(<<b>> \o q) = q
<1> DEFINE s == <<b>> \o q
<1>1. s \in Seq(Nat) /\ Len(s) = 1 + Len(q) /\ s[1] = b
  BY ConcatProperties
<1>2. \A i \in 1 .. Len(q) : s[i + 1] = q[i]
  BY ConcatProperties
<1>3. s # <<>> /\ Head(s) = b
  BY <1>1, EmptySeq, HeadTailProperties
<1>4. Tail(s) \in Seq(Nat) /\ Len(Tail(s)) = Len(q) /\ \A i \in 1 .. Len(q) : Tail(s)[i] = q[i]
  BY <1>1, <1>2, <1>3, HeadTailProperties, LenProperties
<1>5. Tail(s) = q
  BY <1>4, SeqEqual
<1> QED
  BY <1>3, <1>5

LEMMA LineGrows ==
  ASSUME NEW m \in Seq(Nat), NEW q \in Seq(Nat), NEW s \in Seq(Nat)
  PROVE  m \o (q \o s) = (m \o q) \o s
<1>1. (m \o q) \o s = m \o (q \o s)
  BY ConcatAssociative, SMTT(60)
<1> QED
  BY <1>1, Zenon

LEMMA TakeArrives ==
  ASSUME IInv, Take PROVE Channel!Arrive
<1> USE DEF IInv, TypeOK
<1>1. mail = <<mail[1]>> /\ mail[1] \in Nat
  <2>1. mail \in Seq(Nat) /\ Len(mail) = 1
    BY EmptySeq DEF Take
  <2> QED
    BY <2>1, OneByte
<1>2. mail \o queue # <<>> /\ Head(mail \o queue) = mail[1] /\ Tail(mail \o queue) = queue
  <2>1. queue \in Seq(Nat)
    OBVIOUS
  <2> HIDE DEF IInv, TypeOK
  <2> DEFINE b == mail[1]
  <2>2. <<b>> \o queue # <<>> /\ Head(<<b>> \o queue) = b /\ Tail(<<b>> \o queue) = queue
    BY <1>1, <2>1, FirstOfLine
  <2> QED
    BY <1>1, <2>2, Zenon
<1>3. mail' \o queue' = queue /\ taken' = Append(taken, mail[1])
  BY DEF Take, Host
<1> QED
  BY <1>2, <1>3 DEF Channel!Arrive

LEMMA QueuePuts ==
  ASSUME IInv, Queue PROVE Channel!Put
<1> USE DEF IInv, TypeOK
<1>0. MaxBytes \in Nat
  BY HostFeedAssumption
<1>1. PICK n \in 1..(MaxBytes - count) : queue' = queue \o [i \in 1..n |-> count + i]
  BY DEF Queue
<1> DEFINE new == [i \in 1..n |-> count + i]
           lin == mail \o queue
<1>2. new \in Seq(Nat) /\ lin \in Seq(Nat)
  BY <1>0, IsASeq
<1>3. mail' \o queue' = lin \o new
  <2>1. mail \o (queue \o new) = (mail \o queue) \o new
    <3>1. queue \in Seq(Nat) /\ mail \in Seq(Nat) /\ new \in Seq(Nat)
      BY <1>2
    <3> HIDE DEF new
    <3> QED
      BY <3>1, LineGrows
  <2> QED
    BY <1>1, <2>1 DEF Queue, Card
<1>4. SubSeq(lin \o new, Len(lin) + 1, Len(lin \o new)) = new
  <2> HIDE DEF new, lin
  <2> QED
    BY <1>2
<1>5. lin \o new \in Seq(Nat)
  <2> HIDE DEF new, lin
  <2> QED
    BY <1>2
<1> QED
  BY <1>3, <1>4, <1>5 DEF Channel!Put, Queue, Card

LEMMA NextChannel ==
  ASSUME IInv, [Next]_vars
  PROVE  [Channel!Put \/ Channel!Arrive \/ Channel!Stop \/ Channel!Reset]_(Channel!channelVars)
<1> USE DEF Channel!channelVars
<1>1. CASE Queue
  BY <1>1, QueuePuts
<1>2. CASE FeedByte
  BY <1>2, WriteMovesByte
<1>3. CASE Take
  BY <1>3, TakeArrives
<1>4. CASE Stop
  BY <1>4 DEF Stop, HostWrites, Channel!Stop
<1>5. CASE Reset
  BY <1>5 DEF Reset, Channel!Reset
<1>6. CASE Synth \/ FeedEnd \/ FeedAgain \/ Pass \/ Returns \/ Raise \/ Speak \/ UNCHANGED vars
  BY <1>6 DEF Synth, FeedEnd, FeedAgain, Pass, Returns, Raise, Speak, Card, Host, vars
<1> QED
  BY <1>1, <1>2, <1>3, <1>4, <1>5, <1>6 DEF Next

\* The feed implements the channel: each byte arrives once and in order, but
\* for those that a stop or a reset drops.
THEOREM FeedImplementsChannel == Spec => ImplementsByteChannel
<1>1. Init => Channel!Init
  BY DEF Init, Channel!Init
<1> QED
  BY <1>1, NextChannel, SpecInv, PTL DEF Spec, ImplementsByteChannel, Channel!Spec

-----------------------------------------------------------------------------
(* The feed keeps pace with RDY.                                           *)

\* The host runs longer after a byte than the card takes to be ready again.
InTime == \A d \in Drops, b \in Backs : d + b < AfterByte

\* The buffer is full when the card does not come back by itself, and has room
\* for the byte that is on its way.
Buffered ==
  /\ held <= Room
  /\ due = Never => mail = <<>> /\ (rdy \/ held = Room)
  /\ mail = <<>> /\ rdy => held < Room
  /\ mail # <<>> /\ mail[1] # Clear => held < Room

\* While the card runs after a byte of the feed, its next steps are in time.
Ahead ==
  then = "feed" =>
    /\ at \in {"run", "feed"}
    /\ at = "feed" => due = Never
    /\ at = "run" /\ mail # <<>> => \A b \in Backs : due + b < left
    /\ at = "run" /\ mail = <<>> /\ due # Never => due < left

Paced == Buffered /\ Ahead

LEMMA PacedInit == Init => Paced
BY HostFeedAssumption DEF Init, Paced, Buffered, Ahead

LEMMA PacedWrite ==
  ASSUME IInv, IInv', Paced, NEW b, HostWrites(b), at # "run",
         \/ b = Clear /\ Runs(AfterFeed, "host")
         \/ rdy /\ InTime /\ Runs(AfterByte, "feed")
  PROVE  Paced'
<1> USE DEF IInv, TypeOK
<1>1. b = Clear \/ (up /\ rdy /\ mail = <<>>)
  BY DEF Unread, Asleep
<1>2. mail' = <<b>> /\ mail'[1] = b /\ mail' # <<>> /\ due' \in Nat
      /\ (up => due' \in Drops) /\ UNCHANGED <<rdy, held>>
  BY Parameters DEF HostWrites, Asleep
<1>3. at' = "run" /\ left' \in Nat
  BY DEF Runs
<1>4. Buffered'
  BY <1>1, <1>2 DEF Paced, Buffered, Never
<1>5. CASE b = Clear /\ Runs(AfterFeed, "host")
  BY <1>4, <1>5 DEF Paced, Ahead, Runs
<1>6. CASE rdy /\ InTime /\ Runs(AfterByte, "feed")
  <2>1. PICK o \in Overshoots : left' = AfterByte + o
    BY <1>6 DEF Runs
  <2>2. o \in Nat /\ AfterByte \in Nat /\ \A d \in Backs : d \in Nat
    BY Parameters
  <2>3. \A d \in Backs : due' + d < left'
    BY <1>2, <1>6, <2>1, <2>2 DEF InTime, Asleep
  <2> QED
    BY <1>2, <1>3, <1>4, <2>3 DEF Paced, Ahead
<1> QED
  BY <1>5, <1>6

LEMMA PacedPass ==
  ASSUME IInv, Paced, Pass PROVE Paced'
<1> USE DEF IInv, TypeOK
<1> DEFINE d == IF due # Never /\ due < left THEN due ELSE left
<1>1. /\ at = "run" /\ left > 0 /\ left' = left - d
      /\ due' = IF due = Never THEN Never ELSE due - d
      /\ UNCHANGED <<queue, count, stops, at, then, mail, rdy, held, taken>>
  BY DEF Pass, Host
<1>2. d \in Nat /\ d <= left /\ (due # Never => d <= due)
  BY DEF Never
<1> HIDE DEF d
<1>3. due' = Never => due = Never
  BY <1>1, <1>2 DEF Never
<1>4. Buffered'
  BY <1>1, <1>3 DEF Paced, Buffered
<1>5. then = "feed" /\ mail = <<>> /\ due # Never => due' < left'
  <2> SUFFICES ASSUME then = "feed", mail = <<>>, due # Never PROVE due' < left'
    OBVIOUS
  <2>1. due < left /\ due \in Nat
    BY <1>1 DEF Paced, Ahead, Never
  <2> QED
    BY <1>1, <1>2, <2>1
<1>6. then = "feed" /\ mail # <<>> => \A b \in Backs : due' + b < left'
  <2> SUFFICES ASSUME then = "feed", mail # <<>>, NEW b \in Backs PROVE due' + b < left'
    OBVIOUS
  <2>1. due + b < left /\ b \in Nat /\ due # Never /\ due \in Nat
    BY <1>1, Parameters DEF Paced, Ahead, Buffered, Never
  <2>2. due' = due - d /\ left' = left - d
    BY <1>1, <2>1
  <2> QED
    BY <1>2, <2>1, <2>2
<1>7. Ahead'
  BY <1>1, <1>5, <1>6 DEF Paced, Ahead
<1> QED
  BY <1>4, <1>7 DEF Paced

LEMMA PacedCard ==
  ASSUME IInv, IInv', Paced, Take \/ Raise \/ Speak \/ Returns PROVE Paced'
<1> USE DEF IInv, TypeOK
<1>1. CASE Take
  <2>1. mail # <<>> /\ mail' = <<>> /\ rdy' = FALSE /\ due = 0 /\ due' \in Backs /\ due' \in Nat
        /\ held' = (IF mail[1] = Clear THEN 0 ELSE held + 1) /\ at = "run"
        /\ UNCHANGED <<at, left, then>>
    BY <1>1, Parameters DEF Take
  <2>2. held' <= Room
    BY <2>1, HostFeedAssumption DEF Paced, Buffered
  <2>3. Buffered'
    BY <2>1, <2>2 DEF Buffered, Never
  <2>4. then = "feed" => due' < left'
    BY <2>1 DEF Paced, Ahead
  <2> QED
    BY <2>1, <2>3, <2>4 DEF Paced, Ahead
<1>2. CASE Raise
  <2>1. mail = <<>> /\ rdy' = (held < Room) /\ due' = Never /\ at = "run"
        /\ UNCHANGED <<at, left, then, mail, held>>
    BY <1>2 DEF Raise
  <2>2. rdy' => held < Room
    BY <2>1
  <2>3. ~rdy' => ~(held < Room)
    BY <2>1
  <2>4. ~rdy' => held = Room
    BY <2>3, HostFeedAssumption DEF Paced, Buffered
  <2>5. Buffered'
    BY <2>1, <2>2, <2>4 DEF Paced, Buffered
  <2> QED
    BY <2>1, <2>5 DEF Paced, Ahead
<1>3. CASE Speak
  <2>1. held > 0 /\ held' = held - 1 /\ rdy' = (rdy \/ due = Never) /\ at = "run"
        /\ UNCHANGED <<at, left, then, mail, due>>
    BY <1>3 DEF Speak
  <2>2. held' < Room /\ Room \in Nat
    BY <2>1, HostFeedAssumption DEF Paced, Buffered
  <2>3. due = Never => rdy'
    BY <2>1
  <2>4. Buffered'
    BY <2>1, <2>2, <2>3 DEF Paced, Buffered
  <2> QED
    BY <2>1, <2>4 DEF Paced, Ahead
<1>4. CASE Returns
  <2>1. at = "run" /\ left = 0 /\ at' = then /\ UNCHANGED <<mail, rdy, due, held, left, then>>
    BY <1>4 DEF Returns, Card
  <2>2. up => mail = <<>>
    BY <2>1 DEF Unread
  <2>3. then = "feed" => due = Never
    BY <2>1, <2>2 DEF Paced, Ahead, Thence, Never
  <2> QED
    BY <2>1, <2>3 DEF Paced, Ahead, Buffered
<1> QED
  BY <1>1, <1>2, <1>3, <1>4

LEMMA PacedStep ==
  ASSUME InTime, IInv, IInv', Paced, [Next]_vars PROVE Paced'
<1>1. CASE Queue \/ Synth \/ FeedAgain \/ UNCHANGED vars
  BY <1>1 DEF Queue, Synth, FeedAgain, vars, Card, Paced, Ahead, Buffered
<1>2. CASE FeedByte
  BY <1>2, PacedWrite DEF FeedByte
<1>3. CASE Stop
  BY <1>3, PacedWrite DEF Stop
<1>4. CASE FeedEnd
  BY <1>4 DEF FeedEnd, Runs, Card, Paced, Ahead, Buffered
<1>5. CASE Reset
  <2>1. mail' = <<>> /\ held' = 0 /\ at = "host" /\ UNCHANGED <<at, left, then>>
        /\ (rdy' = TRUE \/ (rdy' = FALSE /\ due' \in Boots))
    BY <1>5 DEF Reset
  <2>2. Room \in Nat /\ Room > 0 /\ \A d \in Boots : d \in Nat /\ d # Never
    BY HostFeedAssumption DEF Never
  <2>3. Buffered'
    BY <2>1, <2>2 DEF Buffered
  <2> QED
    BY <2>1, <2>3 DEF Paced, Ahead
<1>6. CASE Pass
  BY <1>6, PacedPass
<1> QED
  BY <1>1, <1>2, <1>3, <1>4, <1>5, <1>6, PacedCard DEF Next

\* For every pace at which the card is ready again before the host looks: the
\* feed leaves bytes behind only when the buffer of the card is full.
THEOREM FeedKeepsPace ==
  ASSUME InTime
  PROVE  Spec => FeedsOn
<1>1. IInv /\ Paced => [FeedEnd /\ then = "feed" => queue = <<>> \/ held = Room]_vars
  BY DEF FeedEnd, Paced, Ahead, Buffered
<1>2. IInv /\ IInv' /\ Paced /\ [Next]_vars => Paced'
  BY PacedStep
<1> QED
  BY <1>1, <1>2, PacedInit, SpecInv, PTL DEF Spec, FeedsOn
-----------------------------------------------------------------------------
(* Numbers: least and greatest elements, quotients, distances.             *)

LEMMA DacConstants ==
  /\ ResampHalf \in Nat \ {0} /\ Isr \in Nat \ {0} /\ IsrMax \in Nat \ {0} /\ CpuHz \in Nat \ {0}
  /\ Rate \in Nat \ {0} /\ IsrMax <= 2 * Isr /\ ResampHalf * IsrMax \in Nat
  /\ IsrMax <= ResampHalf * IsrMax /\ MaxTime * Rate \in Nat
  /\ \A g \in Gaps \cup Waits : g \in Nat \ {0}
  <1>1. /\ ResampHalf \in Nat \ {0} /\ Isr \in Nat \ {0} /\ IsrMax \in Nat \ {0}
        /\ CpuHz \in Nat \ {0} /\ Rate \in Nat \ {0} /\ IsrMax <= 2 * Isr /\ MaxTime \in Nat
        /\ \A g \in Gaps \cup Waits : g \in Nat \ {0}
    BY DacAssumption
  <1>2. \A a, b \in Nat \ {0} : a * b \in Nat /\ b <= a * b
    OBVIOUS
  <1>3. MaxTime * Rate \in Nat
    BY <1>1
  <1>4. QED
    BY <1>1, <1>2, <1>3

LEMMA LeastOf ==
  ASSUME NEW T \in SUBSET Nat, T # {}
  PROVE  \E m \in T : \A k \in T : m <= k
  <1> DEFINE R == OpToRel(<, Nat)
  <1>1. IsWellFoundedOn(R, Nat)
    BY NatLessThanWellFounded
  <1>2. \A x, y \in Nat : x < y => <<x, y>> \in R
    BY DEF OpToRel
  <1> HIDE DEF R
  <1>3. PICK m \in T : \A k \in T : ~(<<k, m>> \in R)
    BY <1>1, WFMin
  <1>4. ASSUME NEW k \in T PROVE m <= k
    <2>1. ~(k < m)
      BY <1>2, <1>3
    <2>2. QED
      BY <2>1
  <1>5. QED
    BY <1>4

\* A set of integers that is bounded above has a greatest one.
LEMMA GreatestOf ==
  ASSUME NEW b \in Int, NEW S \in SUBSET Int, \A y \in S : y <= b, S # {}
  PROVE  Max(S) \in S /\ \A y \in S : y <= Max(S)
  <1> DEFINE T == {b - y : y \in S}
  <1>1. T \in SUBSET Nat /\ T # {}
    <2>1. ASSUME NEW y \in S PROVE b - y \in Nat
      OBVIOUS
    <2>2. QED
      BY <2>1
  <1> HIDE DEF T
  <1>2. PICK m \in T : \A k \in T : m <= k
    BY <1>1, LeastOf
  <1>3. PICK x \in S : m = b - x
    BY <1>2 DEF T
  <1>4. \A y \in S : x >= y
    <2> TAKE y \in S
    <2>1. b - y \in T
      BY DEF T
    <2>2. b - x <= b - y
      BY <1>2, <1>3, <2>1
    <2>3. QED
      BY <2>2
  <1>5. \E z \in S : \A y \in S : z >= y
    BY <1>4
  <1>6. Max(S) \in S /\ \A y \in S : Max(S) >= y
    BY <1>5, Zenon DEF Max
  <1>7. QED
    BY <1>6

LEMMA GreatestIs ==
  ASSUME NEW S \in SUBSET Int, NEW x \in S, \A y \in S : y <= x
  PROVE  Max(S) = x
  <1>1. Max(S) \in S /\ \A y \in S : y <= Max(S)
    BY GreatestOf
  <1>2. x \in Int /\ Max(S) \in Int /\ x <= Max(S) /\ Max(S) <= x
    BY <1>1
  <1> DEFINE y == Max(S)
  <1> HIDE DEF y
  <1>3. y = x
    BY <1>2 DEF y
  <1>4. QED
    BY <1>3 DEF y

\* The instants of the output's grid go on.
LEMMA Instants ==
  ASSUME NEW m \in Nat, NEW n \in Nat, m <= n
  PROVE  SampleCycle(m) \in Nat /\ SampleCycle(m) <= SampleCycle(n)
  <1>1. Rate \in Nat \ {0} /\ CpuHz \in Nat \ {0}
    BY DacConstants
  <1> DEFINE a == m * CpuHz
             b == n * CpuHz
  <1>2. a \in Nat /\ b \in Nat /\ a <= b
    BY <1>1
  <1> HIDE DEF a, b
  <1>3. \A x \in Nat : /\ x \div Rate \in Int /\ Rate * (x \div Rate) <= x
                       /\ x < Rate * (x \div Rate) + Rate
    BY <1>1
  <1>4. \A p, q \in Int : Rate * p < Rate * q + Rate => p <= q
    BY <1>1
  <1>5. /\ a \div Rate \in Int /\ b \div Rate \in Int
        /\ Rate * (a \div Rate) < Rate * (b \div Rate) + Rate
    BY <1>1, <1>2, <1>3
  <1>6. a \div Rate <= b \div Rate
    BY <1>4, <1>5
  <1>7. a \div Rate \in Nat
    BY <1>1, <1>2
  <1>8. QED
    BY <1>6, <1>7 DEF SampleCycle, a, b

\* Writes of one utterance are no further apart than IsrMax each.
LEMMA SpokenApart ==
  ASSUME NEW L \in Seq(Nat), NEW a \in 1..Len(L), NEW b \in a..Len(L),
         \A e \in a + 1..b : L[e] - L[e - 1] <= IsrMax
  PROVE  L[b] - L[a] <= (b - a) * IsrMax
  <1>1. IsrMax \in Nat /\ a \in Nat /\ b \in Nat /\ b - a \in Nat
    BY DacConstants
  <1> DEFINE Far == {i \in Nat : i <= b - a /\ L[a + i] - L[a] > i * IsrMax}
  <1>2. ASSUME Far # {}
        PROVE  FALSE
    <2>1. PICK i \in Far : \A k \in Far : i <= k
      BY <1>2, LeastOf
    <2>2. i \in Nat /\ i <= b - a /\ L[a + i] - L[a] > i * IsrMax
      BY <2>1
    <2>3. i # 0
      BY <1>1, <2>2
    <2>4. i - 1 \in Nat /\ i - 1 \notin Far
      BY <2>1, <2>2, <2>3
    <2>5. ~(L[a + (i - 1)] - L[a] > (i - 1) * IsrMax)
      BY <1>1, <2>2, <2>4
    <2>6. a + i \in a + 1..b /\ a + (i - 1) = (a + i) - 1 /\ a + i \in 1..Len(L)
          /\ (a + i) - 1 \in 1..Len(L)
      <3>1. i \in Nat /\ i <= b - a /\ i # 0
        BY <2>2, <2>3
      <3>2. Len(L) \in Nat /\ 1 <= a /\ a <= b /\ b <= Len(L)
        BY <1>1
      <3> HIDE DEF Far
      <3>3. QED
        BY <1>1, <3>1, <3>2
    <2>7. L[a + i] - L[(a + i) - 1] <= IsrMax
      BY <2>6
    <2>8. (i - 1) * IsrMax = i * IsrMax - IsrMax /\ i * IsrMax \in Int
      BY <1>1, <2>2
    <2>9. L[a + i] \in Int /\ L[(a + i) - 1] \in Int /\ L[a] \in Int
      <3>1. \A e \in 1..Len(L) : L[e] \in Int
        OBVIOUS
      <3>2. QED
        BY <2>6, <3>1, Zenon
    <2> HIDE DEF Far
    <2>10. (i - 1) * IsrMax \in Int /\ IsrMax \in Int
      BY <1>1, <2>2
    <2>11. ~(L[(a + i) - 1] - L[a] > (i - 1) * IsrMax)
      BY <2>5, <2>6
    <2> DEFINE x == L[a + i]
               y == L[(a + i) - 1]
               z == L[a]
               u == i * IsrMax
               v == (i - 1) * IsrMax
    <2>12. /\ x \in Int /\ y \in Int /\ z \in Int /\ u \in Int /\ v \in Int /\ IsrMax \in Int
           /\ x - y <= IsrMax /\ ~(y - z > v) /\ v = u - IsrMax /\ x - z > u
      BY <2>2, <2>7, <2>8, <2>9, <2>10, <2>11
    <2> HIDE DEF x, y, z, u, v
    <2>13. QED
      BY <2>12
  <1>3. b - a \notin Far
    BY <1>2
  <1>4. ~(L[a + (b - a)] - L[a] > (b - a) * IsrMax) /\ a + (b - a) = b
    BY <1>1, <1>3
  <1>5. L[b] \in Int /\ L[a] \in Int /\ (b - a) * IsrMax \in Int
    BY <1>1
  <1>6. QED
    BY <1>4, <1>5

-----------------------------------------------------------------------------
(* The invariant.                                                          *)

DacTypeOK == /\ now \in Nat /\ next \in Nat /\ cursor \in Nat \ {0}
             /\ log \in Seq(Nat) /\ events \in Seq([at : Nat, nr : Nat])

\* Writes that are in the queue no more.
Gone == Len(log) - Len(events)

\* The queue is the end of the recording, whose instants grow.
Suffix == /\ Gone \in Nat
          /\ \A i \in 1..Len(events) : events[i] = [at |-> log[Gone + i], nr |-> Gone + i]
Ordered == /\ \A e, f \in 1..Len(log) : e < f => log[e] < log[f]
           /\ \A e \in 1..Len(log) : log[e] <= now

\* The cursor is in the queue, a kernel behind its start when something has
\* been retired, and no further than the next sample.
CursorIn == /\ cursor = 1 \/ cursor <= Len(events)
            /\ Gone > 0 => cursor > ResampHalf
Passed == cursor > 1 => events[cursor].at <= SampleCycle(next)

\* A sample lies a kernel behind the time unless it was drained.
Fresh == \A s \in pulled.samples :
           /\ s.at \in Nat /\ s.at < now
           /\ ~pulled.drained => s.at + ResampHalf * IsrMax < now
           /\ \A t \in s.from : t[1] \in Int /\ t[1] <= ResampHalf

DacInv == /\ DacTypeOK /\ Suffix /\ Ordered /\ CursorIn /\ Passed /\ Fresh
          /\ TapsAreReal /\ HoldsLastLevel

\* The left write of a sample's bracket, in the recording.
LEMMA BracketIs ==
  ASSUME DacInv, NEW c \in Nat, NEW b \in 0..Len(log),
         b > 0 => log[b] <= c, b < Len(log) => c < log[b + 1]
  PROVE  Bracket(c) = b
  <1>1. log \in Seq(Nat) /\ \A e, f \in 1..Len(log) : e < f => log[e] < log[f]
    BY DEF DacInv, DacTypeOK, Ordered
  <1>2. \A e \in 1..Len(log) : log[e] \in Nat
    BY <1>1
  <1> DEFINE S == {0} \cup {e \in 1..Len(log) : log[e] <= c}
  <1>3. S \in SUBSET Int /\ b \in S
    OBVIOUS
  <1>4. \A e \in S : e <= b
    <2>1. ASSUME NEW e \in 1..Len(log), log[e] <= c, e > b
          PROVE  FALSE
      <3>1. b + 1 \in 1..Len(log) /\ c < log[b + 1] /\ Len(log) \in Nat
        BY <1>1, <2>1
      <3>2. e = b + 1 \/ log[b + 1] < log[e]
        BY <1>1, <2>1, <3>1
      <3>3. QED
        BY <1>2, <2>1, <3>1, <3>2
    <2>2. QED
      BY <2>1
  <1> HIDE DEF S
  <1>5. Max(S) = b
    BY <1>3, <1>4, GreatestIs
  <1>6. QED
    BY <1>5 DEF Bracket, S

LEMMA BracketIn ==
  ASSUME DacInv, NEW c \in Nat
  PROVE  /\ Bracket(c) \in 0..Len(log)
         /\ Bracket(c) > 0 => log[Bracket(c)] <= c
  <1> DEFINE S == {0} \cup {e \in 1..Len(log) : log[e] <= c}
  <1>1. Len(log) \in Nat
    BY DEF DacInv, DacTypeOK
  <1>2. S \in SUBSET Int /\ S # {} /\ Len(log) \in Int /\ \A e \in S : e <= Len(log)
    BY <1>1
  <1>3. Max(S) \in S
    <2> HIDE DEF S
    <2>1. QED
      BY <1>2, GreatestOf
  <1>4. Max(S) \in 0..Len(log) /\ (Max(S) > 0 => log[Max(S)] <= c)
    BY <1>1, <1>3
  <1>5. Bracket(c) = Max(S)
    BY DEF Bracket
  <1>6. QED
    BY <1>4, <1>5

\* The queue's writes, by their instants.
LEMMA QueueIs ==
  ASSUME DacInv
  PROVE  /\ Gone \in Nat /\ Len(log) \in Nat /\ Len(events) \in Nat
         /\ Gone + Len(events) = Len(log)
         /\ \A i \in 1..Len(events) : /\ events[i].at = log[Gone + i] /\ events[i].nr = Gone + i
                                      /\ Gone + i \in 1..Len(log) /\ log[Gone + i] \in Nat
  <1>1. log \in Seq(Nat) /\ events \in Seq([at : Nat, nr : Nat])
    BY DEF DacInv, DacTypeOK
  <1>2. /\ Gone \in Nat /\ \A i \in 1..Len(events) : events[i] = [at |-> log[Gone + i], nr |-> Gone + i]
    BY DEF DacInv, Suffix
  <1>3. Len(log) \in Nat /\ Len(events) \in Nat /\ Gone + Len(events) = Len(log)
    BY <1>1, <1>2 DEF Gone
  <1>4. \A i \in 1..Len(events) : Gone + i \in 1..Len(log)
    BY <1>2, <1>3
  <1>5. \A e \in 1..Len(log) : log[e] \in Nat
    BY <1>1
  <1>6. ASSUME NEW i \in 1..Len(events)
        PROVE  events[i].at = log[Gone + i] /\ events[i].nr = Gone + i
    <2>1. events[i] = [at |-> log[Gone + i], nr |-> Gone + i]
      BY <1>2
    <2>2. QED
      BY <2>1
  <1>7. QED
    BY <1>2, <1>3, <1>4, <1>5, <1>6

\* Where the cursor comes to stand for an instant of the grid.
LEMMA CursorIs ==
  ASSUME DacInv, NEW c \in Nat, SampleCycle(next) <= c
  PROVE  /\ CursorAt(c) \in Nat /\ cursor <= CursorAt(c)
         /\ CursorAt(c) = 1 \/ CursorAt(c) <= Len(events)
         /\ CursorAt(c) > 1 => events[CursorAt(c)].at <= c
         /\ \A i \in CursorAt(c) + 1..Len(events) : c < events[i].at
  <1> DEFINE S == {cursor} \cup {i \in cursor + 1..Len(events) : events[i].at <= c}
  <1>1. /\ cursor \in Nat \ {0} /\ next \in Nat /\ Len(events) \in Nat
        /\ cursor = 1 \/ cursor <= Len(events)
        /\ cursor > 1 => events[cursor].at <= SampleCycle(next)
    BY QueueIs DEF DacInv, DacTypeOK, CursorIn, Passed
  <1>2. \A i \in 1..Len(events) : events[i].at \in Nat
    BY QueueIs
  <1>3. SampleCycle(next) \in Nat
    BY <1>1, Instants
  <1>4. cursor > 1 => events[cursor].at <= c
    <2>1. cursor > 1 => cursor \in 1..Len(events)
      BY <1>1
    <2>2. QED
      BY <1>1, <1>2, <1>3, <2>1
  <1>5. S \in SUBSET Int /\ S # {} /\ cursor \in S
    BY <1>1
  <1>6. \A i \in S : i <= cursor + Len(events)
    BY <1>1
  <1>7. Max(S) \in S /\ \A i \in S : i <= Max(S)
    <2> HIDE DEF S
    <2>1. cursor + Len(events) \in Int
      BY <1>1
    <2>2. QED
      BY <1>5, <1>6, <2>1, GreatestOf
  <1>8. CursorAt(c) = Max(S)
    BY DEF CursorAt
  <1> DEFINE j == Max(S)
  <1>9. j \in S /\ \A i \in S : i <= j
    BY <1>7
  <1> HIDE DEF j
  <1>10. /\ j \in Nat /\ cursor <= j /\ (j = 1 \/ j <= Len(events))
         /\ j > 1 => events[j].at <= c
    BY <1>1, <1>4, <1>9
  <1>11. \A i \in j + 1..Len(events) : c < events[i].at
    <2> TAKE i \in j + 1..Len(events)
    <2>1. i \in cursor + 1..Len(events) /\ i \in 1..Len(events) /\ i > j
      BY <1>1, <1>10
    <2>2. i \notin S
      BY <1>9, <1>10, <2>1
    <2>3. ~(events[i].at <= c)
      BY <2>1, <2>2
    <2>4. QED
      BY <1>2, <2>1, <2>3
  <1>12. QED
    BY <1>8, <1>10, <1>11 DEF j
\* The left bracket, found by the cursor in what is left of the recording.
LEMMA CursorBrackets ==
  ASSUME DacInv, NEW c \in Nat, SampleCycle(next) <= c, Len(events) > 0
  PROVE  /\ CursorAt(c) \in 1..Len(events)
         /\ events[CursorAt(c)].at > c => Bracket(c) = 0
         /\ events[CursorAt(c)].at <= c => Bracket(c) = Gone + CursorAt(c)
  <1> DEFINE j == CursorAt(c)
  <1>1. /\ j \in Nat /\ cursor <= j /\ (j = 1 \/ j <= Len(events))
        /\ j > 1 => events[j].at <= c
        /\ \A i \in j + 1..Len(events) : c < events[i].at
    BY CursorIs
  <1>2. /\ Gone \in Nat /\ Len(log) \in Nat /\ Len(events) \in Nat /\ Gone + Len(events) = Len(log)
        /\ \A i \in 1..Len(events) : /\ events[i].at = log[Gone + i] /\ events[i].nr = Gone + i
                                     /\ Gone + i \in 1..Len(log) /\ log[Gone + i] \in Nat
    BY QueueIs
  <1>3. cursor \in Nat \ {0} /\ (Gone > 0 => cursor > ResampHalf) /\ ResampHalf \in Nat \ {0}
    BY DacConstants DEF DacInv, DacTypeOK, CursorIn
  <1> HIDE DEF j
  <1>4. j \in 1..Len(events)
    BY <1>1, <1>2, <1>3
  <1>5. ASSUME events[j].at > c
        PROVE  Bracket(c) = 0
    <2>1. j = 1 /\ Gone = 0
      <3>1. events[j].at \in Nat
        BY <1>2, <1>4
      <3>2. ~(events[j].at <= c)
        BY <1>5, <3>1
      <3>3. j = 1
        BY <1>1, <1>4, <3>2
      <3>4. QED
        BY <1>1, <1>2, <1>3, <3>3
    <2>2. c < log[0 + 1] /\ 0 \in 0..Len(log)
      BY <1>2, <1>4, <1>5, <2>1
    <2>3. QED
      BY <2>2, BracketIs
  <1>6. ASSUME events[j].at <= c
        PROVE  Bracket(c) = Gone + j
    <2>1. Gone + j \in 0..Len(log) /\ log[Gone + j] <= c
      BY <1>2, <1>4, <1>6
    <2>2. ASSUME Gone + j < Len(log)
          PROVE  c < log[(Gone + j) + 1]
      <3>1. j + 1 \in j + 1..Len(events) /\ j + 1 \in 1..Len(events) /\ Gone + (j + 1) = (Gone + j) + 1
        BY <1>2, <1>4, <2>2
      <3>2. c < events[j + 1].at /\ events[j + 1].at = log[Gone + (j + 1)]
        BY <1>1, <1>2, <3>1
      <3>3. QED
        BY <3>1, <3>2
    <2>3. QED
      BY <2>1, <2>2, BracketIs
  <1>7. QED
    BY <1>4, <1>5, <1>6 DEF j

\* A sample of the grid, at the time it is made.
LEMMA SampleRight ==
  ASSUME DacInv, NEW c \in Nat, SampleCycle(next) <= c
  PROVE  /\ Sample(c).at = c
         /\ \A t \in Sample(c).from : t[1] \in Int /\ t[1] <= ResampHalf
         /\ Sample(c).held /\ Bracket(c) > 0 => Sample(c).from = {<<0, Bracket(c)>>}
         /\ Bracket(c) > 0 /\ Bracket(c) < Len(log) /\ Spoken(Bracket(c), Bracket(c) + 1) =>
              /\ ~Sample(c).held
              /\ \A t \in Sample(c).from :
                   /\ t[1] <= 0 => t[2] = Max({1, Bracket(c) + t[1]})
                   /\ t[1] > 0 /\ Bracket(c) + t[1] <= Len(log) => t[2] = Bracket(c) + t[1]
  <1> DEFINE j == CursorAt(c)
  <1>1. /\ Gone \in Nat /\ Len(log) \in Nat /\ Len(events) \in Nat /\ Gone + Len(events) = Len(log)
        /\ \A i \in 1..Len(events) : /\ events[i].at = log[Gone + i] /\ events[i].nr = Gone + i
                                     /\ Gone + i \in 1..Len(log) /\ log[Gone + i] \in Nat
    BY QueueIs
  <1>2. /\ cursor \in Nat \ {0} /\ (cursor = 1 \/ cursor <= Len(events))
        /\ Gone > 0 => cursor > ResampHalf
        /\ ResampHalf \in Nat \ {0} /\ Isr \in Nat /\ IsrMax \in Nat /\ IsrMax <= 2 * Isr
        /\ events \in Seq([at : Nat, nr : Nat])
    BY DacConstants DEF DacInv, DacTypeOK, CursorIn
  <1>3. \A e : Held(c, e).at = c /\ Held(c, e).held /\ Held(c, e).from = {<<0, e>>}
    BY DEF Held
  <1>4. ASSUME NEW e, Sample(c) = Held(c, e), Bracket(c) > 0 => e = Bracket(c),
               ~(Bracket(c) > 0 /\ Bracket(c) < Len(log) /\ Spoken(Bracket(c), Bracket(c) + 1))
        PROVE  /\ Sample(c).at = c
               /\ \A t \in Sample(c).from : t[1] \in Int /\ t[1] <= ResampHalf
               /\ Sample(c).held /\ Bracket(c) > 0 => Sample(c).from = {<<0, Bracket(c)>>}
    <2>1. Sample(c).at = c /\ Sample(c).from = {<<0, e>>}
      BY <1>3, <1>4
    <2>2. <<0, e>>[1] = 0 /\ 0 \in Int /\ 0 <= ResampHalf
      BY <1>2
    <2>3. \A t \in {<<0, e>>} : t[1] \in Int /\ t[1] <= ResampHalf
      BY <2>2
    <2>4. QED
      BY <1>4, <2>1, <2>3
  <1>5. CASE events = <<>>
    <2>1. Len(events) = 0
      BY <1>5
    <2>2. Gone = 0 /\ Len(log) = 0
      BY <1>1, <1>2, <2>1
    <2>3. ~(Bracket(c) > 0)
      BY <2>2, BracketIn
    <2>4. Sample(c) = Held(c, PowerOn)
      BY <1>5 DEF Sample
    <2>5. QED
      BY <1>4, <2>3, <2>4
  <1>6. CASE events # <<>>
    <2>1. Len(events) > 0
      BY <1>2, <1>6
    <2>2. /\ j \in 1..Len(events) /\ j \in Nat /\ cursor <= j
          /\ \A i \in j + 1..Len(events) : c < events[i].at
          /\ events[j].at > c => Bracket(c) = 0
          /\ events[j].at <= c => Bracket(c) = Gone + j
      BY <2>1, CursorBrackets, CursorIs
    <2>3. events[j].at \in Nat /\ events[j].nr = Gone + j
      BY <1>1, <2>2
    <2>4. Sample(c) = IF events[j].at > c THEN Held(c, events[1].nr)
                      ELSE IF j = Len(events) THEN Held(c, events[j].nr)
                      ELSE IF events[j + 1].at - events[j].at > 2 * Isr THEN Held(c, events[j].nr)
                      ELSE Weighed(c, Taps(j, c))
      BY <1>6 DEF Sample
    <2> HIDE DEF j
    <2>5. CASE events[j].at > c
      <3>1. ~(Bracket(c) > 0) /\ Sample(c) = Held(c, events[1].nr)
        BY <2>2, <2>4, <2>5
      <3>2. QED
        BY <1>4, <3>1
    <2>6. CASE events[j].at <= c
      <3>1. Bracket(c) = Gone + j /\ ~(events[j].at > c) /\ Bracket(c) > 0
        BY <1>1, <2>2, <2>3, <2>6
      <3>2. CASE j = Len(events)
        <4>1. Sample(c) = Held(c, events[j].nr) /\ ~(Bracket(c) < Len(log))
          BY <1>1, <2>4, <3>1, <3>2
        <4>2. QED
          BY <1>4, <2>3, <3>1, <4>1
      <3>3. CASE j # Len(events) /\ events[j + 1].at - events[j].at > 2 * Isr
        <4>1. Sample(c) = Held(c, events[j].nr)
          BY <2>4, <3>1, <3>3
        <4>2. j + 1 \in 1..Len(events)
          BY <1>1, <2>2, <3>3
        <4>3. /\ events[j + 1].at = log[Gone + (j + 1)] /\ events[j].at = log[Gone + j]
              /\ log[Gone + (j + 1)] \in Nat /\ log[Gone + j] \in Nat
          BY <1>1, <2>2, <4>2
        <4>4. Bracket(c) + 1 = Gone + (j + 1) /\ (Bracket(c) + 1) - 1 = Gone + j
          BY <1>1, <2>2, <3>1
        <4>5. ~(log[Bracket(c) + 1] - log[(Bracket(c) + 1) - 1] <= IsrMax)
          <5>1. ~(log[Gone + (j + 1)] - log[Gone + j] <= IsrMax)
            <6> DEFINE x == log[Gone + (j + 1)]
                       y == log[Gone + j]
            <6>1. x \in Nat /\ y \in Nat /\ x - y > 2 * Isr
              BY <3>3, <4>3
            <6> HIDE DEF x, y
            <6>2. ~(x - y <= IsrMax)
              BY <1>2, <6>1
            <6>3. QED
              BY <6>2 DEF x, y
          <5>2. QED
            BY <4>4, <5>1
        <4>6. ~Spoken(Bracket(c), Bracket(c) + 1)
          <5>1. Bracket(c) + 1 \in Bracket(c) + 1..Bracket(c) + 1
            BY <1>1, <4>4
          <5>2. QED
            BY <4>5, <5>1 DEF Spoken
        <4>7. QED
          BY <1>4, <2>3, <3>1, <4>1, <4>6
      <3>4. CASE j # Len(events) /\ ~(events[j + 1].at - events[j].at > 2 * Isr)
        <4>1. Sample(c) = Weighed(c, Taps(j, c))
          BY <2>4, <3>1, <3>4
        <4>2. /\ Sample(c).at = c /\ Sample(c).from = Taps(j, c) /\ ~Sample(c).held
          BY <4>1 DEF Weighed
        <4>3. ASSUME NEW t \in Taps(j, c)
              PROVE  /\ t[1] \in Int /\ t[1] <= ResampHalf
                     /\ t[1] <= 0 => t[2] = Max({1, Bracket(c) + t[1]})
                     /\ t[1] > 0 /\ Bracket(c) + t[1] <= Len(log) => t[2] = Bracket(c) + t[1]
          <5>1. PICK k \in 1 - ResampHalf..(IF c = events[j].at THEN ResampHalf - 1 ELSE ResampHalf) :
                       t = <<k, events[Clamped(j + k)].nr>>
            BY <4>3 DEF Taps
          <5>2. k \in Int /\ 1 - ResampHalf <= k /\ k <= ResampHalf
            BY <1>2, <5>1
          <5>3. t[1] = k /\ t[2] = events[Clamped(j + k)].nr
            BY <5>1
          <5>4. ASSUME k <= 0
                PROVE  t[2] = Max({1, Bracket(c) + k})
            <6>1. CASE j + k < 1
              <7>1. Gone = 0
                BY <1>1, <1>2, <2>2, <5>2, <6>1
              <7>2. Clamped(j + k) = 1 /\ 1 \in 1..Len(events)
                BY <1>1, <2>1, <6>1 DEF Clamped
              <7>3. t[2] = 1
                BY <1>1, <5>3, <7>1, <7>2
              <7>4. Bracket(c) + k \in Int /\ Bracket(c) + k <= 1
                BY <2>2, <3>1, <5>2, <6>1, <7>1
              <7>5. Max({1, Bracket(c) + k}) = 1
                <8>1. \A x \in Int : x <= 1 => Max({1, x}) = 1
                  <9> TAKE x \in Int
                  <9> HAVE x <= 1
                  <9>1. {1, x} \in SUBSET Int /\ 1 \in {1, x} /\ \A y \in {1, x} : y <= 1
                    OBVIOUS
                  <9>2. QED
                    BY <9>1, GreatestIs
                <8>2. QED
                  BY <7>4, <8>1
              <7>6. QED
                BY <7>3, <7>5
            <6>2. CASE j + k >= 1
              <7>1. j + k \in 1..Len(events) /\ Clamped(j + k) = j + k
                BY <1>1, <2>2, <5>2, <5>4, <6>2 DEF Clamped
              <7>2. t[2] = Gone + (j + k) /\ Gone + (j + k) = Bracket(c) + k
                <8>1. t[2] = Gone + (j + k)
                  BY <1>1, <5>3, <7>1
                <8>2. \A g, x, y \in Int : g + (x + y) = (g + x) + y
                  OBVIOUS
                <8>3. QED
                  BY <1>1, <2>2, <3>1, <5>2, <8>1, <8>2
              <7>3. Bracket(c) + k \in Int /\ 1 <= Bracket(c) + k
                BY <1>1, <7>1, <7>2
              <7>4. Max({1, Bracket(c) + k}) = Bracket(c) + k
                BY <7>3, GreatestIs
              <7>5. QED
                BY <7>2, <7>4
            <6>3. QED
              BY <2>2, <5>2, <6>1, <6>2
          <5>5. ASSUME k > 0, Bracket(c) + k <= Len(log)
                PROVE  t[2] = Bracket(c) + k
            <6>1. j + k \in 1..Len(events) /\ Clamped(j + k) = j + k
              BY <1>1, <2>2, <3>1, <5>2, <5>5 DEF Clamped
            <6>2. QED
              BY <1>1, <2>2, <3>1, <5>2, <5>3, <6>1
          <5>6. QED
            BY <5>2, <5>3, <5>4, <5>5
        <4>4. QED
          BY <4>2, <4>3
      <3>5. QED
        BY <3>2, <3>3, <3>4
    <2>7. QED
      BY <2>3, <2>5, <2>6
  <1>7. QED
    BY <1>5, <1>6
-----------------------------------------------------------------------------
(* The steps keep the invariant.                                           *)

\* The samples of a pull are the next ones of the grid, without a gap.
LEMMA DueIs ==
  ASSUME DacInv, NEW drain \in BOOLEAN
  PROVE  /\ \A m \in Due(drain) :
              /\ m \in Nat /\ next <= m /\ SampleCycle(m) \in Nat /\ SampleCycle(next) <= SampleCycle(m)
              /\ SampleCycle(m) < now
              /\ ~drain => SampleCycle(m) + ResampHalf * IsrMax < now
         /\ Due(drain) = {} => next + Cardinality(Due(drain)) = next
         /\ Due(drain) # {} => /\ Max(Due(drain)) \in Due(drain)
                               /\ next + Cardinality(Due(drain)) = Max(Due(drain)) + 1
  <1> DEFINE d == Due(drain)
             z == Max(d)
             reach == ResampHalf * IsrMax
  <1>1. now \in Nat /\ next \in Nat /\ reach \in Nat /\ MaxTime * Rate \in Nat
    BY DacConstants DEF DacInv, DacTypeOK
  <1>2. Margin(drain) = IF drain THEN 0 ELSE reach
    BY DEF Margin
  <1> HIDE DEF reach
  <1>3. \A m \in d : m \in next..MaxTime * Rate /\ SampleCycle(m) < now - Margin(drain)
    BY DEF Due
  <1>4. \A m \in Nat : next <= m => SampleCycle(m) \in Nat /\ SampleCycle(next) <= SampleCycle(m)
    BY <1>1, Instants
  <1> HIDE DEF d
  <1>5. \A m \in d : /\ m \in Nat /\ next <= m /\ SampleCycle(m) \in Nat
                     /\ SampleCycle(next) <= SampleCycle(m) /\ SampleCycle(m) < now
                     /\ ~drain => SampleCycle(m) + reach < now
    <2> TAKE m \in d
    <2>1. m \in Nat /\ next <= m
      BY <1>1, <1>3
    <2>2. SampleCycle(m) \in Nat /\ SampleCycle(next) <= SampleCycle(m)
      BY <1>4, <2>1
    <2>3. SampleCycle(m) < now - Margin(drain)
      BY <1>3
    <2>4. SampleCycle(m) < now /\ (~drain => SampleCycle(m) + reach < now)
      BY <1>1, <1>2, <2>2, <2>3
    <2>5. QED
      BY <2>1, <2>2, <2>4
  <1>6. ASSUME d = {}
        PROVE  next + Cardinality(d) = next
    <2>1. Cardinality(d) = 0
      BY <1>6, FS_EmptySet
    <2>2. QED
      BY <1>1, <2>1
  <1>7. ASSUME d # {}
        PROVE  z \in d /\ next + Cardinality(d) = z + 1
    <2>1. d \in SUBSET Int /\ \A m \in d : m <= MaxTime * Rate
      BY <1>1, <1>3, <1>5
    <2>2. z \in d /\ \A m \in d : m <= z
      <3>1. \A b \in Int : (\A m \in d : m <= b) => Max(d) \in d /\ \A m \in d : m <= Max(d)
        BY <1>7, <2>1, GreatestOf
      <3>2. MaxTime * Rate \in Int
        BY <1>1
      <3>3. QED
        BY <2>1, <3>1, <3>2, Zenon
    <2> HIDE DEF z
    <2>3. z \in next..MaxTime * Rate /\ z \in Nat /\ SampleCycle(z) < now - Margin(drain)
      BY <1>3, <1>5, <2>2
    <2>4. next..z \subseteq d
      <3>1. ASSUME NEW m \in next..z
            PROVE  m \in d
        <4>1. m \in Nat /\ m <= z /\ m \in next..MaxTime * Rate
          BY <1>1, <2>3, <3>1
        <4>2. SampleCycle(m) \in Nat /\ SampleCycle(m) <= SampleCycle(z) /\ SampleCycle(z) \in Nat
          BY <2>3, <4>1, Instants
        <4>3. now - Margin(drain) \in Int
          BY <1>1, <1>2
        <4>4. SampleCycle(m) < now - Margin(drain)
          BY <2>3, <4>2, <4>3
        <4>5. QED
          BY <4>1, <4>4 DEF d, Due
      <3>2. QED
        BY <3>1
    <2>5. d = next..z
      <3>1. \A m \in d : m \in next..z
        BY <1>1, <1>5, <2>2, <2>3
      <3>2. QED
        BY <2>4, <3>1, Zenon
    <2>6. Cardinality(d) = z - next + 1
      BY <1>1, <2>3, <2>5, FS_Interval
    <2>7. QED
      BY <1>1, <2>2, <2>3, <2>6 DEF z
  <1>8. QED
    BY <1>5, <1>6, <1>7 DEF d, z, reach

LEMMA DacInitInv ==
  ASSUME DacInit
  PROVE  DacInv
  <1>1. now = 0 /\ events = <<>> /\ cursor = 1 /\ next = 0 /\ log = <<>> /\ pulled = Nothing
    BY DEF DacInit
  <1>2. Len(log) = 0 /\ Len(events) = 0 /\ log \in Seq(Nat) /\ events \in Seq([at : Nat, nr : Nat])
    BY <1>1
  <1>3. pulled.samples = {}
    BY <1>1 DEF Nothing
  <1>4. DacTypeOK /\ Suffix /\ Ordered /\ CursorIn /\ Passed
    BY <1>1, <1>2 DEF DacTypeOK, Suffix, Gone, Ordered, CursorIn, Passed
  <1>5. Fresh /\ TapsAreReal /\ HoldsLastLevel
    BY <1>3 DEF Fresh, TapsAreReal, HoldsLastLevel
  <1>6. QED
    BY <1>4, <1>5 DEF DacInv

LEMMA ResetInv ==
  ASSUME DacInv, DacReset
  PROVE  DacInv'
  <1>1. now' = now /\ events' = <<>> /\ cursor' = 1 /\ next' = next /\ log' = <<>> /\ pulled' = Nothing
    BY DEF DacReset
  <1>2. Len(log') = 0 /\ Len(events') = 0 /\ log' \in Seq(Nat) /\ events' \in Seq([at : Nat, nr : Nat])
    BY <1>1
  <1>3. pulled'.samples = {}
    BY <1>1 DEF Nothing
  <1>4. DacTypeOK' /\ Suffix' /\ Ordered' /\ CursorIn' /\ Passed'
    BY <1>1, <1>2 DEF DacInv, DacTypeOK, Suffix, Gone, Ordered, CursorIn, Passed
  <1>5. Fresh' /\ TapsAreReal' /\ HoldsLastLevel'
    BY <1>3 DEF Fresh, TapsAreReal, HoldsLastLevel
  <1>6. QED
    BY <1>4, <1>5 DEF DacInv

LEMMA WaitInv ==
  ASSUME DacInv, NEW time \in Waits, Wait(time)
  PROVE  DacInv'
  <1>1. /\ now' = now + time /\ time \in Nat
        /\ UNCHANGED <<events, cursor, next, log, pulled>>
    BY DacConstants DEF Wait
  <1>2. now \in Nat /\ now' \in Nat /\ now <= now'
    BY <1>1 DEF DacInv, DacTypeOK
  <1>3. DacTypeOK' /\ Suffix' /\ CursorIn' /\ Passed' /\ TapsAreReal' /\ HoldsLastLevel'
    <2>1. DacTypeOK' /\ Suffix' /\ CursorIn' /\ Passed'
      BY <1>1, <1>2 DEF DacInv, DacTypeOK, Suffix, Gone, CursorIn, Passed, SampleCycle
    <2>2. TapsAreReal'
      BY <1>1 DEF DacInv, TapsAreReal, Bracket, Spoken
    <2>3. HoldsLastLevel'
      BY <1>1 DEF DacInv, HoldsLastLevel, Bracket
    <2>4. QED
      BY <2>1, <2>2, <2>3
  <1>4. Ordered'
    <2>1. \A e \in 1..Len(log) : log[e] \in Nat /\ log[e] <= now
      BY DEF DacInv, DacTypeOK, Ordered
    <2>2. \A e \in 1..Len(log) : log[e] <= now'
      BY <1>2, <2>1
    <2>3. QED
      BY <1>1, <2>2 DEF DacInv, Ordered
  <1>5. Fresh'
    <2>1. ResampHalf * IsrMax \in Nat
      BY DacConstants
    <2> DEFINE reach == ResampHalf * IsrMax
    <2> HIDE DEF reach
    <2>2. \A a \in Nat : (a < now => a < now') /\ (a + reach < now => a + reach < now')
      BY <1>2, <2>1 DEF reach
    <2>3. QED
      BY <1>1, <2>2 DEF DacInv, Fresh, reach
  <1>6. QED
    BY <1>3, <1>4, <1>5 DEF DacInv

\* A write comes after every sample that was made, and further than a kernel
\* after those that were not drained.
LEMMA DacWriteInv ==
  ASSUME DacInv, NEW gap \in Gaps, Dac(gap)
  PROVE  DacInv'
  <1> DEFINE l == Len(log)
             reach == ResampHalf * IsrMax
  <1>1. /\ now' = now + gap /\ log' = Append(log, now')
        /\ events' = Append(events, [at |-> now', nr |-> Len(log')])
        /\ cursor' = cursor /\ next' = next /\ pulled' = pulled
    BY DEF Dac
  <1>2. /\ gap \in Nat \ {0} /\ now \in Nat /\ now' \in Nat /\ now < now' /\ reach \in Nat /\ IsrMax \in Nat
        /\ ResampHalf \in Nat /\ IsrMax <= reach
    BY <1>1, DacConstants DEF DacInv, DacTypeOK
  <1>3. /\ log \in Seq(Nat) /\ l \in Nat /\ log' \in Seq(Nat) /\ Len(log') = l + 1
        /\ \A e \in 1..l : log'[e] = log[e] /\ log[e] \in Nat
        /\ log'[l + 1] = now'
    BY <1>1, <1>2 DEF DacInv, DacTypeOK
  <1>4. /\ Gone \in Nat /\ Len(events) \in Nat /\ Gone + Len(events) = l
        /\ \A i \in 1..Len(events) : /\ events[i].at = log[Gone + i] /\ events[i].nr = Gone + i
                                     /\ Gone + i \in 1..l /\ log[Gone + i] \in Nat
    BY QueueIs
  <1>5. /\ events' \in Seq([at : Nat, nr : Nat]) /\ Len(events') = Len(events) + 1
        /\ \A i \in 1..Len(events) : events'[i] = events[i]
        /\ events'[Len(events) + 1] = [at |-> now', nr |-> l + 1]
    <2>1. [at |-> now', nr |-> Len(log')] \in [at : Nat, nr : Nat]
      BY <1>2, <1>3
    <2>2. QED
      BY <1>1, <1>3, <2>1 DEF DacInv, DacTypeOK
  <1> HIDE DEF l, reach
  <1>6. DacTypeOK'
    BY <1>1, <1>2, <1>3, <1>5 DEF DacInv, DacTypeOK
  <1>7. Gone' = Gone
    <2>1. Gone' = (l + 1) - (Len(events) + 1)
      BY <1>3, <1>5 DEF Gone
    <2>2. QED
      BY <1>3, <1>4, <2>1
  <1>8. Suffix'
    <2>1. ASSUME NEW i \in 1..Len(events')
          PROVE  events'[i] = [at |-> log'[Gone + i], nr |-> Gone + i]
      <3>1. CASE i \in 1..Len(events)
        <4>1. events[i] = [at |-> log[Gone + i], nr |-> Gone + i]
          BY <3>1 DEF DacInv, Suffix
        <4>2. log'[Gone + i] = log[Gone + i] /\ events'[i] = events[i]
          BY <1>3, <1>4, <1>5, <3>1
        <4>3. QED
          BY <4>1, <4>2
      <3>2. CASE i = Len(events) + 1
        <4>1. Gone + i = l + 1
          <5>1. \A g, n, k \in Int : g + n = k => g + (n + 1) = k + 1
            OBVIOUS
          <5>2. Gone \in Int /\ Len(events) \in Int /\ l \in Int /\ Gone + Len(events) = l
            BY <1>3, <1>4
          <5>3. QED
            BY <3>2, <5>1, <5>2
        <4>2. QED
          BY <1>3, <1>5, <3>2, <4>1
      <3>3. QED
        BY <1>4, <1>5, <3>1, <3>2
    <2>2. QED
      BY <1>4, <1>7, <2>1 DEF Suffix
  <1>9. Ordered'
    <2>1. \A e, f \in 1..l : e < f => log[e] < log[f]
      BY DEF DacInv, Ordered, l
    <2>2. \A e \in 1..l : log[e] <= now
      BY DEF DacInv, Ordered, l
    <2>3. \A e \in 1..l : log'[e] < log'[l + 1]
      BY <1>2, <1>3, <2>2
    <2>4. \A e \in 1..l + 1 : e \in 1..l \/ e = l + 1
      BY <1>3
    <2>5. \A e, f \in 1..l + 1 : e < f => log'[e] < log'[f]
      <3>1. ASSUME NEW e \in 1..l + 1, NEW f \in 1..l + 1, e < f
            PROVE  log'[e] < log'[f]
        <4>1. e \in 1..l
          BY <1>3, <3>1
        <4>2. CASE f \in 1..l
          BY <1>3, <2>1, <3>1, <4>1, <4>2
        <4>3. CASE f = l + 1
          BY <2>3, <4>1, <4>3
        <4>4. QED
          BY <2>4, <4>2, <4>3
      <3>2. QED
        BY <3>1
    <2>6. \A e \in 1..l + 1 : log'[e] <= now'
      BY <1>2, <1>3, <2>2, <2>4
    <2>7. QED
      BY <1>3, <2>5, <2>6 DEF Ordered
  <1>10. CursorIn'
    BY <1>1, <1>4, <1>5, <1>7 DEF DacInv, CursorIn, DacTypeOK
  <1>11. Passed'
    <2>1. cursor > 1 => cursor \in 1..Len(events)
      BY <1>4 DEF DacInv, CursorIn, DacTypeOK
    <2>2. QED
      BY <1>1, <1>5, <2>1 DEF DacInv, Passed, SampleCycle
  <1>12. \A s \in pulled.samples :
           /\ s.at \in Nat /\ s.at < now /\ (~pulled.drained => s.at + reach < now)
           /\ \A t \in s.from : t[1] \in Int /\ t[1] <= ResampHalf
    BY DEF DacInv, Fresh, reach
  <1>13. Fresh'
    <2>1. \A a \in Nat : (a < now => a < now') /\ (a + reach < now => a + reach < now')
      BY <1>2
    <2>2. QED
      BY <1>1, <1>12, <2>1 DEF Fresh, reach
  <1>14. ASSUME NEW c \in Nat, c < now
         PROVE  Bracket(c)' = Bracket(c)
    <2>1. {e \in 1..l + 1 : log'[e] <= c} = {e \in 1..l : log[e] <= c}
      <3>1. \A e \in 1..l + 1 : e \in 1..l \/ e = l + 1
        BY <1>3
      <3>2. ~(log'[l + 1] <= c)
        BY <1>2, <1>3, <1>14
      <3>3. 1..l \subseteq 1..l + 1
        BY <1>3
      <3>4. QED
        BY <1>3, <3>1, <3>2, <3>3
    <2>2. QED
      BY <1>3, <2>1 DEF Bracket, l
  <1>15. HoldsLastLevel'
    <2>1. ASSUME NEW s \in pulled.samples, s.held, Bracket(s.at)' > 0
          PROVE  s.from = {<<0, Bracket(s.at)'>>}
      <3>1. Bracket(s.at)' = Bracket(s.at)
        BY <1>12, <1>14
      <3>2. QED
        BY <2>1, <3>1 DEF DacInv, HoldsLastLevel
    <2>2. QED
      BY <1>1, <2>1 DEF HoldsLastLevel, Bracket
  <1>16. TapsAreReal'
    <2>1. ASSUME ~pulled.drained, NEW s \in pulled.samples, NEW j, j = Bracket(s.at),
                 j > 0, j < l + 1, Spoken(j, j + 1)'
          PROVE  /\ ~s.held
                 /\ \A t \in s.from :
                      /\ t[1] <= 0 => t[2] = Max({1, j + t[1]})
                      /\ t[1] > 0 /\ j + t[1] <= l + 1 /\ Spoken(j, j + t[1])' => t[2] = j + t[1]
      <3>1. s.at \in Nat /\ s.at + reach < now /\ \A t \in s.from : t[1] \in Int /\ t[1] <= ResampHalf
        BY <1>12, <2>1
      <3>2. j \in 0..l /\ log[j] <= s.at
        BY <2>1, <3>1, BracketIn DEF l
      <3>3. ASSUME NEW n \in Nat, n > 0, n <= ResampHalf, j + n = l + 1, Spoken(j, j + n)'
            PROVE  FALSE
        <4>1. \A e \in j + 1..j + n : log'[e] - log'[e - 1] <= IsrMax
          BY <3>3 DEF Spoken
        <4>2. j \in 1..Len(log') /\ j + n \in j..Len(log')
          <5>1. j \in Nat /\ l \in Nat /\ n \in Nat /\ j > 0 /\ j + n = l + 1 /\ Len(log') = l + 1
            BY <1>3, <2>1, <3>2, <3>3
          <5>2. QED
            BY <5>1
        <4>3. log'[j + n] - log'[j] <= ((j + n) - j) * IsrMax
          BY <1>3, <4>1, <4>2, SpokenApart
        <4>4. ((j + n) - j) * IsrMax <= reach /\ ((j + n) - j) * IsrMax \in Nat
          <5>1. (j + n) - j = n
            BY <3>2, <3>3
          <5>2. \A a, b, x \in Nat : a <= b => a * x <= b * x /\ a * x \in Nat
            OBVIOUS
          <5>3. n * IsrMax <= reach /\ n * IsrMax \in Nat
            BY <1>2, <3>3, <5>2 DEF reach
          <5>4. QED
            BY <5>1, <5>3
        <4> DEFINE m == ((j + n) - j) * IsrMax
        <4>5. /\ log'[j + n] = now' /\ log'[j] = log[j] /\ log[j] \in Nat
              /\ log'[j + n] - log'[j] <= m /\ m <= reach /\ m \in Nat
          <5>1. m <= reach /\ m \in Nat /\ log'[j + n] - log'[j] <= m
            BY <4>3, <4>4
          <5> HIDE DEF m
          <5>2. j \in 1..l
            BY <1>3, <2>1, <3>2
          <5>3. log'[j + n] = now'
            BY <1>3, <3>3
          <5>4. log'[j] = log[j] /\ log[j] \in Nat
            BY <1>3, <5>2
          <5>5. QED
            BY <5>1, <5>3, <5>4
        <4> HIDE DEF m
        <4>6. QED
          BY <1>2, <3>1, <3>2, <4>5
      <3>4. j < l /\ Spoken(j, j + 1)
        <4>1. j # l
          <5>1. CASE j = l
            <6>1. j + 1 = l + 1 /\ 1 \in Nat /\ 1 > 0 /\ 1 <= ResampHalf
              BY <1>3, <5>1, DacConstants
            <6>2. QED
              BY <2>1, <3>3, <6>1
          <5>2. QED
            BY <5>1
        <4>2. j < l /\ \A e \in j + 1..j + 1 : e \in 1..l /\ e - 1 \in 1..l
          BY <1>3, <2>1, <3>2, <4>1
        <4>3. QED
          BY <1>3, <2>1, <4>2 DEF Spoken
      <3>5. /\ ~s.held
            /\ \A t \in s.from :
                 /\ t[1] <= 0 => t[2] = Max({1, j + t[1]})
                 /\ t[1] > 0 /\ j + t[1] <= l /\ Spoken(j, j + t[1]) => t[2] = j + t[1]
        BY <2>1, <3>4 DEF DacInv, TapsAreReal, l
      <3>6. ASSUME NEW t \in s.from, t[1] > 0, j + t[1] <= l + 1, Spoken(j, j + t[1])'
            PROVE  j + t[1] <= l /\ Spoken(j, j + t[1])
        <4>1. t[1] \in Nat /\ t[1] <= ResampHalf
          BY <3>1, <3>6
        <4>2. j + t[1] # l + 1
          BY <3>3, <3>6, <4>1
        <4>3. j + t[1] <= l
          <5>1. j \in Nat /\ l \in Nat /\ t[1] \in Nat /\ j + t[1] <= l + 1 /\ j + t[1] # l + 1
            BY <1>3, <3>2, <3>6, <4>1, <4>2
          <5> DEFINE n == t[1]
          <5>2. n \in Nat /\ j + n <= l + 1 /\ j + n # l + 1
            BY <5>1
          <5> HIDE DEF n
          <5>3. j + n <= l
            BY <5>1, <5>2
          <5>4. QED
            BY <5>3 DEF n
        <4>4. \A e \in j + 1..j + t[1] : e \in 1..l /\ e - 1 \in 1..l
          BY <1>3, <2>1, <3>2, <4>1, <4>3
        <4>5. QED
          BY <1>3, <3>6, <4>3, <4>4 DEF Spoken
      <3>7. QED
        BY <3>5, <3>6
    <2>2. \A s \in pulled.samples : Bracket(s.at)' = Bracket(s.at)
      BY <1>12, <1>14
    <2>3. QED
      BY <1>1, <1>3, <2>1, <2>2 DEF TapsAreReal
  <1>17. QED
    BY <1>6, <1>8, <1>9, <1>10, <1>11, <1>13, <1>15, <1>16 DEF DacInv
\* The samples of a pull are right, and what it retires no later sample needs.
LEMMA PullInv ==
  ASSUME DacInv, NEW drain \in BOOLEAN, Pull(drain)
  PROVE  DacInv'
  <1> DEFINE owed == Due(drain)
             far == IF owed = {} THEN cursor ELSE CursorAt(SampleCycle(Max(owed)))
             drop == Retired(far)
             l == Len(events)
  <1>1. /\ pulled' = [drained |-> drain, samples |-> {Sample(SampleCycle(m)) : m \in owed}]
        /\ next' = next + Cardinality(owed) /\ events' = SubSeq(events, drop + 1, l)
        /\ cursor' = far - drop /\ now' = now /\ log' = log
    BY DEF Pull
  <1>2. /\ \A m \in owed :
             /\ m \in Nat /\ next <= m /\ SampleCycle(m) \in Nat /\ SampleCycle(next) <= SampleCycle(m)
             /\ SampleCycle(m) < now
             /\ ~drain => SampleCycle(m) + ResampHalf * IsrMax < now
        /\ owed = {} => next + Cardinality(owed) = next
        /\ owed # {} => Max(owed) \in owed /\ next + Cardinality(owed) = Max(owed) + 1
    BY DueIs
  <1>3. /\ now \in Nat /\ next \in Nat /\ cursor \in Nat \ {0} /\ ResampHalf \in Nat \ {0}
        /\ log \in Seq(Nat) /\ events \in Seq([at : Nat, nr : Nat]) /\ l \in Nat /\ Len(log) \in Nat
        /\ cursor = 1 \/ cursor <= l
        /\ Gone > 0 => cursor > ResampHalf
    BY DacConstants DEF DacInv, DacTypeOK, CursorIn
  <1>4. /\ Gone \in Nat /\ Gone + l = Len(log)
        /\ \A i \in 1..l : /\ events[i].at = log[Gone + i] /\ events[i].nr = Gone + i
                           /\ Gone + i \in 1..Len(log) /\ log[Gone + i] \in Nat
    BY QueueIs
  <1> HIDE DEF owed
  <1>5. next' \in Nat /\ next <= next' /\ (owed # {} => Max(owed) \in Nat /\ Max(owed) <= next')
    <2>1. CASE owed = {}
      BY <1>1, <1>2, <1>3, <2>1
    <2>2. CASE owed # {}
      <3>1. Max(owed) \in Nat /\ next <= Max(owed) /\ next' = Max(owed) + 1
        BY <1>1, <1>2, <2>2
      <3>2. QED
        BY <1>3, <3>1
    <2>3. QED
      BY <2>1, <2>2
  <1>6. /\ far \in Nat /\ cursor <= far /\ (far = 1 \/ far <= l)
        /\ far > 1 => events[far].at <= SampleCycle(next')
    <2>1. CASE owed = {}
      <3>1. far = cursor /\ next' = next
        BY <1>1, <1>2, <2>1
      <3>2. QED
        BY <1>3, <3>1 DEF DacInv, Passed
    <2>2. CASE owed # {}
      <3> DEFINE c == SampleCycle(Max(owed))
      <3>1. c \in Nat /\ SampleCycle(next) <= c /\ far = CursorAt(c)
        BY <1>2, <2>2
      <3>2. c <= SampleCycle(next') /\ SampleCycle(next') \in Nat
        BY <1>5, <2>2, Instants
      <3> HIDE DEF c
      <3>3. /\ CursorAt(c) \in Nat /\ cursor <= CursorAt(c)
            /\ CursorAt(c) = 1 \/ CursorAt(c) <= l
            /\ CursorAt(c) > 1 => events[CursorAt(c)].at <= c
        BY <3>1, CursorIs
      <3>4. far \in Nat /\ cursor <= far /\ (far = 1 \/ far <= l) /\ (far > 1 => events[far].at <= c)
        BY <3>1, <3>3
      <3> HIDE DEF far
      <3>5. far > 1 => far \in 1..l
        BY <1>3, <3>4
      <3>6. far > 1 => events[far].at <= SampleCycle(next')
        <4>1. ASSUME far > 1
              PROVE  events[far].at <= SampleCycle(next')
          <5>1. events[far].at \in Nat
            BY <1>4, <3>5, <4>1
          <5>2. QED
            BY <3>1, <3>2, <3>4, <4>1, <5>1
        <4>2. QED
          BY <4>1
      <3>7. QED
        BY <3>4, <3>6
    <2>3. QED
      BY <2>1, <2>2
  <1> HIDE DEF far
  <1>7. /\ drop \in Nat /\ drop <= l /\ drop < far
        /\ drop > 0 => far - drop = ResampHalf + 1 /\ far <= l
    BY <1>3, <1>6 DEF Retired
  <1> HIDE DEF drop
  <1>8. /\ events' \in Seq([at : Nat, nr : Nat]) /\ Len(events') = l - drop
        /\ \A i \in 1..l - drop : events'[i] = events[drop + i] /\ drop + i \in 1..l
    <2>1. drop + 1 \in 1..l + 1 /\ drop + 1 - 1 = drop
      BY <1>3, <1>7
    <2>2. /\ SubSeq(events, drop + 1, l) \in Seq([at : Nat, nr : Nat])
          /\ Len(SubSeq(events, drop + 1, l)) = l - drop
          /\ \A i \in 1..l - drop : SubSeq(events, drop + 1, l)[i] = events[drop + i]
      <3> DEFINE S == [at : Nat, nr : Nat]
                 rest == SubSeq(events, drop + 1, l)
      <3>1. \A i \in drop + 1..l : events[i] \in S
        <4>1. drop + 1..l \subseteq 1..l
          BY <1>3, <1>7
        <4>2. events \in Seq(S)
          BY <1>3
        <4>3. \A i \in 1..Len(events) : events[i] \in S
          BY <4>2, ElementOfSeq
        <4>4. QED
          BY <4>1, <4>3
      <3>2. drop + 1 \in Int /\ l \in Int
        BY <1>3, <1>7
      <3>3. l \in Nat /\ drop \in Nat /\ drop <= l
        BY <1>3, <1>7
      <3> HIDE DEF S, l
      <3>4. /\ rest \in Seq(S)
            /\ Len(rest) = IF drop + 1 <= l THEN l - (drop + 1) + 1 ELSE 0
            /\ \A i \in 1..l - (drop + 1) + 1 : rest[i] = events[(drop + 1) + i - 1]
        BY <3>1, <3>2, SubSeqProperties
      <3> HIDE DEF rest
      <3>5. l - (drop + 1) + 1 = l - drop
        BY <3>3
      <3>6. Len(rest) = l - drop
        BY <3>3, <3>4
      <3>7. ASSUME NEW i \in 1..l - drop
            PROVE  rest[i] = events[drop + i]
        <4>1. (drop + 1) + i - 1 = drop + i
          BY <3>3
        <4>2. QED
          BY <3>4, <3>5, <4>1
      <3>8. QED
        BY <3>4, <3>6, <3>7 DEF rest, S
    <2>3. \A i \in 1..l - drop : drop + i \in 1..l
      BY <1>3, <1>7
    <2>4. QED
      BY <1>1, <2>2, <2>3
  <1>9. cursor' \in Nat \ {0} /\ (cursor' = 1 \/ cursor' <= Len(events'))
    BY <1>1, <1>3, <1>6, <1>7, <1>8
  <1>10. DacTypeOK'
    BY <1>1, <1>3, <1>5, <1>8, <1>9 DEF DacTypeOK
  <1>11. Gone' = Gone + drop
    <2>1. Gone' = Len(log) - (l - drop)
      BY <1>1, <1>8 DEF Gone
    <2>2. \A x, g, y, d \in Int : g + y = x => x - (y - d) = g + d
      OBVIOUS
    <2>3. Len(log) \in Int /\ Gone \in Int /\ l \in Int /\ drop \in Int
      BY <1>3, <1>4, <1>7
    <2>4. Gone + l = Len(log)
      BY <1>4
    <2>5. Len(log) - (l - drop) = Gone + drop
      BY <2>2, <2>3, <2>4
    <2>6. QED
      BY <2>1, <2>5
  <1>12. Suffix'
    <2>1. ASSUME NEW i \in 1..l - drop
          PROVE  events'[i] = [at |-> log[Gone + drop + i], nr |-> Gone + drop + i]
      <3>1. events'[i] = events[drop + i] /\ drop + i \in 1..l
        BY <1>8
      <3>2. events[drop + i] = [at |-> log[Gone + (drop + i)], nr |-> Gone + (drop + i)]
        BY <3>1 DEF DacInv, Suffix
      <3>3. Gone + (drop + i) = Gone + drop + i
        BY <1>4, <1>7
      <3>4. QED
        BY <3>1, <3>2, <3>3
    <2>2. Gone + drop \in Nat
      BY <1>4, <1>7
    <2>3. QED
      BY <1>1, <1>8, <1>11, <2>1, <2>2 DEF Suffix
  <1>13. Ordered'
    BY <1>1 DEF DacInv, Ordered
  <1>14. CursorIn'
    <2>1. Gone' > 0 => cursor' > ResampHalf
      BY <1>1, <1>3, <1>4, <1>6, <1>7, <1>11
    <2>2. QED
      BY <1>9, <2>1, DacConstants DEF CursorIn
  <1>15. Passed'
    <2>1. ASSUME cursor' > 1
          PROVE  events'[cursor'].at <= SampleCycle(next')
      <3>1. far > 1 /\ cursor' \in 1..l - drop /\ drop + cursor' = far
        BY <1>1, <1>3, <1>6, <1>7, <1>8, <1>9, <2>1
      <3>2. events'[cursor'] = events[far]
        BY <1>8, <3>1
      <3>3. QED
        BY <1>6, <3>1, <3>2
    <2>2. QED
      BY <2>1 DEF Passed, SampleCycle
  <1>16. pulled'.drained = drain /\ pulled'.samples = {Sample(SampleCycle(m)) : m \in owed}
    BY <1>1
  <1>17. ASSUME NEW s \in pulled'.samples
         PROVE  /\ s.at \in Nat /\ s.at < now /\ (~drain => s.at + ResampHalf * IsrMax < now)
                /\ \A t \in s.from : t[1] \in Int /\ t[1] <= ResampHalf
                /\ s.held /\ Bracket(s.at) > 0 => s.from = {<<0, Bracket(s.at)>>}
                /\ Bracket(s.at) > 0 /\ Bracket(s.at) < Len(log) /\ Spoken(Bracket(s.at), Bracket(s.at) + 1) =>
                     /\ ~s.held
                     /\ \A t \in s.from :
                          /\ t[1] <= 0 => t[2] = Max({1, Bracket(s.at) + t[1]})
                          /\ t[1] > 0 /\ Bracket(s.at) + t[1] <= Len(log) => t[2] = Bracket(s.at) + t[1]
    <2>1. PICK m \in owed : s = Sample(SampleCycle(m))
      BY <1>16, <1>17
    <2> DEFINE c == SampleCycle(m)
    <2>2. c \in Nat /\ SampleCycle(next) <= c /\ c < now /\ (~drain => c + ResampHalf * IsrMax < now)
      BY <1>2
    <2>3. s = Sample(c)
      BY <2>1
    <2> HIDE DEF c
    <2>4. s.at = c
      BY <2>2, <2>3, SampleRight
    <2>5. /\ \A t \in Sample(c).from : t[1] \in Int /\ t[1] <= ResampHalf
          /\ Sample(c).held /\ Bracket(c) > 0 => Sample(c).from = {<<0, Bracket(c)>>}
          /\ Bracket(c) > 0 /\ Bracket(c) < Len(log) /\ Spoken(Bracket(c), Bracket(c) + 1) =>
               /\ ~Sample(c).held
               /\ \A t \in Sample(c).from :
                    /\ t[1] <= 0 => t[2] = Max({1, Bracket(c) + t[1]})
                    /\ t[1] > 0 /\ Bracket(c) + t[1] <= Len(log) => t[2] = Bracket(c) + t[1]
      BY <2>2, SampleRight
    <2>6. s.at \in Nat /\ s.at < now /\ (~drain => s.at + ResampHalf * IsrMax < now)
      BY <2>2, <2>4
    <2>7. QED
      BY <2>3, <2>4, <2>5, <2>6, Zenon
  <1>18. Fresh'
    BY <1>1, <1>16, <1>17 DEF Fresh
  <1>19. HoldsLastLevel'
    <2>1. \A c : Bracket(c)' = Bracket(c)
      BY <1>1 DEF Bracket
    <2>2. QED
      BY <1>17, <2>1 DEF HoldsLastLevel
  <1>20. TapsAreReal'
    <2>1. \A c : Bracket(c)' = Bracket(c)
      BY <1>1 DEF Bracket
    <2>2. \A a, b : Spoken(a, b)' <=> Spoken(a, b)
      BY <1>1 DEF Spoken
    <2>3. QED
      BY <1>1, <1>17, <2>1, <2>2 DEF TapsAreReal
  <1>21. QED
    BY <1>10, <1>12, <1>13, <1>14, <1>15, <1>18, <1>19, <1>20 DEF DacInv

LEMMA DacSameInv ==
  ASSUME DacInv, UNCHANGED dacVars
  PROVE  DacInv'
  <1>1. UNCHANGED <<now, events, cursor, next, log, pulled>>
    BY DEF dacVars
  <1>2. DacTypeOK' /\ Suffix' /\ Ordered' /\ CursorIn' /\ Passed' /\ Fresh'
    BY <1>1 DEF DacInv, DacTypeOK, Suffix, Gone, Ordered, CursorIn, Passed, SampleCycle, Fresh
  <1>3. TapsAreReal'
    BY <1>1 DEF DacInv, TapsAreReal, Bracket, Spoken
  <1>4. HoldsLastLevel'
    BY <1>1 DEF DacInv, HoldsLastLevel, Bracket
  <1>5. QED
    BY <1>2, <1>3, <1>4 DEF DacInv

THEOREM StreamInvariant == DacSpec => []DacInv
  <1>1. DacInit => DacInv
    BY DacInitInv
  <1>2. DacInv /\ [DacNext]_dacVars => DacInv'
    BY DacWriteInv, WaitInv, PullInv, ResetInv, DacSameInv DEF DacNext
  <1>3. QED
    BY <1>1, <1>2, PTL DEF DacSpec

\* Pulling piece by piece makes the samples of one conversion of the whole
\* recording: no tap inside an utterance is missing because its sample was
\* made too early (the margin of pull_samples) or because it had been retired.
THEOREM NoTapIsMissing == DacSpec => []TapsAreReal
  <1>1. DacInv => TapsAreReal
    BY DEF DacInv
  <1>2. QED
    BY <1>1, StreamInvariant, PTL

\* A held level is that of the last write at or before the sample, whatever
\* the cursor has passed and the queue has dropped.
THEOREM SilenceHoldsLevel == DacSpec => []HoldsLastLevel
  <1>1. DacInv => HoldsLastLevel
    BY DEF DacInv
  <1>2. QED
    BY <1>1, StreamInvariant, PTL
=============================================================================
