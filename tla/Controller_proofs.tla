------------------------- MODULE Controller_proofs -------------------------
(***************************************************************************)
(* The interrupt controller, and the two components built on it: the       *)
(* register block a program reaches it through, and the board and firmware *)
(* that drive it.  Everything holds for every set of sources, control      *)
(* words, priority masks, offsets, pages and writes.                       *)
(*                                                                         *)
(* The controller's registers stay well formed, and no handler leaves a    *)
(* deliverable interrupt without the INTR line.                            *)
(*                                                                         *)
(* Whatever a program does to the register block is a step of the          *)
(* controller or leaves it alone, so what is proved of the controller      *)
(* holds behind its registers; the mask register and the control registers *)
(* never show two different masks; and no two offsets share their storage. *)
(*                                                                         *)
(* The board and the firmware together do to the controller only what      *)
(* InterruptController allows, no handler reads an empty mailbox, an EOI   *)
(* retires the source of the handler that issues it, and the board         *)
(* implements the one-place mailbox, for any of the three timers.  The     *)
(* invariant ties four pieces of state together: what the controller       *)
(* asserts (Asserted), the handlers under way and the in-service bits      *)
(* (Handlers), the request of INT1 and the byte that waits (Line), and     *)
(* what the firmware has programmed (StartUp).                             *)
(***************************************************************************)
EXTENDS Doorbell, RegisterBlock, SequenceTheorems, FiniteSetTheorems, TLAPS

-----------------------------------------------------------------------------
(* The scan order has a first element.                                     *)

Key(c, s) == 8 * c.ctl[s].lvl + s

LEMMA KeyArithmetic ==
  ASSUME NEW a \in 0..15, NEW b \in 0..15, NEW m \in 0..7, NEW n \in 0..7
  PROVE  /\ 8 * a + m \in Nat
         /\ (a < b \/ (a = b /\ m < n)) <=> 8 * a + m < 8 * b + n
         /\ 8 * a + m = 8 * b + n => m = n
  OBVIOUS

LEMMA KeyOrder ==
  ASSUME NEW c, ICOk(c), NEW s \in Sources, NEW t \in Sources
  PROVE  /\ Key(c, s) \in Nat
         /\ Before(c, s, t) <=> Key(c, s) < Key(c, t)
         /\ Key(c, s) = Key(c, t) => s = t
  <1>1. s \in 0..7 /\ t \in 0..7
    BY SourcesAssumption
  <1>2. c.ctl[s].lvl \in 0..15 /\ c.ctl[t].lvl \in 0..15
    BY DEF ICOk, ICState, Ctl
  <1>3. QED
    BY <1>1, <1>2, KeyArithmetic DEF Key, Before

FirstUpTo(c, n) ==
  \/ Stops(c) \cap (0..n) = {}
  \/ \E s \in Stops(c) \cap (0..n) :
       \A t \in Stops(c) \cap (0..n) : t = s \/ Before(c, s, t)

LEMMA FirstStep ==
  ASSUME NEW c, ICOk(c), NEW n \in 0..6, FirstUpTo(c, n)
  PROVE  FirstUpTo(c, n + 1)
  <1>1. Stops(c) \subseteq Sources
    BY DEF Stops, Scanned
  <1>2. 0..(n + 1) = (0..n) \cup {n + 1}
    OBVIOUS
  <1>3. CASE n + 1 \notin Stops(c)
    BY <1>2, <1>3 DEF FirstUpTo
  <1>4. CASE n + 1 \in Stops(c) /\ Stops(c) \cap (0..n) = {}
    BY <1>2, <1>4 DEF FirstUpTo
  <1>5. CASE n + 1 \in Stops(c) /\ Stops(c) \cap (0..n) # {}
    <2>1. PICK s \in Stops(c) \cap (0..n) :
            \A t \in Stops(c) \cap (0..n) : t = s \/ Before(c, s, t)
      BY <1>5 DEF FirstUpTo
    <2>2. CASE Before(c, s, n + 1)
      BY <1>2, <2>1, <2>2 DEF FirstUpTo
    <2>3. CASE ~Before(c, s, n + 1)
      <3>1. Before(c, n + 1, s)
        BY <1>1, <1>5, <2>1, <2>3, KeyOrder
      <3>2. \A t \in Stops(c) \cap (0..n) : Before(c, n + 1, t)
        <4> TAKE t \in Stops(c) \cap (0..n)
        <4>1. t = s \/ Before(c, s, t)
          BY <2>1
        <4>2. Key(c, n + 1) < Key(c, s) /\ Key(c, s) <= Key(c, t)
          BY <1>1, <1>5, <2>1, <3>1, <4>1, KeyOrder
        <4>3. QED
          BY <1>1, <1>5, <2>1, <4>2, KeyOrder
      <3>3. QED
        BY <1>2, <1>5, <3>2 DEF FirstUpTo
    <2>4. QED
      BY <2>2, <2>3
  <1>6. QED
    BY <1>3, <1>4, <1>5

\* Whenever the scan stops at all, it stops at one source, the first.
LEMMA FirstExists ==
  ASSUME NEW c, ICOk(c), Stops(c) # {}
  PROVE  IsFirst(c, First(c)) /\ First(c) \in Sources
  <1>1. FirstUpTo(c, 0)
    BY DEF FirstUpTo
  <1>2. FirstUpTo(c, 1)
    BY <1>1, FirstStep, 0 + 1 = 1
  <1>3. FirstUpTo(c, 2)
    BY <1>2, FirstStep, 1 + 1 = 2
  <1>4. FirstUpTo(c, 3)
    BY <1>3, FirstStep, 2 + 1 = 3
  <1>5. FirstUpTo(c, 4)
    BY <1>4, FirstStep, 3 + 1 = 4
  <1>6. FirstUpTo(c, 5)
    BY <1>5, FirstStep, 4 + 1 = 5
  <1>7. FirstUpTo(c, 6)
    BY <1>6, FirstStep, 5 + 1 = 6
  <1>8. FirstUpTo(c, 7)
    BY <1>7, FirstStep, 6 + 1 = 7
  <1>9. Stops(c) \subseteq Sources /\ Stops(c) \cap (0..7) = Stops(c)
    <2>1. Sources \subseteq 0..7
      BY SourcesAssumption
    <2>2. Stops(c) \subseteq Sources
      BY DEF Stops, Scanned
    <2>3. QED
      BY <2>1, <2>2
  <1>10. \E s \in Stops(c) : IsFirst(c, s)
    BY <1>8, <1>9 DEF FirstUpTo, IsFirst
  <1>11. IsFirst(c, First(c))
    BY <1>10 DEF First
  <1>12. QED
    BY <1>9, <1>11 DEF IsFirst

\* The first source is unique, so First names it.
LEMMA FirstUnique ==
  ASSUME NEW c, ICOk(c), NEW s \in Sources, IsFirst(c, s)
  PROVE  First(c) = s
  <1>1. Stops(c) # {}
    BY DEF IsFirst
  <1>2. IsFirst(c, First(c)) /\ First(c) \in Sources
    BY <1>1, FirstExists
  <1>3. First(c) = s \/ (Before(c, s, First(c)) /\ Before(c, First(c), s))
    BY <1>2 DEF IsFirst
  <1>4. QED
    BY <1>2, <1>3, KeyOrder

-----------------------------------------------------------------------------
(* Types.                                                                  *)

LEMMA VectorType ==
  ASSUME NEW c, ICOk(c), NEW s \in Sources, Wants(c, s)
  PROVE  VectorOf(c, s) \in Vectors
  <1>1. CASE s = TMR
    <2>1. c.status # {} /\ c.status \subseteq 0..2
      BY <1>1 DEF Wants, Requesting, ICOk, ICState, Timers
    <2>2. \E t \in c.status : \A u \in c.status : t <= u
      <3>1. CASE 0 \in c.status
        BY <3>1, <2>1
      <3>2. CASE 0 \notin c.status /\ 1 \in c.status
        BY <3>2, <2>1
      <3>3. CASE 0 \notin c.status /\ 1 \notin c.status
        BY <3>3, <2>1
      <3>4. QED
        BY <3>1, <3>2, <3>3
    <2>3. LowestTimer(c.status) \in 0..2
      BY <2>1, <2>2 DEF LowestTimer
    <2>4. QED
      BY <1>1, <2>3 DEF VectorOf, TimerVector, Timers, Vectors, TMR
  <1>2. CASE s # TMR
    BY <1>2, SourcesAssumption DEF VectorOf, Vectors, TMR
  <1>3. QED
    BY <1>1, <1>2

LEMMA RaiseType ==
  ASSUME NEW x \in ICState, NEW a \in SUBSET Sources, NEW v \in Vectors,
         NEW b \in BOOLEAN
  PROVE  [x EXCEPT !.ackMask = a, !.poll = [valid |-> TRUE, vector |-> v],
                   !.intr = b, !.pending = TRUE] \in ICState
  <1>1. [valid |-> TRUE, vector |-> v] \in [valid : BOOLEAN, vector : Vectors]
    OBVIOUS
  <1>2. QED
    BY <1>1 DEF ICState

LEMMA UpdateType ==
  ASSUME NEW c, ICOk(c)
  PROVE  ICOk(UpdateInterruptState(c))
  <1> DEFINE seen == [c EXCEPT !.request = @ \ Erased(c)]
  <1>1. ICOk(seen)
    BY DEF ICOk, ICState, CtlFits
  <1>2. CASE Stops(c) = {}
    BY <1>1, <1>2 DEF UpdateInterruptState, ICOk, ICState
  <1>3. CASE Stops(c) # {} /\ Blocks(c, First(c))
    BY <1>1, <1>3 DEF UpdateInterruptState
  <1>4. CASE Stops(c) # {} /\ ~Blocks(c, First(c))
    <2> DEFINE line == IF c.pending THEN seen.intr ELSE TRUE
               winner == {First(c)}
               vector == VectorOf(c, First(c))
    <2>1. First(c) \in Sources /\ Wants(c, First(c))
      BY <1>4, FirstExists DEF IsFirst, Stops
    <2>2. vector \in Vectors
      BY <2>1, VectorType
    <2>3. UpdateInterruptState(c) =
            [seen EXCEPT !.ackMask = winner,
                         !.poll = [valid |-> TRUE, vector |-> vector],
                         !.intr = line, !.pending = TRUE]
      BY <1>4 DEF UpdateInterruptState
    <2>4. line \in BOOLEAN
      BY <1>1 DEF ICOk, ICState
    <2>5. UpdateInterruptState(c) \in ICState
      <3>1. seen \in ICState /\ winner \in SUBSET Sources
        BY <1>1, <2>1 DEF ICOk
      <3> HIDE DEF seen, line, winner, vector
      <3>2. [seen EXCEPT !.ackMask = winner,
                         !.poll = [valid |-> TRUE, vector |-> vector],
                         !.intr = line, !.pending = TRUE] \in ICState
        BY <3>1, <2>2, <2>4, RaiseType, Zenon
      <3>3. QED
        BY <2>3, <3>2, Zenon
    <2>6. /\ UpdateInterruptState(c).ctl = seen.ctl
          /\ UpdateInterruptState(c).extState = seen.extState
          /\ UpdateInterruptState(c).request = seen.request
      BY <1>1, <2>3 DEF ICOk, ICState
    <2>7. QED
      BY <1>1, <2>5, <2>6 DEF ICOk
  <1>5. QED
    BY <1>2, <1>3, <1>4

\* What the scan leaves alone, and the one register it can change.
LEMMA UpdateFields ==
  ASSUME NEW c, ICOk(c)
  PROVE  LET u == UpdateInterruptState(c)
         IN  /\ u.ctl = c.ctl /\ u.priorityMask = c.priorityMask
             /\ u.inService = c.inService /\ u.status = c.status
             /\ u.extState = c.extState
             /\ u.request = c.request \ Erased(c)
  BY DEF UpdateInterruptState, ICOk, ICState

\* Erasing the requests of cascaded lines does not change the scan's outcome.
LEMMA ScanUnchanged ==
  ASSUME NEW c, ICOk(c), NEW u,
         u.ctl = c.ctl, u.priorityMask = c.priorityMask,
         u.inService = c.inService, u.status = c.status,
         u.request = c.request \ Erased(c)
  PROVE  \A s \in Sources : /\ Wants(u, s) <=> Wants(c, s)
                            /\ Blocks(u, s) <=> Blocks(c, s)
                            /\ IsFirst(u, s) <=> IsFirst(c, s)
  <1>1. ASSUME NEW s \in Sources
        PROVE  /\ Cascaded(u, s) <=> Cascaded(c, s)
               /\ ~Cascaded(c, s) => (Requesting(u, s) <=> Requesting(c, s))
               /\ Cascaded(c, s) => s \in {6, 7} /\ ~c.ctl[s].sfnm
    <2>1. s \in Erased(c) => Cascaded(c, s)
      BY DEF Erased
    <2>2. s \in {6, 7} => ~c.ctl[s].sfnm
      BY DEF ICOk, CtlFits
    <2>3. QED
      BY <2>1, <2>2 DEF Cascaded, Requesting
  <1>2. ASSUME NEW s \in Sources
        PROVE  (Blocks(u, s) <=> Blocks(c, s)) /\ (Wants(u, s) <=> Wants(c, s))
    BY <1>1 DEF Blocks, Wants
  <1>3. Scanned(u) = Scanned(c) /\ Scanned(c) \subseteq Sources
    BY DEF Scanned
  <1>4. Stops(u) = Stops(c)
    BY <1>2, <1>3 DEF Stops
  <1>5. ASSUME NEW s, NEW t
        PROVE  Before(u, s, t) <=> Before(c, s, t)
    BY DEF Before
  <1>6. QED
    BY <1>2, <1>4, <1>5 DEF IsFirst

LEMMA UpdateWins ==
  ASSUME NEW c, ICOk(c), c.pending => c.intr
  PROVE  Winner(UpdateInterruptState(c))
  <1> DEFINE u == UpdateInterruptState(c)
  <1>1. u.pending => u.intr
    BY DEF UpdateInterruptState, ICOk, ICState
  <1>2. ASSUME NEW s \in Sources, IsFirst(u, s), Wants(u, s)
        PROVE  /\ u.intr /\ u.pending /\ u.ackMask = {s}
               /\ u.poll = [valid |-> TRUE, vector |-> VectorOf(u, s)]
    <2>1. IsFirst(c, s) /\ Wants(c, s)
      BY <1>2, UpdateFields, ScanUnchanged
    <2>2. First(c) = s /\ Stops(c) # {}
      BY <2>1, FirstUnique DEF IsFirst
    <2>3. ~Blocks(c, s)
      BY <2>1 DEF Wants
    <2>4. u = [[c EXCEPT !.request = @ \ Erased(c)] EXCEPT
                 !.ackMask = {s},
                 !.poll = [valid |-> TRUE, vector |-> VectorOf(c, s)],
                 !.intr = IF c.pending THEN @ ELSE TRUE,
                 !.pending = TRUE]
      BY <2>2, <2>3 DEF UpdateInterruptState
    <2>5. /\ u.ackMask = {s} /\ u.pending
          /\ u.poll = [valid |-> TRUE, vector |-> VectorOf(c, s)]
      BY <2>4 DEF ICOk, ICState
    <2>6. VectorOf(u, s) = VectorOf(c, s)
      BY UpdateFields DEF VectorOf
    <2>7. QED
      BY <1>1, <2>5, <2>6
  <1>3. ASSUME u.intr
        PROVE  \E s \in Sources : IsFirst(u, s) /\ (Wants(u, s) \/ Blocks(u, s))
    <2>1. Stops(c) # {}
      BY <1>3 DEF UpdateInterruptState, ICOk, ICState
    <2>2. IsFirst(c, First(c)) /\ First(c) \in Sources
      BY <2>1, FirstExists
    <2>3. Wants(c, First(c)) \/ Blocks(c, First(c))
      BY <2>2 DEF IsFirst, Stops
    <2>4. QED
      BY <2>2, <2>3, UpdateFields, ScanUnchanged
  <1>4. QED
    BY <1>1, <1>2, <1>3 DEF Winner, Suspended

\* The acknowledge leaves nothing deliverable: the source it serves, or the
\* one that stopped the scan before, now ends the scan.
LEMMA AcknowledgeWins ==
  ASSUME NEW c, ICOk(c), Winner(c)
  PROVE  Winner(IntCallback(c))
  <1> DEFINE a == IntCallback(c)
  <1>1. /\ a.ctl = c.ctl /\ a.priorityMask = c.priorityMask
        /\ a.inService = c.inService \cup c.ackMask
        /\ a.request = c.request \ {s \in c.ackMask : ~c.ctl[s].ltm}
        /\ c.ackMask # {TMR} => a.status = c.status
        /\ a.status \subseteq c.status
        /\ ~a.pending /\ ~a.intr
    BY DEF IntCallback, ICOk, ICState
  <1> HIDE DEF a
  <1>2. ASSUME NEW s \in Sources, Requesting(a, s)
        PROVE  Requesting(c, s)
    BY <1>1, <1>2 DEF Requesting
  <1>3. ASSUME NEW s \in Sources, Blocks(c, s)
        PROVE  Blocks(a, s)
    BY <1>1, <1>2, <1>3 DEF Blocks
  <1>4. ASSUME NEW t \in Sources, Wants(c, t)
        PROVE  Blocks(a, t) \/ Wants(a, t)
    <2>1. Cascaded(a, t) <=> Cascaded(c, t)
      BY <1>1 DEF Cascaded
    <2>2. CASE t \in c.ackMask
      BY <1>1, <1>4, <2>1, <2>2 DEF Wants, Blocks
    <2>3. CASE t \notin c.ackMask
      <3>1. Requesting(a, t) <=> Requesting(c, t)
        BY <1>1, <2>3 DEF Requesting, TMR
      <3>2. QED
        BY <1>4, <2>1, <3>1 DEF Wants
    <2>4. QED
      BY <2>2, <2>3
  <1>5. \A s, t : Before(a, s, t) <=> Before(c, s, t)
    BY <1>1 DEF Before
  <1>6. Stops(c) \subseteq Stops(a)
    <2>1. Scanned(a) = Scanned(c) /\ Scanned(c) \subseteq Sources
      BY <1>1 DEF Scanned
    <2>2. QED
      BY <1>3, <1>4, <2>1 DEF Stops
  <1>7. ASSUME ~SelfNesting(a), NEW s \in Sources, IsFirst(a, s), Wants(a, s)
        PROVE  FALSE
    <2>1. Wants(c, s)
      <3>1. Cascaded(a, s) <=> Cascaded(c, s)
        BY <1>1 DEF Cascaded
      <3>2. QED
        BY <1>2, <1>3, <1>7, <3>1 DEF Wants
    <2>2. IsFirst(c, s)
      <3>1. s \in Stops(c)
        BY <1>1, <1>7, <2>1 DEF IsFirst, Stops, Scanned
      <3>2. QED
        BY <1>5, <1>6, <1>7, <3>1 DEF IsFirst
    <2>3. c.ackMask = {s}
      BY <1>1, <1>7, <2>1, <2>2 DEF Winner, SelfNesting
    <2>4. s \in a.inService /\ ~Blocks(a, s) /\ Requesting(a, s)
      BY <1>1, <1>7, <2>3 DEF Wants
    <2>5. c.ctl[s].sfnm
      BY <1>1, <2>4 DEF Blocks
    <2>6. s # TMR
      BY <2>5 DEF ICOk, CtlFits, TMR
    <2>7. c.ctl[s].ltm
      BY <1>1, <2>3, <2>4, <2>6 DEF Requesting
    <2>8. QED
      BY <1>1, <1>7, <2>5, <2>7 DEF SelfNesting
  <1>8. QED
    BY <1>1, <1>7 DEF Winner, a

-----------------------------------------------------------------------------
(* Every handler changes some registers and then runs the scan.            *)

\* A state the scan may run from: well formed, with c's pending and INTR, and
\* nothing new in service or to be acknowledged.  Under the discipline of
\* ~Rewrites control words change only while nothing is in service.  Requests
\* are missing only when withdrawn or when the step is a store that names them.
Prepared(c, x) ==
  /\ ICOk(x) /\ x.pending = c.pending /\ x.intr = c.intr
  /\ x.ackMask \subseteq c.ackMask
  /\ Rewrites \/ /\ x.inService \subseteq c.inService
                 /\ \/ x.inService = {}
                    \/ x.ctl = c.ctl /\ x.priorityMask = c.priorityMask
  /\ \A s \in c.request \ x.request :
        s \in Ext \ x.extState \/ (s \in Dma /\ WriteRequestRegister)
  /\ c.status \subseteq x.status \/ WriteStatusRegister

LEMMA CallbackType ==
  ASSUME NEW c, ICOk(c)
  PROVE  ICOk(IntCallback(c))
  <1>1. [c.poll EXCEPT !.valid = FALSE] \in [valid : BOOLEAN, vector : Vectors]
    BY DEF ICOk, ICState
  <1> DEFINE request == c.request \ {s \in c.ackMask : ~c.ctl[s].ltm}
             inService == c.inService \cup c.ackMask
             status == IF c.ackMask = {TMR}
                         THEN c.status \ {t \in Timers : TimerVector[t] = c.poll.vector}
                         ELSE c.status
  <1>2. IntCallback(c) \in ICState
    <2>1. c \in ICState
      BY DEF ICOk
    <2>2. request \subseteq Sources /\ inService \subseteq Sources /\ status \subseteq Timers
      BY <2>1 DEF ICState
    <2>3. IntCallback(c) = [c EXCEPT !.intr = FALSE, !.pending = FALSE,
                              !.request = request, !.inService = inService,
                              !.status = status, !.ackMask = {},
                              !.poll = [c.poll EXCEPT !.valid = FALSE]]
      BY <2>1 DEF IntCallback, ICState
    <2>4. HIDE DEF request, inService, status
    <2>5. QED
      BY <1>1, <2>1, <2>2, <2>3, ZenonT(30) DEF ICState
  <1>3. /\ IntCallback(c).ctl = c.ctl
        /\ IntCallback(c).extState = c.extState
        /\ IntCallback(c).request \subseteq c.request
    BY DEF IntCallback, ICOk, ICState
  <1>4. QED
    BY <1>2, <1>3 DEF ICOk

LEMMA ResetType ==
  ASSUME NEW c, c.intr \in BOOLEAN
  PROVE  ICOk(DeviceReset(c)) /\ Winner(DeviceReset(c))
  <1> DEFINE r == DeviceReset(c)
  <1>1. /\ r.ctl = [s \in Sources |-> Level(15)]
        /\ r.priorityMask = 7 /\ ~r.pending
        /\ r.extState = {} /\ r.request = {}
    BY DEF DeviceReset
  <1>2. Level(15) \in Ctl
    BY DEF Level, Ctl
  <1>3. r \in ICState
    BY <1>2 DEF DeviceReset, ICState, Vectors
  <1>4. \A s \in Sources : CtlFits(s, r.ctl[s]) /\ r.ctl[s].lvl = 15
    BY <1>1 DEF CtlFits, Level
  <1>5. Stops(r) = {}
    BY <1>1, <1>4 DEF Stops, Scanned
  <1>6. Winner(r)
    <2>1. Unprogrammed(r)
      BY <1>1, <1>4 DEF Unprogrammed, Scanned
    <2>2. QED
      BY <1>1, <1>5, <2>1 DEF Winner, IsFirst
  <1>7. QED
    BY <1>1, <1>3, <1>4, <1>6 DEF ICOk

LEMMA PowerOnType == ICOk(PowerOn) /\ Winner(PowerOn)
  <1>1. ASSUME NEW c, c = [intr |-> FALSE]
        PROVE  ICOk(DeviceReset(c)) /\ Winner(DeviceReset(c))
    <2>1. c.intr \in BOOLEAN
      BY <1>1
    <2>2. QED
      BY <2>1, ResetType
  <1>2. QED
    BY <1>1 DEF PowerOn

\* One step of the component either acknowledges, resets, does nothing, or
\* runs the scan, once or twice, from a prepared state.
LEMMA StepShape ==
  ASSUME ICOk(ic), Next
  PROVE  \/ ic' = IntCallback(ic)
         \/ ic' = DeviceReset(ic)
         \/ \E x : Prepared(ic, x) /\ ic' \in {UpdateInterruptState(x),
                     UpdateInterruptState(UpdateInterruptState(x))}
  <1> USE DEF Prepared
  <1>1. CASE RaiseLine
    <2>1. PICK s \in Ext : s \notin ic.extState /\ ic' = ExternalInt(ic, s, TRUE)
      BY <1>1 DEF RaiseLine
    <2> DEFINE x == [ic EXCEPT !.request = @ \cup {s}, !.extState = @ \cup {s}]
    <2>2. ic' = UpdateInterruptState(x)
      BY <2>1 DEF ExternalInt
    <2>3. s \in Sources /\ s # TMR
      BY <2>1 DEF Ext, TMR
    <2>4. Prepared(ic, x)
      BY <2>1, <2>3 DEF ICOk, ICState
    <2>5. QED
      BY <2>2, <2>4
  <1>2. CASE DropLine
    <2>1. PICK s \in Ext : s \in ic.extState /\ ic' = ExternalInt(ic, s, FALSE)
      BY <1>2 DEF DropLine
    <2> DEFINE x == [ic EXCEPT !.request = @ \ {s}, !.ackMask = @ \ {s},
                               !.extState = @ \ {s}]
    <2>2. ic' = UpdateInterruptState(x)
      BY <2>1 DEF ExternalInt
    <2>3. Prepared(ic, x)
      BY DEF ICOk, ICState
    <2>4. QED
      BY <2>2, <2>3
  <1>3. CASE Elapse
    <2>1. PICK t \in Elapsing : ic' = TimerRequest(ic, t)
      BY <1>3 DEF Elapse
    <2>2. Prepared(ic, [ic EXCEPT !.status = @ \cup {t}])
      BY ParameterAssumption DEF ICOk, ICState
    <2>3. QED
      BY <2>1, <2>2 DEF TimerRequest
  <1>4. CASE CpuAcknowledge
    BY <1>4 DEF CpuAcknowledge
  <1>5. CASE PollAcknowledge
    BY <1>5 DEF PollAcknowledge, ReadPoll
  <1>6. CASE EndOfInterrupt
    <2>1. \A S : Prepared(ic, [ic EXCEPT !.inService = @ \ S])
      BY DEF ICOk, ICState
    <2>2. QED
      BY <1>6, <2>1 DEF EndOfInterrupt, WriteEoiNonspecific, WriteEoiSpecific,
                        EoiNonspecific, EoiSpecific
  <1>7. CASE WriteMaskRegister
    <2>1. PICK M \in SUBSET Sources : ic' = WriteMask(ic, M)
      BY <1>7 DEF WriteMaskRegister
    <2> DEFINE w == [s \in Sources |-> [ic.ctl[s] EXCEPT
                       !.lvl = (@ % 8) + (IF s \in M THEN 8 ELSE 0)]]
    <2>2. \A n \in 0..15 : (n % 8) + 0 \in 0..15 /\ (n % 8) + 8 \in 0..15
      OBVIOUS
    <2>3. \A s \in Sources : w[s] \in Ctl /\ CtlFits(s, w[s])
      <3> TAKE s \in Sources
      <3>1. ic.ctl[s] \in Ctl /\ CtlFits(s, ic.ctl[s])
        BY DEF ICOk, ICState
      <3>2. QED
        BY <2>2, <3>1 DEF Ctl, CtlFits
    <2>4. Prepared(ic, [ic EXCEPT !.ctl = w])
      <3> HIDE DEF w
      <3>1. w \in [Sources -> Ctl]
        BY <2>3 DEF w
      <3>2. QED
        BY <1>7, <2>3, <3>1 DEF ICOk, ICState, WriteMaskRegister, MayRewrite
    <2>5. QED
      BY <2>1, <2>4 DEF WriteMask
  <1>8. CASE WritePriorityMaskRegister
    <2>1. PICK p \in PriorityMasks : ic' = WritePriorityMask(ic, p)
      BY <1>8 DEF WritePriorityMaskRegister
    <2>2. Prepared(ic, [ic EXCEPT !.priorityMask = p])
      BY <1>8, ParameterAssumption
         DEF ICOk, ICState, WritePriorityMaskRegister, MayRewrite
    <2>3. QED
      BY <2>1, <2>2 DEF WritePriorityMask
  <1>9. CASE WriteControlRegister
    <2>1. PICK s \in Sources \ Dma, c \in CtlWords :
            CtlFits(s, c) /\ ic' = WriteCtl(ic, s, c)
      BY <1>9 DEF WriteControlRegister
    <2>2. Prepared(ic, [ic EXCEPT !.ctl[s] = c])
      BY <1>9, <2>1, ParameterAssumption DEF ICOk, ICState, WriteControlRegister, MayRewrite
    <2>3. QED
      BY <2>1, <2>2 DEF WriteCtl
  <1>10. CASE WriteInServiceRegister
    <2>1. PICK S \in SUBSET Sources :
            (Rewrites \/ S \subseteq ic.inService) /\ ic' = WriteInService(ic, S)
      BY <1>10 DEF WriteInServiceRegister
    <2>2. Prepared(ic, [ic EXCEPT !.inService = S])
      BY <2>1 DEF ICOk, ICState
    <2>3. QED
      BY <2>1, <2>2 DEF WriteInService
  <1>11. CASE WriteRequestRegister
    <2>1. PICK D \in SUBSET Dma : ic' = WriteRequest(ic, D)
      BY <1>11 DEF WriteRequestRegister
    <2>2. Prepared(ic, [ic EXCEPT !.request = (@ \ Dma) \cup D])
      BY <1>11 DEF ICOk, ICState, Dma, TMR
    <2>3. QED
      BY <2>1, <2>2 DEF WriteRequest
  <1>12. CASE WriteStatusRegister
    <2>1. PICK T \in SUBSET Elapsing : ic' = WriteStatus(ic, T)
      BY <1>12 DEF WriteStatusRegister
    <2>2. Prepared(ic, [ic EXCEPT !.status = T])
      BY <1>12, ParameterAssumption DEF ICOk, ICState
    <2>3. QED
      BY <2>1, <2>2 DEF WriteStatus
  <1>13. CASE Reset
    BY <1>13 DEF Reset
  <1>14. QED
    BY <1>1, <1>2, <1>3, <1>4, <1>5, <1>6, <1>7, <1>8, <1>9, <1>10, <1>11,
       <1>12, <1>13 DEF Next

-----------------------------------------------------------------------------
(* Type correctness: no sequence of requests, acknowledges and register    *)
(* writes drives a register of the controller out of its width.            *)
THEOREM TypeCorrect == Spec => []TypeOK
  <1>1. Init => TypeOK
    BY PowerOnType DEF Init, TypeOK
  <1>2. TypeOK /\ [Next]_ic => TypeOK'
    <2> SUFFICES ASSUME TypeOK, [Next]_ic PROVE TypeOK'
      OBVIOUS
    <2>1. CASE Next
      <3>1. ic.intr \in BOOLEAN
        BY DEF TypeOK, ICOk, ICState
      <3>2. ASSUME NEW x, Prepared(ic, x)
            PROVE  /\ ICOk(UpdateInterruptState(x))
                   /\ ICOk(UpdateInterruptState(UpdateInterruptState(x)))
        BY <3>2, UpdateType DEF Prepared
      <3>3. ICOk(ic')
        BY <2>1, <3>1, <3>2, StepShape, CallbackType, ResetType DEF TypeOK
      <3>4. QED
        BY <3>3 DEF TypeOK
    <2>2. CASE UNCHANGED ic
      BY <2>2 DEF TypeOK
    <2>3. QED
      BY <2>1, <2>2
  <1>3. QED
    BY <1>1, <1>2, PTL DEF Spec

(* No lost interrupt: NoLostInterrupt holds in every reachable state.  The *)
(* inductive invariant is WinnerAsserted: a winner of the scan is what is  *)
(* asserted, so the acknowledge serves it and leaves nothing behind; and   *)
(* INTR is up without a winner only when a source in service suspended the *)
(* scan, or after a reset.                                                 *)
THEOREM NothingLost == Spec => [](NoLostInterrupt /\ WinnerAsserted)
  <1>1. Init => WinnerAsserted
    BY PowerOnType DEF Init, WinnerAsserted
  <1>2. TypeOK /\ WinnerAsserted /\ [Next]_ic => WinnerAsserted'
    <2> SUFFICES ASSUME TypeOK, WinnerAsserted, [Next]_ic PROVE WinnerAsserted'
      OBVIOUS
    <2>1. CASE Next
      <3>1. ic.intr \in BOOLEAN
        BY DEF TypeOK, ICOk, ICState
      <3>2. ASSUME NEW x, Prepared(ic, x)
            PROVE  /\ Winner(UpdateInterruptState(x))
                   /\ Winner(UpdateInterruptState(UpdateInterruptState(x)))
        <4>1. ICOk(x) /\ (x.pending => x.intr)
          BY <3>2 DEF Prepared, WinnerAsserted, Winner
        <4>2. Winner(UpdateInterruptState(x)) /\ ICOk(UpdateInterruptState(x))
          BY <4>1, UpdateWins, UpdateType
        <4>3. QED
          BY <4>2, UpdateWins DEF Winner
      <3>3. Winner(ic')
        BY <2>1, <3>1, <3>2, StepShape, AcknowledgeWins, ResetType
           DEF TypeOK, WinnerAsserted
      <3>4. QED
        BY <3>3 DEF WinnerAsserted
    <2>2. CASE UNCHANGED ic
      BY <2>2 DEF WinnerAsserted
    <2>3. QED
      BY <2>1, <2>2
  <1>3. WinnerAsserted => NoLostInterrupt
    BY DEF WinnerAsserted, Winner, NoLostInterrupt
  <1>4. QED
    BY <1>1, <1>2, <1>3, TypeCorrect, PTL DEF Spec

-----------------------------------------------------------------------------
(* Nesting.                                                                *)

\* What the next acknowledge serves precedes all that is in service.
Nested(c) == \A s \in c.ackMask, t \in c.inService : s = t \/ Before(c, s, t)

\* The scan finds its winner before any other source in service: that would
\* have stopped it, or lies beyond the priority mask.
LEMMA WinnerPrecedes ==
  ASSUME NEW c, ICOk(c), NEW s \in Sources, IsFirst(c, s),
         NEW t \in c.inService, s # t
  PROVE  Before(c, s, t)
  <1>1. t \in Sources /\ c.ctl[s].lvl \in 0..15 /\ c.ctl[t].lvl \in 0..15
    BY DEF ICOk, ICState, Ctl
  <1>2. s \in Scanned(c) /\ c.priorityMask \in 0..7
    BY DEF IsFirst, Stops, ICOk, ICState
  <1>3. CASE t \notin Scanned(c)
    BY <1>1, <1>2, <1>3 DEF Scanned, Before
  <1>4. CASE t \in Scanned(c)
    <2>1. c.ctl[t].sfnm => ~Cascaded(c, t)
      BY <1>1 DEF ICOk, CtlFits, Cascaded
    <2>2. Blocks(c, t) \/ Wants(c, t)
      BY <2>1 DEF Blocks, Wants
    <2>3. QED
      BY <1>4, <2>2 DEF IsFirst, Stops
  <1>5. QED
    BY <1>3, <1>4

LEMMA UpdateNests ==
  ASSUME NEW c, ICOk(c), Nested(c)
  PROVE  Nested(UpdateInterruptState(c))
  <1> DEFINE u == UpdateInterruptState(c)
  <1>1. u.ctl = c.ctl /\ u.inService = c.inService
    BY UpdateFields
  <1>2. CASE Stops(c) = {} \/ Blocks(c, First(c))
    <2>1. u.ackMask = c.ackMask
      BY <1>2 DEF UpdateInterruptState, ICOk, ICState
    <2>2. QED
      BY <1>1, <2>1 DEF Nested, Before
  <1>3. CASE Stops(c) # {} /\ ~Blocks(c, First(c))
    <2>1. IsFirst(c, First(c)) /\ First(c) \in Sources
      BY <1>3, FirstExists
    <2>2. u.ackMask = {First(c)}
      BY <1>3 DEF UpdateInterruptState, ICOk, ICState
    <2>3. \A t \in c.inService : First(c) = t \/ Before(c, First(c), t)
      BY <2>1, WinnerPrecedes
    <2>4. QED
      BY <1>1, <2>2, <2>3 DEF Nested, Before
  <1>4. QED
    BY <1>2, <1>3

\* A step that runs the scan keeps the nesting and puts nothing in service.
LEMMA ScanNests ==
  ASSUME ~Rewrites, ICOk(ic), Nested(ic), NEW x, Prepared(ic, x),
         NEW u \in {UpdateInterruptState(x), UpdateInterruptState(UpdateInterruptState(x))}
  PROVE  Nested(u) /\ u.inService \subseteq ic.inService
  <1>1. ICOk(x) /\ x.inService \subseteq ic.inService /\ x.ackMask \subseteq ic.ackMask
    BY DEF Prepared
  <1>2. Nested(x)
    BY <1>1 DEF Prepared, Nested, Before
  <1> DEFINE y == UpdateInterruptState(x)
  <1>3. ICOk(y) /\ Nested(y) /\ y.inService = x.inService
    BY <1>1, <1>2, UpdateType, UpdateNests, UpdateFields
  <1>4. Nested(UpdateInterruptState(y)) /\ UpdateInterruptState(y).inService = y.inService
    <2> HIDE DEF y
    <2>1. QED
      BY <1>3, UpdateNests, UpdateFields
  <1>5. QED
    BY <1>1, <1>3, <1>4

\* Strict nesting: when control words, masks and in-service bits are left alone
\* while an interrupt is in service, an acknowledge serves only a source of
\* higher priority than all those whose handlers are under way.  The inductive
\* invariant is Nested.
THEOREM AcknowledgesNest ==
  ASSUME ~Rewrites
  PROVE  Spec => StrictNesting
  <1> DEFINE Preempts == \A s \in ic'.inService \ ic.inService, t \in ic.inService :
                           Before(ic, s, t)
  <1>1. Init => Nested(ic)
    BY DEF Init, Nested, PowerOn, DeviceReset
  <1>2. TypeOK /\ Nested(ic) /\ [Next]_ic => Nested(ic)' /\ (Preempts \/ UNCHANGED ic)
    <2> SUFFICES ASSUME TypeOK, Nested(ic), Next
                 PROVE  Nested(ic') /\ Preempts
      BY DEF Nested, Before
    <2>1. ICOk(ic)
      BY DEF TypeOK
    <2>2. CASE ic' = IntCallback(ic)
      <3>1. ic'.inService = ic.inService \cup ic.ackMask /\ ic'.ackMask = {}
        BY <2>1, <2>2 DEF IntCallback, ICOk, ICState
      <3>2. QED
        BY <3>1 DEF Nested
    <2>3. CASE ic' = DeviceReset(ic)
      BY <2>3 DEF DeviceReset, Nested
    <2>4. CASE \E x : Prepared(ic, x) /\ ic' \in {UpdateInterruptState(x),
                         UpdateInterruptState(UpdateInterruptState(x))}
      <3>1. Nested(ic') /\ ic'.inService \subseteq ic.inService
        BY <2>1, <2>4, ScanNests
      <3>2. QED
        BY <3>1
    <2>5. QED
      BY <2>1, <2>2, <2>3, <2>4, StepShape
  <1>3. QED
    BY <1>1, <1>2, TypeCorrect, PTL DEF Spec, StrictNesting

\* While INTR is up, what an acknowledge would serve was the scan's choice: it
\* is scanned, no acknowledge output, and in service only if it may nest.
Chosen(c) ==
  c.intr => \A s \in c.ackMask : /\ s \in Scanned(c) /\ ~Cascaded(c, s)
                                 /\ s \in c.inService => c.ctl[s].sfnm

\* The scan keeps an old choice only when a source in service stops it.
LEMMA UpdateChooses ==
  ASSUME NEW c, ICOk(c), c.inService # {} => Chosen(c)
  PROVE  Chosen(UpdateInterruptState(c))
  <1> DEFINE u == UpdateInterruptState(c)
  <1>1. /\ u.ctl = c.ctl /\ u.inService = c.inService
        /\ u.priorityMask = c.priorityMask
    BY UpdateFields
  <1>2. \A s : /\ s \in Scanned(u) <=> s \in Scanned(c)
               /\ Cascaded(u, s) <=> Cascaded(c, s)
    BY <1>1 DEF Scanned, Cascaded
  <1>3. CASE Stops(c) = {}
    <2>1. ~u.intr
      BY <1>3 DEF UpdateInterruptState, ICOk, ICState
    <2>2. QED
      BY <2>1 DEF Chosen
  <1>4. CASE Stops(c) # {} /\ Blocks(c, First(c))
    <2>1. u.ackMask = c.ackMask /\ u.intr = c.intr
      BY <1>4 DEF UpdateInterruptState, ICOk, ICState
    <2>2. Chosen(c)
      BY <1>4 DEF Blocks
    <2> HIDE DEF u
    <2>3. Chosen(u)
      BY <1>1, <1>2, <2>1, <2>2 DEF Chosen
    <2>4. QED
      BY <2>3 DEF u
  <1>5. CASE Stops(c) # {} /\ ~Blocks(c, First(c))
    <2>1. IsFirst(c, First(c)) /\ First(c) \in Sources
      BY <1>5, FirstExists
    <2>2. u.ackMask = {First(c)}
      BY <1>5 DEF UpdateInterruptState, ICOk, ICState
    <2>3. First(c) \in Scanned(c) /\ Wants(c, First(c))
      BY <1>5, <2>1 DEF IsFirst, Stops
    <2>4. First(c) \in c.inService => c.ctl[First(c)].sfnm
      BY <1>5 DEF Blocks
    <2> HIDE DEF u
    <2>5. Chosen(u)
      BY <1>1, <1>2, <2>2, <2>3, <2>4 DEF Chosen, Wants
    <2>6. QED
      BY <2>5 DEF u
  <1>6. QED
    BY <1>3, <1>4, <1>5

\* So does a step that runs the scan once or twice.
LEMMA ScanChooses ==
  ASSUME ~Rewrites, ICOk(ic), Chosen(ic), NEW x, Prepared(ic, x),
         NEW u \in {UpdateInterruptState(x), UpdateInterruptState(UpdateInterruptState(x))}
  PROVE  Chosen(u)
  <1>1. ICOk(x)
    BY DEF Prepared
  <1>2. x.inService # {} => Chosen(x)
    BY DEF Prepared, Chosen, Scanned, Cascaded
  <1> DEFINE y == UpdateInterruptState(x)
  <1>3. ICOk(y) /\ Chosen(y)
    BY <1>1, <1>2, UpdateType, UpdateChooses
  <1>4. Chosen(UpdateInterruptState(y))
    <2> HIDE DEF y
    <2>1. QED
      BY <1>3, UpdateChooses
  <1>5. QED
    BY <1>3, <1>4

\* A suspended INTR is a withdrawn request's: when control words, masks and
\* in-service bits are left alone while an interrupt is in service, INTR is up
\* without a winner only for a request that has been withdrawn since.  What
\* stood when the scan chose it and still stands precedes all that is in
\* service, so nothing could have suspended it.
THEOREM StaleAcknowledges ==
  ASSUME ~Rewrites
  PROVE  Spec => []StaleIsWithdrawn
  <1> DEFINE Inv == Nested(ic) /\ Chosen(ic)
  <1>1. Init => Inv
    BY DEF Init, Nested, Chosen, PowerOn, DeviceReset
  <1>2. TypeOK /\ Inv /\ [Next]_ic => Inv'
    <2> SUFFICES ASSUME TypeOK, Inv, Next PROVE Nested(ic') /\ Chosen(ic')
      BY DEF Nested, Chosen, Before, Scanned, Cascaded
    <2>1. ICOk(ic)
      BY DEF TypeOK
    <2>2. CASE ic' = IntCallback(ic)
      <3>1. ic'.ackMask = {}
        BY <2>1, <2>2 DEF IntCallback, ICOk, ICState
      <3>2. QED
        BY <3>1 DEF Nested, Chosen
    <2>3. CASE ic' = DeviceReset(ic)
      BY <2>3 DEF DeviceReset, Nested, Chosen
    <2>4. CASE \E x : Prepared(ic, x) /\ ic' \in {UpdateInterruptState(x),
                         UpdateInterruptState(UpdateInterruptState(x))}
      BY <2>1, <2>4, ScanNests, ScanChooses
    <2>5. QED
      BY <2>1, <2>2, <2>3, <2>4, StepShape
  <1>3. TypeOK /\ Inv => StaleIsWithdrawn
    <2> SUFFICES ASSUME TypeOK, Inv, ic.intr,
                        NEW b \in Sources, IsFirst(ic, b), Blocks(ic, b),
                        NEW s \in ic.ackMask, Requesting(ic, s)
                 PROVE  FALSE
      BY DEF StaleIsWithdrawn, Suspended
    <2>1. s \in Scanned(ic) /\ ~Cascaded(ic, s) /\ ~Blocks(ic, s)
      BY DEF Chosen, Blocks
    <2>2. s \in Stops(ic) /\ s # b
      BY <2>1 DEF Stops, Wants
    <2>3. Before(ic, s, b) /\ Before(ic, b, s)
      BY <2>2 DEF Nested, Blocks, IsFirst
    <2>4. /\ s \in Int /\ b \in Int
          /\ ic.ctl[s].lvl \in Int /\ ic.ctl[b].lvl \in Int
      BY <2>1, SourcesAssumption DEF TypeOK, ICOk, ICState, Ctl, Scanned
    <2>5. QED
      BY <2>3, <2>4 DEF Before
  <1>4. QED
    BY <1>1, <1>2, <1>3, TypeCorrect, PTL DEF Spec

-----------------------------------------------------------------------------
(* Requests.                                                               *)

\* The scan erases only requests of lines that serve as acknowledge outputs.
LEMMA ScanKeeps ==
  ASSUME NEW c, ICOk(c)
  PROVE  LET u == UpdateInterruptState(c)
         IN  /\ \A s \in c.request \ u.request : Cascaded(u, s)
             /\ u.ctl = c.ctl /\ u.extState = c.extState /\ u.status = c.status
  <1> DEFINE u == UpdateInterruptState(c)
  <1>1. /\ u.ctl = c.ctl /\ u.extState = c.extState /\ u.status = c.status
        /\ u.request = c.request \ Erased(c)
    BY UpdateFields
  <1>2. \A s \in Erased(c) : Cascaded(c, s)
    BY DEF Erased
  <1> HIDE DEF u
  <1>3. \A s \in c.request \ u.request : Cascaded(u, s)
    BY <1>1, <1>2 DEF Cascaded
  <1>4. QED
    BY <1>1, <1>3 DEF u

\* A request is gone after the scan, or after two of them.
LEMMA ScansKeep ==
  ASSUME NEW x, ICOk(x),
         NEW u \in {UpdateInterruptState(x), UpdateInterruptState(UpdateInterruptState(x))}
  PROVE  /\ \A s \in x.request \ u.request : Cascaded(u, s)
         /\ u.extState = x.extState /\ u.status = x.status
  <1> DEFINE y == UpdateInterruptState(x)
             z == UpdateInterruptState(y)
  <1>1. /\ \A s \in x.request \ y.request : Cascaded(y, s)
        /\ y.ctl = x.ctl /\ y.extState = x.extState /\ y.status = x.status
    BY ScanKeeps
  <1>2. ICOk(y)
    BY UpdateType
  <1> HIDE DEF y
  <1>3. /\ \A s \in y.request \ z.request : Cascaded(z, s)
        /\ z.ctl = y.ctl /\ z.extState = y.extState /\ z.status = y.status
    BY <1>2, ScanKeeps
  <1>4. u = y \/ u = z
    BY DEF y
  <1> HIDE DEF z
  <1>5. \A s : Cascaded(z, s) <=> Cascaded(y, s)
    BY <1>3 DEF Cascaded
  <1>6. QED
    BY <1>1, <1>3, <1>4, <1>5

\* The acknowledge of a timer clears the status bit of one timer.
LEMMA OneTimerServed ==
  ASSUME NEW c, ICOk(c)
  PROVE  ~(Cardinality(c.status \ IntCallback(c).status) > 1)
  <1> DEFINE gone == c.status \ IntCallback(c).status
  <1>1. gone \subseteq {t \in Timers : TimerVector[t] = c.poll.vector}
    BY DEF IntCallback, ICOk, ICState
  <1> HIDE DEF gone
  <1>2. \A t, u \in gone : t = u
    <2>1. TimerVector[0] = 8 /\ TimerVector[1] = 18 /\ TimerVector[2] = 19
      BY DEF TimerVector, Timers
    <2>2. \A t \in gone : t \in {0, 1, 2} /\ TimerVector[t] = c.poll.vector
      BY <1>1 DEF Timers
    <2>3. QED
      BY <2>1, <2>2
  <1>3. CASE gone = {}
    <2>1. Cardinality(gone) = 0
      BY <1>3, FS_EmptySet
    <2>2. QED
      BY <2>1 DEF gone
  <1>4. CASE gone # {}
    <2>1. PICK t \in gone : gone = {t}
      BY <1>2, <1>4
    <2>2. Cardinality(gone) = 1
      BY <2>1, FS_Singleton
    <2>3. QED
      BY <2>2 DEF gone
  <1>5. QED
    BY <1>3, <1>4

\* Nothing is forgotten: a latched request disappears only by being put in
\* service, withdrawn, named by a store, turned into an output or reset, and an
\* acknowledge answers one timer at a time.
THEOREM RequestsKept == Spec => NothingForgotten
  <1> DEFINE Gone(s) == \/ s \in ic'.inService
                        \/ s \in Ext /\ s \notin ic'.extState
                        \/ s \in Dma /\ (WriteRequestRegister \/ Reset)
                        \/ Cascaded(ic', s)
             Accounted == /\ \A s \in ic.request \ ic'.request : Gone(s)
                          /\ Cardinality(ic.status \ ic'.status) > 1 =>
                               WriteStatusRegister \/ Reset
  <1>1. TypeOK /\ [Next]_ic => (Accounted \/ UNCHANGED ic)
    <2> SUFFICES ASSUME ICOk(ic), Next PROVE Accounted
      BY DEF TypeOK
    <2>1. CASE Reset
      <3>1. \A s \in ic.request : s \in Dma \/ s \in Ext
        BY SourcesAssumption DEF ICOk, ICState, Dma, Ext, TMR
      <3>2. ic'.extState = {}
        BY <2>1 DEF Reset, DeviceReset
      <3>3. QED
        BY <2>1, <3>1, <3>2
    <2>2. CASE ic' = IntCallback(ic)
      <3>1. /\ ic'.inService = ic.inService \cup ic.ackMask
            /\ ic.request \ ic'.request \subseteq ic.ackMask
        BY <2>2 DEF IntCallback, ICOk, ICState
      <3>2. ~(Cardinality(ic.status \ ic'.status) > 1)
        BY <2>2, OneTimerServed
      <3>3. QED
        BY <3>1, <3>2
    <2>3. CASE \E x : Prepared(ic, x) /\ ic' \in {UpdateInterruptState(x),
                         UpdateInterruptState(UpdateInterruptState(x))}
      <3>1. PICK x : Prepared(ic, x) /\ ic' \in {UpdateInterruptState(x),
                       UpdateInterruptState(UpdateInterruptState(x))}
        BY <2>3
      <3>2. /\ \A s \in x.request \ ic'.request : Cascaded(ic', s)
            /\ ic'.extState = x.extState /\ ic'.status = x.status
        BY <3>1, ScansKeep DEF Prepared
      <3>3. \A s \in ic.request \ ic'.request : Gone(s)
        BY <3>1, <3>2 DEF Prepared
      <3>4. WriteStatusRegister \/ ic.status \ ic'.status = {}
        BY <3>1, <3>2 DEF Prepared
      <3>5. ~(Cardinality({}) > 1)
        BY FS_EmptySet
      <3>6. QED
        BY <3>3, <3>4, <3>5
    <2>4. QED
      BY <2>1, <2>2, <2>3, StepShape DEF Reset
  <1>2. QED
    BY <1>1, TypeCorrect, PTL DEF Spec, NothingForgotten

-----------------------------------------------------------------------------
(* The register block.                                                     *)

LEMMA NumberType ==
  ASSUME NEW w
  PROVE  Number(w) \in 0..15
  BY DEF Number

\* A control word that is stored has only the mode bits its source has.
LEMMA ControlFits ==
  ASSUME NEW r \in {25} \cup 28..31, NEW w, Controlled(r) \in Sources
  PROVE  /\ Controlled(r) \in Sources \ Dma
         /\ CtlFits(Controlled(r), Control(Controlled(r), w))
  <1>1. Controlled(r) \in {0} \cup 4..7
    BY DEF Controlled, TMR
  <1>2. Controlled(r) \notin Dma
    BY <1>1 DEF Dma
  <1>3. CtlFits(Controlled(r), Control(Controlled(r), w))
    <2>1. ASSUME NEW s \in {0} \cup 4..7
          PROVE  /\ s < 4 => ~Control(s, w).ltm
                 /\ s \notin {4, 5} => ~Control(s, w).cascade /\ ~Control(s, w).sfnm
      <3>1. s < 4 => ~Control(s, w).ltm
        <4>1. s < 4 => ~(s >= 4)
          OBVIOUS
        <4>2. ~(s >= 4) => Control(s, w).ltm = FALSE
          BY Zenon DEF Control
        <4>3. QED
          BY <4>1, <4>2
      <3>2. s \notin {4, 5} => Control(s, w).cascade = FALSE
        BY DEF Control
      <3>3. s \notin {4, 5} => Control(s, w).sfnm = FALSE
        BY DEF Control
      <3>4. QED
        BY <3>1, <3>2, <3>3
    <2>2. QED
      BY <1>1, <2>1 DEF CtlFits
  <1>4. QED
    BY <1>2, <1>3

\* The registers behind which there is no interrupt controller.
LEMMA OtherRegisters ==
  ASSUME NEW r, NEW w, r \notin {17} \cup 20..25 \cup 28..31
  PROVE  WriteIntr(block, r, w).ic = ic
  BY DEF WriteIntr, block

\* A store to a register of the controller is the operation of that name.
LEMMA ControllerStores ==
  ASSUME NEW r, NEW w, NEW c, c = WriteIntr(block, r, w).ic
  PROVE  /\ r = 17 => \/ c = WriteEoiNonspecific(ic)
                      \/ c = WriteEoiSpecific(ic, EoiVector(w))
         /\ r = 20 => c = WriteMask(ic, Masking(w))
         /\ r = 21 => c = WritePriorityMask(ic, Number(w \cap 0..2))
         /\ r = 22 => c = WriteInService(ic, w \cap Sources)
         /\ r = 23 => c = WriteRequest(ic, w \cap Dma)
         /\ r = 24 => c = WriteStatus(ic, w \cap Timers)
         /\ r \in {25} \cup 28..31 =>
              c = WriteCtl(ic, Controlled(r), Control(Controlled(r), w))
  BY DEF WriteIntr, block

\* What a disciplined program stores is a step of the controller, or none.
LEMMA StoreSteps ==
  ASSUME NEW o \in Offsets, NEW w, Disciplined(o, w), ic' = Written(block, o, w).ic
  PROVE  Next \/ UNCHANGED ic
  <1> DEFINE r == InternalPortOffset(o)
             c == WriteIntr(block, r, w).ic
  <1>1. CASE r \in {41, 127, 128}
    BY <1>1 DEF Written, block
  <1>2. CASE r \notin {41, 127, 128}
    <2>1. ic' = c
      BY <1>2 DEF Written
    <2>2. CASE r \notin {17} \cup 20..25 \cup 28..31
      BY <2>1, <2>2, OtherRegisters
    <2>3. CASE r = 17
      <3>1. EoiVector(w) \in 0..31
        BY NumberType DEF EoiVector
      <3>2. ic' = WriteEoiNonspecific(ic) \/ ic' = WriteEoiSpecific(ic, EoiVector(w))
        <4>1. ASSUME NEW b, b = WriteIntr(block, 17, w).ic
              PROVE  b = WriteEoiNonspecific(ic) \/ b = WriteEoiSpecific(ic, EoiVector(w))
          BY <4>1, ControllerStores
        <4> HIDE DEF r
        <4>2. ic' = WriteIntr(block, 17, w).ic
          BY <2>1, <2>3
        <4>3. QED
          BY <4>1, <4>2
      <3>3. EndOfInterrupt
        BY <3>1, <3>2 DEF EndOfInterrupt
      <3>4. QED
        BY <3>3 DEF Next
    <2>4. CASE r = 20
      <3>1. MayRewrite
        BY <2>4 DEF Disciplined
      <3>2. ic' = WriteMask(ic, Masking(w))
        <4> HIDE DEF r
        <4>1. QED
          BY <2>1, <2>4, ControllerStores
      <3>3. Masking(w) \in SUBSET Sources
        BY DEF Masking
      <3>4. QED
        BY <3>1, <3>2, <3>3 DEF WriteMaskRegister, Next
    <2>5. CASE r = 21
      <3> DEFINE p == Number(w \cap 0..2)
      <3>1. MayRewrite /\ p \in PriorityMasks
        BY <2>5 DEF Disciplined
      <3>2. ic' = WritePriorityMask(ic, p)
        <4> HIDE DEF r
        <4>1. QED
          BY <2>1, <2>5, ControllerStores
      <3>3. QED
        BY <3>1, <3>2 DEF WritePriorityMaskRegister, Next
    <2>6. CASE r = 22
      <3>1. Rewrites \/ w \cap Sources \subseteq ic.inService
        BY <2>6 DEF Disciplined
      <3>2. ic' = WriteInService(ic, w \cap Sources)
        <4> HIDE DEF r
        <4>1. QED
          BY <2>1, <2>6, ControllerStores
      <3>3. QED
        BY <3>1, <3>2 DEF WriteInServiceRegister, Next
    <2>7. CASE r = 23
      <3>1. ic' = WriteRequest(ic, w \cap Dma)
        BY <2>1, <2>7, ControllerStores
      <3>2. QED
        BY <3>1 DEF WriteRequestRegister, Next
    <2>8. CASE r = 24
      <3>1. TMR \in Sources /\ w \cap Timers \subseteq Elapsing
        BY <2>8 DEF Disciplined
      <3>2. ic' = WriteStatus(ic, w \cap Timers)
        <4> HIDE DEF r
        <4>1. QED
          BY <2>1, <2>8, ControllerStores, ZenonT(30)
      <3>3. QED
        BY <3>1, <3>2 DEF WriteStatusRegister, Next
    <2>9. CASE r \in {25} \cup 28..31
      <3> DEFINE s == Controlled(r)
                 word == Control(s, w)
      <3>1. MayRewrite /\ s \in Sources /\ word \in CtlWords
        BY <2>9 DEF Disciplined
      <3>2. s \in Sources \ Dma /\ CtlFits(s, word)
        BY <2>9, <3>1, ControlFits
      <3>3. ic' = WriteCtl(ic, s, word)
        BY <2>1, <2>9, ControllerStores
      <3>4. QED
        <4> HIDE DEF s, word
        <4>1. QED
          BY <3>1, <3>2, <3>3 DEF WriteControlRegister, Next
    <2>10. QED
      BY <2>2, <2>3, <2>4, <2>5, <2>6, <2>7, <2>8, <2>9
  <1>3. QED
    BY <1>1, <1>2

\* The register block implements the interrupt controller: every access of a
\* program, by port or by address, in any width, is one of the controller's
\* operations or leaves it as it was.
THEOREM BlockImplementsController == BlockSpec => Spec
  <1>1. BlockInit => Init
    BY DEF BlockInit
  <1>2. [BlockNext]_vars => [Next]_ic
    <2> SUFFICES ASSUME BlockNext PROVE Next \/ UNCHANGED ic
      BY DEF vars
    <2>1. CASE \E o \in Offsets : Store(o)
      <3>1. PICK o \in Offsets : Store(o)
        BY <2>1
      <3>2. PICK w \in OnTheBus(o) : Disciplined(o, w) /\ Becomes(Written(block, o, w))
        BY <3>1 DEF Store
      <3>3. ic' = Written(block, o, w).ic
        BY <3>2 DEF Becomes
      <3>4. QED
        BY <3>2, <3>3, StoreSteps
    <2>2. CASE LoadPoll
      BY <2>2 DEF LoadPoll, Next
    <2>3. CASE Lines
      BY <2>3 DEF Lines, Next
    <2>4. CASE BlockReset
      BY <2>4 DEF BlockReset, Next
    <2>5. QED
      BY <2>1, <2>2, <2>3, <2>4 DEF BlockNext
  <1>3. QED
    BY <1>1, <1>2, PTL DEF BlockSpec, Spec

\* No lost interrupt behind the registers: after every access a winner of the
\* scan is asserted with its own mask and vector, and INTR is up without one
\* only when a source in service suspended the scan, or after a reset.
THEOREM BlockLosesNothing == BlockSpec => []WinnerAsserted
  BY BlockImplementsController, NothingLost, PTL

\* Nothing is forgotten behind the registers, whatever a program stores there.
THEOREM BlockForgetsNothing == BlockSpec => NothingForgotten
  BY BlockImplementsController, RequestsKept, PTL

\* Strict nesting behind the registers, for a program that leaves priorities
\* alone while an interrupt is in service.
THEOREM BlockNests ==
  ASSUME ~Rewrites
  PROVE  BlockSpec => StrictNesting
  <1>1. Spec => StrictNesting
    BY AcknowledgesNest
  <1>2. QED
    BY <1>1, BlockImplementsController, PTL

\* For such a program a suspended INTR is a withdrawn request's, too.
THEOREM BlockStale ==
  ASSUME ~Rewrites
  PROVE  BlockSpec => []StaleIsWithdrawn
  <1>1. Spec => []StaleIsWithdrawn
    BY StaleAcknowledges
  <1>2. QED
    BY <1>1, BlockImplementsController, PTL

-----------------------------------------------------------------------------
(* The two views of the mask.                                              *)

LEMMA Shifts ==
  ASSUME NEW s \in Sources
  PROVE  3 + ShownUp[s] = s /\ 3 - PutUp[s] = s
  <1>1. s \in {0, 2, 3, 4, 5, 6, 7}
    BY SourcesAssumption
  <1>2. /\ ShownUp[0] = -3 /\ ShownUp[2] = -1 /\ ShownUp[3] = 0 /\ ShownUp[4] = 1
        /\ ShownUp[5] = 2 /\ ShownUp[6] = 3 /\ ShownUp[7] = 4
    BY DEF ShownUp
  <1>3. /\ PutUp[0] = 3 /\ PutUp[2] = 1 /\ PutUp[3] = 0 /\ PutUp[4] = -1
        /\ PutUp[5] = -2 /\ PutUp[6] = -3 /\ PutUp[7] = -4
    BY DEF PutUp
  <1>4. QED
    BY <1>1, <1>2, <1>3

LEMMA MaskBit ==
  ASSUME NEW n \in 0..15
  PROVE  /\ 3 \in Bits(n) <=> n >= 8
         /\ (n % 8) + 8 \in 8..15 /\ (n % 8) + 0 \in 0..7
  <1>1. 3 \in Bits(n) <=> (n \div 2^3) % 2 = 1
    BY DEF Bits
  <1>2. 2^3 = 8
    OBVIOUS
  <1>3. QED
    BY <1>1, <1>2

\* The mask register's bit of a source is its mask.
LEMMA MaskShown ==
  ASSUME NEW b, NEW s \in Sources \ Dma
  PROVE  s \in Contents(b, 4) <=> b.ic.ctl[s].lvl >= 8
  <1>1. InternalPortOffset(4) = 20
    BY DEF InternalPortOffset
  <1>2. Contents(b, 4) = MaskWord(b.ic)
    BY <1>1 DEF Contents, ReadIntr
  <1>3. MaskWord(b.ic) = {t \in Sources : b.ic.ctl[t].lvl >= 8}
    BY Shifts DEF MaskWord
  <1>4. QED
    BY <1>2, <1>3

\* Bit 3 of its control register is its mask.
LEMMA ControlShown ==
  ASSUME NEW b, NEW s \in Sources \ Dma, b.ic.ctl[s].lvl \in 0..15
  PROVE  3 \in Contents(b, ControlOffset(s)) <=> b.ic.ctl[s].lvl >= 8
  <1>1. s \in {0} \cup 4..7
    BY SourcesAssumption DEF Dma
  <1> DEFINE r == InternalPortOffset(ControlOffset(s))
  <1>2. r \in {25} \cup 28..31 /\ Controlled(r) = s
    BY <1>1 DEF ControlOffset, InternalPortOffset, Controlled, TMR
  <1>3. Contents(b, ControlOffset(s)) = ReadIntr(b, r)
    BY <1>2 DEF Contents
  <1> HIDE DEF r
  <1>4. ReadIntr(b, r) = CtlWord(b.ic.ctl[s])
    BY <1>2 DEF ReadIntr
  <1>5. 3 \in CtlWord(b.ic.ctl[s]) <=> 3 \in Bits(b.ic.ctl[s].lvl)
    BY DEF CtlWord
  <1>6. QED
    BY <1>3, <1>4, <1>5, MaskBit

\* The control words with their mask bits set to M, ready for the scan.
Masked(M) ==
  [ic EXCEPT !.ctl = [s \in Sources |->
     [ic.ctl[s] EXCEPT !.lvl = (@ % 8) + (IF s \in M THEN 8 ELSE 0)]]]

LEMMA MaskPrepared ==
  ASSUME ICOk(ic), NEW M
  PROVE  /\ ICOk(Masked(M)) /\ Masked(M).priorityMask = ic.priorityMask
         /\ \A s \in Sources : Masked(M).ctl[s].lvl >= 8 <=> s \in M
  <1> DEFINE c == Masked(M)
  <1>1. \A s \in Sources : ic.ctl[s] \in Ctl
    BY DEF ICOk, ICState
  <1>2. ASSUME NEW s \in Sources
        PROVE  /\ c.ctl[s] \in Ctl /\ (c.ctl[s].lvl >= 8 <=> s \in M) /\ CtlFits(s, c.ctl[s])
    <2>1. c.ctl[s] = [ic.ctl[s] EXCEPT !.lvl = (@ % 8) + (IF s \in M THEN 8 ELSE 0)]
      BY DEF Masked, ICOk, ICState
    <2>2. ic.ctl[s] \in Ctl /\ CtlFits(s, ic.ctl[s])
      BY <1>1 DEF ICOk
    <2>3. (ic.ctl[s].lvl % 8) + 8 \in 8..15 /\ (ic.ctl[s].lvl % 8) + 0 \in 0..7
      BY <2>2, MaskBit DEF Ctl
    <2> HIDE DEF c
    <2>4. QED
      BY <2>1, <2>2, <2>3 DEF Ctl, CtlFits
  <1>3. ICOk(c) /\ c.priorityMask = ic.priorityMask
    <2>1. c.ctl \in [Sources -> Ctl]
      BY <1>2 DEF Masked, ICOk, ICState
    <2>2. c = [ic EXCEPT !.ctl = c.ctl]
      BY DEF Masked, ICOk, ICState
    <2> HIDE DEF c
    <2>3. QED
      BY <1>2, <2>1, <2>2 DEF ICOk, ICState
  <1>4. QED
    BY <1>2, <1>3

\* What a store to the mask register leaves in the control words.
LEMMA MaskStored ==
  ASSUME ICOk(ic), NEW w
  PROVE  \A s \in Sources :
           LET x == Written(block, 4, w).ic.ctl[s]
           IN  x.lvl \in 0..15 /\ (x.lvl >= 8 <=> s \in w)
  <1> DEFINE M == Masking(w)
             c == Masked(M)
  <1>1. InternalPortOffset(4) = 20 /\ block.ic = ic
    BY DEF InternalPortOffset, block
  <1>2. Written(block, 4, w).ic = WriteMask(ic, M)
    <2>1. Written(block, 4, w) = WriteIntr(block, 20, w)
      BY <1>1 DEF Written
    <2>2. ASSUME NEW r, r = 20, NEW b, b = WriteIntr(block, r, w).ic
          PROVE  b = WriteMask(ic, Masking(w))
      BY ONLY <2>2, ControllerStores
    <2>3. QED
      BY <2>1, <2>2
  <1>3. M = {s \in Sources : s \in w}
    BY Shifts DEF Masking
  <1>4. ICOk(c) /\ \A s \in Sources : c.ctl[s].lvl >= 8 <=> s \in w
    BY <1>3, MaskPrepared
  <1>5. WriteMask(ic, M).ctl = c.ctl
    BY <1>4, UpdateFields DEF WriteMask, Masked
  <1> HIDE DEF M, c
  <1>6. QED
    BY <1>2, <1>4, <1>5 DEF ICOk, ICState, Ctl

\* The mask register and the control registers show one mask, and what is
\* stored in the mask register is what both show, in every state of the
\* controller and for every word on the bus.
THEOREM MasksAgree == BlockSpec => []MaskAgrees
  <1>1. TypeOK => MaskAgrees
    <2> SUFFICES ASSUME TypeOK PROVE MaskAgrees
      OBVIOUS
    <2>1. ICOk(ic)
      BY DEF TypeOK
    <2>2. ShowsMask(block, Contents(block, 4))
      <3>1. \A s \in Sources : block.ic.ctl[s].lvl \in 0..15
        BY <2>1 DEF block, ICOk, ICState, Ctl
      <3>2. QED
        BY <3>1, MaskShown, ControlShown DEF ShowsMask
    <2>3. ASSUME NEW w \in OnTheBus(4) PROVE ShowsMask(Written(block, 4, w), w)
      <3> DEFINE b == Written(block, 4, w)
      <3>1. \A s \in Sources : b.ic.ctl[s].lvl \in 0..15 /\ (b.ic.ctl[s].lvl >= 8 <=> s \in w)
        BY <2>1, MaskStored
      <3> HIDE DEF b
      <3>2. ShowsMask(b, w)
        BY <3>1, MaskShown, ControlShown DEF ShowsMask
      <3>3. QED
        BY <3>2 DEF b
    <2>4. QED
      BY <2>2, <2>3 DEF MaskAgrees
  <1>2. QED
    BY <1>1, BlockImplementsController, TypeCorrect, PTL

-----------------------------------------------------------------------------
(* No two offsets share their storage.                                     *)

CtlRegs == {25} \cup 28..31

\* The storage behind a register is that of the one offset wired to it.
LEMMA Wiring ==
  ASSUME NEW o \in 0..127
  PROVE  LET r == InternalPortOffset(o)
         IN  /\ r \in 16..25 \cup 28..31 \cup 40..49 \cup {51, 127, 128}
             /\ r \in 16..31 => o = r - 16
             /\ r = 41 => o = 25
             /\ r = 127 => o = 84
  BY DEF InternalPortOffset

\* What a register shows depends on the storage it stands for.
LEMMA SameContents ==
  ASSUME NEW b, NEW c, NEW p, NEW r, r = InternalPortOffset(p),
         r = 16 => b.vector = c.vector,
         r \in {18, 19, 23} => b.ic = c.ic,
         r = 22 => b.ic.inService = c.ic.inService,
         r = 24 => b.ic.status = c.ic.status /\ b.halt = c.halt,
         r = 20 => b.ic.ctl = c.ic.ctl,
         r = 21 => b.ic.priorityMask = c.ic.priorityMask,
         r \in CtlRegs => b.ic.ctl[Controlled(r)] = c.ic.ctl[Controlled(r)],
         r = 41 => b.maxA = c.maxA,
         r = 127 => b.reloc = c.reloc,
         r = 128 => b.eb[p] = c.eb[p]
  PROVE  Contents(b, p) = Contents(c, p)
  <1>1. CASE r \in {41, 127, 128}
    BY <1>1 DEF Contents
  <1>2. CASE r \notin {41, 127, 128}
    <2>1. Contents(b, p) = ReadIntr(b, r) /\ Contents(c, p) = ReadIntr(c, r)
      BY <1>2 DEF Contents
    <2>2. CASE r = 20
      <3>1. MaskWord(b.ic) = MaskWord(c.ic)
        BY <2>2 DEF MaskWord
      <3>2. QED
        BY <2>1, <2>2, <3>1 DEF ReadIntr
    <2>3. CASE r \in CtlRegs
      BY <2>1, <2>3 DEF ReadIntr, CtlRegs
    <2>4. CASE r \in {16, 18, 19, 21, 22, 23, 24}
      BY <2>1, <2>4 DEF ReadIntr
    <2>5. CASE r \notin {16, 18, 19} \cup 20..24 \cup CtlRegs
      BY <2>1, <2>5 DEF ReadIntr, CtlRegs
    <2>6. QED
      BY <2>2, <2>3, <2>4, <2>5
  <1>3. QED
    BY <1>1, <1>2

\* Control words, priority mask, in-service bits and timer status.
SameWords(x, y) == /\ y.ctl = x.ctl /\ y.priorityMask = x.priorityMask
                   /\ y.inService = x.inService /\ y.status = x.status

\* A scan moves none of them.
LEMMA ScanKeepsWords ==
  ASSUME NEW x, ICOk(x)
  PROVE  /\ SameWords(x, UpdateInterruptState(x))
         /\ SameWords(x, UpdateInterruptState(UpdateInterruptState(x)))
  <1>1. ICOk(UpdateInterruptState(x))
    BY UpdateType
  <1>2. SameWords(x, UpdateInterruptState(x))
    BY UpdateFields DEF SameWords
  <1> DEFINE y == UpdateInterruptState(x)
  <1>3. SameWords(x, y) /\ ICOk(y)
    BY <1>1, <1>2
  <1> HIDE DEF y
  <1>4. SameWords(y, UpdateInterruptState(y))
    BY <1>3, UpdateFields DEF SameWords
  <1>5. SameWords(x, UpdateInterruptState(y))
    BY <1>3, <1>4 DEF SameWords
  <1>6. QED
    BY <1>2, <1>5 DEF y

\* A store to a register changes no other word of the block; the words behind
\* the offsets that are not wired are apart.
LEMMA StoreKeepsOthers ==
  ASSUME NEW o \in Offsets, NEW w, DOMAIN other.eb = Offsets,
         NEW r, r = InternalPortOffset(o), NEW d, d = Written(block, o, w)
  PROVE  /\ r # 16 => d.vector = block.vector
         /\ r # 127 => d.reloc = block.reloc
         /\ r # 41 => d.maxA = block.maxA
         /\ \A p \in Offsets : (r = 128 /\ p = o) \/ d.eb[p] = block.eb[p]
         /\ DOMAIN d.eb = Offsets
         /\ r \notin 16..31 => d.ic = block.ic /\ d.halt = block.halt
  <1>1. CASE r = 128
    <2>1. d = [block EXCEPT !.eb[o] = w]
      BY <1>1 DEF Written
    <2>2. QED
      BY <1>1, <2>1 DEF block
  <1>2. CASE r = 127
    BY <1>2 DEF Written, block
  <1>3. CASE r = 41
    BY <1>3 DEF Written, block
  <1>4. CASE r \notin {41, 127, 128}
    <2>1. d = WriteIntr(block, r, w)
      BY <1>4 DEF Written
    <2>2. CASE r = 16
      BY <2>1, <2>2 DEF WriteIntr, block
    <2>3. CASE r = 17
      BY <2>1, <2>3 DEF WriteIntr, block
    <2>4. CASE r \in {20, 21}
      BY <2>1, <2>4 DEF WriteIntr, block
    <2>5. CASE r \in {22, 23}
      BY <2>1, <2>5 DEF WriteIntr, block
    <2>6. CASE r = 24
      <3> DEFINE c == WriteStatus(block.ic, w \cap Timers)
                 halt == 15 \in w
      <3>1. d = [block EXCEPT !.ic = c, !.halt = halt]
        BY <2>1, <2>6 DEF WriteIntr
      <3> HIDE DEF c, halt
      <3>2. /\ d.vector = block.vector /\ d.reloc = block.reloc
            /\ d.maxA = block.maxA /\ d.eb = block.eb
        BY <3>1 DEF block
      <3>3. block.eb = other.eb
        BY DEF block
      <3>4. QED
        BY <2>6, <3>2, <3>3
    <2>7. CASE r \in CtlRegs
      BY <2>1, <2>7 DEF WriteIntr, block, CtlRegs
    <2>8. CASE r \notin {16, 17} \cup 20..24 \cup CtlRegs
      BY <2>1, <2>8 DEF WriteIntr, block, CtlRegs
    <2>9. QED
      BY <2>2, <2>3, <2>4, <2>5, <2>6, <2>7, <2>8
  <1>5. QED
    BY <1>1, <1>2, <1>3, <1>4

\* The halt bit stands in the status register.
LEMMA HaltKept ==
  ASSUME NEW o \in Offsets, NEW w, InternalPortOffset(o) # 24
  PROVE  Written(block, o, w).halt = block.halt
  <1> DEFINE r == InternalPortOffset(o)
  <1>1. CASE r \in {41, 127, 128}
    BY <1>1 DEF Written, block
  <1>2. CASE r \notin {41, 127, 128}
    <2>1. Written(block, o, w) = WriteIntr(block, r, w)
      BY <1>2 DEF Written
    <2> HIDE DEF r
    <2>2. CASE r \in CtlRegs
      BY <2>1, <2>2 DEF WriteIntr, block, CtlRegs
    <2>3. CASE r \notin CtlRegs /\ r # 24
      BY <2>1, <2>3 DEF WriteIntr, block, CtlRegs
    <2>4. QED
      BY <2>2, <2>3 DEF r
  <1>3. QED
    BY <1>1, <1>2

\* Control words, priority mask, in-service bits and timer status change where
\* they are stored, and an EOI retires an in-service bit.
LEMMA StoreKeepsWords ==
  ASSUME ICOk(ic), NEW o \in Offsets, NEW w, Disciplined(o, w),
         NEW r, r = InternalPortOffset(o), NEW c, c = Written(block, o, w).ic
  PROVE  /\ r # 21 => c.priorityMask = ic.priorityMask
         /\ r \notin {20} \cup CtlRegs => c.ctl = ic.ctl
         /\ r \in CtlRegs => \A s \in Sources \ {Controlled(r)} : c.ctl[s] = ic.ctl[s]
         /\ r \notin {17, 22} => c.inService = ic.inService
         /\ r # 24 => c.status = ic.status
         /\ r \notin {17} \cup 20..24 \cup CtlRegs => c = ic
  <1>1. CASE r \in {41, 127, 128}
    BY <1>1 DEF Written, block, CtlRegs
  <1>2. CASE r \notin {41, 127, 128}
    <2>1. c = WriteIntr(block, r, w).ic
      BY <1>2 DEF Written
    <2>2. CASE r \notin {17} \cup 20..25 \cup 28..31
      BY <2>1, <2>2, OtherRegisters DEF CtlRegs
    <2>3. CASE r = 17
      <3>1. \/ c = WriteEoiNonspecific(ic)
            \/ c = WriteEoiSpecific(ic, EoiVector(w))
        <4>1. ASSUME NEW b, b = WriteIntr(block, 17, w).ic
              PROVE  b = WriteEoiNonspecific(ic) \/ b = WriteEoiSpecific(ic, EoiVector(w))
          BY <4>1, ControllerStores
        <4>2. c = WriteIntr(block, 17, w).ic
          BY <2>1, <2>3
        <4>3. QED
          BY <4>1, <4>2
      <3>2. PICK S : c = UpdateInterruptState(UpdateInterruptState([ic EXCEPT !.inService = @ \ S]))
        BY <3>1 DEF WriteEoiNonspecific, WriteEoiSpecific, EoiNonspecific, EoiSpecific
      <3> DEFINE x == [ic EXCEPT !.inService = @ \ S]
      <3>3. /\ ICOk(x) /\ x.ctl = ic.ctl /\ x.priorityMask = ic.priorityMask
            /\ x.status = ic.status
        BY DEF ICOk, ICState
      <3> HIDE DEF x
      <3>4. SameWords(x, c)
        BY <3>2, <3>3, ScanKeepsWords DEF x
      <3>5. QED
        BY <2>3, <3>3, <3>4 DEF CtlRegs, SameWords
    <2>4. CASE r = 20
      <3> DEFINE x == Masked(Masking(w))
      <3>1. c = WriteMask(ic, Masking(w))
        BY <2>1, <2>4, ControllerStores
      <3>2. c = UpdateInterruptState(x)
        BY <3>1 DEF WriteMask, Masked
      <3>3. /\ ICOk(x) /\ x.priorityMask = ic.priorityMask
            /\ x.inService = ic.inService /\ x.status = ic.status
        <4>1. x.inService = ic.inService /\ x.status = ic.status
          BY DEF Masked, ICOk, ICState
        <4>2. QED
          BY <4>1, MaskPrepared
      <3> HIDE DEF x
      <3>4. SameWords(x, c)
        BY <3>2, <3>3, ScanKeepsWords
      <3>5. QED
        BY <2>4, <3>3, <3>4 DEF CtlRegs, SameWords
    <2>5. CASE r = 21
      <3> DEFINE p == Number(w \cap 0..2)
                 x == [ic EXCEPT !.priorityMask = p]
      <3>1. p \in 0..7
        BY <2>5, ParameterAssumption DEF Disciplined
      <3>2. c = UpdateInterruptState(x)
        BY <2>1, <2>5, ControllerStores DEF WritePriorityMask
      <3> HIDE DEF p
      <3>3. /\ ICOk(x) /\ x.ctl = ic.ctl
            /\ x.inService = ic.inService /\ x.status = ic.status
        BY <3>1 DEF ICOk, ICState
      <3> HIDE DEF x
      <3>4. SameWords(x, c)
        BY <3>2, <3>3, ScanKeepsWords
      <3>5. QED
        BY <2>5, <3>3, <3>4 DEF CtlRegs, SameWords
    <2>6. CASE r = 22
      <3> DEFINE x == [ic EXCEPT !.inService = w \cap Sources]
      <3>1. c = UpdateInterruptState(x)
        <4>1. c = WriteInService(ic, w \cap Sources)
          BY <2>1, <2>6, ControllerStores, ZenonT(30)
        <4>2. QED
          BY <4>1 DEF WriteInService
      <3>2. /\ ICOk(x) /\ x.ctl = ic.ctl /\ x.priorityMask = ic.priorityMask
            /\ x.status = ic.status
        BY DEF ICOk, ICState
      <3> HIDE DEF x
      <3>3. SameWords(x, c)
        BY <3>1, <3>2, ScanKeepsWords
      <3>4. QED
        BY <2>6, <3>2, <3>3 DEF CtlRegs, SameWords
    <2>7. CASE r = 23
      <3> DEFINE x == [ic EXCEPT !.request = (@ \ Dma) \cup (w \cap Dma)]
      <3>1. c = UpdateInterruptState(x)
        <4>1. c = WriteRequest(ic, w \cap Dma)
          BY <2>1, <2>7, ControllerStores, ZenonT(30)
        <4>2. QED
          BY <4>1 DEF WriteRequest
      <3>2. ICOk(x) /\ SameWords(ic, x)
        BY DEF ICOk, ICState, Dma, TMR, SameWords
      <3> HIDE DEF x
      <3>3. SameWords(x, c)
        BY <3>1, <3>2, ScanKeepsWords
      <3>4. QED
        BY <2>7, <3>2, <3>3 DEF CtlRegs, SameWords
    <2>8. CASE r = 24
      <3> DEFINE x == [ic EXCEPT !.status = w \cap Timers]
      <3>1. c = UpdateInterruptState(x)
        <4>1. c = WriteStatus(ic, w \cap Timers)
          BY <2>1, <2>8, ControllerStores, ZenonT(30)
        <4>2. QED
          BY <4>1 DEF WriteStatus
      <3>2. /\ ICOk(x) /\ x.ctl = ic.ctl /\ x.priorityMask = ic.priorityMask
            /\ x.inService = ic.inService
        BY DEF ICOk, ICState
      <3> HIDE DEF x
      <3>3. SameWords(x, c)
        BY <3>1, <3>2, ScanKeepsWords
      <3>4. QED
        BY <2>8, <3>2, <3>3 DEF CtlRegs, SameWords
    <2>9. CASE r \in CtlRegs
      <3> DEFINE s == Controlled(r)
                 word == Control(s, w)
                 x == [ic EXCEPT !.ctl[s] = word]
      <3>1. s \in Sources /\ word \in CtlWords
        BY <2>9 DEF Disciplined, CtlRegs
      <3>2. CtlFits(s, word)
        BY <2>9, <3>1, ControlFits DEF CtlRegs
      <3>3. c = UpdateInterruptState(x)
        BY <2>1, <2>9, ControllerStores DEF WriteCtl, CtlRegs
      <3> HIDE DEF word, s
      <3>4. /\ ICOk(x) /\ x.priorityMask = ic.priorityMask
            /\ x.inService = ic.inService /\ x.status = ic.status
            /\ \A t \in Sources \ {s} : x.ctl[t] = ic.ctl[t]
        BY <3>1, <3>2, ParameterAssumption DEF ICOk, ICState
      <3> HIDE DEF x
      <3>5. SameWords(x, c)
        BY <3>3, <3>4, ScanKeepsWords
      <3>6. QED
        BY <2>9, <3>4, <3>5 DEF CtlRegs, s, SameWords
    <2>10. QED
      BY <2>2, <2>3, <2>4, <2>5, <2>6, <2>7, <2>8, <2>9 DEF CtlRegs
  <1>3. QED
    BY <1>1, <1>2

\* Every offset that no register is wired to has a word of its own.
Backed == DOMAIN other.eb = Offsets

LEMMA AlwaysBacked == BlockSpec => []Backed
  <1>1. BlockInit => Backed
    BY DEF BlockInit, Backed, Start
  <1>2. Backed /\ [BlockNext]_vars => Backed'
    <2> SUFFICES ASSUME Backed, [BlockNext]_vars PROVE Backed'
      OBVIOUS
    <2>1. CASE \E o \in Offsets : Store(o)
      <3>1. PICK o \in Offsets : Store(o)
        BY <2>1
      <3>2. PICK w \in OnTheBus(o) : Becomes(Written(block, o, w))
        BY <3>1 DEF Store
      <3>3. other'.eb = Written(block, o, w).eb
        BY <3>2 DEF Becomes
      <3>4. QED
        BY <3>3, StoreKeepsOthers DEF Backed
    <2>2. CASE LoadPoll \/ Lines \/ UNCHANGED vars
      BY <2>2 DEF LoadPoll, Lines, vars, Backed
    <2>3. CASE BlockReset
      BY <2>3 DEF BlockReset, Start, Backed
    <2>4. QED
      BY <2>1, <2>2, <2>3 DEF BlockNext
  <1>3. QED
    BY <1>1, <1>2, PTL DEF BlockSpec

\* A store leaves what the other offsets show alone, the coupled ones apart.
LEMMA StoreAlone ==
  ASSUME ICOk(ic), Backed, NEW o \in Offsets, NEW w, Disciplined(o, w),
         NEW p \in Offsets, p \notin {o} \cup Coupled(o)
  PROVE  Contents(Written(block, o, w), p) = Contents(block, p)
  <1> DEFINE d == Written(block, o, w)
             r == InternalPortOffset(o)
             q == InternalPortOffset(p)
  <1>1. /\ r # 16 => d.vector = block.vector
        /\ r # 127 => d.reloc = block.reloc
        /\ r # 41 => d.maxA = block.maxA
        /\ \A x \in Offsets : (r = 128 /\ x = o) \/ d.eb[x] = block.eb[x]
        /\ r \notin 16..31 => d.ic = block.ic /\ d.halt = block.halt
    BY StoreKeepsOthers DEF Backed
  <1>2. block.ic = ic
    BY DEF block
  <1>3. /\ r # 21 => d.ic.priorityMask = ic.priorityMask
        /\ r \notin {20} \cup CtlRegs => d.ic.ctl = ic.ctl
        /\ r \in CtlRegs => \A s \in Sources \ {Controlled(r)} : d.ic.ctl[s] = ic.ctl[s]
        /\ r \notin {17, 22} => d.ic.inService = ic.inService
        /\ r # 24 => d.ic.status = ic.status
        /\ r \notin {17} \cup 20..24 \cup CtlRegs => d.ic = ic
    BY StoreKeepsWords
  <1>4. r # 24 => d.halt = block.halt
    BY HaltKept
  <1>5. /\ r \in 16..31 => o = r - 16
        /\ r = 41 => o = 25
        /\ r = 127 => o = 84
        /\ q \in 16..31 => p = q - 16
        /\ q = 41 => p = 25
        /\ q = 127 => p = 84
        /\ r \in 16..25 \cup 28..31 \cup 40..49 \cup {51, 127, 128}
    BY Wiring, BlockAssumption
  <1>6. q \in CtlRegs => Controlled(q) \in Sources
    BY ControlAssumption DEF CtlRegs
  <1>7. o \in {1} \cup 4..9 \cup 12..15 => p \notin {2, 3, 7}
    BY DEF Coupled, Poll, Control4
  <1>8. o = 1 => p # 6
    BY DEF Coupled, Poll, Control4
  <1>9. o = 4 => p \notin Control4
    BY DEF Coupled, Control4
  <1>10. o \in Control4 => p # 4
    BY DEF Coupled, Control4
  <1>11. p # o
    OBVIOUS
  <1> HIDE DEF d, r, q
  <1>12. q = 16 => d.vector = block.vector
    BY <1>1, <1>5, <1>11
  <1>13. q \in {18, 19, 23} => d.ic = block.ic
    BY <1>2, <1>3, <1>5, <1>7 DEF CtlRegs
  <1>14. q = 22 => d.ic.inService = block.ic.inService
    BY <1>2, <1>3, <1>5, <1>8, <1>11
  <1>15. q = 24 => d.ic.status = block.ic.status /\ d.halt = block.halt
    BY <1>2, <1>3, <1>4, <1>5, <1>11
  <1>16. q = 20 => d.ic.ctl = block.ic.ctl
    BY <1>2, <1>3, <1>5, <1>10, <1>11 DEF Control4, CtlRegs
  <1>17. q = 21 => d.ic.priorityMask = block.ic.priorityMask
    BY <1>2, <1>3, <1>5, <1>11
  <1>18. ASSUME q \in CtlRegs
         PROVE  d.ic.ctl[Controlled(q)] = block.ic.ctl[Controlled(q)]
    <2>1. r # 20 /\ r # q
      BY <1>5, <1>9, <1>11, <1>18 DEF Control4, CtlRegs
    <2>2. r \in CtlRegs => Controlled(r) # Controlled(q)
      BY <1>18, <2>1 DEF Controlled, CtlRegs, TMR
    <2>3. QED
      BY <1>2, <1>3, <1>6, <1>18, <2>1, <2>2
  <1>19. q = 41 => d.maxA = block.maxA
    BY <1>1, <1>5, <1>11
  <1>20. q = 127 => d.reloc = block.reloc
    BY <1>1, <1>5, <1>11
  <1>21. d.eb[p] = block.eb[p]
    BY <1>1, <1>11
  <1>22. Contents(d, p) = Contents(block, p)
    BY <1>12, <1>13, <1>14, <1>15, <1>16, <1>17, <1>18, <1>19, <1>20, <1>21,
       SameContents DEF q
  <1>23. QED
    BY <1>22 DEF d

\* No two offsets of the block share their storage, whatever words, widths and
\* lanes a program stores them with, and wherever it has moved the block: a
\* store changes what its own offset shows and what the controller derives from
\* that one register, and nothing else.
THEOREM OffsetsApart == BlockSpec => []NoAlias
  <1>1. TypeOK /\ Backed => NoAlias
    <2> SUFFICES ASSUME TypeOK, Backed, NEW o \in Offsets, NEW w \in OnTheBus(o),
                        Disciplined(o, w),
                        NEW p \in Changed(block, Written(block, o, w))
                 PROVE  p \in {o} \cup Coupled(o)
      BY DEF NoAlias
    <2>1. /\ ICOk(ic) /\ p \in Offsets
          /\ Contents(Written(block, o, w), p) # Contents(block, p)
      BY DEF TypeOK, Changed
    <2>2. QED
      BY <2>1, StoreAlone
  <1>2. BlockSpec => []TypeOK
    BY BlockImplementsController, TypeCorrect, PTL
  <1>3. QED
    BY <1>1, <1>2, AlwaysBacked, PTL

-----------------------------------------------------------------------------
(* The board and the firmware.                                             *)

Frame == [src : Used, read : BOOLEAN, ended : BOOLEAN]

\* No cascade and no special fully nested mode; requests of the card's sources.
Plain(c) == /\ \A s \in Sources : ~c.ctl[s].cascade /\ ~c.ctl[s].sfnm
            /\ c.request \subseteq {INT1} /\ c.inService \subseteq Used

\* What is asserted for s is the acknowledge of s and of nothing else: it still
\* requests, precedes all that is in service, and the vector is its own.
AssertedFor(c, s) ==
  /\ c.ackMask = {s} /\ s \notin c.inService
  /\ Requesting(c, s) /\ c.ctl[s].lvl <= c.priorityMask
  /\ VectorSource(c.poll.vector) = s
  /\ \A t \in c.inService : Before(c, s, t)

\* A reset leaves the INTR line as it was, with nothing pending.
Asserted(c) == /\ c.pending => c.intr /\ \E s \in Used : AssertedFor(c, s)
               /\ c.inService # {} => c.intr = c.pending

\* The handlers that have not ended are those of the sources in service, each
\* preceding the ones it interrupted, and the mailbox has a byte for an INT1
\* handler that has yet to read it.
Handlers ==
  /\ frames \in Seq(Frame)
  /\ ic.inService = {frames[i].src : i \in Unended}
  /\ \A s \in ic.inService : ic.ctl[s].lvl <= 7
  /\ \A i, j \in Unended : i < j => Before(ic, frames[i].src, frames[j].src)
  /\ \A i \in DOMAIN frames :
       frames[i].src = INT1 /\ ~frames[i].read => ~frames[i].ended /\ mailbox.pending

\* The line of INT1 is up while a byte waits; a request of INT1 means a byte.
Line ==
  /\ mailbox \in [data : Nat, pending : BOOLEAN] /\ written \in Nat
  /\ mailbox.pending => mailbox.data # 0
  /\ ic.extState = IF mailbox.pending THEN {INT1} ELSE {}
  /\ ic.request # {} => mailbox.pending

\* Before the boot is over there are no timers and no interrupts; sources that
\* are not programmed are masked.
StartUp ==
  /\ programmed \subseteq Used /\ iflag \in BOOLEAN
  /\ \A s \in Sources \ programmed : ic.ctl[s].lvl = 15
  /\ ~Booted => frames = <<>> /\ ic.status = {} /\ ~iflag
  /\ Booted => ic.intr = ic.pending

IInv == TypeOK /\ Plain(ic) /\ Asserted(ic) /\ Handlers /\ Line /\ StartUp

-----------------------------------------------------------------------------
(* The controller under this firmware.                                     *)

\* Without cascade and special fully nested mode a source in service blocks.
LEMMA PlainScan ==
  ASSUME NEW c, Plain(c), NEW s \in Sources
  PROVE  /\ ~Cascaded(c, s)
         /\ Blocks(c, s) <=> s \in c.inService
         /\ Wants(c, s) <=> Requesting(c, s) /\ s \notin c.inService
  <1>1. ~Cascaded(c, s)
    BY DEF Plain, Cascaded
  <1>2. Blocks(c, s) <=> s \in c.inService
    BY DEF Plain, Blocks
  <1>3. QED
    BY <1>1, <1>2 DEF Wants

\* What is asserted is the winner of the scan: a source in service cannot end
\* the scan before it.
LEMMA AssertedStops ==
  ASSUME NEW c, ICOk(c), Plain(c), NEW s \in Used, AssertedFor(c, s)
  PROVE  Stops(c) # {} /\ ~Blocks(c, First(c))
  <1>1. s \in Sources /\ s \in Stops(c)
    BY DoorbellAssumption, PlainScan DEF AssertedFor, Stops, Scanned
  <1>2. IsFirst(c, First(c)) /\ First(c) \in Sources
    BY <1>1, FirstExists
  <1>3. ASSUME First(c) \in c.inService PROVE FALSE
    <2>1. Before(c, s, First(c)) /\ First(c) # s
      BY <1>3 DEF AssertedFor
    <2>2. Before(c, First(c), s)
      BY <1>1, <1>2, <2>1 DEF IsFirst
    <2>3. QED
      BY <1>1, <1>2, <2>1, <2>2, KeyOrder
  <1>4. QED
    BY <1>1, <1>2, <1>3, PlainScan

\* The vector of a source that requests is its own.
LEMMA VectorNames ==
  ASSUME NEW c, ICOk(c), NEW s \in Used, Requesting(c, s)
  PROVE  VectorSource(VectorOf(c, s)) = s
  <1>1. CASE s = TMR
    <2>1. c.status # {} /\ c.status \subseteq 0..2
      BY <1>1 DEF Requesting, ICOk, ICState, Timers
    <2>2. \E t \in c.status : \A u \in c.status : t <= u
      <3>1. CASE 0 \in c.status
        BY <3>1, <2>1
      <3>2. CASE 0 \notin c.status /\ 1 \in c.status
        BY <3>2, <2>1
      <3>3. CASE 0 \notin c.status /\ 1 \notin c.status
        BY <3>3, <2>1
      <3>4. QED
        BY <3>1, <3>2, <3>3
    <2>3. LowestTimer(c.status) \in 0..2
      BY <2>1, <2>2 DEF LowestTimer
    <2>4. QED
      BY <1>1, <2>3 DEF VectorOf, TimerVector, Timers, VectorSource, TMR
  <1>2. CASE s = INT1
    BY <1>2 DEF VectorOf, VectorSource, INT1, TMR
  <1>3. QED
    BY <1>1, <1>2 DEF Used

\* The scan asserts its winner, whatever was asserted before.
LEMMA ScanAsserts ==
  ASSUME NEW c, ICOk(c), Plain(c), Asserted(c)
  PROVE  LET u == UpdateInterruptState(c)
         IN  /\ ICOk(u) /\ Plain(u) /\ Asserted(u) /\ u.intr = u.pending
             /\ u.ctl = c.ctl /\ u.inService = c.inService /\ u.status = c.status
             /\ u.extState = c.extState /\ u.request \subseteq c.request
  <1> DEFINE u == UpdateInterruptState(c)
  <1>1. /\ u.ctl = c.ctl /\ u.priorityMask = c.priorityMask
        /\ u.inService = c.inService /\ u.status = c.status
        /\ u.extState = c.extState /\ u.request = c.request \ Erased(c)
    BY UpdateFields
  <1>2. ICOk(u)
    BY UpdateType
  <1>3. Erased(c) = {}
    BY PlainScan DEF Erased, Scanned
  <1>4. Plain(u)
    BY <1>1, <1>3 DEF Plain
  <1>5. CASE Stops(c) = {}
    <2>1. ~u.pending /\ u.intr = FALSE /\ u.pending = FALSE
      BY <1>5 DEF UpdateInterruptState, ICOk, ICState
    <2>2. QED
      BY <1>1, <1>2, <1>3, <1>4, <2>1 DEF Asserted
  <1>6. CASE Stops(c) # {} /\ Blocks(c, First(c))
    <2>1. u = [c EXCEPT !.request = @ \ Erased(c)]
      BY <1>6 DEF UpdateInterruptState
    <2>2. u.pending = c.pending /\ u.intr = c.intr
      BY <2>1 DEF ICOk, ICState
    <2>3. ~c.pending
      BY <1>6, AssertedStops DEF Asserted
    <2>4. First(c) \in c.inService
      BY <1>6, FirstExists, PlainScan
    <2>5. QED
      BY <1>1, <1>2, <1>3, <1>4, <2>2, <2>3, <2>4 DEF Asserted
  <1>7. CASE Stops(c) # {} /\ ~Blocks(c, First(c))
    <2> DEFINE s == First(c)
    <2>1. IsFirst(c, s) /\ s \in Sources /\ s \in Scanned(c) /\ Wants(c, s)
      BY <1>7, FirstExists DEF IsFirst, Stops
    <2>2. Requesting(c, s) /\ s \notin c.inService
      BY <2>1, PlainScan
    <2>3. s \in Used
      BY <2>2 DEF Requesting, Plain, Used
    <2>4. u = [[c EXCEPT !.request = @ \ Erased(c)] EXCEPT
                 !.ackMask = {s},
                 !.poll = [valid |-> TRUE, vector |-> VectorOf(c, s)],
                 !.intr = IF c.pending THEN @ ELSE TRUE,
                 !.pending = TRUE]
      BY <1>7 DEF UpdateInterruptState
    <2>5. u.ackMask = {s} /\ u.pending = TRUE /\ u.poll.vector = VectorOf(c, s)
      BY <2>4 DEF ICOk, ICState
    <2>6. u.intr = TRUE
      BY <2>4 DEF ICOk, ICState, Asserted
    <2>7. \A t \in c.inService : Before(c, s, t)
      BY <2>1, <2>2, WinnerPrecedes
    <2>8. VectorSource(u.poll.vector) = s
      BY <2>2, <2>3, <2>5, VectorNames
    <2> HIDE DEF u, s
    <2>9. AssertedFor(u, s)
      BY <1>1, <1>3, <2>1, <2>2, <2>5, <2>7, <2>8
         DEF AssertedFor, Requesting, Before, Scanned
    <2>10. Asserted(u)
      BY <2>3, <2>5, <2>6, <2>9 DEF Asserted
    <2>11. QED
      BY <1>1, <1>2, <1>4, <2>5, <2>6, <2>10 DEF u
  <1>8. QED
    BY <1>5, <1>6, <1>7

\* A handler that adds a request, or takes a source out of service, leaves the
\* source that is asserted deliverable.
LEMMA StillAsserted ==
  ASSUME NEW c, NEW x, Asserted(c),
         x.pending = c.pending, x.intr = c.intr, x.ackMask = c.ackMask, x.poll = c.poll,
         x.priorityMask = c.priorityMask, x.ctl = c.ctl,
         x.inService \subseteq c.inService,
         \A s \in Used : Requesting(c, s) => Requesting(x, s)
  PROVE  Asserted(x)
  <1>1. ASSUME NEW s \in Used, AssertedFor(c, s) PROVE AssertedFor(x, s)
    BY <1>1 DEF AssertedFor, Before
  <1>2. QED
    BY <1>1 DEF Asserted

LEMMA RaiseStep ==
  ASSUME ICOk(ic), Plain(ic), Asserted(ic), NEW r, r = ExternalInt(ic, INT1, TRUE)
  PROVE  /\ ICOk(r) /\ Plain(r) /\ Asserted(r)
         /\ ic.intr = ic.pending => r.intr = r.pending
         /\ r.ctl = ic.ctl /\ r.inService = ic.inService /\ r.status = ic.status
         /\ r.extState = ic.extState \cup {INT1}
  <1>1. CASE INT1 \in ic.extState
    BY <1>1 DEF ExternalInt
  <1>2. CASE INT1 \notin ic.extState
    <2> DEFINE x == [ic EXCEPT !.request = @ \cup {INT1}, !.extState = @ \cup {INT1}]
    <2>1. r = UpdateInterruptState(x)
      BY <1>2 DEF ExternalInt
    <2>2. INT1 \in Ext /\ INT1 # TMR
      BY DoorbellAssumption DEF Ext, INT1, TMR, Used
    <2>3. ICOk(x)
      BY <2>2 DEF ICOk, ICState, Ext
    <2>4. /\ x.pending = ic.pending /\ x.intr = ic.intr /\ x.ackMask = ic.ackMask
          /\ x.poll = ic.poll /\ x.priorityMask = ic.priorityMask /\ x.ctl = ic.ctl
          /\ x.inService = ic.inService /\ x.status = ic.status
          /\ x.extState = ic.extState \cup {INT1} /\ x.request = ic.request \cup {INT1}
      BY DEF ICOk, ICState
    <2> HIDE DEF x
    <2>5. Plain(x)
      BY <2>4 DEF Plain
    <2>6. Asserted(x)
      BY <2>4, StillAsserted DEF Requesting
    <2>7. /\ ICOk(r) /\ Plain(r) /\ Asserted(r) /\ r.intr = r.pending
          /\ r.ctl = x.ctl /\ r.inService = x.inService /\ r.status = x.status
          /\ r.extState = x.extState
      BY <2>1, <2>3, <2>5, <2>6, ScanAsserts
    <2>8. QED
      BY <2>4, <2>7
  <1>3. QED
    BY <1>1, <1>2

\* The mailbox is read while INT1 is in service: what is asserted then is not
\* the request that the falling line withdraws.
LEMMA DropStep ==
  ASSUME ICOk(ic), Plain(ic), Asserted(ic), INT1 \in ic.inService, INT1 \in ic.extState,
         NEW r, r = ExternalInt(ic, INT1, FALSE)
  PROVE  /\ ICOk(r) /\ Plain(r) /\ Asserted(r) /\ r.intr = r.pending
         /\ r.ctl = ic.ctl /\ r.inService = ic.inService /\ r.status = ic.status
         /\ r.extState = ic.extState \ {INT1} /\ r.request = {}
  <1> DEFINE x == [ic EXCEPT !.request = @ \ {INT1}, !.ackMask = @ \ {INT1},
                             !.extState = @ \ {INT1}]
  <1>1. r = UpdateInterruptState(x)
    BY DEF ExternalInt
  <1>2. ICOk(x)
    BY DEF ICOk, ICState
  <1>3. /\ x.pending = ic.pending /\ x.intr = ic.intr /\ x.ackMask = ic.ackMask \ {INT1}
        /\ x.poll = ic.poll /\ x.priorityMask = ic.priorityMask /\ x.ctl = ic.ctl
        /\ x.inService = ic.inService /\ x.status = ic.status
        /\ x.extState = ic.extState \ {INT1} /\ x.request = ic.request \ {INT1}
    BY DEF ICOk, ICState
  <1> HIDE DEF x
  <1>4. Plain(x)
    BY <1>3 DEF Plain
  <1>5. Asserted(x)
    <2>1. ASSUME NEW s \in Used, AssertedFor(ic, s) PROVE AssertedFor(x, s)
      <3>1. s = TMR /\ TMR # INT1
        BY <2>1 DEF AssertedFor, Used, INT1, TMR
      <3>2. QED
        BY <1>3, <2>1, <3>1 DEF AssertedFor, Before, Requesting
    <2>2. QED
      BY <1>3, <2>1 DEF Asserted
  <1>6. /\ ICOk(r) /\ Plain(r) /\ Asserted(r) /\ r.intr = r.pending
        /\ r.ctl = x.ctl /\ r.inService = x.inService /\ r.status = x.status
        /\ r.extState = x.extState /\ r.request \subseteq x.request
    BY <1>1, <1>2, <1>4, <1>5, ScanAsserts
  <1>7. x.request = {}
    BY <1>3 DEF Plain
  <1>8. QED
    BY <1>3, <1>6, <1>7

LEMMA ElapseStep ==
  ASSUME ICOk(ic), Plain(ic), Asserted(ic), NEW t \in Elapsing, NEW r, r = TimerRequest(ic, t)
  PROVE  /\ ICOk(r) /\ Plain(r) /\ Asserted(r) /\ r.intr = r.pending
         /\ r.ctl = ic.ctl /\ r.inService = ic.inService
         /\ r.extState = ic.extState /\ r.request \subseteq ic.request
  <1> DEFINE x == [ic EXCEPT !.status = @ \cup {t}]
  <1>1. r = UpdateInterruptState(x)
    BY DEF TimerRequest
  <1>2. ICOk(x)
    BY ParameterAssumption DEF ICOk, ICState
  <1>3. /\ x.pending = ic.pending /\ x.intr = ic.intr /\ x.ackMask = ic.ackMask
        /\ x.poll = ic.poll /\ x.priorityMask = ic.priorityMask /\ x.ctl = ic.ctl
        /\ x.inService = ic.inService /\ x.status = ic.status \cup {t}
        /\ x.extState = ic.extState /\ x.request = ic.request
    BY DEF ICOk, ICState
  <1> HIDE DEF x
  <1>4. Plain(x)
    BY <1>3 DEF Plain
  <1>5. Asserted(x)
    BY <1>3, StillAsserted DEF Requesting
  <1>6. QED
    BY <1>1, <1>2, <1>3, <1>4, <1>5, ScanAsserts

\* A control word is written for a source that was masked until then.
LEMMA ProgramStep ==
  ASSUME ICOk(ic), Plain(ic), Asserted(ic), ic.inService = {},
         NEW s \in Used, ic.ctl[s].lvl = 15, NEW w \in CtlWords, CtlFits(s, w),
         NEW r, r = WriteCtl(ic, s, w)
  PROVE  /\ ICOk(r) /\ Plain(r) /\ Asserted(r) /\ r.intr = r.pending
         /\ r.ctl = [ic.ctl EXCEPT ![s] = w] /\ r.inService = {} /\ r.status = ic.status
         /\ r.extState = ic.extState /\ r.request \subseteq ic.request
  <1> DEFINE x == [ic EXCEPT !.ctl[s] = w]
  <1>1. r = UpdateInterruptState(x)
    BY DEF WriteCtl
  <1>2. ICOk(x)
    BY ParameterAssumption DEF ICOk, ICState
  <1>3. /\ x.pending = ic.pending /\ x.intr = ic.intr /\ x.ackMask = ic.ackMask
        /\ x.poll = ic.poll /\ x.priorityMask = ic.priorityMask
        /\ x.ctl = [ic.ctl EXCEPT ![s] = w]
        /\ x.inService = ic.inService /\ x.status = ic.status
        /\ x.extState = ic.extState /\ x.request = ic.request
    BY DEF ICOk, ICState
  <1>4. ic.ctl \in [Sources -> Ctl] /\ ic.priorityMask \in 0..7
    BY DEF ICOk, ICState
  <1> HIDE DEF x
  <1>5. Plain(x)
    BY <1>3, <1>4, DoorbellAssumption DEF Plain
  <1>6. Asserted(x)
    <2>1. ASSUME NEW u \in Used, AssertedFor(ic, u) PROVE AssertedFor(x, u)
      <3>1. u # s
        BY <1>4, <2>1 DEF AssertedFor
      <3>2. x.ctl[u] = ic.ctl[u]
        BY <1>3, <1>4, <3>1, DoorbellAssumption
      <3>3. QED
        BY <1>3, <2>1, <3>2 DEF AssertedFor, Requesting
    <2>2. QED
      BY <1>3, <2>1 DEF Asserted
  <1>7. QED
    BY <1>1, <1>2, <1>3, <1>5, <1>6, ScanAsserts

\* The acknowledge leaves nothing pending; the vector it hands to the CPU is
\* that of the source it puts in service, which precedes all others there.
LEMMA AcknowledgeStep ==
  ASSUME ICOk(ic), Plain(ic), Asserted(ic), ic.intr, ic.intr = ic.pending,
         NEW r, r = IntCallback(ic)
  PROVE  /\ ICOk(r) /\ Plain(r) /\ Asserted(r) /\ r.intr = r.pending
         /\ r.ctl = ic.ctl /\ r.status \subseteq ic.status
         /\ r.extState = ic.extState /\ r.request \subseteq ic.request
         /\ HandlerOf(AckVector(ic)) \in Used
         /\ HandlerOf(AckVector(ic)) = INT1 => INT1 \in ic.request
         /\ r.inService = ic.inService \cup {HandlerOf(AckVector(ic))}
         /\ ic.ctl[HandlerOf(AckVector(ic))].lvl <= 7
         /\ \A t \in ic.inService : Before(ic, HandlerOf(AckVector(ic)), t)
  <1>1. PICK s \in Used : AssertedFor(ic, s)
    BY DEF Asserted
  <1>2. AckVector(ic) = ic.poll.vector
    BY DEF AckVector, Plain
  <1>3. HandlerOf(ic.poll.vector) = s
    <2>1. VectorSource(ic.poll.vector) = s /\ ic.poll.vector \in Vectors
      BY <1>1 DEF AssertedFor, ICOk, ICState
    <2>2. s \in {0, 5}
      BY DEF Used, TMR, INT1
    <2>3. QED
      BY <2>1, <2>2 DEF VectorSource, HandlerOf, Vectors, TMR, INT1
  <1>4. HandlerOf(AckVector(ic)) = s
    BY <1>2, <1>3
  <1>5. ICOk(r)
    BY CallbackType
  <1>6. /\ r.ctl = ic.ctl /\ r.status \subseteq ic.status
        /\ r.extState = ic.extState /\ r.request \subseteq ic.request
        /\ r.inService = ic.inService \cup {s}
        /\ r.intr = FALSE /\ r.pending = FALSE
    BY <1>1 DEF IntCallback, ICOk, ICState, AssertedFor
  <1>7. Plain(r) /\ Asserted(r)
    BY <1>6 DEF Plain, Asserted
  <1>8. ic.priorityMask \in 0..7 /\ ic.ctl[s].lvl \in 0..15
    BY DoorbellAssumption DEF ICOk, ICState, Ctl
  <1>9. ic.ctl[s].lvl <= 7 /\ \A t \in ic.inService : Before(ic, s, t)
    BY <1>1, <1>8 DEF AssertedFor
  <1>10. s = INT1 => INT1 \in ic.request
    BY <1>1 DEF AssertedFor, Requesting, INT1, TMR
  <1>11. QED
    BY <1>4, <1>5, <1>6, <1>7, <1>9, <1>10

\* The non-specific EOI retires the source that precedes all others in service.
LEMMA RetiresFirst ==
  ASSUME ICOk(ic), NEW h \in ic.inService,
         \A s \in ic.inService : ic.ctl[s].lvl <= 7,
         \A t \in ic.inService : t = h \/ Before(ic, h, t)
  PROVE  Retired(ic) = {h}
  <1>1. \A s \in ic.inService : s \in 0..7 /\ ic.ctl[s].lvl \in 0..7
    BY SourcesAssumption DEF ICOk, ICState, Ctl
  <1>2. \A s, t \in ic.inService : EoiBefore(ic, s, t) <=> Before(ic, s, t)
    <2>1. \A n \in 0..7 : n % 8 = n
      OBVIOUS
    <2>2. QED
      BY <1>1, <2>1 DEF EoiBefore, Before
  <1>3. h \in Retired(ic)
    BY <1>2 DEF Retired
  <1>4. ASSUME NEW s \in Retired(ic), s # h PROVE FALSE
    <2>1. s \in ic.inService /\ Before(ic, s, h) /\ Before(ic, h, s)
      BY <1>2, <1>4 DEF Retired
    <2>2. QED
      BY <1>1, <2>1 DEF Before
  <1>5. QED
    BY <1>3, <1>4

LEMMA EoiStep ==
  ASSUME ICOk(ic), Plain(ic), Asserted(ic), NEW h, Retired(ic) = {h},
         NEW r, r = WriteEoiNonspecific(ic)
  PROVE  /\ ICOk(r) /\ Plain(r) /\ Asserted(r) /\ r.intr = r.pending
         /\ r.ctl = ic.ctl /\ r.inService = ic.inService \ {h} /\ r.status = ic.status
         /\ r.extState = ic.extState /\ r.request \subseteq ic.request
  <1> DEFINE x == [ic EXCEPT !.inService = @ \ Retired(ic)]
             y == UpdateInterruptState(x)
  <1>1. r = UpdateInterruptState(y)
    BY DEF WriteEoiNonspecific, EoiNonspecific
  <1>2. ICOk(x)
    BY DEF ICOk, ICState
  <1>3. /\ x.pending = ic.pending /\ x.intr = ic.intr /\ x.ackMask = ic.ackMask
        /\ x.poll = ic.poll /\ x.priorityMask = ic.priorityMask /\ x.ctl = ic.ctl
        /\ x.inService = ic.inService \ {h} /\ x.status = ic.status
        /\ x.extState = ic.extState /\ x.request = ic.request
    BY DEF ICOk, ICState
  <1> HIDE DEF x
  <1>4. Plain(x)
    BY <1>3 DEF Plain
  <1>5. Asserted(x)
    BY <1>3, StillAsserted DEF Requesting
  <1>6. /\ ICOk(y) /\ Plain(y) /\ Asserted(y)
        /\ y.ctl = x.ctl /\ y.inService = x.inService /\ y.status = x.status
        /\ y.extState = x.extState /\ y.request \subseteq x.request
    BY <1>2, <1>4, <1>5, ScanAsserts
  <1> HIDE DEF y
  <1>7. /\ ICOk(r) /\ Plain(r) /\ Asserted(r) /\ r.intr = r.pending
        /\ r.ctl = y.ctl /\ r.inService = y.inService /\ r.status = y.status
        /\ r.extState = y.extState /\ r.request \subseteq y.request
    BY <1>1, <1>6, ScanAsserts
  <1>8. QED
    BY <1>3, <1>6, <1>7
-----------------------------------------------------------------------------
(* Sequences of handlers.                                                  *)

LEMMA Pushed ==
  ASSUME NEW fs \in Seq(Frame), NEW f \in Frame, NEW g, g = <<f>> \o fs
  PROVE  /\ g \in Seq(Frame) /\ DOMAIN g = 1..(Len(fs) + 1) /\ g[1] = f
         /\ \A i \in 2..(Len(fs) + 1) : i - 1 \in DOMAIN fs /\ g[i] = fs[i - 1]
  <1>1. <<f>> \in Seq(Frame) /\ Len(<<f>>) = 1 /\ <<f>>[1] = f
    OBVIOUS
  <1>2. Len(fs) \in Nat /\ DOMAIN fs = 1..Len(fs)
    BY LenProperties
  <1>3. /\ g \in Seq(Frame) /\ Len(g) = 1 + Len(fs)
        /\ \A i \in 1..(1 + Len(fs)) : g[i] = IF i <= 1 THEN <<f>>[i] ELSE fs[i - 1]
    BY <1>1, ConcatProperties
  <1>4. DOMAIN g = 1..(Len(fs) + 1)
    BY <1>2, <1>3, LenProperties
  <1>5. QED
    BY <1>1, <1>2, <1>3, <1>4

LEMMA Popped ==
  ASSUME NEW fs \in Seq(Frame), fs # <<>>, NEW g, g = Tail(fs)
  PROVE  /\ g \in Seq(Frame)
         /\ \A i \in DOMAIN g : i + 1 \in DOMAIN fs /\ i + 1 > 1 /\ g[i] = fs[i + 1]
         /\ \A i \in DOMAIN fs : i > 1 => i - 1 \in DOMAIN g
         /\ DOMAIN fs \subseteq Nat \ {0} /\ DOMAIN g \subseteq Nat \ {0}
  <1>1. /\ g \in Seq(Frame) /\ Len(g) = Len(fs) - 1
        /\ \A i \in 1..Len(g) : g[i] = fs[i + 1]
    BY HeadTailProperties
  <1>2. /\ Len(fs) \in Nat /\ DOMAIN fs = 1..Len(fs)
        /\ Len(g) \in Nat /\ DOMAIN g = 1..Len(g)
    BY <1>1, LenProperties
  <1>3. QED
    BY <1>1, <1>2

\* The innermost handler gets on: nothing but its two flags changes.
LEMMA Marked ==
  ASSUME NEW fs \in Seq(Frame), fs # <<>>, NEW f \in Frame, NEW g, g = [fs EXCEPT ![1] = f]
  PROVE  /\ g \in Seq(Frame) /\ DOMAIN g = DOMAIN fs /\ 1 \in DOMAIN fs
         /\ DOMAIN fs \subseteq Nat \ {0} /\ Head(fs) = fs[1] /\ fs[1] \in Frame
         /\ g[1] = f /\ \A i \in DOMAIN fs : i # 1 => g[i] = fs[i]
  <1>1. Len(fs) \in Nat /\ DOMAIN fs = 1..Len(fs) /\ Len(fs) # 0
    BY LenProperties, EmptySeq
  <1>2. Head(fs) = fs[1] /\ fs[1] \in Frame
    BY <1>1, ElementOfSeq, HeadTailProperties
  <1>3. QED
    BY <1>1, <1>2, ExceptSeq, LenProperties

-----------------------------------------------------------------------------
(* The invariant: initially, and under every action.                       *)

\* The handlers stand as they were when nothing they depend on changes.
LEMMA SameHandlers ==
  ASSUME Handlers, frames' = frames, ic'.inService = ic.inService, ic'.ctl = ic.ctl,
         mailbox.pending => mailbox'.pending
  PROVE  Handlers'
  BY DEF Handlers, Unended, Before

\* With no handler under way nothing is in service.
LEMMA NoneRunning ==
  ASSUME Handlers, frames = <<>>
  PROVE  ic.inService = {}
  BY DEF Handlers, Unended

LEMMA InitHolds ==
  ASSUME DoorbellInit
  PROVE  IInv
  <1>1. TypeOK
    BY PowerOnType DEF DoorbellInit, Init, TypeOK
  <1>2. /\ ic.ctl = [s \in Sources |-> Level(15)] /\ ic.inService = {} /\ ic.request = {}
        /\ ic.status = {} /\ ~ic.pending /\ ic.extState = {}
        /\ \A s \in Sources : ~ic.ctl[s].cascade /\ ~ic.ctl[s].sfnm /\ ic.ctl[s].lvl = 15
    BY DEF DoorbellInit, Init, PowerOn, DeviceReset, Level
  <1>3. Plain(ic) /\ Asserted(ic)
    BY <1>2 DEF Plain, Asserted
  <1>4. Handlers
    BY <1>2, EmptySeq DEF DoorbellInit, Handlers, Unended
  <1>5. Line
    BY <1>2 DEF DoorbellInit, Line
  <1>6. StartUp
    BY <1>2 DEF DoorbellInit, StartUp, Booted, Used
  <1>7. QED
    BY <1>1, <1>3, <1>4, <1>5, <1>6 DEF IInv

LEMMA BoardResetHolds ==
  ASSUME IInv, BoardReset
  PROVE  IInv'
  <1>1. TypeOK'
    BY ResetType DEF IInv, TypeOK, BoardReset, Reset, ICOk, ICState
  <1>2. /\ ic'.ctl = [s \in Sources |-> Level(15)] /\ ic'.inService = {} /\ ic'.request = {}
        /\ ic'.status = {} /\ ~ic'.pending /\ ic'.extState = {}
        /\ \A s \in Sources : ~ic'.ctl[s].cascade /\ ~ic'.ctl[s].sfnm /\ ic'.ctl[s].lvl = 15
    BY DEF BoardReset, Reset, DeviceReset, Level
  <1>3. Plain(ic') /\ Asserted(ic')
    BY <1>2 DEF Plain, Asserted
  <1>4. Handlers'
    BY <1>2, EmptySeq DEF BoardReset, Handlers, Unended
  <1>5. Line'
    BY <1>2 DEF BoardReset, Line, IInv
  <1>6. StartUp'
    BY <1>2 DEF BoardReset, StartUp, Booted, Used
  <1>7. QED
    BY <1>1, <1>3, <1>4, <1>5, <1>6 DEF IInv

\* A byte waits from here on, so whoever reads it finds one.
LEMMA HostWriteHolds ==
  ASSUME IInv, HostWrite
  PROVE  IInv'
  <1>1. /\ ICOk(ic') /\ Plain(ic') /\ Asserted(ic')
        /\ ic.intr = ic.pending => ic'.intr = ic'.pending
        /\ ic'.ctl = ic.ctl /\ ic'.inService = ic.inService /\ ic'.status = ic.status
        /\ ic'.extState = ic.extState \cup {INT1}
    BY RaiseStep DEF IInv, TypeOK, HostWrite
  <1>2. Handlers'
    BY <1>1, SameHandlers DEF IInv, HostWrite
  <1>3. Line'
    <2>1. written' \in Nat /\ written' # 0
      BY DEF IInv, Line, HostWrite
    <2>2. mailbox' = [data |-> written', pending |-> TRUE]
      BY DEF HostWrite
    <2>3. ic'.extState = {INT1}
      BY <1>1 DEF IInv, Line
    <2>4. QED
      BY <2>1, <2>2, <2>3 DEF Line
  <1>4. StartUp'
    BY <1>1 DEF IInv, StartUp, Booted, HostWrite
  <1>5. QED
    BY <1>1, <1>2, <1>3, <1>4 DEF IInv, TypeOK

LEMMA TimerElapseHolds ==
  ASSUME IInv, TimerElapse
  PROVE  IInv'
  <1>1. PICK t \in Elapsing : ic' = TimerRequest(ic, t)
    BY DEF TimerElapse, Elapse
  <1>2. /\ ICOk(ic') /\ Plain(ic') /\ Asserted(ic') /\ ic'.intr = ic'.pending
        /\ ic'.ctl = ic.ctl /\ ic'.inService = ic.inService
        /\ ic'.extState = ic.extState /\ ic'.request \subseteq ic.request
    BY <1>1, ElapseStep DEF IInv, TypeOK
  <1>3. Handlers'
    BY <1>2, SameHandlers DEF IInv, TimerElapse
  <1>4. Line'
    BY <1>2 DEF IInv, Line, TimerElapse
  <1>5. StartUp'
    BY <1>2 DEF IInv, StartUp, Booted, TimerElapse
  <1>6. QED
    BY <1>2, <1>3, <1>4, <1>5 DEF IInv, TypeOK

LEMMA BootHolds ==
  ASSUME IInv, Boot
  PROVE  IInv' /\ ic.inService = {} /\ WriteControlRegister
  <1>1. PICK s \in Used \ programmed, c \in CtlWords :
          CtlFits(s, c) /\ ic' = WriteCtl(ic, s, c) /\ programmed' = programmed \cup {s}
    BY DEF Boot
  <1>2. ~Booted /\ frames = <<>> /\ ic.status = {} /\ ~iflag
    BY <1>1 DEF IInv, StartUp, Booted
  <1>3. ic.inService = {}
    BY <1>2, NoneRunning DEF IInv
  <1>4. s \in Sources /\ ic.ctl[s].lvl = 15 /\ s \notin Dma
    BY <1>1, DoorbellAssumption DEF IInv, StartUp, Used, Dma, TMR, INT1
  <1>5. /\ ICOk(ic') /\ Plain(ic') /\ Asserted(ic') /\ ic'.intr = ic'.pending
        /\ ic'.ctl = [ic.ctl EXCEPT ![s] = c] /\ ic'.inService = {} /\ ic'.status = ic.status
        /\ ic'.extState = ic.extState /\ ic'.request \subseteq ic.request
    BY <1>1, <1>3, <1>4, ProgramStep DEF IInv, TypeOK
  <1>6. Handlers'
    BY <1>2, <1>5, EmptySeq DEF Boot, Handlers, Unended
  <1>7. Line'
    BY <1>5 DEF IInv, Line, Boot
  <1>8. StartUp'
    <2>1. \A t \in Sources \ (programmed \cup {s}) : ic'.ctl[t] = ic.ctl[t]
      BY <1>5 DEF IInv, TypeOK, ICOk, ICState
    <2>2. QED
      BY <1>1, <1>2, <1>5, <2>1 DEF IInv, StartUp, Booted, Boot
  <1>9. WriteControlRegister
    BY <1>1, <1>3, <1>4 DEF WriteControlRegister, MayRewrite
  <1>10. QED
    BY <1>3, <1>5, <1>6, <1>7, <1>8, <1>9 DEF IInv, TypeOK

\* The source acknowledged precedes those whose handlers it interrupts, and a
\* request of INT1 means that a byte waits for its handler.
LEMMA AcknowledgeHolds ==
  ASSUME IInv, Acknowledge
  PROVE  IInv'
  <1> DEFINE h == HandlerOf(AckVector(ic))
             f == [src |-> h, read |-> FALSE, ended |-> FALSE]
  <1>1. Booted /\ ic.intr /\ ic.intr = ic.pending /\ ic' = IntCallback(ic)
    BY DEF IInv, StartUp, Acknowledge, CpuAcknowledge
  <1>2. /\ ICOk(ic') /\ Plain(ic') /\ Asserted(ic') /\ ic'.intr = ic'.pending
        /\ ic'.ctl = ic.ctl /\ ic'.status \subseteq ic.status
        /\ ic'.extState = ic.extState /\ ic'.request \subseteq ic.request
        /\ h \in Used
        /\ h = INT1 => INT1 \in ic.request
        /\ ic'.inService = ic.inService \cup {h}
        /\ ic.ctl[h].lvl <= 7
        /\ \A t \in ic.inService : Before(ic, h, t)
    BY <1>1, AcknowledgeStep DEF IInv, TypeOK
  <1>3. f \in Frame /\ frames' = <<f>> \o frames /\ frames \in Seq(Frame)
    BY <1>2 DEF Frame, IInv, Handlers, Acknowledge
  <1>4. f.src = h /\ f.read = FALSE /\ f.ended = FALSE
    OBVIOUS
  <1> HIDE DEF f, h
  <1>5. /\ frames' \in Seq(Frame) /\ DOMAIN frames' = 1..(Len(frames) + 1) /\ frames'[1] = f
        /\ \A i \in 2..(Len(frames) + 1) : i - 1 \in DOMAIN frames /\ frames'[i] = frames[i - 1]
    BY <1>3, Pushed
  <1>6. Len(frames) \in Nat /\ DOMAIN frames = 1..Len(frames)
    BY <1>3, LenProperties
  <1>7. /\ 1 \in Unended'
        /\ \A i \in Unended' : i # 1 => i \in 2..(Len(frames) + 1) /\ i - 1 \in Unended
        /\ \A i \in Unended : i + 1 \in Unended' /\ frames'[i + 1] = frames[i]
    BY <1>4, <1>5, <1>6 DEF Unended
  <1>8. Handlers'
    <2>1. ic'.inService = {frames'[i].src : i \in Unended'}
      <3>1. ASSUME NEW s \in ic'.inService PROVE \E i \in Unended' : frames'[i].src = s
        <4>1. CASE s = h
          BY <1>4, <1>5, <1>7, <4>1
        <4>2. CASE s # h
          <5>1. PICK i \in Unended : frames[i].src = s
            BY <1>2, <4>2 DEF IInv, Handlers
          <5>2. QED
            BY <1>7, <5>1
        <4>3. QED
          BY <4>1, <4>2
      <3>2. ASSUME NEW i \in Unended' PROVE frames'[i].src \in ic'.inService
        BY <1>2, <1>4, <1>5, <1>7 DEF IInv, Handlers
      <3>3. QED
        BY <3>1, <3>2
    <2>2. \A s \in ic'.inService : ic'.ctl[s].lvl <= 7
      BY <1>2 DEF IInv, Handlers
    <2>3. ASSUME NEW i \in Unended', NEW j \in Unended', i < j
          PROVE  Before(ic', frames'[i].src, frames'[j].src)
      <3>1. j # 1 /\ j - 1 \in Unended /\ frames'[j] = frames[j - 1] /\ i \in Nat /\ j \in Nat
        BY <1>5, <1>6, <1>7, <2>3 DEF Unended
      <3>2. CASE i = 1
        BY <1>2, <1>4, <1>5, <3>1, <3>2, SMTT(30) DEF IInv, Handlers, Before
      <3>3. CASE i # 1
        <4>1. i - 1 \in Unended /\ frames'[i] = frames[i - 1] /\ i - 1 < j - 1
          BY <1>5, <1>7, <2>3, <3>1, <3>3
        <4>2. Before(ic, frames[i - 1].src, frames[j - 1].src)
          BY <3>1, <4>1 DEF IInv, Handlers
        <4>3. QED
          BY <1>2, <3>1, <4>1, <4>2 DEF Before
      <3>4. QED
        BY <3>2, <3>3
    <2>4. ASSUME NEW i \in DOMAIN frames', frames'[i].src = INT1, ~frames'[i].read
          PROVE  ~frames'[i].ended /\ mailbox'.pending
      <3>1. mailbox' = mailbox
        BY DEF Acknowledge
      <3>2. CASE i = 1
        BY <1>2, <1>4, <1>5, <2>4, <3>1, <3>2 DEF IInv, Line
      <3>3. CASE i # 1
        BY <1>5, <1>6, <2>4, <3>1, <3>3 DEF IInv, Handlers
      <3>4. QED
        BY <3>2, <3>3
    <2>5. QED
      BY <1>5, <2>1, <2>2, <2>3, <2>4 DEF Handlers
  <1>9. Line'
    BY <1>2 DEF IInv, Line, Acknowledge
  <1>10. StartUp'
    BY <1>1, <1>2 DEF IInv, StartUp, Booted, Acknowledge
  <1>11. QED
    BY <1>2, <1>8, <1>9, <1>10 DEF IInv, TypeOK
\* Of two handlers that have not ended, one is further in; of three, none: the
\* card has two sources.
LEMMA Innermost ==
  ASSUME IInv, Unended # {}
  PROVE  /\ Unended \subseteq Nat
         /\ \E i \in Unended : \A j \in Unended : i <= j
  <1>1. Unended \subseteq Nat
    BY LenProperties DEF IInv, Handlers, Unended
  <1>2. ASSUME NEW i \in Unended PROVE frames[i].src \in Used
    BY <1>2 DEF IInv, Handlers, Plain
  <1>3. ASSUME NEW s \in Used, NEW t \in Used, Before(ic, s, t) PROVE s # t /\ ~Before(ic, t, s)
    <2>1. ic.ctl[s].lvl \in 0..15 /\ ic.ctl[t].lvl \in 0..15 /\ s \in 0..7 /\ t \in 0..7
      BY DoorbellAssumption, SourcesAssumption DEF IInv, TypeOK, ICOk, ICState, Ctl
    <2>2. QED
      BY <1>3, <2>1 DEF Before
  <1>4. PICK i \in Unended : TRUE
    OBVIOUS
  <1>5. CASE \A j \in Unended : i <= j
    BY <1>1, <1>5
  <1>6. CASE \E j \in Unended : ~(i <= j)
    <2>1. PICK j \in Unended : j < i
      BY <1>1, <1>6
    <2>2. ASSUME NEW k \in Unended, k < j PROVE FALSE
      <3>1. k < i
        BY <1>1, <2>1, <2>2
      <3>2. /\ Before(ic, frames[k].src, frames[j].src)
            /\ Before(ic, frames[k].src, frames[i].src)
            /\ Before(ic, frames[j].src, frames[i].src)
        BY <2>1, <2>2, <3>1 DEF IInv, Handlers
      <3>3. QED
        BY <1>2, <1>3, <3>2 DEF Used
    <2>3. QED
      BY <1>1, <2>2
  <1>7. QED
    BY <1>1, <1>5, <1>6

\* The EOI retires the source of the innermost handler that has not ended.
LEMMA EoiRetires ==
  ASSUME IInv, NEW m \in Unended, \A j \in Unended : m <= j
  PROVE  Retired(ic) = {frames[m].src}
  <1>1. Unended \subseteq Nat
    BY Innermost
  <1>2. frames[m].src \in ic.inService /\ \A s \in ic.inService : ic.ctl[s].lvl <= 7
    BY DEF IInv, Handlers
  <1>3. ASSUME NEW t \in ic.inService
        PROVE  t = frames[m].src \/ Before(ic, frames[m].src, t)
    <2>1. PICK j \in Unended : t = frames[j].src
      BY DEF IInv, Handlers
    <2>2. j = m \/ m < j
      BY <1>1
    <2>3. QED
      BY <2>1, <2>2 DEF IInv, Handlers
  <1>4. QED
    BY <1>2, <1>3, RetiresFirst DEF IInv, TypeOK

\* The same source is never twice in service.
LEMMA SourcesDiffer ==
  ASSUME IInv, NEW i \in Unended, NEW j \in Unended, frames[i].src = frames[j].src
  PROVE  i = j
  <1>1. i \in Nat /\ j \in Nat
    BY Innermost
  <1>2. frames[i].src \in 0..7 /\ ic.ctl[frames[i].src].lvl \in 0..15
    <2>1. frames[i].src \in Sources
      BY DEF IInv, TypeOK, ICOk, ICState, Handlers
    <2>2. \A s \in Sources : s \in 0..7 /\ ic.ctl[s].lvl \in 0..15
      BY SourcesAssumption DEF IInv, TypeOK, ICOk, ICState, Ctl
    <2>3. QED
      BY <2>1, <2>2
  <1>3. ~Before(ic, frames[i].src, frames[j].src) /\ ~Before(ic, frames[j].src, frames[i].src)
    BY <1>2 DEF Before
  <1>4. QED
    BY <1>1, <1>3 DEF IInv, Handlers

\* The INT1 handler finds the byte, and the line falls with the read: no second
\* INT1 handler is under way that would find the mailbox empty.
LEMMA MailboxReadHolds ==
  ASSUME IInv, MailboxRead
  PROVE  IInv' /\ mailbox.pending /\ INT1 \in ic.extState
  <1> DEFINE f == [frames[1] EXCEPT !.read = TRUE]
  <1>1. /\ frames \in Seq(Frame) /\ frames # <<>> /\ Head(frames) = frames[1]
        /\ frames[1] \in Frame /\ 1 \in DOMAIN frames
    BY Marked DEF IInv, Handlers, MailboxRead, Running
  <1>2. frames[1].src = INT1 /\ ~frames[1].read
    BY <1>1 DEF MailboxRead, Running
  <1>3. ~frames[1].ended /\ mailbox.pending /\ 1 \in Unended
    BY <1>1, <1>2 DEF IInv, Handlers, Unended
  <1>4. INT1 \in ic.inService /\ INT1 \in ic.extState
    BY <1>2, <1>3 DEF IInv, Handlers, Line
  <1>5. /\ ICOk(ic') /\ Plain(ic') /\ Asserted(ic') /\ ic'.intr = ic'.pending
        /\ ic'.ctl = ic.ctl /\ ic'.inService = ic.inService /\ ic'.status = ic.status
        /\ ic'.extState = ic.extState \ {INT1} /\ ic'.request = {}
    BY <1>4, DropStep DEF IInv, TypeOK, MailboxRead
  <1>6. f \in Frame /\ f.src = INT1 /\ f.read /\ ~f.ended /\ frames' = [frames EXCEPT ![1] = f]
    BY <1>1, <1>2, <1>3 DEF Frame, MailboxRead
  <1> HIDE DEF f
  <1>7. /\ frames' \in Seq(Frame) /\ DOMAIN frames' = DOMAIN frames
        /\ frames'[1] = f /\ \A i \in DOMAIN frames : i # 1 => frames'[i] = frames[i]
    BY <1>1, <1>6, Marked
  <1>8. Unended' = Unended /\ \A i \in Unended : frames'[i].src = frames[i].src
    BY <1>1, <1>2, <1>3, <1>6, <1>7 DEF Unended
  <1>9. ASSUME NEW i \in DOMAIN frames', frames'[i].src = INT1, ~frames'[i].read
        PROVE  FALSE
    <2>1. i # 1 /\ i \in DOMAIN frames /\ frames[i].src = INT1 /\ ~frames[i].read
      BY <1>6, <1>7, <1>9
    <2>2. i \in Unended
      BY <2>1 DEF IInv, Handlers, Unended
    <2>3. QED
      BY <1>2, <1>3, <2>1, <2>2, SourcesDiffer
  <1>10. Handlers'
    BY <1>5, <1>7, <1>8, <1>9 DEF IInv, Handlers, Before
  <1>11. Line'
    <2>1. mailbox' \in [data : Nat, pending : BOOLEAN] /\ ~mailbox'.pending
      BY DEF IInv, Line, MailboxRead
    <2>2. ic'.extState = {}
      BY <1>3, <1>5 DEF IInv, Line
    <2>3. written' \in Nat
      BY DEF IInv, Line, MailboxRead
    <2>4. QED
      BY <1>5, <2>1, <2>2, <2>3 DEF Line
  <1>12. StartUp'
    BY <1>1, <1>5 DEF IInv, StartUp, Booted, MailboxRead
  <1>13. QED
    BY <1>3, <1>4, <1>5, <1>10, <1>11, <1>12 DEF IInv, TypeOK

\* The EOI takes the innermost handler's source out of service, and no other.
LEMMA EndInterruptHolds ==
  ASSUME IInv, EndInterrupt
  PROVE  IInv'
  <1> DEFINE f == [frames[1] EXCEPT !.ended = TRUE]
             h == frames[1].src
  <1>1. /\ frames \in Seq(Frame) /\ frames # <<>> /\ Head(frames) = frames[1]
        /\ frames[1] \in Frame /\ 1 \in DOMAIN frames /\ DOMAIN frames \subseteq Nat \ {0}
    BY Marked DEF IInv, Handlers, EndInterrupt, MayProceed
  <1>2. ~frames[1].ended /\ (h = INT1 => frames[1].read)
    BY <1>1 DEF EndInterrupt, MayProceed, Running
  <1>3. 1 \in Unended /\ \A j \in Unended : 1 <= j
    BY <1>1, <1>2 DEF Unended
  <1>4. Retired(ic) = {h}
    BY <1>3, EoiRetires
  <1>5. /\ ICOk(ic') /\ Plain(ic') /\ Asserted(ic') /\ ic'.intr = ic'.pending
        /\ ic'.ctl = ic.ctl /\ ic'.inService = ic.inService \ {h} /\ ic'.status = ic.status
        /\ ic'.extState = ic.extState /\ ic'.request \subseteq ic.request
    BY <1>4, EoiStep DEF IInv, TypeOK, EndInterrupt
  <1>6. /\ f \in Frame /\ f.src = h /\ f.read = frames[1].read /\ f.ended
        /\ frames' = [frames EXCEPT ![1] = f]
    BY <1>1 DEF Frame, EndInterrupt
  <1> HIDE DEF f
  <1>7. /\ frames' \in Seq(Frame) /\ DOMAIN frames' = DOMAIN frames
        /\ frames'[1] = f /\ \A i \in DOMAIN frames : i # 1 => frames'[i] = frames[i]
    BY <1>1, <1>6, Marked
  <1>8. Unended' = Unended \ {1} /\ \A i \in Unended' : frames'[i] = frames[i]
    BY <1>1, <1>6, <1>7 DEF Unended
  <1>9. ic'.inService = {frames'[i].src : i \in Unended'}
    <2>1. ASSUME NEW s \in ic'.inService PROVE \E i \in Unended' : frames'[i].src = s
      <3>1. PICK i \in Unended : frames[i].src = s
        BY <1>5 DEF IInv, Handlers
      <3>2. QED
        BY <1>5, <1>8, <3>1
    <2>2. ASSUME NEW i \in Unended' PROVE frames'[i].src \in ic'.inService
      <3>1. i \in Unended /\ frames'[i] = frames[i] /\ frames[i].src \in ic.inService
        BY <1>8 DEF IInv, Handlers
      <3>2. frames[i].src # h
        BY <1>3, <1>8, <3>1, SourcesDiffer
      <3>3. QED
        BY <1>5, <3>1, <3>2
    <2>3. QED
      BY <2>1, <2>2
  <1>10. Handlers'
    <2>1. \A s \in ic'.inService : ic'.ctl[s].lvl <= 7
      BY <1>5 DEF IInv, Handlers
    <2>2. \A i, j \in Unended' : i < j => Before(ic', frames'[i].src, frames'[j].src)
      BY <1>5, <1>8 DEF IInv, Handlers, Before
    <2>3. ASSUME NEW i \in DOMAIN frames', frames'[i].src = INT1, ~frames'[i].read
          PROVE  ~frames'[i].ended /\ mailbox'.pending
      <3>1. i # 1 /\ i \in DOMAIN frames /\ frames'[i] = frames[i]
        BY <1>2, <1>6, <1>7, <2>3
      <3>2. QED
        BY <2>3, <3>1 DEF IInv, Handlers, EndInterrupt
    <2>4. QED
      BY <1>7, <1>9, <2>1, <2>2, <2>3 DEF Handlers
  <1>11. Line'
    BY <1>5 DEF IInv, Line, EndInterrupt
  <1>12. StartUp'
    BY <1>1, <1>5 DEF IInv, StartUp, Booted, EndInterrupt
  <1>13. QED
    BY <1>5, <1>10, <1>11, <1>12 DEF IInv, TypeOK

\* Only a handler that has ended returns.
LEMMA ReturnHolds ==
  ASSUME IInv, Return
  PROVE  IInv'
  <1>1. /\ frames \in Seq(Frame) /\ frames # <<>> /\ Head(frames) = frames[1]
        /\ frames[1] \in Frame /\ 1 \in DOMAIN frames
    BY Marked DEF IInv, Handlers, Return, MayProceed
  <1>2. frames[1].ended /\ 1 \notin Unended
    BY <1>1 DEF Return, Unended
  <1>3. /\ frames' \in Seq(Frame)
        /\ \A i \in DOMAIN frames' : i + 1 \in DOMAIN frames /\ frames'[i] = frames[i + 1]
        /\ \A i \in DOMAIN frames : i > 1 => i - 1 \in DOMAIN frames'
        /\ DOMAIN frames \subseteq Nat \ {0} /\ DOMAIN frames' \subseteq Nat \ {0}
    BY <1>1, Popped DEF Return
  <1>4. /\ \A i \in Unended' : i \in Nat /\ i + 1 \in Unended /\ frames'[i] = frames[i + 1]
        /\ \A i \in Unended : i - 1 \in Unended' /\ frames'[i - 1] = frames[i]
    <2>1. ASSUME NEW i \in Unended
          PROVE  i - 1 \in Unended' /\ frames'[i - 1] = frames[i]
      <3>1. i \in DOMAIN frames /\ i \in Nat /\ i > 1
        BY <1>2, <1>3 DEF Unended
      <3>2. i - 1 \in DOMAIN frames' /\ frames'[i - 1] = frames[i]
        <4>1. i - 1 \in DOMAIN frames' /\ (i - 1) + 1 = i
          BY <1>3, <3>1
        <4>2. QED
          BY <1>3, <4>1
      <3>3. QED
        BY <3>2 DEF Unended
    <2>2. QED
      BY <1>3, <2>1 DEF Unended
  <1>5. ic' = ic /\ mailbox' = mailbox
    BY DEF Return
  <1>6. ic'.inService = {frames'[i].src : i \in Unended'}
    BY <1>4, <1>5 DEF IInv, Handlers
  <1>7. ASSUME NEW i \in Unended', NEW j \in Unended', i < j
        PROVE  Before(ic', frames'[i].src, frames'[j].src)
    <2>1. /\ i + 1 \in Unended /\ frames'[i] = frames[i + 1]
          /\ j + 1 \in Unended /\ frames'[j] = frames[j + 1] /\ i + 1 < j + 1
      BY <1>4, <1>7
    <2>2. QED
      BY <1>5, <2>1 DEF IInv, Handlers
  <1>8. Handlers'
    BY <1>3, <1>5, <1>6, <1>7 DEF IInv, Handlers
  <1>9. StartUp'
    BY <1>1, <1>5 DEF IInv, StartUp, Booted, Return
  <1>10. QED
    BY <1>5, <1>8, <1>9 DEF IInv, TypeOK, Line, Return

LEMMA StepHolds ==
  ASSUME IInv, [DoorbellNext]_doorbellVars
  PROVE  IInv'
  <1>1. CASE Disable \/ Enable
    <2>1. Handlers'
      BY <1>1, SameHandlers DEF IInv, Disable, Enable
    <2>2. QED
      BY <1>1, <2>1 DEF IInv, TypeOK, Line, StartUp, Booted, Disable, Enable
  <1>2. CASE UNCHANGED doorbellVars
    <2>1. Handlers'
      BY <1>2, SameHandlers DEF IInv, doorbellVars
    <2>2. QED
      BY <1>2, <2>1 DEF IInv, TypeOK, Line, StartUp, Booted, doorbellVars
  <1>3. QED
    BY <1>1, <1>2, HostWriteHolds, BoardResetHolds, TimerElapseHolds, AcknowledgeHolds,
       BootHolds, MailboxReadHolds, EndInterruptHolds, ReturnHolds DEF DoorbellNext

(* In every state the pieces fit: what is asserted is the winner of the    *)
(* scan, the in-service bits are the handlers under way, the line of INT1  *)
(* is up while a byte waits, and nothing is served before the firmware is  *)
(* up.                                                                     *)
THEOREM Invariant == DoorbellSafe => []IInv
  BY InitHolds, StepHolds, PTL DEF DoorbellSafe
-----------------------------------------------------------------------------
(* No handler reads an empty mailbox: a spurious doorbell would make the   *)
(* firmware take the previous byte a second time.                          *)
THEOREM NoEmptyRead == DoorbellSafe => []NoSpuriousRead
  <1>1. IInv => NoSpuriousRead
    BY Marked DEF IInv, Handlers, NoSpuriousRead, Running
  <1>2. QED
    BY <1>1, Invariant, PTL

(* The non-specific EOI ends the handler that issues it, however handlers  *)
(* nest: the order of the handlers under way is the order of priority.     *)
THEOREM EoiMatches == DoorbellSafe => []EoiMatchesHandler
  <1>1. IInv => EoiMatchesHandler
    <2> SUFFICES ASSUME IInv, Unended # {}
                 PROVE  Retired(ic) =
                   {frames[CHOOSE i \in Unended : \A j \in Unended : i <= j].src}
      BY DEF EoiMatchesHandler
    <2> DEFINE m == CHOOSE i \in Unended : \A j \in Unended : i <= j
    <2>1. m \in Unended /\ \A j \in Unended : m <= j
      BY Innermost
    <2> HIDE DEF m
    <2>2. Retired(ic) = {frames[m].src}
      BY <2>1, EoiRetires
    <2>3. QED
      BY <2>2 DEF m
  <1>2. QED
    BY <1>1, Invariant, PTL

(* What the board and the firmware do to the controller are steps of the   *)
(* controller, so that what InterruptController_proofs proves of it holds  *)
(* of the card: an assumption of those proofs is not one the card breaks.  *)
THEOREM BoardImplementsController == DoorbellSafe => Spec
  <1>1. DoorbellInit => Init
    BY DEF DoorbellInit
  <1>2. IInv /\ [DoorbellNext]_doorbellVars => [Next]_ic
    <2> SUFFICES ASSUME IInv, DoorbellNext PROVE [Next]_ic
      BY DEF doorbellVars
    <2>1. INT1 \in Ext
      BY DoorbellAssumption DEF Ext, INT1, Used
    <2>2. CASE HostWrite
      <3>1. CASE INT1 \in ic.extState
        BY <2>2, <3>1 DEF HostWrite, ExternalInt
      <3>2. CASE INT1 \notin ic.extState
        BY <2>1, <2>2, <3>2 DEF HostWrite, Next, RaiseLine
      <3>3. QED
        BY <3>1, <3>2
    <2>3. CASE BoardReset
      BY <2>3 DEF BoardReset, Next
    <2>4. CASE TimerElapse
      BY <2>4 DEF TimerElapse, Next
    <2>5. CASE Acknowledge
      BY <2>5 DEF Acknowledge, Next
    <2>6. CASE Boot
      BY <2>6, BootHolds DEF Next
    <2>7. CASE MailboxRead
      BY <2>1, <2>7, MailboxReadHolds DEF MailboxRead, Next, DropLine
    <2>8. CASE EndInterrupt
      BY <2>8 DEF EndInterrupt, Next, EndOfInterrupt
    <2>9. CASE Return \/ Disable \/ Enable
      BY <2>9 DEF Return, Disable, Enable
    <2>10. QED
      BY <2>2, <2>3, <2>4, <2>5, <2>6, <2>7, <2>8, <2>9 DEF DoorbellNext
  <1>3. QED
    BY <1>1, <1>2, Invariant, PTL DEF DoorbellSafe, Spec

(* The board implements the one-place mailbox: a byte is taken at most     *)
(* once, in order, and is lost only to a later byte or to a reset.         *)
THEOREM BoardImplementsMailbox == DoorbellSafe => ImplementsMailbox
  <1> DEFINE slot == IF mailbox.pending THEN mailbox.data ELSE 0
  <1>1. DoorbellInit => Port!Init
    BY DEF DoorbellInit, Port!Init
  <1>2. IInv /\ [DoorbellNext]_doorbellVars => [Port!Next]_(Port!mailboxVars)
    <2> SUFFICES ASSUME IInv, [DoorbellNext]_doorbellVars
                 PROVE  [Port!Next]_(Port!mailboxVars)
      OBVIOUS
    <2>1. CASE HostWrite
      <3>1. slot' = written'
        BY <2>1 DEF HostWrite
      <3>2. QED
        BY <2>1, <3>1 DEF HostWrite, Port!Next, Port!Write
    <2>2. CASE BoardReset
      <3>1. slot' = 0
        BY <2>2 DEF BoardReset
      <3>2. QED
        BY <2>2, <3>1 DEF BoardReset, Port!Next, Port!Clear
    <2>3. CASE MailboxRead
      <3>1. mailbox.pending /\ mailbox.data # 0
        BY <2>3, MailboxReadHolds DEF IInv, Line
      <3>2. mailbox'.pending = FALSE
        BY <2>3 DEF MailboxRead, IInv, Line
      <3>3. QED
        BY <2>3, <3>1, <3>2 DEF MailboxRead, Port!Next, Port!Take
    <2>4. ASSUME UNCHANGED <<mailbox, written, taken>> PROVE UNCHANGED Port!mailboxVars
      BY <2>4 DEF Port!mailboxVars
    <2>5. QED
      BY <2>1, <2>2, <2>3, <2>4
         DEF DoorbellNext, doorbellVars, TimerElapse, Acknowledge, Boot, EndInterrupt,
             Return, Disable, Enable
  <1>3. QED
    BY <1>1, <1>2, Invariant, PTL DEF DoorbellSafe, ImplementsMailbox, Port!Safe
=============================================================================
