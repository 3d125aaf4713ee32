--------------------------- MODULE RegisterBlock ---------------------------
(***************************************************************************)
(* The peripheral control block with the interrupt controller in it: how a *)
(* program's accesses, by port or by address, byte or word, even or odd,   *)
(* become the controller's operations, the relocation register that moves  *)
(* the block, and the words behind the offsets nothing is wired to.  What  *)
(* the controller does on its own is InterruptController's.                *)
(*                                                                         *)
(* A word is the set of its bits that are 1.  An address is its page (the  *)
(* bits above the low eight), the word in the page and the lane.  Of the   *)
(* timer registers, maxA stands here; the others are TimerUnit's.          *)
(***************************************************************************)
EXTENDS InterruptController

CONSTANTS
  Pages,     \* pages that an instance's program uses
  Words      \* for each offset it uses, the words it writes there

Offsets == DOMAIN Words

ASSUME BlockAssumption ==
  /\ Offsets # {} /\ Offsets \subseteq 0..127
  /\ \A o \in Offsets : Words[o] \subseteq SUBSET (0..15)
  /\ Pages \subseteq SUBSET (0..11)

VARIABLE other   \* [vector, halt, reloc, eb, maxA]: the rest of the block

vars == <<ic, other>>

\* The whole block as one record.
block == [ic |-> ic, vector |-> other.vector, halt |-> other.halt,
          reloc |-> other.reloc, eb |-> other.eb, maxA |-> other.maxA]

Becomes(b) ==
  /\ ic' = b.ic
  /\ other' = [vector |-> b.vector, halt |-> b.halt, reloc |-> b.reloc,
               eb |-> b.eb, maxA |-> b.maxA]

Spaces == {"io", "memory"}
Kinds  == {"byte", "al", "word"}      \* OUT AL and MOV AL put AX on the bus

Bits(n)    == {b \in 0..3 : (n \div 2^b) % 2 = 1}
Number(w)  == (IF 0 \in w THEN 1 ELSE 0) + (IF 1 \in w THEN 2 ELSE 0)
              + (IF 2 \in w THEN 4 ELSE 0) + (IF 3 \in w THEN 8 ELSE 0)
Low(w)     == w \cap 0..7
Swapped(w) == {(b + 8) % 16 : b \in w}

Start == [vector |-> {}, halt |-> FALSE, reloc |-> 0..7,
          eb |-> [o \in Offsets |-> {}], maxA |-> {}]

BlockInit == Init /\ other = Start

-----------------------------------------------------------------------------
(* Which register an offset stands for.                                    *)

\* Mutant of InternalPortOffset: offsets the EB does not wire mean the same
\* register as in the 80186.
InternalPortOffsetThrough(o) ==
  IF o \in 0..9 \/ o \in 12..15 \/ o \in 24..33 \/ o = 35 THEN o + 16
  ELSE IF o = 84 THEN 127 ELSE o

InternalPortOffset(o) ==
  IF o \in 0..9 \/ o \in 12..15 \/ o \in 24..33 \/ o = 35 THEN o + 16
  ELSE IF o = 84 THEN 127 ELSE 128

\* The source of a control register, and its word.
Controlled(r) == IF r = 25 THEN TMR ELSE r - 24

\* The control registers that an instance's program uses are those of the
\* sources it has.
ASSUME ControlAssumption ==
  \A o \in Offsets :
    InternalPortOffset(o) \in {25} \cup 28..31 => Controlled(InternalPortOffset(o)) \in Sources

CtlWord(x) == Bits(x.lvl) \cup (IF x.ltm THEN {4} ELSE {})
              \cup (IF x.cascade THEN {5} ELSE {}) \cup (IF x.sfnm THEN {6} ELSE {})

Control(s, w) ==
  [lvl |-> Number(w),
   ltm |-> s >= 4 /\ 4 \in w,
   cascade |-> s \in {4, 5} /\ 5 \in w, sfnm |-> s \in {4, 5} /\ 6 \in w]

\* Bit 3 of a source's control word is moved up by so much to be shown in
\* the mask register, and the bit of a word written is moved up by so much
\* to become bit 3.
ShownUp ==
  [s \in {0} \cup 2..7 |->
     CASE s = 0 -> -3 [] s = 2 -> -1 [] s = 3 -> 0 [] s = 4 -> 1
       [] s = 5 -> 2 [] s = 6 -> 3 [] s = 7 -> 4]

\* Mutant of PutUp: INT2's bit is looked for in INT1's place.
PutUpSlipped ==
  [s \in {0} \cup 2..7 |->
     CASE s = 0 -> 3 [] s = 2 -> 1 [] s = 3 -> 0 [] s = 4 -> -1
       [] s = 5 -> -2 [] s = 6 -> -2 [] s = 7 -> -4]

PutUp ==
  [s \in {0} \cup 2..7 |->
     CASE s = 0 -> 3 [] s = 2 -> 1 [] s = 3 -> 0 [] s = 4 -> -1
       [] s = 5 -> -2 [] s = 6 -> -3 [] s = 7 -> -4]

\* The mask register: the mask bits of all control words side by side.
MaskWord(c) == {3 + ShownUp[s] : s \in {t \in Sources : c.ctl[t].lvl >= 8}}
Masking(w)   == {s \in Sources : 3 - PutUp[s] \in w}

VectorBits(v) == Bits(v % 16) \cup (IF v >= 16 THEN {4} ELSE {})
PollWord(c)   == VectorBits(c.poll.vector) \cup (IF c.poll.valid THEN {15} ELSE {})

\* The vector a specific EOI names.
EoiVector(w) == Number(w) + IF 4 \in w THEN 16 ELSE 0

\* What a register holds for a reader who does not disturb it.
ReadIntr(b, r) ==
  CASE r = 16 -> b.vector
    [] r \in {18, 19} -> PollWord(b.ic)
    [] r = 20 -> MaskWord(b.ic)
    [] r = 21 -> Bits(b.ic.priorityMask)
    [] r = 22 -> b.ic.inService
    [] r = 23 -> b.ic.request \cup (IF b.ic.status # {} THEN {0} ELSE {})
    [] r = 24 -> b.ic.status \cup (IF b.halt THEN {15} ELSE {})
    [] r \in {25} \cup 28..31 -> CtlWord(b.ic.ctl[Controlled(r)])
    [] OTHER -> {}

\* The registers of the block, the timer's count apart.
Contents(b, o) ==
  LET r == InternalPortOffset(o)
  IN CASE r = 128 -> b.eb[o]
       [] r = 127 -> b.reloc
       [] r = 41 -> b.maxA
       [] OTHER -> ReadIntr(b, r)

WriteIntr(b, r, w) ==
  CASE r = 16 -> [b EXCEPT !.vector = w \cap 3..7]
    [] r = 17 -> [b EXCEPT !.ic =
         IF 15 \in w THEN WriteEoiNonspecific(@)
         ELSE WriteEoiSpecific(@, EoiVector(w))]
    [] r = 20 -> [b EXCEPT !.ic = WriteMask(@, Masking(w))]
    [] r = 21 -> [b EXCEPT !.ic = WritePriorityMask(@, Number(w \cap 0..2))]
    [] r = 22 -> [b EXCEPT !.ic = WriteInService(@, w \cap Sources)]
    [] r = 23 -> [b EXCEPT !.ic = WriteRequest(@, w \cap Dma)]
    [] r = 24 -> [b EXCEPT !.ic = WriteStatus(@, w \cap Timers), !.halt = 15 \in w]
    [] r \in {25} \cup 28..31 ->
         [b EXCEPT !.ic = WriteCtl(@, Controlled(r), Control(Controlled(r), w))]
    [] OTHER -> b

Written(b, o, w) ==
  LET r == InternalPortOffset(o)
  IN CASE r = 128 -> [b EXCEPT !.eb[o] = w]
       [] r = 127 -> [b EXCEPT !.reloc = w]
       [] r = 41 -> [b EXCEPT !.maxA = w]
       [] OTHER -> WriteIntr(b, r, w)

-----------------------------------------------------------------------------
(* The CPU's side.                                                         *)

\* The page of ports or of addresses at which the block answers.
Answers(b, space, page) ==
  IF space = "io" THEN 12 \notin b.reloc /\ page = Low(b.reloc)
  ELSE 12 \in b.reloc /\ page = b.reloc \cap 0..11

\* The word an access puts on the block's bus, for the operand w.
Driven(kind, odd, w) ==
  CASE kind = "byte" -> IF odd THEN {b + 8 : b \in Low(w)} ELSE Low(w)
    [] OTHER -> IF odd THEN Swapped(w) ELSE w

\* The program knows a page where the block answers.  Accesses elsewhere go
\* to the board's buses and leave the block alone.
Reached == \E space \in Spaces, page \in Pages : Answers(block, space, page)

\* The words that stores put on the bus for an offset: a byte fills the
\* other lane with zeros, or with AH.
OnTheBus(o) == {Driven(kind, odd, w) : kind \in Kinds, odd \in BOOLEAN, w \in Words[o]}

\* What the program leaves alone: iRMX mode, words beyond those of the
\* instance, and, as in InterruptController, priorities and in-service bits
\* while an interrupt is in service.
Disciplined(o, w) ==
  LET r == InternalPortOffset(o)
  IN CASE r = 127 -> 14 \notin w
       [] r = 20 -> MayRewrite
       [] r = 21 -> MayRewrite /\ Number(w \cap 0..2) \in PriorityMasks
       [] r = 22 -> Rewrites \/ w \cap Sources \subseteq ic.inService
       [] r = 24 -> TMR \in Sources /\ w \cap Timers \subseteq Elapsing
       [] r \in {25} \cup 28..31 ->
            /\ MayRewrite /\ Controlled(r) \in Sources
            /\ Control(Controlled(r), w) \in CtlWords
       [] OTHER -> TRUE

Store(o) ==
  /\ Reached
  /\ \E w \in OnTheBus(o) : Disciplined(o, w) /\ Becomes(Written(block, o, w))

\* A load of the poll register, in any width, acknowledges; no other load
\* but that of a timer's count changes anything.
LoadPoll == Reached /\ 2 \in Offsets /\ PollAcknowledge /\ UNCHANGED other

\* The lines, the timers and the CPU's acknowledge.
Lines ==
  /\ RaiseLine \/ DropLine \/ Elapse \/ CpuAcknowledge
  /\ UNCHANGED other

\* Of the block's own words only the vector keeps its value.
BlockReset ==
  /\ Reset
  /\ other' = [Start EXCEPT !.vector = other.vector]

BlockNext == (\E o \in Offsets : Store(o)) \/ LoadPoll \/ Lines \/ BlockReset

BlockSpec == BlockInit /\ [][BlockNext]_vars

-----------------------------------------------------------------------------
(* Properties.                                                             *)

\* In whatever state the controller is: the mask register and bit 3 of the
\* control registers show the same mask, and a mask that is stored is the
\* one both show then.  Four tables of shifts have to fit together for this.
ControlOffset(s) == IF s = 0 THEN 9 ELSE s + 8
ShowsMask(b, M) ==
  \A s \in Sources \ Dma :
    (s \in Contents(b, 4) <=> s \in M) /\ (3 \in Contents(b, ControlOffset(s)) <=> s \in M)
MaskAgrees ==
  /\ ShowsMask(block, Contents(block, 4))
  /\ \A w \in OnTheBus(4) : ShowsMask(Written(block, 4, w), w)

\* In whatever state the controller is: a store changes what its own offset
\* shows, and besides it only what the controller derives from that one
\* register.  The mask register and the control registers show each other's
\* bit 3, an EOI retires a source from the in-service word, and the priority
\* scan sets the poll words and erases requests of cascaded lines.  So no two
\* offsets share their storage.
Control4 == {9, 12, 13, 14, 15}
Poll     == {2, 3}
Coupled(o) ==
  CASE o = 1              -> Poll \cup {6, 7}
    [] o = 4              -> Poll \cup {7} \cup Control4
    [] o \in Control4     -> Poll \cup {4, 7}
    [] o \in {5, 6, 7, 8} -> Poll \cup {7}
    [] OTHER              -> {}
Changed(b, d) == {p \in Offsets : Contents(d, p) # Contents(b, p)}
NoAlias ==
  \A o \in Offsets : \A w \in OnTheBus(o) :
    Disciplined(o, w) => Changed(block, Written(block, o, w)) \subseteq {o} \cup Coupled(o)
=============================================================================
