--------------------------- MODULE CpuLoop_proofs ---------------------------
(***************************************************************************)
(* For every program, every string instruction and any nesting of          *)
(* handlers: no interrupt is taken between an instruction that shields the *)
(* next one, or a prefix, and the instruction it belongs to.  A segment    *)
(* override is still in force when an interrupted string instruction       *)
(* resumes, unless LOCK or a second REP stands after the segment prefix.   *)
(* And a repeated instruction, however often it is cut and executed again, *)
(* ends as one uninterrupted search, copy, fill or transfer does.          *)
(*                                                                         *)
(* The last part is about what recursive functions compute.  Induction is  *)
(* on sets: what holds of 0, and of n + 1 when it holds of n, holds up to  *)
(* any bound because the least number where it fails does not exist        *)
(* (UpTo), which is the library's well-foundedness of < on Nat.            *)
(***************************************************************************)
EXTENDS CpuLoop, SequenceTheorems, NaturalsInduction, WellFoundedInduction, TLAPS

CpuFields == {"ip", "prev", "seg", "segNext", "noInt", "iff", "halt"}

HistFields == {"shadow", "split", "over", "bare"}

\* The records keep their fields; what the fields hold does not matter here.
Shape == /\ cpu = [f \in CpuFields |-> cpu[f]]
         /\ hist = [f \in HistFields |-> hist[f]]

\* A shadow that is left open is held by one of the CPU's two guards.
Guarded == hist.shadow => cpu.segNext \/ cpu.noInt = 1

IInv == Shape /\ Guarded /\ hist.split = FALSE

-----------------------------------------------------------------------------
LEMMA InitHolds == Init => IInv
  BY DEF Init, IInv, Shape, Guarded, CpuFields, HistFields

\* In a guarded state no interrupt is taken in a shadow.
LEMMA NotTaken ==
  ASSUME IInv PROVE ~(Taken /\ hist.shadow)
  BY DEF IInv, Guarded, Taken, AtBoundary

\* The CPU at the fetch, and the history after an instruction, are of shape.
LEMMA ReadyShape ==
  ASSUME IInv PROVE Ready = [f \in CpuFields |-> Ready[f]]
  BY DEF IInv, Shape, Ready, CpuFields

LEMMA AfterShape ==
  ASSUME IInv, NEW b \in BOOLEAN
  PROVE  /\ After(b) = [f \in HistFields |-> After(b)[f]]
         /\ After(b).split = FALSE
         /\ After(b).shadow = b
  BY NotTaken DEF IInv, Shape, After, HistFields

\* An instruction that leaves no shadow needs no guard.
LEMMA Unshadowed ==
  ASSUME IInv, Shape', hist'.shadow = FALSE, hist'.split = FALSE
  PROVE  IInv'
  BY DEF IInv, Guarded

\* Every step keeps the guards in place.
LEMMA NextHolds ==
  ASSUME IInv, [Next]_vars PROVE IInv'
  <1> USE ReadyShape, AfterShape
  <1>1. CASE Op
    <2>1. Shape' /\ hist' = After(FALSE)
      BY <1>1 DEF Op, Advanced, Shape, CpuFields
    <2>2. QED
      BY <2>1, Unshadowed
  <1>2. CASE Io
    <2>1. Shape' /\ hist' = After(FALSE)
      BY <1>2 DEF Io, Advanced, Shape, CpuFields
    <2>2. QED
      BY <2>1, Unshadowed
  <1>3. CASE Load
    <2>1. Shape' /\ hist' = After(FALSE)
      BY <1>3 DEF Load, Advanced, Shape, CpuFields
    <2>2. QED
      BY <2>1, Unshadowed
  <1>4. CASE Cli
    <2>1. Shape' /\ hist' = After(FALSE)
      BY <1>4 DEF Cli, Advanced, Shape, CpuFields
    <2>2. QED
      BY <2>1, Unshadowed
  <1>5. CASE Shield
    <2>1. Opcode \in Shielding
      BY <1>5 DEF Shield, Runs, Shielding
    <2>2. Shape' /\ cpu'.noInt = 1
      BY <1>5, <2>1 DEF Shield, Advanced, Shape, CpuFields, HistFields
    <2>3. hist'.split = FALSE
      BY <1>5 DEF Shield, HistFields
    <2>4. QED
      BY <2>2, <2>3 DEF IInv, Guarded
  <1>6. CASE Segment
    <2>1. Shape' /\ cpu'.segNext = TRUE
      BY <1>6 DEF Segment, Advanced, Shape, CpuFields, HistFields
    <2>2. hist'.split = FALSE
      BY <1>6 DEF Segment, HistFields
    <2>3. QED
      BY <2>1, <2>2 DEF IInv, Guarded
  <1>7. CASE Hlt
    <2>1. Shape' /\ hist' = After(FALSE)
      BY <1>7 DEF Hlt, Advanced, Shape, CpuFields
    <2>2. QED
      BY <2>1, Unshadowed
  <1>8. CASE Iret
    <2>1. Shape' /\ hist'.split = FALSE /\ hist'.shadow = FALSE
      BY <1>8 DEF Iret, Shape, CpuFields, HistFields
    <2>2. QED
      BY <2>1, Unshadowed
  <1>9. CASE StringOnce
    <2>1. Shape' /\ hist'.split = FALSE /\ hist'.shadow = FALSE
      BY <1>9 DEF StringOnce, Advanced, Shape, CpuFields, HistFields
    <2>2. QED
      BY <2>1, Unshadowed
  <1>10. CASE Rep
    <2>1. Shape' /\ hist'.split = FALSE /\ hist'.shadow = FALSE
      BY <1>10 DEF Rep, Shape, CpuFields, HistFields
    <2>2. QED
      BY <2>1, Unshadowed
  <1>11. CASE RepIgnored
    <2>1. InnerSeg \in BOOLEAN
      BY DEF InnerSeg
    <2>2. Shape' /\ cpu'.segNext = InnerSeg
      BY <1>11, <2>1 DEF RepIgnored, Shape, CpuFields, HistFields
    <2>3. hist'.split = FALSE /\ hist'.shadow = InnerSeg
      BY <1>11, <2>1 DEF RepIgnored, HistFields
    <2>4. QED
      BY <2>2, <2>3 DEF IInv, Guarded
  <1>12. CASE Wait
    <2>1. Shape' /\ cpu'.segNext = cpu.segNext /\ cpu'.noInt = cpu.noInt
      BY <1>12 DEF IInv, Wait, Shape, CpuFields
    <2>2. QED
      BY <1>12, <2>1 DEF Wait, IInv, Guarded
  <1>13. CASE NewSlice
    BY <1>13 DEF NewSlice, IInv, Shape, Guarded
  <1>14. CASE UNCHANGED vars
    BY <1>14 DEF vars, IInv, Shape, Guarded
  <1>15. QED
    BY <1>1, <1>2, <1>3, <1>4, <1>5, <1>6, <1>7, <1>8, <1>9, <1>10, <1>11,
       <1>12, <1>13, <1>14 DEF Next, Iterate

-----------------------------------------------------------------------------
\* No interrupt splits a prefix, or a shielding instruction, from the
\* instruction after it: the flags m_no_interrupt and m_seg_prefix_next are up
\* whenever a shadow is open.
THEOREM Unsplit == Spec => []NothingSplit
  <1>1. IInv => NothingSplit
    BY DEF IInv, NothingSplit
  <1>2. QED
    BY <1>1, InitHolds, NextHolds, PTL DEF Spec, Safe
-----------------------------------------------------------------------------
(* The segment override of string instructions.                            *)

Positions == 1..Len(Code)

\* No LOCK, and no second REP, between a segment prefix and its instruction.
Follower(p, i) == IF i = Len(p.main) THEN 1 ELSE i + 1
Plain(p) ==
  LET code == p.main \o p.handler
  IN  \A i \in 1..Len(code) : code[i] = "seg" =>
        LET j == Follower(p, i)
        IN  /\ code[j] # "lock"
            /\ code[j] = "rep" => code[Follower(p, j)] \notin {"rep", "lock"}

\* A REP that a segment prefix follows and no string instruction after that.
IdleRep(i) == /\ Code[i] = "rep" /\ Code[Following(i)] = "seg"
              /\ Code[Following(Following(i))] # "string"

\* Where an instruction with an override may be started without it.
Restartable(i) == Code[i] \notin {"string", "rep", "lock"} \/ IdleRep(i)

\* The chain of prefixes begins at prev, and the last was a segment prefix.
Chained == cpu.segNext => /\ Code[cpu.prev] = "seg" \/ IdleRep(cpu.prev)
                          /\ \E j \in Positions : Code[j] = "seg" /\ cpu.ip = Following(j)

OverGuarded == /\ hist.over => cpu.segNext \/ Restartable(cpu.ip)
               /\ \A k \in DOMAIN stack : stack[k].over => Restartable(stack[k].ip)

CpuRecord  == [ip : Positions, prev : Positions, seg : BOOLEAN, segNext : BOOLEAN,
               noInt : {0, 1}, iff : BOOLEAN, halt : BOOLEAN]
HistRecord == [shadow : BOOLEAN, split : BOOLEAN, over : BOOLEAN, bare : BOOLEAN]
Frame      == [ip : Positions, iff : BOOLEAN, over : BOOLEAN]

Typed == /\ program \in Programs /\ cpu \in CpuRecord /\ hist \in HistRecord
         /\ stack \in Seq(Frame)

OInv == Typed /\ Chained /\ OverGuarded /\ ~hist.bare

LEMMA Sizes ==
  ASSUME program \in Programs
  PROVE  /\ Len(program.main) \in Nat \ {0} /\ Len(program.handler) \in Nat \ {0}
         /\ Len(Code) = Len(program.main) + Len(program.handler) /\ Len(Code) \in Nat
         /\ Code[Len(Code)] = "iret" /\ Entry \in Positions /\ 1 \in Positions
  <1>1. /\ program.main \in Seq(Instructions) /\ program.main # <<>>
        /\ program.handler \in Seq(Instructions) /\ program.handler # <<>>
        /\ program.handler[Len(program.handler)] = "iret"
    BY CpuAssumption
  <1> DEFINE m == program.main
             h == program.handler
  <1>2. Len(m) \in Nat \ {0} /\ Len(h) \in Nat \ {0}
    BY <1>1, EmptySeq, LenProperties
  <1>3. m \in Seq(Instructions) /\ h \in Seq(Instructions)
    BY <1>1
  <1> HIDE DEF m, h
  <1>4. Len(m \o h) = Len(m) + Len(h)
    BY <1>3, ConcatProperties
  <1>5. (m \o h)[Len(m) + Len(h)] = h[Len(h)]
    <2>1. Len(m) + Len(h) \in 1..(Len(m) + Len(h)) /\ ~(Len(m) + Len(h) <= Len(m))
          /\ Len(m) + Len(h) - Len(m) = Len(h)
      BY <1>2
    <2>2. QED
      BY <1>2, <1>3, <1>4, <2>1, ConcatProperties
  <1>6. h[Len(h)] = "iret" /\ Code = m \o h /\ Entry = Len(m) + 1
    BY <1>1 DEF Code, Entry, m, h
  <1>7. Len(Code) \in Nat /\ Entry \in Positions /\ 1 \in Positions
    BY <1>2, <1>4, <1>6 DEF Positions
  <1>8. QED
    BY <1>2, <1>4, <1>5, <1>6, <1>7 DEF m, h

\* Only IRET may stand at the end of the program.
LEMMA FollowingStays ==
  ASSUME program \in Programs, NEW i \in Positions, Code[i] # "iret"
  PROVE  Following(i) \in Positions
  <1>1. Len(Code) \in Nat /\ Code[Len(Code)] = "iret" /\ 1 \in Positions
    BY Sizes
  <1>2. i # Len(Code)
    BY <1>1
  <1>3. QED
    BY <1>1, <1>2 DEF Following, Positions

LEMMA PlainAt ==
  ASSUME Plain(program), NEW i \in Positions, Code[i] = "seg"
  PROVE  /\ Code[Following(i)] # "lock"
         /\ Code[Following(i)] = "rep" => Code[Following(Following(i))] \notin {"rep", "lock"}
  BY DEF Plain, Code, Positions, Follower, Following

\* What is known when the next opcode is fetched.
LEMMA Fetch ==
  ASSUME Typed, Chained, OverGuarded
  PROVE  /\ Ready \in CpuRecord /\ ~Ready.segNext
         /\ cpu.segNext => Ready.seg /\ Ready.ip = cpu.ip /\ Ready.prev = cpu.prev
         /\ ~cpu.segNext => Ready.prev = Ready.ip
         /\ Over => hist.over /\ Ready.ip = cpu.ip /\ (cpu.segNext \/ Restartable(cpu.ip))
         /\ \A b \in BOOLEAN : /\ After(b) \in HistRecord /\ After(b).over = FALSE
                                /\ After(b).bare = hist.bare
  <1>1. Entry \in Positions
    BY Sizes DEF Typed
  <1>2. Ready \in CpuRecord /\ ~Ready.segNext
    BY <1>1 DEF Typed, CpuRecord, Ready, Taken, AtBoundary
  <1>3. /\ cpu.segNext => Ready.seg /\ Ready.ip = cpu.ip /\ Ready.prev = cpu.prev
        /\ ~cpu.segNext => Ready.prev = Ready.ip
        /\ ~Taken => Ready.ip = cpu.ip
    BY DEF Typed, CpuRecord, Ready, Taken, AtBoundary
  <1>4. Over => hist.over /\ Ready.ip = cpu.ip /\ (cpu.segNext \/ Restartable(cpu.ip))
    BY <1>3 DEF Over, OverGuarded
  <1>5. \A b \in BOOLEAN : /\ After(b) \in HistRecord /\ After(b).over = FALSE
                           /\ After(b).bare = hist.bare
    BY DEF After, Typed, HistRecord
  <1>6. QED
    BY <1>2, <1>3, <1>4, <1>5

\* An interrupted instruction can be started again.
LEMMA PushedFrames ==
  ASSUME Typed, OverGuarded
  PROVE  /\ Pushed \in Seq(Frame)
         /\ \A k \in DOMAIN Pushed : Pushed[k].over => Restartable(Pushed[k].ip)
  <1>1. CASE ~Taken
    BY <1>1 DEF Pushed, Typed, OverGuarded
  <1>2. CASE Taken
    <2> DEFINE f == [ip |-> cpu.ip, iff |-> cpu.iff, over |-> hist.over]
    <2>1. f \in Frame /\ (f.over => Restartable(f.ip))
      BY <1>2 DEF Typed, CpuRecord, HistRecord, Frame, OverGuarded, Taken, AtBoundary
    <2>2. Pushed = <<f>> \o stack
      BY <1>2 DEF Pushed
    <2> HIDE DEF f
    <2>3. <<f>> \in Seq(Frame) /\ Len(<<f>>) = 1 /\ <<f>>[1] = f /\ stack \in Seq(Frame)
      BY <2>1 DEF Typed
    <2>4. \A k \in DOMAIN Pushed :
             Pushed[k] = f \/ (k - 1 \in DOMAIN stack /\ Pushed[k] = stack[k - 1])
      <3> DEFINE one == <<f>>
      <3>1. one \in Seq(Frame) /\ Len(one) = 1 /\ one[1] = f /\ Pushed = one \o stack
        BY <2>2, <2>3
      <3> HIDE DEF one
      <3>2. /\ Len(stack) \in Nat /\ DOMAIN stack = 1..Len(stack)
            /\ DOMAIN Pushed = 1..(1 + Len(stack))
            /\ \A k \in 1..(1 + Len(stack)) :
                 Pushed[k] = IF k <= 1 THEN one[k] ELSE stack[k - 1]
        <4>1. Len(stack) \in Nat /\ DOMAIN stack = 1..Len(stack)
          BY <2>3, LenProperties
        <4>2. /\ one \o stack \in Seq(Frame) /\ Len(one \o stack) = 1 + Len(stack)
              /\ \A k \in 1..(1 + Len(stack)) :
                   (one \o stack)[k] = IF k <= 1 THEN one[k] ELSE stack[k - 1]
          BY <2>3, <3>1, ConcatProperties
        <4>3. DOMAIN (one \o stack) = 1..(1 + Len(stack))
          BY <4>2, LenProperties
        <4>4. QED
          BY <3>1, <4>1, <4>2, <4>3
      <3>3. QED
        BY <3>1, <3>2
    <2>5. QED
      BY <2>1, <2>2, <2>3, <2>4, ConcatProperties DEF OverGuarded
  <1>3. QED
    BY <1>1, <1>2

\* After an instruction that is complete nothing is to be kept.
LEMMA Complete ==
  ASSUME OInv, program' = program, cpu' \in CpuRecord, hist' \in HistRecord, stack' = Pushed,
         ~cpu'.segNext, ~hist'.over, ~hist'.bare
  PROVE  OInv'
  <1>1. Typed'
    BY PushedFrames DEF OInv, Typed, CpuRecord, Frame, Positions, Code
  <1>2. Chained' /\ OverGuarded'
    BY PushedFrames DEF OInv, Chained, OverGuarded, Restartable, IdleRep, Code, Following
  <1>3. QED
    BY <1>1, <1>2 DEF OInv

LEMMA Simple ==
  ASSUME OInv, Op \/ Io \/ Load \/ Cli \/ Hlt
  PROVE  OInv'
  <1>1. Typed /\ Chained /\ OverGuarded /\ ~hist.bare
    BY DEF OInv
  <1>2. Ready \in CpuRecord /\ ~Ready.segNext /\ After(FALSE) \in HistRecord
        /\ ~After(FALSE).over /\ ~After(FALSE).bare
    BY <1>1, Fetch
  <1>3. program' = program /\ stack' = Pushed /\ hist' = After(FALSE)
    BY DEF Op, Io, Load, Cli, Hlt, Rest
  <1>4. Following(Ready.ip) \in Positions
    <2>1. Ready.ip \in Positions /\ Opcode # "iret"
      BY <1>2 DEF Op, Io, Load, Cli, Hlt, Runs, CpuRecord
    <2>2. QED
      BY <1>1, <2>1, FollowingStays DEF Opcode, Typed
  <1>5. cpu' \in CpuRecord /\ ~cpu'.segNext
    BY <1>2, <1>4 DEF Op, Io, Load, Cli, Hlt, Advanced, CpuRecord
  <1>6. QED
    BY <1>2, <1>3, <1>5, Complete

LEMMA ShieldKeeps ==
  ASSUME OInv, Plain(program), Shield
  PROVE  OInv'
  <1>1. Typed /\ Chained /\ OverGuarded /\ ~hist.bare
    BY DEF OInv
  <1>2. /\ Ready \in CpuRecord /\ ~Ready.segNext
        /\ After(TRUE) \in HistRecord /\ ~After(TRUE).bare
    BY <1>1, Fetch
  <1>3. Ready.ip \in Positions /\ Opcode \in {"loadss", "lock", "sti"}
    BY <1>2 DEF Shield, Runs, CpuRecord
  <1>4. Following(Ready.ip) \in Positions
    BY <1>1, <1>3, FollowingStays DEF Opcode, Typed
  <1>5. cpu' \in CpuRecord /\ ~cpu'.segNext
    BY <1>2, <1>4 DEF Shield, Advanced, CpuRecord
  <1>6. ~(Opcode = "lock" /\ Over)
    <2> SUFFICES ASSUME Opcode = "lock", Over PROVE FALSE
      OBVIOUS
    <2>1. Ready.ip = cpu.ip /\ (cpu.segNext \/ Restartable(cpu.ip))
      BY <1>1, Fetch
    <2>2. cpu.segNext
      BY <2>1 DEF Restartable, IdleRep, Opcode
    <2>3. PICK j \in Positions : Code[j] = "seg" /\ cpu.ip = Following(j)
      BY <1>1, <2>2 DEF Chained
    <2>4. QED
      BY <2>1, <2>3, PlainAt DEF Opcode
  <1>7. hist' \in HistRecord /\ ~hist'.over /\ ~hist'.bare
    BY <1>2, <1>6 DEF Shield, HistRecord
  <1>8. QED
    BY <1>5, <1>7, Complete DEF Shield, Rest

LEMMA StringKeeps ==
  ASSUME OInv, StringOnce
  PROVE  OInv'
  <1>1. Typed /\ Chained /\ OverGuarded /\ ~hist.bare
    BY DEF OInv
  <1>2. /\ Ready \in CpuRecord /\ ~Ready.segNext /\ After(FALSE) \in HistRecord
        /\ ~After(FALSE).over /\ ~After(FALSE).bare
    BY <1>1, Fetch
  <1>3. Ready.ip \in Positions /\ Opcode = "string"
    BY <1>2 DEF StringOnce, Runs, CpuRecord
  <1>4. Following(Ready.ip) \in Positions
    BY <1>1, <1>3, FollowingStays DEF Opcode, Typed
  <1>5. cpu' \in CpuRecord /\ ~cpu'.segNext
    BY <1>2, <1>4 DEF StringOnce, Advanced, CpuRecord
  <1>6. ~(Over /\ ~Ready.seg)
    BY <1>1, <1>3, Fetch DEF Restartable, IdleRep, Opcode
  <1>7. hist' \in HistRecord /\ ~hist'.over /\ ~hist'.bare
    BY <1>2, <1>6 DEF StringOnce, HistRecord
  <1>8. QED
    BY <1>5, <1>7, Complete DEF StringOnce, Rest

\* Where the chain of prefixes begins, it can be started again.
LEMMA Chain ==
  ASSUME Typed, Chained, OverGuarded, Opcode = "seg" \/ IdleRep(Ready.ip)
  PROVE  Code[Ready.prev] = "seg" \/ IdleRep(Ready.prev)
  BY Fetch DEF Chained, Opcode

LEMMA SegmentKeeps ==
  ASSUME OInv, Segment
  PROVE  OInv'
  <1>1. Typed /\ Chained /\ OverGuarded /\ ~hist.bare
    BY DEF OInv
  <1>2. /\ Ready \in CpuRecord /\ After(TRUE) \in HistRecord /\ ~After(TRUE).bare
    BY <1>1, Fetch
  <1>3. Ready.ip \in Positions /\ Opcode = "seg" /\ Code[Ready.ip] = "seg"
    BY <1>2 DEF Segment, Runs, CpuRecord, Opcode
  <1>4. Following(Ready.ip) \in Positions
    BY <1>1, <1>3, FollowingStays DEF Opcode, Typed
  <1>5. /\ cpu' \in CpuRecord /\ cpu'.segNext /\ cpu'.prev = Ready.prev
        /\ cpu'.ip = Following(Ready.ip)
    BY <1>2, <1>4 DEF Segment, Advanced, CpuRecord
  <1>6. hist' \in HistRecord /\ ~hist'.bare
    BY <1>2 DEF Segment, HistRecord
  <1>7. program' = program /\ stack' = Pushed
    BY DEF Segment, Rest
  <1>8. Typed'
    BY <1>1, <1>5, <1>6, <1>7, PushedFrames DEF Typed, CpuRecord, Frame, Positions, Code
  <1>9. Chained'
    BY <1>1, <1>3, <1>5, <1>7, Chain DEF Chained, IdleRep, Positions, Code, Following
  <1>10. OverGuarded'
    BY <1>1, <1>5, <1>7, PushedFrames DEF OverGuarded, Restartable, IdleRep, Code, Following
  <1>11. QED
    BY <1>6, <1>8, <1>9, <1>10 DEF OInv

\* IRET goes back to where an interrupted instruction can be started again.
LEMMA IretKeeps ==
  ASSUME OInv, Iret
  PROVE  OInv'
  <1>1. Typed /\ Chained /\ OverGuarded /\ ~hist.bare
    BY DEF OInv
  <1>2. /\ Ready \in CpuRecord /\ ~Ready.segNext /\ After(FALSE) \in HistRecord
        /\ ~After(FALSE).bare
    BY <1>1, Fetch
  <1>3. /\ Pushed \in Seq(Frame) /\ Pushed # <<>>
        /\ \A k \in DOMAIN Pushed : Pushed[k].over => Restartable(Pushed[k].ip)
    BY <1>1, PushedFrames DEF Iret
  <1>4. /\ 1 \in DOMAIN Pushed /\ Head(Pushed) = Pushed[1] /\ Head(Pushed) \in Frame
        /\ Tail(Pushed) \in Seq(Frame)
        /\ \A k \in DOMAIN Tail(Pushed) :
             k + 1 \in DOMAIN Pushed /\ Tail(Pushed)[k] = Pushed[k + 1]
    BY <1>3, HeadTailProperties, EmptySeq, LenProperties
  <1>5. /\ cpu' \in CpuRecord /\ ~cpu'.segNext /\ cpu'.ip = Head(Pushed).ip
    BY <1>2, <1>4 DEF Iret, CpuRecord, Frame
  <1>6. hist' \in HistRecord /\ ~hist'.bare /\ hist'.over = Head(Pushed).over
    BY <1>2, <1>4 DEF Iret, HistRecord, Frame
  <1>7. program' = program /\ stack' = Tail(Pushed)
    BY DEF Iret, Rest
  <1>8. Typed'
    BY <1>1, <1>4, <1>5, <1>6, <1>7 DEF Typed, CpuRecord, Frame, Positions, Code
  <1>9. Chained' /\ OverGuarded'
    <2>1. hist'.over => Restartable(cpu'.ip)
      BY <1>3, <1>4, <1>5, <1>6
    <2>2. \A k \in DOMAIN stack' : stack'[k].over => Restartable(stack'[k].ip)
      BY <1>3, <1>4, <1>7
    <2>3. QED
      BY <1>5, <1>7, <2>1, <2>2
         DEF Chained, OverGuarded, Restartable, IdleRep, Code, Following
  <1>10. QED
    BY <1>6, <1>8, <1>9 DEF OInv

\* A repeated instruction is started again from its first prefix.
LEMMA RepKeeps ==
  ASSUME OInv, Rep
  PROVE  OInv'
  <1>1. Typed /\ Chained /\ OverGuarded /\ ~hist.bare
    BY DEF OInv
  <1>2. /\ Ready \in CpuRecord /\ ~Ready.segNext /\ After(FALSE) \in HistRecord
        /\ ~After(FALSE).bare
    BY <1>1, Fetch
  <1>3. /\ Ready.ip \in Positions /\ Ready.prev \in Positions /\ Code[Ready.ip] = "rep"
        /\ Code[Repeatee] = "string"
    BY <1>2 DEF Rep, Runs, CpuRecord, Opcode
  <1>4. Following(Repeatee) \in Positions
    <2>1. Inner \in Positions
      BY <1>1, <1>3, FollowingStays DEF Typed, Inner
    <2>2. Repeatee \in Positions
      BY <1>1, <2>1, FollowingStays DEF Typed, Repeatee, InnerSeg
    <2>3. QED
      BY <1>1, <1>3, <2>2, FollowingStays DEF Typed
  <1>5. Over => Ready.seg /\ cpu.segNext
    <2> SUFFICES ASSUME Over PROVE Ready.seg /\ cpu.segNext
      OBVIOUS
    <2>1. Ready.ip = cpu.ip /\ (cpu.segNext \/ Restartable(cpu.ip))
      BY <1>1, Fetch
    <2>2. ~Restartable(cpu.ip)
      BY <1>3, <2>1 DEF Restartable, IdleRep, Repeatee, InnerSeg, Inner
    <2>3. QED
      BY <1>1, <2>1, <2>2, Fetch
  <1>6. Over => Restartable(Ready.prev)
    BY <1>1, <1>5, Fetch DEF Chained, Restartable
  <1>7. PICK again \in BOOLEAN :
           /\ cpu' = [Ready EXCEPT !.seg = FALSE, !.segNext = FALSE,
                                   !.ip = IF again THEN Ready.prev ELSE Following(Repeatee)]
           /\ hist' = [After(FALSE) EXCEPT !.bare = @ \/ (Over /\ ~Ready.seg),
                                           !.over = Over /\ again]
    BY DEF Rep, Again
  <1>8. /\ cpu' \in CpuRecord /\ ~cpu'.segNext
        /\ cpu'.ip = IF again THEN Ready.prev ELSE Following(Repeatee)
    BY <1>2, <1>3, <1>4, <1>7 DEF CpuRecord
  <1>9. hist' \in HistRecord /\ ~hist'.bare /\ (hist'.over => Over /\ again)
    BY <1>2, <1>5, <1>7 DEF HistRecord
  <1>10. program' = program /\ stack' = Pushed
    BY DEF Rep, Rest
  <1>11. Typed'
    BY <1>1, <1>8, <1>9, <1>10, PushedFrames DEF Typed, CpuRecord, Frame, Positions, Code
  <1>12. Chained' /\ OverGuarded'
    <2>1. hist'.over => Restartable(cpu'.ip)
      BY <1>6, <1>8, <1>9
    <2>2. QED
      BY <1>1, <1>8, <1>10, <2>1, PushedFrames, ZenonT(30)
         DEF Chained, OverGuarded, Restartable, IdleRep, Code, Following
  <1>13. QED
    BY <1>9, <1>11, <1>12 DEF OInv

LEMMA RepIgnoredKeeps ==
  ASSUME OInv, Plain(program), RepIgnored
  PROVE  OInv'
  <1>1. Typed /\ Chained /\ OverGuarded /\ ~hist.bare
    BY DEF OInv
  <1>2. /\ Ready \in CpuRecord /\ InnerSeg \in BOOLEAN
        /\ After(InnerSeg) \in HistRecord /\ ~After(InnerSeg).bare
    BY <1>1, Fetch DEF InnerSeg
  <1>3. /\ Ready.ip \in Positions /\ Code[Ready.ip] = "rep" /\ Code[Repeatee] # "string"
    BY <1>2 DEF RepIgnored, Runs, CpuRecord, Opcode
  <1>4. Inner \in Positions /\ Repeatee \in Positions
    <2>1. Inner \in Positions
      BY <1>1, <1>3, FollowingStays DEF Typed, Inner
    <2>2. QED
      BY <1>1, <2>1, FollowingStays DEF Typed, Repeatee, InnerSeg
  <1>5. /\ cpu' \in CpuRecord /\ (cpu'.segNext <=> InnerSeg) /\ cpu'.prev = Ready.prev
        /\ cpu'.ip = Repeatee
    BY <1>2, <1>4 DEF RepIgnored, CpuRecord, Override
  <1>6. hist' \in HistRecord /\ ~hist'.bare /\ (hist'.over => InnerSeg \/ Over)
    BY <1>2 DEF RepIgnored, HistRecord
  <1>7. program' = program /\ stack' = Pushed
    BY DEF RepIgnored, Rest
  <1>8. Typed'
    BY <1>1, <1>5, <1>6, <1>7, PushedFrames DEF Typed, CpuRecord, Frame, Positions, Code
  <1>9. InnerSeg => /\ IdleRep(Ready.ip) /\ Repeatee = Following(Inner) /\ Code[Inner] = "seg"
    BY <1>3 DEF IdleRep, InnerSeg, Inner, Repeatee
  <1>10. InnerSeg => Code[Ready.prev] = "seg" \/ IdleRep(Ready.prev)
    BY <1>1, <1>9, Chain
  <1>11. Chained'
    BY <1>4, <1>5, <1>7, <1>9, <1>10 DEF Chained, IdleRep, Positions, Code, Following
  <1>12. Over /\ ~InnerSeg => Restartable(Repeatee)
    <2> SUFFICES ASSUME Over, ~InnerSeg PROVE Restartable(Repeatee)
      OBVIOUS
    <2>1. Ready.ip = cpu.ip /\ (cpu.segNext \/ Restartable(cpu.ip))
      BY <1>1, Fetch
    <2>2. ~Restartable(cpu.ip)
      BY <1>3, <2>1 DEF Restartable, IdleRep, InnerSeg, Inner
    <2>3. PICK j \in Positions : Code[j] = "seg" /\ cpu.ip = Following(j)
      BY <1>1, <2>1, <2>2 DEF Chained
    <2>4. Repeatee = Following(Following(j)) /\ Code[Following(j)] = "rep"
      BY <1>3, <2>1, <2>3 DEF Repeatee, Inner
    <2>5. QED
      BY <1>3, <2>3, <2>4, PlainAt DEF Restartable
  <1>13. OverGuarded'
    <2>1. hist'.over => cpu'.segNext \/ Restartable(cpu'.ip)
      BY <1>5, <1>6, <1>12
    <2>2. QED
      BY <1>1, <1>7, <2>1, PushedFrames, ZenonT(30) DEF OverGuarded, Restartable, IdleRep, Code, Following
  <1>14. QED
    BY <1>6, <1>8, <1>11, <1>13 DEF OInv

LEMMA OverrideInit == Init => OInv
  <1> SUFFICES ASSUME Init PROVE OInv
    OBVIOUS
  <1>1. program \in Programs
    BY DEF Init
  <1>2. 1 \in Positions
    BY <1>1, Sizes
  <1>3. stack = <<>> /\ stack \in Seq(Frame) /\ DOMAIN stack = {}
    BY DEF Init
  <1>4. QED
    BY <1>1, <1>2, <1>3 DEF Init, OInv, Typed, Chained, OverGuarded, CpuRecord, HistRecord

LEMMA OverrideStep ==
  ASSUME OInv, Plain(program), [Next]_vars
  PROVE  OInv'
  <1>1. CASE Wait
    <2>1. ~cpu.segNext /\ cpu' = [cpu EXCEPT !.prev = cpu.ip, !.seg = FALSE]
      BY <1>1 DEF Wait, Halted, AtBoundary
    <2>2. cpu' \in CpuRecord /\ ~cpu'.segNext /\ cpu'.ip = cpu.ip
      BY <2>1 DEF OInv, Typed, CpuRecord
    <2>3. UNCHANGED <<program, stack, hist>>
      BY <1>1 DEF Wait
    <2>4. Typed'
      <3>1. Positions' = Positions /\ CpuRecord' = CpuRecord /\ HistRecord' = HistRecord
            /\ Frame' = Frame
        BY <2>3 DEF Positions, Code, CpuRecord, HistRecord, Frame
      <3>2. QED
        BY <2>2, <2>3, <3>1 DEF OInv, Typed
    <2>5. Chained'
      BY <2>2 DEF Chained
    <2>6. OverGuarded'
      BY <2>1, <2>2, <2>3, Zenon DEF OInv, OverGuarded, Restartable, IdleRep, Code, Following
    <2>7. QED
      BY <2>3, <2>4, <2>5, <2>6 DEF OInv
  <1>2. CASE NewSlice \/ UNCHANGED vars
    <2>1. UNCHANGED <<program, cpu, stack, hist>>
      BY <1>2 DEF NewSlice, vars
    <2>2. QED
      BY <2>1, ZenonT(30) DEF OInv, Typed, Chained, OverGuarded, CpuRecord, Frame, Positions, Code,
         Restartable, IdleRep, Following
  <1>3. QED
    BY <1>1, <1>2, Simple, ShieldKeeps, StringKeeps, SegmentKeeps, IretKeeps, RepKeeps,
       RepIgnoredKeeps DEF Next, Iterate

\* A string instruction keeps its segment override in every round, wherever
\* the slice ends and interrupts fall, for every program in which neither LOCK
\* nor a second REP comes between the prefix and the instruction.  Those two
\* the code does forget: m_prev_ip is then after the segment prefix, or
\* m_seg_prefix_next is down.
THEOREM OverrideSurvives ==
  ASSUME \A p \in Programs : Plain(p)
  PROVE  Spec => []OverrideKept
  <1>1. OInv => OverrideKept /\ Plain(program)
    BY DEF OInv, OverrideKept, Typed
  <1>2. OInv /\ [Next]_vars => OInv'
    BY <1>1, OverrideStep
  <1>3. QED
    BY <1>1, <1>2, OverrideInit, PTL DEF Spec, Safe

-----------------------------------------------------------------------------
(* Numbers.                                                                *)

LEMMA LeastOf ==
  ASSUME NEW T \in SUBSET Nat, T # {}
  PROVE  \E m \in T : \A k \in T : m <= k
  <1> DEFINE R == OpToRel(<, Nat)
  <1>1. IsWellFoundedOn(R, Nat)
    BY NatLessThanWellFounded
  <1>2. \A x, y \in Nat : x < y => <<x, y>> \in R
    BY DEF OpToRel
  <1> HIDE DEF R
  <1>3. PICK m \in T : \A k \in T : ~(<<k, m>> \in R)
    BY <1>1, WFMin
  <1>4. ASSUME NEW k \in T PROVE m <= k
    <2>1. ~(k < m)
      BY <1>2, <1>3
    <2>2. QED
      BY <2>1
  <1>5. QED
    BY <1>4

\* Induction up to a bound, over a set of numbers.
LEMMA UpTo ==
  ASSUME NEW c \in Nat, NEW T, 0 \in T, \A n \in Nat : n < c /\ n \in T => n + 1 \in T
  PROVE  \A n \in 0..c : n \in T
  <1> DEFINE S == {n \in 0..c : n \notin T}
  <1>1. CASE S = {}
    BY <1>1
  <1>2. CASE S # {}
    <2>1. S \in SUBSET Nat
      OBVIOUS
    <2> HIDE DEF S
    <2>2. PICK m \in S : \A k \in S : m <= k
      BY <1>2, <2>1, LeastOf
    <2>3. m \in 0..c /\ m \notin T /\ m # 0
      BY <2>2 DEF S
    <2>4. m - 1 \in Nat /\ m - 1 < c /\ (m - 1) + 1 = m /\ m - 1 \in 0..c /\ ~(m <= m - 1)
      BY <2>3
    <2>5. m - 1 \in T
      BY <2>2, <2>4 DEF S
    <2>6. m \in T
      BY <2>4, <2>5
    <2>7. QED
      BY <2>3, <2>6
  <1>3. QED
    BY <1>1, <1>2

LEMMA Quotient ==
  ASSUME NEW a \in Int, NEW b \in Nat \ {0}
  PROVE  /\ a \div b \in Int /\ a % b \in 0..b - 1
         /\ a = b * (a \div b) + (a % b)
  OBVIOUS

LEMMA Multiples ==
  ASSUME NEW b \in Nat \ {0}, NEW p \in Int, NEW q \in Int, b * p < b * q + b
  PROVE  p <= q
  OBVIOUS

\* Numbers that differ by a multiple leave the same remainder.
LEMMA SameRemainder ==
  ASSUME NEW b \in Nat \ {0}, NEW a \in Int, NEW c \in Int, NEW k \in Int, a = b * k + c
  PROVE  a % b = c % b
  <1> DEFINE q == a \div b
             p == c \div b
             m == a % b
             n == c % b
  <1>1. /\ q \in Int /\ m \in 0..b - 1 /\ a = b * q + m
        /\ p \in Int /\ n \in 0..b - 1 /\ c = b * p + n
    BY Quotient
  <1> HIDE DEF q, p, m, n
  <1>2. b * (p + k) = b * p + b * k /\ p + k \in Int /\ b * p \in Int /\ b * k \in Int /\ b * q \in Int
    BY <1>1
  <1>3. b * q + m = b * (p + k) + n
    BY <1>1, <1>2
  <1>4. b * q < b * (p + k) + b /\ b * (p + k) < b * q + b
    BY <1>1, <1>2, <1>3
  <1>5. q <= p + k /\ p + k <= q
    BY <1>1, <1>2, <1>4, Multiples
  <1>6. q = p + k
    BY <1>1, <1>2, <1>5
  <1>7. m = n
    BY <1>1, <1>2, <1>3, <1>6
  <1>8. QED
    BY <1>7 DEF m, n

-----------------------------------------------------------------------------
(* Places in the segment.                                                  *)

LEMMA Places ==
  ASSUME NEW i, NEW o \in Offsets, NEW n \in Nat
  PROVE  /\ Moved(i, o, n) \in Offsets /\ Moved(i, o, 0) = o
         /\ Moved(i, Moved(i, o, n), 1) = Moved(i, o, n + 1)
         /\ \A k \in Nat : Moved(i, Moved(i, o, n), k) = Moved(i, o, n + k)
  <1>0. Elements \in Nat \ {0} /\ o \in 0..Elements - 1 /\ o \in Int
    BY StringAssumption DEF Offsets
  <1>1. \A a \in Int : a % Elements \in Offsets
    BY <1>0, Quotient DEF Offsets
  <1>2. o % Elements = o
    BY <1>0
  <1>3. \A a, k \in Int : ((a % Elements) + k) % Elements = (a + k) % Elements
    <2>1. ASSUME NEW a \in Int, NEW k \in Int
          PROVE  ((a % Elements) + k) % Elements = (a + k) % Elements
      <3> DEFINE q == a \div Elements
                 m == a % Elements
      <3>1. q \in Int /\ m \in Int /\ a = Elements * q + m
        BY <1>0, Quotient
      <3> HIDE DEF q, m
      <3>2. a + k = Elements * q + (m + k) /\ a + k \in Int /\ m + k \in Int
        BY <1>0, <3>1
      <3>3. (a + k) % Elements = (m + k) % Elements
        BY <1>0, <3>1, <3>2, SameRemainder
      <3>4. QED
        BY <3>3 DEF m
    <2>2. QED
      BY <2>1
  <1>4. \A k \in Nat : /\ (((o + n) % Elements) + k) % Elements = (o + (n + k)) % Elements
                       /\ (((o - n) % Elements) - k) % Elements = (o - (n + k)) % Elements
    <2>1. ASSUME NEW k \in Nat
          PROVE  /\ (((o + n) % Elements) + k) % Elements = (o + (n + k)) % Elements
                 /\ (((o - n) % Elements) - k) % Elements = (o - (n + k)) % Elements
      <3>1. /\ o + n \in Int /\ o - n \in Int /\ k \in Int /\ 0 - k \in Int
            /\ (o + n) + k = o + (n + k) /\ (o - n) + (0 - k) = o - (n + k)
        BY <1>0
      <3>2. (o - n) % Elements \in Int
        BY <1>0, <3>1, Quotient
      <3>3. ((o - n) % Elements) + (0 - k) = ((o - n) % Elements) - k
        BY <3>1, <3>2
      <3>4. (((o + n) % Elements) + k) % Elements = ((o + n) + k) % Elements
        BY <1>3, <3>1
      <3>5. (((o - n) % Elements) + (0 - k)) % Elements = ((o - n) + (0 - k)) % Elements
        BY <1>3, <3>1
      <3>6. QED
        BY <3>1, <3>3, <3>4, <3>5
    <2>2. QED
      BY <2>1
  <1>5. /\ Moved(i, o, n) = IF i.down THEN (o - n) % Elements ELSE (o + n) % Elements
        /\ o + n \in Int /\ o - n \in Int /\ o + 0 = o /\ o - 0 = o
    BY <1>0 DEF Moved
  <1>6. \A k \in Nat : Moved(i, Moved(i, o, n), k) = Moved(i, o, n + k)
    BY <1>4 DEF Moved
  <1>7. Moved(i, o, n) \in Offsets /\ Moved(i, o, 0) = o
    <2>1. Moved(i, o, n) \in Offsets
      BY <1>1, <1>5
    <2>2. Moved(i, o, 0) = o
      BY <1>2, <1>5 DEF Moved
    <2>3. QED
      BY <2>1, <2>2
  <1>8. QED
    BY <1>6, <1>7

-----------------------------------------------------------------------------
(* One element, and n of them.                                             *)

One(i, d) == [Stepped(i, d) EXCEPT !.cx = @ - 1]

LEMMA RoundsAre ==
  ASSUME NEW i, NEW d, d.cx \in Nat
  PROVE  /\ Rounds(i, d)[0] = d
         /\ \A n \in Nat : n < d.cx => Rounds(i, d)[n + 1] = One(i, Rounds(i, d)[n])
  <1> DEFINE Fill(f, c) == [n \in 0..c |-> IF n = 0 THEN d ELSE One(i, f[n - 1])]
             T == {c \in Nat : \E f : f = Fill(f, c)}
             r == Rounds(i, d)
  <1>1. 0 \in T
    <2> DEFINE f == [n \in 0..0 |-> d]
    <2>1. f = Fill(f, 0)
      <3>1. \A n \in 0..0 : n = 0
        OBVIOUS
      <3>2. QED
        BY <3>1
    <2>2. QED
      BY <2>1
  <1>2. ASSUME NEW c \in Nat, c \in T PROVE c + 1 \in T
    <2>1. PICK f : f = Fill(f, c)
      BY <1>2
    <2> DEFINE g == [n \in 0..c + 1 |-> IF n <= c THEN f[n] ELSE One(i, f[c])]
    <2>2. \A n \in 0..c : f[n] = IF n = 0 THEN d ELSE One(i, f[n - 1])
      BY <2>1
    <2>3. \A n \in 0..c : g[n] = f[n]
      OBVIOUS
    <2>4. g[c + 1] = One(i, f[c])
      OBVIOUS
    <2>5. \A n \in 0..c + 1 : g[n] = IF n = 0 THEN d ELSE One(i, g[n - 1])
      <3>1. ASSUME NEW n \in 0..c + 1 PROVE g[n] = IF n = 0 THEN d ELSE One(i, g[n - 1])
        <4> HIDE DEF g
        <4>1. CASE n = c + 1
          <5>1. n - 1 = c /\ c \in 0..c /\ n # 0
            BY <4>1
          <5>2. QED
            BY <2>3, <2>4, <4>1, <5>1
        <4>2. CASE n \in 0..c /\ n # 0
          <5>1. n - 1 \in 0..c
            BY <4>2
          <5>2. QED
            BY <2>2, <2>3, <4>2, <5>1
        <4>3. CASE n = 0
          <5>1. 0 \in 0..c
            OBVIOUS
          <5>2. QED
            BY <2>2, <2>3, <4>3, <5>1
        <4>4. n = c + 1 \/ n \in 0..c
          OBVIOUS
        <4>5. QED
          BY <4>1, <4>2, <4>3, <4>4
      <3>2. QED
        BY <3>1
    <2>6. g = [n \in 0..c + 1 |-> g[n]]
      OBVIOUS
    <2> HIDE DEF g
    <2>7. g = Fill(g, c + 1)
      BY <2>5, <2>6
    <2>8. QED
      BY <2>7
  <1>3. d.cx \in T
    <2> HIDE DEF T
    <2>1. \A n \in 0..d.cx : n \in T
      BY <1>1, <1>2, UpTo
    <2>2. QED
      BY <2>1
  <1>4. r = Fill(r, d.cx)
    <2>1. PICK g : g = Fill(g, d.cx)
      BY <1>3
    <2>2. r = CHOOSE f : f = Fill(f, d.cx)
      BY DEF Rounds, One
    <2> HIDE DEF r, Fill
    <2>3. QED
      BY <2>1, <2>2
  <1>5. \A n \in 0..d.cx : r[n] = IF n = 0 THEN d ELSE One(i, r[n - 1])
    <2> HIDE DEF r
    <2>1. QED
      BY <1>4
  <1>6. r[0] = d
    BY <1>5
  <1>7. ASSUME NEW n \in Nat, n < d.cx PROVE r[n + 1] = One(i, r[n])
    <2>1. n + 1 \in 0..d.cx /\ n + 1 # 0 /\ (n + 1) - 1 = n
      BY <1>7
    <2> HIDE DEF r
    <2>2. QED
      BY <1>5, <2>1
  <1>8. QED
    BY <1>6, <1>7

Writes(i) == i.op \in {"movs", "stos", "ins"}

\* What an element is written with.
Put(i, d) == IF i.op = "stos" THEN d.a
             ELSE IF i.op = "ins" THEN FromPort(d.in) ELSE d.mem[d.si]

LEMMA SteppedIs ==
  ASSUME NEW i \in StringCode, NEW d \in Work
  PROVE  /\ Stepped(i, d) \in Work /\ Stepped(i, d).cx = d.cx
         /\ Stepped(i, d).si = IF UsesSI(i) THEN Moved(i, d.si, 1) ELSE d.si
         /\ Stepped(i, d).di = IF UsesDI(i) THEN Moved(i, d.di, 1) ELSE d.di
         /\ Stepped(i, d).zf = IF Compares(i)
              THEN (IF i.op = "cmps" THEN d.mem[d.si] ELSE d.a) = d.mem[d.di] ELSE d.zf
         /\ Stepped(i, d).mem = IF Writes(i) THEN [d.mem EXCEPT ![d.di] = Put(i, d)] ELSE d.mem
         /\ Stepped(i, d).a = IF i.op = "lods" THEN d.mem[d.si] ELSE d.a
         /\ Stepped(i, d).in = IF i.op = "ins" THEN d.in + 1 ELSE d.in
         /\ Stepped(i, d).out = IF i.op = "outs" THEN Append(d.out, d.mem[d.si]) ELSE d.out
  <1> DEFINE e == Stepped(i, d)
             mem == CASE i.op = "movs" -> [d.mem EXCEPT ![d.di] = d.mem[d.si]]
                      [] i.op = "stos" -> [d.mem EXCEPT ![d.di] = d.a]
                      [] i.op = "ins"  -> [d.mem EXCEPT ![d.di] = FromPort(d.in)]
                      [] OTHER -> d.mem
             si == IF UsesSI(i) THEN Moved(i, d.si, 1) ELSE d.si
             di == IF UsesDI(i) THEN Moved(i, d.di, 1) ELSE d.di
             a  == IF i.op = "lods" THEN d.mem[d.si] ELSE d.a
             zf == IF Compares(i) THEN (IF i.op = "cmps" THEN d.mem[d.si] ELSE d.a) = d.mem[d.di]
                   ELSE d.zf
             in == IF i.op = "ins" THEN d.in + 1 ELSE d.in
             out == IF i.op = "outs" THEN Append(d.out, d.mem[d.si]) ELSE d.out
  <1>1. /\ d.mem \in [Offsets -> Int] /\ d.si \in Offsets /\ d.di \in Offsets /\ d.cx \in Nat
        /\ d.a \in Int /\ d.zf \in BOOLEAN /\ d.in \in Nat /\ d.out \in Seq(Int)
        /\ d = [mem |-> d.mem, si |-> d.si, di |-> d.di, cx |-> d.cx, a |-> d.a, zf |-> d.zf,
                in |-> d.in, out |-> d.out]
        /\ d.mem[d.si] \in Int /\ i.op \in Ops /\ i.down \in BOOLEAN
    BY DEF Work, StringCode
  <1>2. e = [mem |-> mem, si |-> si, di |-> di, cx |-> d.cx, a |-> a, zf |-> zf,
             in |-> in, out |-> out]
    <2>1. e = [d EXCEPT !.mem = mem, !.si = si, !.di = di, !.a = a, !.zf = zf,
                        !.in = in, !.out = out]
      BY DEF Stepped
    <2> HIDE DEF e, mem, si, di, a, zf, in, out
    <2>2. QED
      BY <1>1, <2>1
  <1>3. mem = IF Writes(i) THEN [d.mem EXCEPT ![d.di] = Put(i, d)] ELSE d.mem
    <2>1. CASE i.op = "movs"
      BY <2>1 DEF Writes, Put
    <2>2. CASE i.op = "stos"
      BY <2>2 DEF Writes, Put
    <2>3. CASE i.op = "ins"
      BY <2>3 DEF Writes, Put
    <2>4. CASE i.op \notin {"movs", "stos", "ins"}
      BY <2>4 DEF Writes
    <2>5. QED
      BY <2>1, <2>2, <2>3, <2>4
  <1> HIDE DEF mem
  <1>4. mem \in [Offsets -> Int]
    <2>1. Put(i, d) \in Int
      <3>1. FromPort(d.in) \in Int
        BY <1>1 DEF FromPort
      <3>2. QED
        BY <1>1, <3>1 DEF Put
    <2>2. QED
      BY <1>1, <1>3, <2>1
  <1>5. si \in Offsets /\ di \in Offsets
    <2>1. 1 \in Nat /\ Moved(i, d.si, 1) \in Offsets
      BY <1>1, Places
    <2>2. Moved(i, d.di, 1) \in Offsets
      BY <1>1, Places
    <2>3. QED
      BY <1>1, <2>1, <2>2
  <1>6. a \in Int /\ in \in Nat /\ out \in Seq(Int)
    <2>1. Append(d.out, d.mem[d.si]) \in Seq(Int)
      BY <1>1, AppendProperties
    <2>2. QED
      BY <1>1, <2>1
  <1>7. zf \in BOOLEAN
    BY <1>1
  <1> HIDE DEF si, di, a, zf, in, out
  <1>8. e \in Work
    BY <1>2, <1>4, <1>5, <1>6, <1>7 DEF Work
  <1>9. QED
    BY <1>2, <1>3, <1>8 DEF si, di, a, zf, in, out

LEMMA OneIs ==
  ASSUME NEW i \in StringCode, NEW d \in Work, d.cx > 0
  PROVE  /\ One(i, d) \in Work /\ One(i, d).cx = d.cx - 1
         /\ One(i, d).si = IF UsesSI(i) THEN Moved(i, d.si, 1) ELSE d.si
         /\ One(i, d).di = IF UsesDI(i) THEN Moved(i, d.di, 1) ELSE d.di
         /\ One(i, d).zf = IF Compares(i)
              THEN (IF i.op = "cmps" THEN d.mem[d.si] ELSE d.a) = d.mem[d.di] ELSE d.zf
         /\ One(i, d).mem = IF Writes(i) THEN [d.mem EXCEPT ![d.di] = Put(i, d)] ELSE d.mem
         /\ One(i, d).a = IF i.op = "lods" THEN d.mem[d.si] ELSE d.a
         /\ One(i, d).in = IF i.op = "ins" THEN d.in + 1 ELSE d.in
         /\ One(i, d).out = IF i.op = "outs" THEN Append(d.out, d.mem[d.si]) ELSE d.out
  <1> DEFINE e == Stepped(i, d)
  <1>1. e \in Work /\ e.cx = d.cx
    BY SteppedIs
  <1>0. d.cx - 1 \in Nat
    BY DEF Work
  <1>2. One(i, d) = [e EXCEPT !.cx = e.cx - 1]
    BY DEF One
  <1> HIDE DEF e
  <1>3. /\ One(i, d) \in Work /\ One(i, d).cx = d.cx - 1
        /\ One(i, d).si = e.si /\ One(i, d).di = e.di /\ One(i, d).zf = e.zf
        /\ One(i, d).mem = e.mem /\ One(i, d).a = e.a /\ One(i, d).in = e.in
        /\ One(i, d).out = e.out
    BY <1>0, <1>1, <1>2 DEF Work
  <1>4. QED
    BY <1>3, SteppedIs DEF e

\* The registers after n elements, where memory is not what matters.
RegistersAt(i, d, n, e) ==
  /\ e \in Work /\ e.cx = d.cx - n
  /\ e.si = IF UsesSI(i) THEN Moved(i, d.si, n) ELSE d.si
  /\ e.di = IF UsesDI(i) THEN Moved(i, d.di, n) ELSE d.di
  /\ e.in = IF i.op = "ins" THEN d.in + n ELSE d.in
  /\ i.op # "lods" => e.a = d.a
  /\ ~Writes(i) => e.mem = d.mem
  /\ ~Compares(i) => e.zf = d.zf

LEMMA RegistersAfter ==
  ASSUME NEW i \in StringCode, NEW d \in Work
  PROVE  \A n \in 0..d.cx : RegistersAt(i, d, n, Rounds(i, d)[n])
  <1> DEFINE r == Rounds(i, d)
             T == {n \in Nat : RegistersAt(i, d, n, r[n])}
  <1>1. d.cx \in Nat /\ d.si \in Offsets /\ d.di \in Offsets /\ d.in \in Nat /\ i.down \in BOOLEAN
    BY DEF Work, StringCode
  <1>2. r[0] = d /\ \A n \in Nat : n < d.cx => r[n + 1] = One(i, r[n])
    BY <1>1, RoundsAre
  <1> HIDE DEF r
  <1>3. 0 \in T
    <2>1. Moved(i, d.si, 0) = d.si /\ Moved(i, d.di, 0) = d.di /\ d.in + 0 = d.in /\ d.cx - 0 = d.cx
      <3>1. Moved(i, d.si, 0) = d.si
        BY <1>1, Places
      <3>2. Moved(i, d.di, 0) = d.di
        BY <1>1, Places
      <3>3. QED
        BY <1>1, <3>1, <3>2
    <2>2. QED
      BY <1>2, <2>1 DEF RegistersAt
  <1>4. ASSUME NEW n \in Nat, n < d.cx, n \in T PROVE n + 1 \in T
    <2> DEFINE e == r[n]
               f == r[n + 1]
    <2>1. f = One(i, e) /\ RegistersAt(i, d, n, e)
      BY <1>2, <1>4
    <2> HIDE DEF e, f
    <2>2. e \in Work /\ e.cx = d.cx - n
      BY <2>1 DEF RegistersAt
    <2>3. e.cx > 0 /\ e.cx - 1 = d.cx - (n + 1)
      BY <1>1, <1>4, <2>2
    <2>4. /\ f \in Work /\ f.cx = e.cx - 1
          /\ f.si = IF UsesSI(i) THEN Moved(i, e.si, 1) ELSE e.si
          /\ f.di = IF UsesDI(i) THEN Moved(i, e.di, 1) ELSE e.di
          /\ ~Compares(i) => f.zf = e.zf
          /\ ~Writes(i) => f.mem = e.mem
          /\ i.op # "lods" => f.a = e.a
          /\ f.in = IF i.op = "ins" THEN e.in + 1 ELSE e.in
      BY <2>1, <2>2, <2>3, OneIs
    <2>5. /\ Moved(i, Moved(i, d.si, n), 1) = Moved(i, d.si, n + 1)
          /\ Moved(i, Moved(i, d.di, n), 1) = Moved(i, d.di, n + 1)
      <3>1. Moved(i, Moved(i, d.si, n), 1) = Moved(i, d.si, n + 1)
        BY <1>1, Places
      <3>2. Moved(i, Moved(i, d.di, n), 1) = Moved(i, d.di, n + 1)
        BY <1>1, Places
      <3>3. QED
        BY <3>1, <3>2
    <2>6. (d.in + n) + 1 = d.in + (n + 1)
      BY <1>1
    <2>7. RegistersAt(i, d, n + 1, f)
      BY <2>1, <2>3, <2>4, <2>5, <2>6 DEF RegistersAt
    <2>8. QED
      BY <2>7 DEF f
  <1> HIDE DEF T
  <1>5. \A n \in 0..d.cx : n \in T
    BY <1>1, <1>3, <1>4, UpTo
  <1>6. QED
    BY <1>5 DEF T, r

\* What a repeated instruction does after k elements is what the first
\* execution would have done from there.
LEMMA RoundsGoOn ==
  ASSUME NEW i \in StringCode, NEW d \in Work, NEW k \in 0..d.cx, NEW e, e = Rounds(i, d)[k]
  PROVE  /\ e \in Work /\ e.cx = d.cx - k
         /\ \A n \in 0..e.cx : k + n \in 0..d.cx /\ Rounds(i, e)[n] = Rounds(i, d)[k + n]
  <1> DEFINE T == {n \in Nat : Rounds(i, e)[n] = Rounds(i, d)[k + n]}
  <1>1. d.cx \in Nat /\ k \in Nat /\ k <= d.cx
    BY DEF Work
  <1>2. e \in Work /\ e.cx = d.cx - k
    BY RegistersAfter DEF RegistersAt
  <1>3. e.cx \in Nat
    BY <1>1, <1>2
  <1>4. 0 \in T
    <2>1. k + 0 = k /\ Rounds(i, e)[0] = e
      BY <1>1, <1>3, RoundsAre
    <2>2. QED
      BY <2>1
  <1>5. ASSUME NEW n \in Nat, n < e.cx, n \in T PROVE n + 1 \in T
    <2>1. k + n \in Nat /\ k + n < d.cx /\ (k + n) + 1 = k + (n + 1)
      BY <1>1, <1>2, <1>5
    <2>2. Rounds(i, e)[n + 1] = One(i, Rounds(i, e)[n])
      BY <1>3, <1>5, RoundsAre
    <2>3. Rounds(i, d)[(k + n) + 1] = One(i, Rounds(i, d)[k + n])
      BY <1>1, <2>1, RoundsAre
    <2>4. Rounds(i, e)[n] = Rounds(i, d)[k + n]
      BY <1>5
    <2>5. Rounds(i, e)[n + 1] = Rounds(i, d)[k + (n + 1)]
      BY <2>1, <2>2, <2>3, <2>4
    <2>6. QED
      BY <2>5
  <1>6. \A n \in 0..e.cx : k + n \in 0..d.cx
    BY <1>1, <1>2
  <1> HIDE DEF T
  <1>7. \A n \in 0..e.cx : n \in T
    BY <1>3, <1>4, <1>5, UpTo
  <1>8. QED
    BY <1>2, <1>6, <1>7 DEF T

-----------------------------------------------------------------------------
(* Where a repetition ends.                                                *)

\* The comparison after the k-th element.
LEMMA Compared ==
  ASSUME NEW i \in StringCode, NEW d \in Work, Compares(i), NEW k \in 1..d.cx
  PROVE  /\ Rounds(i, d)[k].zf = Equal(i, d, k) /\ Equal(i, d, k) \in BOOLEAN
         /\ GoesOn(i, Rounds(i, d)[k].zf) <=> k \notin Stoppers(i, d)
  <1> DEFINE e == Rounds(i, d)[k - 1]
  <1>1. d.cx \in Nat /\ k - 1 \in Nat /\ k - 1 < d.cx /\ (k - 1) + 1 = k /\ k - 1 \in 0..d.cx
    BY DEF Work
  <1>2. RegistersAt(i, d, k - 1, e) /\ Rounds(i, d)[k] = One(i, e)
    <2>1. Rounds(i, d)[(k - 1) + 1] = One(i, e)
      BY <1>1, RoundsAre
    <2>2. QED
      BY <1>1, <2>1, RegistersAfter
  <1> HIDE DEF e
  <1>3. e \in Work /\ e.cx > 0
    BY <1>1, <1>2 DEF RegistersAt
  <1>4. One(i, e).zf = ((IF i.op = "cmps" THEN e.mem[e.si] ELSE e.a) = e.mem[e.di])
    BY <1>3, OneIs
  <1>5. /\ e.mem = d.mem /\ e.a = d.a /\ e.di = Moved(i, d.di, k - 1)
        /\ i.op = "cmps" => e.si = Moved(i, d.si, k - 1)
    BY <1>2 DEF RegistersAt, Compares, Writes, UsesSI, UsesDI
  <1>6. Rounds(i, d)[k].zf = Equal(i, d, k)
    BY <1>2, <1>4, <1>5 DEF Equal
  <1>7. Equal(i, d, k) \in BOOLEAN
    BY DEF Equal
  <1>8. i.prefix = "repe" \/ i.prefix = "repne"
    BY DEF StringCode
  <1>9. GoesOn(i, Equal(i, d, k)) <=> k \notin Stoppers(i, d)
    <2>1. GoesOn(i, Equal(i, d, k)) <=> (Equal(i, d, k) <=> i.prefix = "repe")
      BY <1>7 DEF GoesOn
    <2>2. k \in Stoppers(i, d) <=> (Equal(i, d, k) <=> i.prefix = "repne")
      BY <1>7 DEF Stoppers
    <2>3. i.prefix = "repe" <=> ~(i.prefix = "repne")
      BY <1>8
    <2>4. QED
      BY <2>1, <2>2, <2>3
  <1>10. QED
    BY <1>6, <1>7, <1>9

\* A repetition that goes on up to h and not further has handled h elements.
LEMMA EndsAt ==
  ASSUME NEW i \in StringCode, NEW d \in Work, NEW h \in 0..d.cx,
         \A m \in 1..h - 1 : GoesOn(i, Rounds(i, d)[m].zf),
         h = d.cx \/ (h > 0 /\ ~GoesOn(i, Rounds(i, d)[h].zf))
  PROVE  h = Handled(i, d)
  <1>1. d.cx \in Nat /\ h \in Nat
    BY DEF Work
  <1>2. CASE ~Compares(i)
    <2>1. GoesOn(i, Rounds(i, d)[h].zf) /\ Stoppers(i, d) = {}
      <3>1. GoesOn(i, Rounds(i, d)[h].zf)
        BY <1>2 DEF GoesOn
      <3>2. Stoppers(i, d) = {}
        BY <1>2, Zenon DEF Stoppers
      <3>3. QED
        BY <3>1, <3>2
    <2>2. QED
      BY <2>1 DEF Handled
  <1>3. CASE Compares(i)
    <2>1. \A m \in 1..h - 1 : m \notin Stoppers(i, d)
      <3>1. \A m \in 1..h - 1 : m \in 1..d.cx
        BY <1>1
      <3>2. QED
        BY <1>3, <3>1, Compared
    <2>2. h = d.cx \/ h \in Stoppers(i, d)
      <3>1. h > 0 => h \in 1..d.cx
        BY <1>1
      <3>2. QED
        BY <1>3, <3>1, Compared
    <2>3. Stoppers(i, d) \subseteq 1..d.cx
      BY DEF Stoppers
    <2>4. \A j \in Stoppers(i, d) : h <= j /\ j <= d.cx
      BY <1>1, <2>1, <2>3
    <2>5. CASE Stoppers(i, d) = {}
      BY <2>2, <2>5 DEF Handled
    <2>6. CASE Stoppers(i, d) # {}
      <3> DEFINE S == Stoppers(i, d)
      <3>1. h \in S
        <4>1. PICK j : j \in S
          BY <2>6
        <4>2. j \in 1..d.cx /\ h <= j /\ j <= d.cx
          BY <2>3, <2>4, <4>1
        <4>3. QED
          BY <1>1, <2>2, <4>1, <4>2
      <3>2. \A k \in S : (\A j \in S : k <= j) => k = h
        BY <1>1, <2>3, <2>4, <3>1
      <3>3. Handled(i, d) = CHOOSE k \in S : \A j \in S : k <= j
        BY <2>6 DEF Handled
      <3> HIDE DEF S
      <3>4. \A j \in S : h <= j
        BY <2>4 DEF S
      <3>5. QED
        BY <3>1, <3>2, <3>3, <3>4
    <2>7. QED
      BY <2>5, <2>6
  <1>4. QED
    BY <1>2, <1>3

LEMMA SearchEnds ==
  ASSUME NEW i \in StringCode, NEW d \in Work, NEW h \in 0..d.cx, h = Handled(i, d)
  PROVE  Searched(i, d, Rounds(i, d)[h])
  <1> DEFINE e == Rounds(i, d)[h]
  <1>1. RegistersAt(i, d, h, e)
    BY RegistersAfter
  <1>2. h > 0 => h \in 1..d.cx
    BY DEF Work
  <1>3. e.zf = IF Compares(i) /\ h > 0 THEN Equal(i, d, h) ELSE d.zf
    <2>1. CASE Compares(i) /\ h > 0
      BY <1>2, <2>1, Compared
    <2>2. CASE ~Compares(i)
      BY <1>1, <2>2 DEF RegistersAt
    <2>3. CASE h = 0
      <3>1. e = d
        BY <2>3, RoundsAre DEF Work
      <3>2. QED
        BY <2>3, <3>1
    <2>4. QED
      BY <1>2, <2>1, <2>2, <2>3
  <1> HIDE DEF e
  <1>4. QED
    BY <1>1, <1>3 DEF Searched, RegistersAt, e

Latest(S) == CHOOSE k \in S : \A j \in S : j <= k

LEMMA LatestIs ==
  ASSUME NEW n \in Nat, NEW S \in SUBSET (1..n), S # {}
  PROVE  /\ Latest(S) \in S /\ \A j \in S : j <= Latest(S)
         /\ \A k \in S : (\A j \in S : j <= k) => k = Latest(S)
  <1> DEFINE T == {n - y : y \in S}
  <1>1. T \in SUBSET Nat /\ T # {}
    <2>1. ASSUME NEW y \in S PROVE n - y \in Nat
      OBVIOUS
    <2>2. QED
      BY <2>1
  <1> HIDE DEF T
  <1>2. PICK m \in T : \A k \in T : m <= k
    BY <1>1, LeastOf
  <1>3. PICK x \in S : m = n - x
    BY <1>2 DEF T
  <1>4. \A j \in S : j <= x
    <2>1. ASSUME NEW j \in S PROVE j <= x
      <3>1. n - j \in T
        BY DEF T
      <3>2. n - x <= n - j
        BY <1>2, <1>3, <3>1
      <3>3. j \in Nat /\ x \in Nat
        OBVIOUS
      <3>4. QED
        BY <3>2, <3>3
    <2>2. QED
      BY <2>1
  <1>5. Latest(S) \in S /\ \A j \in S : j <= Latest(S)
    BY <1>4 DEF Latest
  <1> DEFINE l == Latest(S)
  <1>6. l \in S /\ \A j \in S : j <= l
    BY <1>5
  <1> HIDE DEF l
  <1>7. ASSUME NEW k \in S, \A j \in S : j <= k PROVE k = l
    <2>1. k <= l /\ l <= k /\ k \in Nat /\ l \in Nat
      BY <1>6, <1>7
    <2>2. QED
      BY <2>1
  <1>8. QED
    BY <1>5, <1>7 DEF l

-----------------------------------------------------------------------------
(* What a copy puts where.                                                 *)

\* The elements among the first n that are written at o.
PutAt(i, d, n, o) == {k \in 1..n : Moved(i, d.di, k - 1) = o}

\* The k-th element written, where f has those before it.
Value(i, d, k, f) ==
  LET hits == PutAt(i, d, k - 1, Moved(i, d.si, k - 1))
  IN  IF i.op = "stos" THEN d.a
      ELSE IF i.op = "ins" THEN FromPort(d.in + (k - 1))
      ELSE IF hits = {} THEN d.mem[Moved(i, d.si, k - 1)]
      ELSE f[Latest(hits)]

LEMMA ValueFromBefore ==
  ASSUME NEW i, NEW d, NEW k \in Nat \ {0}, NEW f, NEW g, \A j \in 1..k - 1 : f[j] = g[j]
  PROVE  Value(i, d, k, f) = Value(i, d, k, g)
  <1> DEFINE hits == PutAt(i, d, k - 1, Moved(i, d.si, k - 1))
  <1>1. hits \in SUBSET (1..k - 1) /\ k - 1 \in Nat
    BY DEF PutAt
  <1> HIDE DEF hits
  <1>2. hits # {} => f[Latest(hits)] = g[Latest(hits)]
    BY <1>1, LatestIs
  <1>3. QED
    BY <1>2 DEF Value, hits

LEMMA SourceIs ==
  ASSUME NEW i, NEW d, NEW k \in Nat \ {0}
  PROVE  LET hits == PutAt(i, d, k - 1, Moved(i, d.si, k - 1))
         IN  Source(i, d, k) =
               IF i.op = "stos" THEN d.a
               ELSE IF i.op = "ins" THEN FromPort(d.in + (k - 1))
               ELSE IF hits = {} THEN d.mem[Moved(i, d.si, k - 1)]
               ELSE Source(i, d, Latest(hits))
  <1> DEFINE Fill(f, m) == [n \in 1..m |-> Value(i, d, n, f)]
             Built(m) == CHOOSE f : f = Fill(f, m)
             T == {m \in Nat : \E f : f = Fill(f, m)}
  <1>1. 0 \in T
    <2> DEFINE f == [n \in 1..0 |-> 0]
    <2>1. f = Fill(f, 0)
      <3>1. \A n \in 1..0 : FALSE
        OBVIOUS
      <3>2. QED
        BY <3>1
    <2>2. QED
      BY <2>1
  <1>2. ASSUME NEW m \in Nat, m \in T PROVE m + 1 \in T
    <2>1. PICK f : f = Fill(f, m)
      BY <1>2
    <2> DEFINE g == [n \in 1..m + 1 |-> IF n <= m THEN f[n] ELSE Value(i, d, m + 1, f)]
    <2>2. \A n \in 1..m : f[n] = Value(i, d, n, f)
      BY <2>1
    <2>3. \A n \in 1..m : g[n] = f[n]
      OBVIOUS
    <2>4. g[m + 1] = Value(i, d, m + 1, f)
      OBVIOUS
    <2>5. g = [n \in 1..m + 1 |-> g[n]]
      OBVIOUS
    <2> HIDE DEF g
    <2>6. ASSUME NEW n \in 1..m + 1 PROVE g[n] = Value(i, d, n, g)
      <3>1. n \in Nat \ {0} /\ \A j \in 1..n - 1 : j \in 1..m
        OBVIOUS
      <3>2. Value(i, d, n, f) = Value(i, d, n, g)
        BY <2>3, <3>1, ValueFromBefore
      <3>3. n \in 1..m \/ n = m + 1
        OBVIOUS
      <3>4. QED
        BY <2>2, <2>3, <2>4, <3>2, <3>3
    <2>7. g = Fill(g, m + 1)
      BY <2>5, <2>6
    <2>8. QED
      BY <2>7
  <1>3. ASSUME NEW m \in Nat PROVE Built(m) = Fill(Built(m), m)
    <2> HIDE DEF T
    <2>1. \A n \in 0..m : n \in T
      BY <1>1, <1>2, UpTo
    <2>2. \E f : f = Fill(f, m)
      BY <2>1 DEF T
    <2> HIDE DEF Fill
    <2>3. QED
      BY <2>2
  <1>4. ASSUME NEW m \in Nat, NEW n \in 1..m
        PROVE  Built(m)[n] = Value(i, d, n, Built(m))
    <2> DEFINE f == Built(m)
    <2>1. f = Fill(f, m)
      BY <1>3
    <2> HIDE DEF f
    <2>2. f[n] = Value(i, d, n, f)
      BY <2>1
    <2>3. QED
      BY <2>2 DEF f
  <1> HIDE DEF Built
  <1>5. ASSUME NEW m \in Nat, NEW l \in Nat, m <= l
        PROVE  \A n \in 1..m : Built(m)[n] = Built(l)[n]
    <2> DEFINE S == {n \in 1..m : Built(m)[n] # Built(l)[n]}
    <2>1. CASE S = {}
      BY <2>1
    <2>2. CASE S # {}
      <3>1. S \in SUBSET Nat
        OBVIOUS
      <3> HIDE DEF S
      <3>2. PICK n \in S : \A j \in S : n <= j
        BY <2>2, <3>1, LeastOf
      <3>3. n \in 1..m /\ n \in 1..l /\ n \in Nat \ {0} /\ Built(m)[n] # Built(l)[n]
        BY <1>5, <3>2 DEF S
      <3>4. \A j \in 1..n - 1 : j \in 1..m /\ ~(n <= j)
        BY <3>3
      <3>5. \A j \in 1..n - 1 : Built(m)[j] = Built(l)[j]
        BY <3>2, <3>4 DEF S
      <3>6. Value(i, d, n, Built(m)) = Value(i, d, n, Built(l))
        BY <3>3, <3>5, ValueFromBefore
      <3>7. QED
        BY <1>4, <3>3, <3>6
    <2>3. QED
      BY <2>1, <2>2
  <1>6. ASSUME NEW m \in Nat \ {0} PROVE Source(i, d, m) = Built(m)[m]
    <2> DEFINE Put2(f) == [n \in 1..m |->
          LET hits == {j \in 1..(n - 1) : Moved(i, d.di, j - 1) = Moved(i, d.si, n - 1)}
          IN  CASE i.op = "stos" -> d.a
                [] i.op = "ins" -> FromPort(d.in + n - 1)
                [] OTHER -> IF hits = {} THEN d.mem[Moved(i, d.si, n - 1)]
                            ELSE f[CHOOSE j \in hits : \A h \in hits : h <= j]]
    <2>1. Source(i, d, m) = (CHOOSE f : f = Put2(f))[m]
      BY DEF Source
    <2>2. ASSUME NEW f PROVE Put2(f) = Fill(f, m)
      <3>1. ASSUME NEW n \in 1..m
            PROVE  Put2(f)[n] = Value(i, d, n, f)
        <4> DEFINE hits == {j \in 1..(n - 1) : Moved(i, d.di, j - 1) = Moved(i, d.si, n - 1)}
        <4>1. hits = PutAt(i, d, n - 1, Moved(i, d.si, n - 1))
          BY DEF PutAt
        <4>2. Latest(hits) = CHOOSE j \in hits : \A h \in hits : h <= j
          BY DEF Latest
        <4> HIDE DEF hits
        <4>3. CASE i.op = "stos"
          BY <4>3 DEF Value
        <4>4. CASE i.op = "ins"
          BY <4>4 DEF Value
        <4>5. CASE i.op \notin {"stos", "ins"}
          <5>1. Value(i, d, n, f) = IF hits = {} THEN d.mem[Moved(i, d.si, n - 1)]
                                    ELSE f[CHOOSE j \in hits : \A h \in hits : h <= j]
            BY <4>1, <4>2, <4>5, Zenon DEF Value
          <5>2. Put2(f)[n] = IF hits = {} THEN d.mem[Moved(i, d.si, n - 1)]
                             ELSE f[CHOOSE j \in hits : \A h \in hits : h <= j]
            BY <4>5 DEF hits
          <5>3. QED
            BY <5>1, <5>2
        <4>6. QED
          BY <4>3, <4>4, <4>5
      <3> HIDE DEF Put2
      <3>2. Put2(f) = [n \in 1..m |-> Put2(f)[n]]
        BY DEF Put2
      <3>3. QED
        BY <3>1, <3>2
    <2> HIDE DEF Put2, Fill
    <2>3. (CHOOSE f : f = Put2(f)) = CHOOSE f : f = Fill(f, m)
      BY <2>2
    <2>4. QED
      BY <2>1, <2>3 DEF Built
  <1> DEFINE hits == PutAt(i, d, k - 1, Moved(i, d.si, k - 1))
  <1>7. Source(i, d, k) = Value(i, d, k, Built(k))
    <2>1. k \in 1..k
      OBVIOUS
    <2>2. QED
      BY <1>4, <1>6, <2>1
  <1>8. ASSUME hits # {} PROVE Built(k)[Latest(hits)] = Source(i, d, Latest(hits))
    <2>1. hits \in SUBSET (1..k - 1) /\ k - 1 \in Nat
      BY DEF PutAt
    <2> HIDE DEF hits
    <2>2. Latest(hits) \in 1..k - 1
      BY <1>8, <2>1, LatestIs
    <2> DEFINE l == Latest(hits)
    <2>3. l \in Nat \ {0} /\ l <= k /\ l \in 1..l
      BY <2>2
    <2> HIDE DEF l
    <2>4. Built(l)[l] = Built(k)[l]
      BY <1>5, <2>3
    <2>5. QED
      BY <1>6, <2>3, <2>4 DEF l
  <1>9. QED
    BY <1>7, <1>8 DEF Value

\* What is at o when n elements have been written.
Held(i, d, n, o) ==
  IF PutAt(i, d, n, o) = {} THEN d.mem[o] ELSE Source(i, d, Latest(PutAt(i, d, n, o)))

LEMMA HeldNext ==
  ASSUME NEW i, NEW d, NEW n \in Nat, NEW o
  PROVE  Held(i, d, n + 1, o) = IF o = Moved(i, d.di, n) THEN Source(i, d, n + 1)
                                ELSE Held(i, d, n, o)
  <1> DEFINE S == PutAt(i, d, n, o)
             U == PutAt(i, d, n + 1, o)
  <1>1. (n + 1) - 1 = n /\ \A k \in 1..n + 1 : k \in 1..n \/ k = n + 1
    OBVIOUS
  <1>2. CASE o = Moved(i, d.di, n)
    <2>1. U \in SUBSET (1..n + 1) /\ n + 1 \in U /\ n + 1 \in Nat
      BY <1>1, <1>2 DEF PutAt
    <2>2. \A j \in U : j <= n + 1
      BY <2>1
    <2> HIDE DEF U
    <2>3. Latest(U) = n + 1
      BY <2>1, <2>2, LatestIs
    <2>4. QED
      BY <1>2, <2>1, <2>3 DEF Held, U
  <1>3. CASE o # Moved(i, d.di, n)
    <2>1. U = S
      BY <1>1, <1>3 DEF PutAt
    <2>2. QED
      BY <1>3, <2>1 DEF Held
  <1>4. QED
    BY <1>2, <1>3

\* Memory after n elements.
LEMMA MemoryAfter ==
  ASSUME NEW i \in StringCode, NEW d \in Work, Writes(i)
  PROVE  \A n \in 0..d.cx : \A o \in Offsets : Rounds(i, d)[n].mem[o] = Held(i, d, n, o)
  <1> DEFINE r == Rounds(i, d)
             T == {n \in 0..d.cx : \A o \in Offsets : r[n].mem[o] = Held(i, d, n, o)}
  <1>1. d.cx \in Nat /\ i.op \in {"movs", "stos", "ins"} /\ d.si \in Offsets /\ d.di \in Offsets
    BY DEF Work, Writes
  <1>2. r[0] = d /\ \A n \in Nat : n < d.cx => r[n + 1] = One(i, r[n])
    BY <1>1, RoundsAre
  <1>3. \A n \in 0..d.cx : RegistersAt(i, d, n, r[n])
    BY RegistersAfter
  <1> HIDE DEF r
  <1>4. 0 \in T
    <2>1. \A o : PutAt(i, d, 0, o) = {}
      BY DEF PutAt
    <2>2. \A o : Held(i, d, 0, o) = d.mem[o]
      BY <2>1 DEF Held
    <2>3. QED
      BY <1>1, <1>2, <2>2
  <1>5. ASSUME NEW n \in Nat, n < d.cx, n \in T PROVE n + 1 \in T
    <2> DEFINE e == r[n]
               f == r[n + 1]
               here == Moved(i, d.di, n)
    <2>1. n \in 0..d.cx /\ n + 1 \in 0..d.cx /\ n + 1 \in Nat \ {0} /\ (n + 1) - 1 = n
      BY <1>1, <1>5
    <2>2. f = One(i, e) /\ RegistersAt(i, d, n, e) /\ \A o \in Offsets : e.mem[o] = Held(i, d, n, o)
      BY <1>2, <1>3, <1>5, <2>1
    <2> HIDE DEF e, f
    <2>3. e \in Work /\ e.cx > 0
      BY <1>1, <1>5, <2>2 DEF RegistersAt
    <2>4. f.mem = [e.mem EXCEPT ![e.di] = Put(i, e)]
      BY <2>2, <2>3, OneIs
    <2>5. /\ e.di = here
          /\ i.op # "lods" => e.a = d.a
          /\ i.op = "ins" => e.in = d.in + n
          /\ i.op = "movs" => e.si = Moved(i, d.si, n)
      BY <1>1, <2>2 DEF RegistersAt, UsesSI, UsesDI
    <2>6. here \in Offsets /\ Moved(i, d.si, n) \in Offsets
      BY <1>1, Places
    <2> HIDE DEF here
    <2>7. Put(i, e) = Source(i, d, n + 1)
      <3> DEFINE hits == PutAt(i, d, n, Moved(i, d.si, n))
      <3>1. Source(i, d, n + 1) =
               IF i.op = "stos" THEN d.a
               ELSE IF i.op = "ins" THEN FromPort(d.in + n)
               ELSE IF hits = {} THEN d.mem[Moved(i, d.si, n)]
               ELSE Source(i, d, Latest(hits))
        <4>1. LET h == PutAt(i, d, (n + 1) - 1, Moved(i, d.si, (n + 1) - 1))
              IN  Source(i, d, n + 1) =
                    IF i.op = "stos" THEN d.a
                    ELSE IF i.op = "ins" THEN FromPort(d.in + ((n + 1) - 1))
                    ELSE IF h = {} THEN d.mem[Moved(i, d.si, (n + 1) - 1)]
                    ELSE Source(i, d, Latest(h))
          BY <2>1, SourceIs
        <4>2. QED
          BY <2>1, <4>1
      <3>2. CASE i.op = "stos"
        BY <2>5, <3>1, <3>2 DEF Put
      <3>3. CASE i.op = "ins"
        BY <2>5, <3>1, <3>3 DEF Put
      <3>4. CASE i.op = "movs"
        <4>1. Put(i, e) = Held(i, d, n, Moved(i, d.si, n))
          BY <2>2, <2>5, <2>6, <3>4 DEF Put
        <4>2. QED
          BY <3>1, <3>4, <4>1 DEF Held
      <3>5. QED
        BY <1>1, <3>2, <3>3, <3>4
    <2>8. ASSUME NEW o \in Offsets PROVE f.mem[o] = Held(i, d, n + 1, o)
      <3>1. e.mem \in [Offsets -> Int]
        BY <2>3 DEF Work
      <3>2. f.mem[o] = IF o = here THEN Put(i, e) ELSE e.mem[o]
        BY <2>4, <2>5, <2>6, <3>1
      <3>3. Held(i, d, n + 1, o) = IF o = here THEN Source(i, d, n + 1) ELSE Held(i, d, n, o)
        BY HeldNext DEF here
      <3>4. QED
        BY <2>2, <2>7, <3>2, <3>3
    <2>9. QED
      BY <2>1, <2>8 DEF f
  <1> HIDE DEF T
  <1>6. \A n \in 0..d.cx : n \in T
    BY <1>1, <1>4, <1>5, UpTo
  <1>7. QED
    BY <1>6 DEF T, r

\* What has been put out.
Sent(i, d, n) == [k \in 1..n |-> d.mem[Moved(i, d.si, k - 1)]]

LEMMA SentIs ==
  ASSUME NEW i, NEW d \in Work, NEW n \in Nat
  PROVE  /\ Sent(i, d, n) \in Seq(Int) /\ Len(Sent(i, d, n)) = n
         /\ Append(Sent(i, d, n), d.mem[Moved(i, d.si, n)]) = Sent(i, d, n + 1)
         /\ n = 0 => Sent(i, d, n) = <<>>
  <1> DEFINE v(k) == d.mem[Moved(i, d.si, k)]
             s == Sent(i, d, n)
             t == Sent(i, d, n + 1)
  <1>1. d.mem \in [Offsets -> Int] /\ d.si \in Offsets
    BY DEF Work
  <1>2. \A k \in Nat : v(k) \in Int
    <2>1. \A k \in Nat : Moved(i, d.si, k) \in Offsets
      BY <1>1, Places
    <2>2. QED
      BY <1>1, <2>1
  <1>3. \A m \in Nat : Sent(i, d, m) \in Seq(Int) /\ Len(Sent(i, d, m)) = m
                       /\ \A k \in 1..m : Sent(i, d, m)[k] = v(k - 1)
    <2>1. ASSUME NEW m \in Nat
          PROVE  Sent(i, d, m) \in Seq(Int) /\ Len(Sent(i, d, m)) = m
                 /\ \A k \in 1..m : Sent(i, d, m)[k] = v(k - 1)
      <3>1. \A k \in 1..m : v(k - 1) \in Int
        <4>1. \A k \in 1..m : k - 1 \in Nat
          OBVIOUS
        <4>2. QED
          BY <1>2, <4>1
      <3>2. Sent(i, d, m) = [k \in 1..m |-> v(k - 1)]
        BY DEF Sent
      <3> HIDE DEF v
      <3>3. Sent(i, d, m) \in [1..m -> Int]
        BY <3>1, <3>2
      <3>4. QED
        BY <3>2, <3>3
    <2>2. QED
      BY <2>1
  <1> HIDE DEF v
  <1>4. v(n) \in Int /\ s \in Seq(Int) /\ Len(s) = n /\ t \in Seq(Int) /\ Len(t) = n + 1
        /\ (\A k \in 1..n : s[k] = v(k - 1)) /\ \A k \in 1..n + 1 : t[k] = v(k - 1)
    BY <1>2, <1>3
  <1> HIDE DEF s, t
  <1>5. Append(s, v(n)) = t
    <2> DEFINE u == Append(s, v(n))
    <2>1. u \in Seq(Int) /\ Len(u) = n + 1 /\ (\A k \in 1..n : u[k] = s[k]) /\ u[n + 1] = v(n)
      BY <1>4, AppendProperties
    <2> HIDE DEF u
    <2>2. ASSUME NEW k \in 1..n + 1 PROVE u[k] = t[k]
      <3>1. k \in 1..n \/ (k = n + 1 /\ k - 1 = n)
        OBVIOUS
      <3>2. QED
        BY <1>4, <2>1, <3>1
    <2>3. u = t
      BY <1>4, <2>1, <2>2, SeqEqual
    <2>4. QED
      BY <2>3 DEF u
  <1>6. n = 0 => s = <<>>
    BY <1>4, EmptySeq
  <1>7. QED
    BY <1>4, <1>5, <1>6 DEF s, t, v

LEMMA OutAfter ==
  ASSUME NEW i \in StringCode, NEW d \in Work
  PROVE  \A n \in 0..d.cx :
           Rounds(i, d)[n].out = d.out \o (IF i.op = "outs" THEN Sent(i, d, n) ELSE <<>>)
  <1> DEFINE r == Rounds(i, d)
             all(n) == d.out \o (IF i.op = "outs" THEN Sent(i, d, n) ELSE <<>>)
             T == {n \in 0..d.cx : r[n].out = all(n)}
  <1>1. d.cx \in Nat /\ d.out \in Seq(Int) /\ d.si \in Offsets /\ d.mem \in [Offsets -> Int]
    BY DEF Work
  <1>2. r[0] = d /\ \A n \in Nat : n < d.cx => r[n + 1] = One(i, r[n])
    BY <1>1, RoundsAre
  <1>3. \A n \in 0..d.cx : RegistersAt(i, d, n, r[n])
    BY RegistersAfter
  <1> HIDE DEF r
  <1>4. 0 \in T
    <2>1. Sent(i, d, 0) = <<>> /\ d.out \o <<>> = d.out
      BY <1>1, SentIs, ConcatEmptySeq
    <2>2. all(0) = d.out
      BY <2>1
    <2>3. 0 \in 0..d.cx
      BY <1>1
    <2>4. QED
      BY <1>2, <2>2, <2>3
  <1>5. ASSUME NEW n \in Nat, n < d.cx, n \in T PROVE n + 1 \in T
    <2> DEFINE e == r[n]
               f == r[n + 1]
    <2>1. n \in 0..d.cx /\ n + 1 \in 0..d.cx
      BY <1>1, <1>5
    <2>2. f = One(i, e) /\ RegistersAt(i, d, n, e) /\ e.out = all(n)
      BY <1>2, <1>3, <1>5, <2>1
    <2> HIDE DEF e, f
    <2>3. e \in Work /\ e.cx > 0
      BY <1>1, <1>5, <2>2 DEF RegistersAt
    <2>4. f.out = IF i.op = "outs" THEN Append(e.out, e.mem[e.si]) ELSE e.out
      BY <2>2, <2>3, OneIs
    <2>5. CASE i.op # "outs"
      BY <2>1, <2>2, <2>4, <2>5 DEF f
    <2>6. CASE i.op = "outs"
      <3> DEFINE s == Sent(i, d, n)
                 x == d.mem[Moved(i, d.si, n)]
      <3>1. e.mem[e.si] = x
        BY <2>2, <2>6 DEF RegistersAt, Writes, UsesSI
      <3>2. x \in Int
        <4>1. Moved(i, d.si, n) \in Offsets
          BY <1>1, Places
        <4>2. QED
          BY <1>1, <4>1
      <3>3. s \in Seq(Int) /\ Append(s, x) = Sent(i, d, n + 1)
        BY SentIs
      <3> HIDE DEF s, x
      <3>4. d.out \o s \in Seq(Int) /\ <<x>> \in Seq(Int)
        BY <1>1, <3>2, <3>3, ConcatProperties
      <3>5. Append(d.out \o s, x) = (d.out \o s) \o <<x>>
        BY <3>2, <3>4, AppendIsConcat
      <3>6. Append(s, x) = s \o <<x>>
        BY <3>2, <3>3, AppendIsConcat
      <3>7. (d.out \o s) \o <<x>> = d.out \o (s \o <<x>>)
        <4> DEFINE one == <<x>>
               before == d.out
        <4>1. before \in Seq(Int) /\ s \in Seq(Int) /\ one \in Seq(Int)
          BY <1>1, <3>3, <3>4
        <4> HIDE DEF one, before
        <4>2. (before \o s) \o one = before \o (s \o one)
          BY <4>1, ConcatAssociative
        <4>3. QED
          BY <4>2 DEF one, before
      <3>8. e.out = d.out \o s
        BY <2>2, <2>6 DEF s
      <3>9. f.out = d.out \o Sent(i, d, n + 1)
        BY <2>4, <2>6, <3>1, <3>3, <3>5, <3>6, <3>7, <3>8
      <3>10. QED
        BY <2>1, <2>6, <3>9 DEF f
    <2>7. QED
      BY <2>5, <2>6
  <1> HIDE DEF T
  <1>6. \A n \in 0..d.cx : n \in T
    BY <1>1, <1>4, <1>5, UpTo
  <1>7. QED
    BY <1>6 DEF T, r

LEMMA CopyEnds ==
  ASSUME NEW i \in StringCode, NEW d \in Work, Handled(i, d) \in 0..d.cx
  PROVE  Copied(i, d, Rounds(i, d)[Handled(i, d)])
  <1> DEFINE h == Handled(i, d)
  <1>0. h \in 0..d.cx
    OBVIOUS
  <1> HIDE DEF h
  <1> DEFINE e == Rounds(i, d)[h]
             last(o) == {k \in 1..h : /\ Moved(i, d.di, k - 1) = o
                                      /\ \A j \in k + 1..h : Moved(i, d.di, j - 1) # o}
  <1>1. RegistersAt(i, d, h, e) /\ d.cx \in Nat /\ h \in Nat /\ d.mem \in [Offsets -> Int]
    BY <1>0, RegistersAfter DEF Work
  <1>2. e \in Work /\ e.mem \in [Offsets -> Int]
    BY <1>1 DEF RegistersAt, Work
  <1>3. ASSUME NEW o \in Offsets
        PROVE  e.mem[o] = IF i.op \in {"movs", "stos", "ins"} /\ last(o) # {}
                            THEN Source(i, d, CHOOSE k \in last(o) : TRUE) ELSE d.mem[o]
    <2> DEFINE S == PutAt(i, d, h, o)
    <2>1. CASE ~Writes(i)
      BY <1>1, <2>1 DEF RegistersAt, Writes
    <2>2. CASE Writes(i) /\ S = {}
      <3>1. last(o) = {}
        BY <2>2 DEF PutAt
      <3>2. QED
        BY <1>0, <2>2, <3>1, MemoryAfter DEF Held
    <2>3. CASE Writes(i) /\ S # {}
      <3>1. S \in SUBSET (1..h)
        BY DEF PutAt
      <3>2. \A k \in last(o) : k \in S /\ \A j \in S : j <= k
        <4>1. ASSUME NEW k \in last(o), NEW j \in S, ~(j <= k) PROVE FALSE
          <5>1. k \in 1..h /\ j \in 1..h /\ Moved(i, d.di, j - 1) = o
            BY DEF PutAt
          <5>2. j \in k + 1..h
            BY <1>1, <4>1, <5>1
          <5>3. QED
            BY <5>1, <5>2
        <4>2. QED
          BY <4>1 DEF PutAt
      <3>3. \A k \in S : (\A j \in S : j <= k) => k \in last(o)
        <4>1. ASSUME NEW k \in S, \A j \in S : j <= k, NEW j \in k + 1..h,
                     Moved(i, d.di, j - 1) = o
              PROVE  FALSE
          <5>1. k \in Nat /\ j \in 1..h /\ ~(j <= k)
            BY <1>1, <3>1
          <5>2. j \in S
            BY <4>1, <5>1 DEF PutAt
          <5>3. QED
            BY <4>1, <5>1, <5>2
        <4>2. QED
          BY <4>1 DEF PutAt
      <3> HIDE DEF S, last
      <3>4. Latest(S) \in S /\ (\A j \in S : j <= Latest(S))
            /\ \A k \in S : (\A j \in S : j <= k) => k = Latest(S)
        BY <1>1, <2>3, <3>1, LatestIs
      <3>5. last(o) # {} /\ \A k \in last(o) : k = Latest(S)
        BY <3>2, <3>3, <3>4
      <3>6. (CHOOSE k \in last(o) : TRUE) = Latest(S)
        BY <3>5
      <3>7. e.mem[o] = Source(i, d, Latest(S))
        BY <1>0, <2>3, MemoryAfter DEF Held, S
      <3>8. QED
        BY <2>3, <3>5, <3>6, <3>7 DEF Writes
    <2>4. QED
      BY <2>1, <2>2, <2>3
  <1>4. e.a = IF i.op = "lods" /\ h > 0 THEN d.mem[Moved(i, d.si, h - 1)] ELSE d.a
    <2>1. CASE i.op # "lods"
      BY <1>1, <2>1 DEF RegistersAt
    <2>2. CASE h = 0
      BY <1>1, <2>2, RoundsAre
    <2>3. CASE i.op = "lods" /\ h > 0
      <3> DEFINE b == Rounds(i, d)[h - 1]
      <3>1. h - 1 \in Nat /\ h - 1 < d.cx /\ (h - 1) + 1 = h /\ h - 1 \in 0..d.cx
        BY <1>0, <1>1, <2>3
      <3>2. RegistersAt(i, d, h - 1, b)
        BY <3>1, RegistersAfter
      <3>3. Rounds(i, d)[(h - 1) + 1] = One(i, b)
        BY <1>1, <3>1, RoundsAre
      <3>4. e = One(i, b)
        BY <3>1, <3>3
      <3> HIDE DEF b, e
      <3>5. b \in Work /\ b.cx > 0 /\ b.mem = d.mem /\ b.si = Moved(i, d.si, h - 1)
        BY <1>1, <2>3, <3>1, <3>2 DEF RegistersAt, Writes, UsesSI
      <3>6. One(i, b).a = IF i.op = "lods" THEN b.mem[b.si] ELSE b.a
        BY <3>5, OneIs
      <3>7. QED
        BY <2>3, <3>4, <3>5, <3>6
    <2>4. QED
      BY <1>1, <2>1, <2>2, <2>3
  <1>5. e.out = d.out \o (IF i.op = "outs" THEN Sent(i, d, h) ELSE <<>>)
    BY <1>0, OutAfter
  <1>6. e.in = d.in + IF i.op = "ins" THEN h ELSE 0
    <2>1. d.in + 0 = d.in
      BY DEF Work
    <2>2. QED
      BY <1>1, <2>1 DEF RegistersAt
  <1>7. e.mem = [o \in Offsets |-> IF i.op \in {"movs", "stos", "ins"} /\ last(o) # {}
                   THEN Source(i, d, CHOOSE k \in last(o) : TRUE) ELSE d.mem[o]]
    <2> HIDE DEF e, last
    <2>1. QED
      BY <1>2, <1>3
  <1> HIDE DEF e
  <1>8. QED
    <2> HIDE DEF last
    <2>1. Sent(i, d, h) = [k \in 1..h |-> d.mem[Moved(i, d.si, k - 1)]]
      BY DEF Sent
    <2>2. e.out = d.out \o (IF i.op = "outs" THEN [k \in 1..h |-> d.mem[Moved(i, d.si, k - 1)]]
                            ELSE <<>>)
      BY <1>5, <2>1
    <2> HIDE DEF e
    <2>3. Copied(i, d, e)
      BY <1>4, <1>6, <1>7, <2>2, Zenon DEF Copied, h, last
    <2>4. QED
      BY <2>3 DEF e, h

-----------------------------------------------------------------------------
(* A repeated instruction that is cut and started again.                   *)

\* What stands behind a REP, and where a repeated instruction may be started
\* again: prefixes, and a REP of a string instruction at their end.
AfterRep(q) == IF Code[Following(q)] = "seg" THEN Following(Following(q)) ELSE Following(q)

Closed(X) ==
  \A q \in X : \/ Code[q] = "seg" /\ Following(q) \in X
               \/ Code[q] = "rep" /\ (Code[AfterRep(q)] = "string" \/ AfterRep(q) \in X)

Restarts == UNION {X \in SUBSET Positions : Closed(X)}

HandlerPart == Entry..Len(Code)

\* A handler saves the registers it uses; one that loads them, or uses string
\* instructions, would have to put them back.
Saving(p) == \A k \in 1..Len(p.handler) : p.handler[k] \notin {"load", "string"}

\* With handlers on the stack, all but the last return into handlers.
Level(ip, st) == st # <<>> => /\ ip \in HandlerPart
                              /\ \A k \in 1..Len(st) - 1 : st[k].ip \in HandlerPart

\* Where the main program goes on.
Resumes(ip, st) == IF st = <<>> THEN ip ELSE st[Len(st)].ip

\* A chain of prefixes that leads to a repeated instruction does so from its
\* beginning.
Linked == cpu.segNext => (cpu.ip \in Restarts => cpu.prev \in Restarts)

\* An unfinished instruction has handled some of its elements, none of which
\* ended it, and it is what the main program comes back to.
Partway ==
  begun # <<>> =>
    \E d \in Work :
      /\ begun = <<d>> /\ Resumes(cpu.ip, stack) \in Restarts
      /\ \E k \in 0..d.cx : /\ data = Rounds(program.string, d)[k]
                            /\ \A m \in 1..k : GoesOn(program.string, Rounds(program.string, d)[m].zf)

SearchInv == Typed /\ Linked /\ Level(cpu.ip, stack) /\ data \in Work /\ Partway

LEMMA RestartsAre ==
  ASSUME NEW q \in Positions
  PROVE  q \in Restarts <=>
           \/ Code[q] = "seg" /\ Following(q) \in Restarts
           \/ Code[q] = "rep" /\ (Code[AfterRep(q)] = "string" \/ AfterRep(q) \in Restarts)
  <1>1. Closed(Restarts) /\ Restarts \subseteq Positions
    <2>1. \A X \in SUBSET Positions : Closed(X) => X \subseteq Restarts
      BY DEF Restarts
    <2>2. ASSUME NEW x \in Restarts
          PROVE  \/ Code[x] = "seg" /\ Following(x) \in Restarts
                 \/ Code[x] = "rep" /\ (Code[AfterRep(x)] = "string" \/ AfterRep(x) \in Restarts)
      <3>1. PICK X \in SUBSET Positions : Closed(X) /\ x \in X
        BY DEF Restarts
      <3>2. X \subseteq Restarts
        BY <2>1, <3>1
      <3>3. QED
        BY <3>1, <3>2 DEF Closed
    <2>3. QED
      BY <2>2 DEF Closed, Restarts
  <1>2. ASSUME \/ Code[q] = "seg" /\ Following(q) \in Restarts
               \/ Code[q] = "rep" /\ (Code[AfterRep(q)] = "string" \/ AfterRep(q) \in Restarts)
        PROVE  q \in Restarts
    <2> DEFINE X == Restarts \cup {q}
    <2>1. X \in SUBSET Positions /\ q \in X
      BY <1>1
    <2>2. Closed(X)
      BY <1>1, <1>2 DEF Closed
    <2>3. QED
      BY <2>1, <2>2 DEF Restarts
  <1>3. q \in Restarts => \/ Code[q] = "seg" /\ Following(q) \in Restarts
                          \/ Code[q] = "rep" /\ (Code[AfterRep(q)] = "string" \/ AfterRep(q) \in Restarts)
    BY <1>1 DEF Closed
  <1>4. QED
    BY <1>2, <1>3

\* The program does not change, nor what is known about its places.
LEMMA PlacesStay ==
  ASSUME program' = program
  PROVE  Restarts' = Restarts /\ HandlerPart' = HandlerPart /\ Positions' = Positions
  <1>1. Code' = Code /\ Entry' = Entry
    BY DEF Code, Entry
  <1>2. Positions' = Positions /\ HandlerPart' = HandlerPart
    BY <1>1 DEF Positions, HandlerPart
  <1>3. Restarts' = Restarts
    BY <1>1, <1>2 DEF Restarts, Closed, AfterRep, Following
  <1>4. QED
    BY <1>2, <1>3

LEMMA HandlerCode ==
  ASSUME program \in Programs, Saving(program), NEW q \in HandlerPart
  PROVE  /\ q \in Positions /\ Code[q] \notin {"load", "string"}
         /\ Code[q] # "iret" => Following(q) \in HandlerPart
  <1> DEFINE a == Len(program.main)
             b == Len(program.handler)
             c == Len(Code)
  <1>1. a \in Nat \ {0} /\ b \in Nat \ {0} /\ c = a + b /\ Code[c] = "iret" /\ Entry = a + 1
    BY Sizes DEF Entry
  <1>2. q \in Entry..c
    BY DEF HandlerPart
  <1> HIDE DEF a, b, c
  <1>3. q - a \in 1..b /\ q \in 1..c /\ q > a /\ (q # c => q + 1 \in Entry..c)
    BY <1>1, <1>2
  <1>4. Code[q] = program.handler[q - Len(program.main)]
    <2>1. program.main \in Seq(Instructions) /\ program.handler \in Seq(Instructions)
      BY CpuAssumption
    <2> DEFINE m == program.main
               h == program.handler
    <2>2. q \in 1..a + b /\ ~(q <= a)
      BY <1>1, <1>3
    <2>3. m \in Seq(Instructions) /\ h \in Seq(Instructions) /\ Len(m) = a /\ Len(h) = b
      BY <2>1 DEF a, b
    <2> HIDE DEF m, h
    <2>4. (m \o h)[q] = h[q - Len(m)]
      BY <2>2, <2>3, ConcatProperties
    <2>5. QED
      BY <2>4 DEF Code, m, h, a
  <1>5. Code[q] # "iret" => Following(q) \in HandlerPart
    <2>1. Following(q) = q + 1
      BY <1>1, <1>3 DEF Following, a
    <2>2. QED
      BY <1>1, <1>3, <2>1 DEF HandlerPart, c
  <1>6. q \in Positions
    BY <1>3 DEF Positions, c
  <1>7. Code[q] \notin {"load", "string"}
    BY <1>3, <1>4 DEF Saving, a, b
  <1>8. QED
    BY <1>5, <1>6, <1>7

-----------------------------------------------------------------------------
\* What an instruction starts from.
LEMMA Fetched ==
  ASSUME Typed
  PROVE  /\ Ready \in CpuRecord /\ ~Ready.segNext
         /\ cpu.segNext => Ready.ip = cpu.ip /\ Ready.prev = cpu.prev
         /\ ~cpu.segNext => Ready.prev = Ready.ip
         /\ Ready.ip = IF Taken THEN Entry ELSE cpu.ip
         /\ \A b \in BOOLEAN : After(b) \in HistRecord
  <1>1. Entry \in Positions
    BY Sizes DEF Typed
  <1>2. Ready \in CpuRecord /\ ~Ready.segNext
    BY <1>1 DEF Typed, CpuRecord, Ready, Taken, AtBoundary
  <1>3. /\ cpu.segNext => Ready.ip = cpu.ip /\ Ready.prev = cpu.prev
        /\ ~cpu.segNext => Ready.prev = Ready.ip
        /\ Ready.ip = IF Taken THEN Entry ELSE cpu.ip
    BY DEF Typed, CpuRecord, Ready, Taken, AtBoundary
  <1>4. \A b \in BOOLEAN : After(b) \in HistRecord
    BY DEF After, Typed, HistRecord
  <1>5. QED
    BY <1>2, <1>3, <1>4

LEMMA PushedIs ==
  ASSUME Typed
  PROVE  /\ Pushed \in Seq(Frame)
         /\ ~Taken => Pushed = stack
         /\ Taken => /\ Len(Pushed) = Len(stack) + 1 /\ Pushed[1].ip = cpu.ip
                     /\ \A k \in 1..Len(stack) : Pushed[k + 1] = stack[k]
  <1> DEFINE f == [ip |-> cpu.ip, iff |-> cpu.iff, over |-> hist.over]
             one == <<f>>
  <1>1. f \in Frame /\ f.ip = cpu.ip /\ stack \in Seq(Frame)
    BY DEF Typed, CpuRecord, HistRecord, Frame
  <1>2. Pushed = IF Taken THEN one \o stack ELSE stack
    BY DEF Pushed
  <1> HIDE DEF f
  <1>3. one \in Seq(Frame) /\ Len(one) = 1 /\ one[1] = f
    BY <1>1
  <1> HIDE DEF one
  <1>4. /\ one \o stack \in Seq(Frame) /\ Len(one \o stack) = 1 + Len(stack)
        /\ \A k \in 1..(1 + Len(stack)) :
             (one \o stack)[k] = IF k <= 1 THEN one[k] ELSE stack[k - 1]
    BY <1>1, <1>3, ConcatProperties
  <1>5. Len(stack) \in Nat
    BY <1>1, LenProperties
  <1>6. /\ 1 \in 1..(1 + Len(stack))
        /\ \A k \in 1..Len(stack) : k + 1 \in 1..(1 + Len(stack)) /\ ~(k + 1 <= 1) /\ (k + 1) - 1 = k
    BY <1>5
  <1>7. /\ (one \o stack)[1] = f
        /\ \A k \in 1..Len(stack) : (one \o stack)[k + 1] = stack[k]
    BY <1>3, <1>4, <1>6
  <1>8. QED
    BY <1>1, <1>2, <1>4, <1>5, <1>7

\* An interrupt keeps the handlers apart from the main program, and the place
\* that this goes on from.
LEMMA Pushes ==
  ASSUME Typed, Level(cpu.ip, stack)
  PROVE  /\ Level(Ready.ip, Pushed)
         /\ Resumes(Ready.ip, Pushed) = Resumes(cpu.ip, stack)
         /\ Pushed = <<>> => ~Taken /\ stack = <<>>
  <1>1. CASE ~Taken
    BY <1>1, Fetched, PushedIs
  <1>2. CASE Taken
    <2>1. Ready.ip = Entry /\ Entry \in Positions /\ Len(Code) \in Nat
      BY <1>2, Fetched, Sizes DEF Typed
    <2>2. Ready.ip \in HandlerPart
      <3>1. Entry \in Int /\ Entry <= Len(Code)
        BY <2>1 DEF Positions
      <3>2. QED
        BY <2>1, <3>1 DEF HandlerPart
    <2>3. /\ stack \in Seq(Frame) /\ Len(stack) \in Nat /\ (stack = <<>> <=> Len(stack) = 0)
          /\ Len(Pushed) = Len(stack) + 1 /\ Pushed[1].ip = cpu.ip /\ Pushed # <<>>
          /\ \A k \in 1..Len(stack) : Pushed[k + 1] = stack[k]
      BY <1>2, PushedIs, LenProperties, EmptySeq DEF Typed
    <2>4. ASSUME NEW k \in 1..Len(Pushed) - 1 PROVE Pushed[k].ip \in HandlerPart
      <3>1. stack # <<>>
        BY <2>3
      <3>2. CASE k = 1
        BY <2>3, <3>1, <3>2 DEF Level
      <3>3. CASE k # 1
        <4>1. k - 1 \in 1..Len(stack) - 1 /\ k - 1 \in 1..Len(stack) /\ (k - 1) + 1 = k
          BY <2>3, <3>3
        <4>2. Pushed[k] = stack[k - 1]
          BY <2>3, <4>1
        <4>3. QED
          BY <3>1, <4>1, <4>2 DEF Level
      <3>4. QED
        BY <3>2, <3>3
    <2>5. Pushed[Len(Pushed)].ip = Resumes(cpu.ip, stack)
      <3>1. CASE stack = <<>>
        BY <2>3, <3>1 DEF Resumes
      <3>2. CASE stack # <<>>
        <4>1. Len(stack) \in 1..Len(stack)
          BY <2>3, <3>2
        <4>2. QED
          BY <2>3, <3>2, <4>1 DEF Resumes
      <3>3. QED
        BY <3>1, <3>2
    <2>6. QED
      BY <2>2, <2>3, <2>4, <2>5 DEF Level, Resumes
  <1>3. QED
    BY <1>1, <1>2

\* A step that keeps the data, and goes on where the instruction may.
LEMMA Onward ==
  ASSUME SearchInv, program' = program, cpu' \in CpuRecord, hist' \in HistRecord,
         stack' = Pushed, UNCHANGED <<data, begun>>,
         Level(cpu'.ip, Pushed),
         Pushed = <<>> => (Ready.ip \in Restarts => cpu'.ip \in Restarts),
         cpu'.segNext => (cpu'.ip \in Restarts => cpu'.prev \in Restarts)
  PROVE  SearchInv'
  <1>1. Typed /\ Level(cpu.ip, stack) /\ data \in Work /\ Partway
    BY DEF SearchInv
  <1>2. Restarts' = Restarts /\ HandlerPart' = HandlerPart /\ Positions' = Positions
    BY PlacesStay
  <1>3. Typed'
    BY <1>1, <1>2, PushedIs DEF Typed, CpuRecord, HistRecord, Frame
  <1>4. Linked' /\ Level(cpu.ip, stack)' /\ (data \in Work)'
    BY <1>1, <1>2 DEF Linked, Level
  <1>5. Resumes(cpu.ip, stack) \in Restarts => Resumes(cpu'.ip, stack') \in Restarts
    BY <1>1, Pushes DEF Resumes
  <1>6. Partway'
    <2> SUFFICES ASSUME begun # <<>> PROVE Partway'
      BY DEF Partway
    <2>1. PICK d \in Work :
            /\ begun = <<d>> /\ Resumes(cpu.ip, stack) \in Restarts
            /\ \E k \in 0..d.cx : /\ data = Rounds(program.string, d)[k]
                                  /\ \A m \in 1..k : GoesOn(program.string, Rounds(program.string, d)[m].zf)
      BY <1>1 DEF Partway
    <2>2. Resumes(cpu.ip, stack)' \in Restarts'
      BY <1>2, <1>5, <2>1 DEF Resumes
    <2>3. QED
      BY <2>1, <2>2 DEF Partway
  <1>7. QED
    BY <1>3, <1>4, <1>6 DEF SearchInv

\* In a handler the next instruction is one of the handler's.
LEMMA NextPlace ==
  ASSUME program \in Programs, Saving(program), NEW q \in Positions, NEW st,
         Level(q, st), Code[q] # "iret"
  PROVE  Following(q) \in Positions /\ Level(Following(q), st)
  BY HandlerCode, FollowingStays DEF Level

LEMMA PlainSearch ==
  ASSUME SearchInv, Saving(program), Op \/ Io \/ Cli \/ Hlt \/ Shield \/ Segment
  PROVE  SearchInv'
  <1>1. Typed /\ program \in Programs /\ Level(cpu.ip, stack) /\ Linked
    BY DEF SearchInv, Typed
  <1>2. /\ Ready \in CpuRecord /\ ~Ready.segNext /\ Ready.ip \in Positions
        /\ \A b \in BOOLEAN : After(b) \in HistRecord
        /\ Level(Ready.ip, Pushed)
    BY <1>1, Fetched, Pushes DEF CpuRecord
  <1>3. Code[Ready.ip] \in {"op", "io", "cli", "hlt", "loadss", "lock", "sti", "seg"}
    BY DEF Op, Io, Cli, Hlt, Shield, Segment, Runs, Opcode
  <1>4. Following(Ready.ip) \in Positions /\ Level(Following(Ready.ip), Pushed)
    BY <1>1, <1>2, <1>3, NextPlace
  <1>5. /\ cpu' \in CpuRecord /\ cpu'.ip = Following(Ready.ip) /\ cpu'.prev = Ready.prev
        /\ cpu'.segNext => Segment
    BY <1>2, <1>4 DEF Op, Io, Cli, Hlt, Shield, Segment, Advanced, CpuRecord
  <1>6. /\ program' = program /\ stack' = Pushed /\ UNCHANGED <<data, begun>>
    BY DEF Op, Io, Cli, Hlt, Shield, Segment, Rest, Quiet
  <1>7. hist' \in HistRecord
    <2>1. CASE Op \/ Io \/ Cli \/ Hlt
      BY <1>2, <2>1 DEF Op, Io, Cli, Hlt
    <2>2. CASE Shield
      <3>1. (Opcode = "lock" /\ Over) \in BOOLEAN
        BY DEF Over
      <3>2. QED
        BY <1>2, <2>2, <3>1 DEF Shield, HistRecord
    <2>3. CASE Segment
      BY <1>2, <2>3 DEF Segment, HistRecord
    <2>4. QED
      BY <2>1, <2>2, <2>3
  <1>8. Ready.ip \in Restarts => Segment /\ Following(Ready.ip) \in Restarts
    <2>1. Ready.ip \in Restarts => Code[Ready.ip] = "seg" /\ Following(Ready.ip) \in Restarts
      BY <1>2, <1>3, RestartsAre
    <2>2. Code[Ready.ip] = "seg" => Segment
      BY DEF Op, Io, Cli, Hlt, Shield, Runs, Opcode
    <2>3. QED
      BY <2>1, <2>2
  <1>9. Segment => (Following(Ready.ip) \in Restarts => Ready.prev \in Restarts)
    <2> SUFFICES ASSUME Segment, Following(Ready.ip) \in Restarts PROVE Ready.prev \in Restarts
      OBVIOUS
    <2>1. Ready.ip \in Restarts
      BY <1>2, RestartsAre DEF Segment, Runs, Opcode
    <2>2. QED
      BY <1>1, <2>1, Fetched DEF Linked
  <1>10. QED
    BY <1>4, <1>5, <1>6, <1>7, <1>8, <1>9, Onward

\* Between the rounds of an unfinished instruction the registers of string
\* instructions are not touched.
LEMMA NotBegun ==
  ASSUME SearchInv, Saving(program), Opcode \in {"load", "string"}
  PROVE  begun = <<>> /\ Pushed = <<>>
  <1>1. Typed /\ program \in Programs /\ Level(cpu.ip, stack) /\ Partway
    BY DEF SearchInv, Typed
  <1>2. Ready.ip \in Positions /\ Level(Ready.ip, Pushed)
    BY <1>1, Fetched, Pushes DEF CpuRecord
  <1>3. Pushed = <<>>
    BY <1>1, <1>2, HandlerCode DEF Level, Opcode
  <1>4. begun # <<>> => Ready.ip \in Restarts
    BY <1>1, <1>3, Pushes DEF Partway, Resumes
  <1>5. QED
    BY <1>2, <1>3, <1>4, RestartsAre DEF Opcode

LEMMA LoadSearch ==
  ASSUME SearchInv, Saving(program), Load \/ StringOnce
  PROVE  SearchInv'
  <1>1. Typed /\ program \in Programs /\ Level(cpu.ip, stack) /\ data \in Work
    BY DEF SearchInv, Typed
  <1>2. Opcode \in {"load", "string"}
    BY DEF Load, StringOnce, Runs
  <1>3. begun = <<>> /\ Pushed = <<>>
    BY <1>2, NotBegun
  <1>4. /\ Ready \in CpuRecord /\ ~Ready.segNext /\ Ready.ip \in Positions
        /\ After(FALSE) \in HistRecord
    BY <1>1, Fetched DEF CpuRecord
  <1>5. Following(Ready.ip) \in Positions
    BY <1>1, <1>2, <1>4, FollowingStays DEF Opcode
  <1>6. /\ cpu' \in CpuRecord /\ ~cpu'.segNext
    BY <1>4, <1>5 DEF Load, StringOnce, Advanced, CpuRecord
  <1>7. program' = program /\ stack' = <<>> /\ begun' = <<>>
    BY <1>3 DEF Load, StringOnce, Rest
  <1>8. hist' \in HistRecord
    <2>1. (Over /\ ~Ready.seg) \in BOOLEAN
      OBVIOUS
    <2>2. QED
      BY <1>4, <2>1 DEF Load, StringOnce, HistRecord
  <1>9. data' \in Work
    <2>1. program.string \in StringCode /\ program.data \in Work
      BY <1>1, DataAssumption
    <2>2. CASE Load
      BY <1>1, <2>1, <2>2 DEF Load, Work
    <2>3. CASE StringOnce
      BY <1>1, <2>1, <2>3, SteppedIs DEF StringOnce
    <2>4. QED
      BY <2>2, <2>3
  <1>10. Typed'
    <2>1. Positions' = Positions
      BY <1>7, PlacesStay
    <2>2. stack' \in Seq(Frame)
      BY <1>7
    <2>3. QED
      BY <1>1, <1>6, <1>7, <1>8, <2>1, <2>2 DEF Typed, CpuRecord, HistRecord, Frame
  <1>11. QED
    BY <1>6, <1>7, <1>9, <1>10 DEF SearchInv, Linked, Level, Partway

\* IRET leaves a handler for the one below it, or for the main program.
LEMMA IretSearch ==
  ASSUME SearchInv, Iret
  PROVE  SearchInv'
  <1>1. Typed /\ Level(cpu.ip, stack) /\ data \in Work /\ Partway
    BY DEF SearchInv
  <1>2. /\ Ready \in CpuRecord /\ ~Ready.segNext /\ After(FALSE) \in HistRecord
        /\ Level(Ready.ip, Pushed) /\ Resumes(Ready.ip, Pushed) = Resumes(cpu.ip, stack)
        /\ Pushed \in Seq(Frame) /\ Pushed # <<>>
    BY <1>1, Fetched, Pushes, PushedIs DEF Iret
  <1> DEFINE st == Pushed
             tl == Tail(Pushed)
  <1>3. /\ Len(st) \in Nat \ {0} /\ Head(st) = st[1] /\ st[1] \in Frame
        /\ tl \in Seq(Frame) /\ Len(tl) = Len(st) - 1
        /\ \A k \in 1..Len(tl) : tl[k] = st[k + 1]
        /\ (tl = <<>> <=> Len(tl) = 0)
    <2>1. Len(st) \in Nat \ {0} /\ DOMAIN st = 1..Len(st)
      BY <1>2, EmptySeq, LenProperties
    <2>2. 1 \in DOMAIN st /\ st[1] \in Frame
      BY <1>2, <2>1, ElementOfSeq
    <2>3. /\ Head(st) = st[1] /\ tl \in Seq(Frame) /\ Len(tl) = Len(st) - 1
          /\ \A k \in 1..Len(tl) : tl[k] = st[k + 1]
      BY <1>2, HeadTailProperties
    <2>4. tl = <<>> <=> Len(tl) = 0
      BY <2>3, EmptySeq
    <2>5. QED
      BY <2>1, <2>2, <2>3, <2>4
  <1>4. program' = program /\ stack' = tl /\ UNCHANGED <<data, begun>>
    BY DEF Iret, Rest, Quiet
  <1>5. cpu' \in CpuRecord /\ ~cpu'.segNext /\ cpu'.ip = st[1].ip
    BY <1>2, <1>3 DEF Iret, CpuRecord, Frame
  <1>6. hist' \in HistRecord
    BY <1>2, <1>3 DEF Iret, HistRecord, Frame
  <1>7. /\ st # <<>> /\ \A k \in 1..Len(st) - 1 : st[k].ip \in HandlerPart
        /\ Resumes(cpu.ip, stack) = st[Len(st)].ip
    BY <1>2 DEF Level, Resumes
  <1> HIDE DEF st, tl
  <1>8. Level(cpu'.ip, tl)
    <2> SUFFICES ASSUME Len(tl) > 0
                 PROVE  /\ cpu'.ip \in HandlerPart
                        /\ \A k \in 1..Len(tl) - 1 : tl[k].ip \in HandlerPart
      BY <1>3 DEF Level
    <2>1. cpu'.ip \in HandlerPart
      <3>1. 1 \in 1..Len(st) - 1
        BY <1>3
      <3>2. QED
        BY <1>5, <1>7, <3>1
    <2>2. ASSUME NEW k \in 1..Len(tl) - 1 PROVE tl[k].ip \in HandlerPart
      <3>1. k \in 1..Len(tl) /\ k + 1 \in 1..Len(st) - 1
        BY <1>3
      <3>2. QED
        BY <1>3, <1>7, <3>1
    <2>3. QED
      BY <2>1, <2>2
  <1>9. Resumes(cpu'.ip, tl) = Resumes(cpu.ip, stack)
    <2>1. CASE tl = <<>>
      <3>1. Len(st) = 1
        BY <1>3, <2>1
      <3>2. QED
        BY <1>5, <1>7, <2>1, <3>1 DEF Resumes
    <2>2. CASE tl # <<>>
      <3>1. Len(tl) \in 1..Len(tl) /\ Len(tl) + 1 = Len(st)
        BY <1>3, <2>2
      <3>2. tl[Len(tl)] = st[Len(st)]
        BY <1>3, <3>1
      <3>3. QED
        BY <1>7, <2>2, <3>2 DEF Resumes
    <2>3. QED
      BY <2>1, <2>2
  <1>10. Restarts' = Restarts /\ HandlerPart' = HandlerPart /\ Positions' = Positions
    BY <1>4, PlacesStay
  <1>11. Typed'
    BY <1>1, <1>3, <1>4, <1>5, <1>6, <1>10 DEF Typed, CpuRecord, HistRecord, Frame
  <1>12. Linked' /\ Level(cpu.ip, stack)' /\ (data \in Work)'
    BY <1>1, <1>4, <1>5, <1>8, <1>10 DEF Linked, Level
  <1>13. Partway'
    <2>1. Resumes(cpu.ip, stack)' = Resumes(cpu.ip, stack)
      BY <1>4, <1>9 DEF Resumes
    <2>2. QED
      BY <1>1, <1>4, <1>10, <2>1 DEF Partway
  <1>14. QED
    BY <1>11, <1>12, <1>13 DEF SearchInv

LEMMA RepIgnoredSearch ==
  ASSUME SearchInv, Saving(program), RepIgnored
  PROVE  SearchInv'
  <1>1. Typed /\ program \in Programs /\ Level(cpu.ip, stack) /\ Linked
    BY DEF SearchInv, Typed
  <1>2. /\ Ready \in CpuRecord /\ ~Ready.segNext /\ Ready.ip \in Positions
        /\ After(InnerSeg) \in HistRecord /\ InnerSeg \in BOOLEAN
        /\ Level(Ready.ip, Pushed)
    BY <1>1, Fetched, Pushes DEF CpuRecord, InnerSeg
  <1>3. Code[Ready.ip] = "rep" /\ Code[Repeatee] # "string" /\ Repeatee = AfterRep(Ready.ip)
    BY DEF RepIgnored, Runs, Opcode, Repeatee, InnerSeg, Inner, AfterRep
  <1>4. Repeatee \in Positions /\ Level(Repeatee, Pushed)
    <2>1. Inner \in Positions /\ Level(Inner, Pushed)
      BY <1>1, <1>2, <1>3, NextPlace DEF Inner
    <2>2. InnerSeg => Code[Inner] # "iret"
      BY DEF InnerSeg
    <2>3. QED
      BY <1>1, <2>1, <2>2, NextPlace DEF Repeatee
  <1>5. cpu' \in CpuRecord /\ cpu'.ip = Repeatee /\ cpu'.prev = Ready.prev
    BY <1>2, <1>4 DEF RepIgnored, CpuRecord, Override
  <1>6. program' = program /\ stack' = Pushed /\ UNCHANGED <<data, begun>>
    BY DEF RepIgnored, Rest, Quiet
  <1>7. hist' \in HistRecord
    <2>1. (InnerSeg \/ Over) \in BOOLEAN
      OBVIOUS
    <2>2. QED
      BY <1>2, <2>1 DEF RepIgnored, HistRecord
  <1>8. Ready.ip \in Restarts <=> Repeatee \in Restarts
    BY <1>2, <1>3, RestartsAre
  <1>9. Ready.ip \in Restarts => Ready.prev \in Restarts
    BY <1>1, Fetched DEF Linked
  <1>10. QED
    BY <1>4, <1>5, <1>6, <1>7, <1>8, <1>9, Onward

\* REP: the rounds of this execution are those after the earlier ones.
LEMMA RepSearch ==
  ASSUME SearchInv, Saving(program), Rep
  PROVE  /\ SearchInv'
         /\ cpu'.ip # Ready.prev => /\ Searched(program.string, Begun, data')
                                    /\ Copied(program.string, Begun, data')
  <1> DEFINE i == program.string
  <1>1. /\ Typed /\ program \in Programs /\ Level(cpu.ip, stack) /\ Linked /\ data \in Work
        /\ Partway /\ i \in StringCode
    BY DataAssumption DEF SearchInv, Typed
  <1>2. /\ Ready \in CpuRecord /\ ~Ready.segNext /\ Ready.ip \in Positions
        /\ Ready.prev \in Positions /\ After(FALSE) \in HistRecord /\ Level(Ready.ip, Pushed)
        /\ Pushed = <<>> => ~Taken /\ stack = <<>>
    BY <1>1, Fetched, Pushes DEF CpuRecord
  <1>3. Code[Ready.ip] = "rep" /\ Code[Repeatee] = "string" /\ Repeatee = AfterRep(Ready.ip)
    BY DEF Rep, Runs, Opcode, Repeatee, InnerSeg, Inner, AfterRep
  <1>4. /\ Inner \in Positions /\ Level(Inner, Pushed)
        /\ Repeatee \in Positions /\ Level(Repeatee, Pushed)
    <2>1. Inner \in Positions /\ Level(Inner, Pushed)
      BY <1>1, <1>2, <1>3, NextPlace DEF Inner
    <2>2. InnerSeg => Code[Inner] # "iret"
      BY DEF InnerSeg
    <2>3. QED
      BY <1>1, <2>1, <2>2, NextPlace DEF Repeatee
  <1>5. Pushed = <<>>
    BY <1>1, <1>3, <1>4, HandlerCode DEF Level
  <1>6. Following(Repeatee) \in Positions
    BY <1>1, <1>3, <1>4, FollowingStays
  <1>7. Ready.prev \in Restarts
    <2>1. Ready.ip \in Restarts
      BY <1>2, <1>3, RestartsAre
    <2>2. QED
      BY <1>1, <2>1, Fetched DEF Linked
  <1>8. PICK d \in Work : Begun = d
          /\ \E k \in 0..d.cx : /\ data = Rounds(i, d)[k]
                                /\ \A m \in 1..k : GoesOn(i, Rounds(i, d)[m].zf)
    <2>1. CASE begun = <<>>
      <3>1. 0 \in 0..data.cx /\ data = Rounds(i, data)[0] /\ Begun = data
        BY <1>1, <2>1, RoundsAre DEF Work, Begun
      <3>2. QED
        BY <1>1, <3>1
    <2>2. CASE begun # <<>>
      BY <1>1, <2>2 DEF Partway, Begun
    <2>3. QED
      BY <2>1, <2>2
  <1>9. PICK k \in 0..d.cx : /\ data = Rounds(i, d)[k]
                             /\ \A m \in 1..k : GoesOn(i, Rounds(i, d)[m].zf)
    BY <1>8
  <1> DEFINE r == Rounds(i, data)
  <1>10. PICK n \in (IF data.cx = 0 THEN {0} ELSE 1..data.cx) :
           /\ \A m \in 1..n - 1 : GoesOn(i, r[m].zf)
           /\ data' = r[n]
           /\ cpu' = [Ready EXCEPT !.seg = FALSE, !.segNext = FALSE,
                 !.ip = IF Again(r[n]) THEN Ready.prev ELSE Following(Repeatee)]
           /\ begun' = IF Again(r[n]) THEN <<Begun>> ELSE <<>>
           /\ hist' = [After(FALSE) EXCEPT !.bare = @ \/ (Over /\ ~Ready.seg),
                                           !.over = Over /\ Again(r[n])]
    BY DEF Rep, Stored
  <1>11. /\ program' = program /\ stack' = <<>>
    BY <1>5 DEF Rep, Rest
  <1>12. /\ d.cx \in Nat /\ data.cx = d.cx - k /\ data.cx \in Nat
         /\ \A m \in 0..data.cx : k + m \in 0..d.cx /\ r[m] = Rounds(i, d)[k + m]
    <2>1. d.cx \in Nat /\ data.cx \in Nat
      BY <1>1 DEF Work
    <2>2. /\ data.cx = d.cx - k
          /\ \A m \in 0..data.cx : k + m \in 0..d.cx /\ r[m] = Rounds(i, d)[k + m]
      BY <1>1, <1>9, RoundsGoOn
    <2>3. QED
      BY <2>1, <2>2
  <1> DEFINE h == k + n
  <1>13. /\ n \in 0..data.cx /\ n \in Nat /\ h \in 0..d.cx /\ r[n] = Rounds(i, d)[h]
         /\ r[n] \in Work /\ r[n].cx = d.cx - h /\ (n = 0 => r[n].cx = 0)
    <2>1. n \in 0..data.cx /\ (n = 0 => data.cx = 0)
      BY <1>10, <1>12
    <2>2. h \in 0..d.cx /\ r[n] = Rounds(i, d)[h]
      BY <1>12, <2>1
    <2>3. r[n] \in Work /\ r[n].cx = d.cx - h
      BY <1>1, <2>2, RegistersAfter DEF RegistersAt
    <2>4. QED
      BY <1>12, <2>1, <2>2, <2>3
  <1>14. \A m \in 1..h - 1 : GoesOn(i, Rounds(i, d)[m].zf)
    <2> SUFFICES ASSUME NEW m \in 1..h - 1 PROVE GoesOn(i, Rounds(i, d)[m].zf)
      OBVIOUS
    <2>1. CASE m <= k
      <3>1. m \in 1..k
        BY <2>1
      <3>2. QED
        BY <1>9, <3>1
    <2>2. CASE ~(m <= k)
      <3>1. m - k \in 1..n - 1 /\ m - k \in 0..data.cx /\ k + (m - k) = m
        BY <1>12, <1>13, <2>2
      <3>2. r[m - k] = Rounds(i, d)[m]
        BY <1>12, <3>1
      <3>3. QED
        BY <1>10, <3>1, <3>2
    <2>3. QED
      BY <2>1, <2>2
  <1>15. /\ cpu' \in CpuRecord /\ ~cpu'.segNext
         /\ cpu'.ip = IF Again(r[n]) THEN Ready.prev ELSE Following(Repeatee)
    BY <1>2, <1>6, <1>10 DEF CpuRecord
  <1>16. hist' \in HistRecord
    <2>1. (Over /\ ~Ready.seg) \in BOOLEAN /\ (Over /\ Again(r[n])) \in BOOLEAN
      OBVIOUS
    <2>2. QED
      BY <1>2, <1>10, <2>1 DEF HistRecord
  <1>17. Restarts' = Restarts /\ Positions' = Positions
    BY <1>11, PlacesStay
  <1> HIDE DEF h, r
  <1>18. Typed' /\ Linked' /\ Level(cpu.ip, stack)' /\ (data \in Work)'
    <2>1. stack' \in Seq(Frame)
      BY <1>11
    <2>2. Typed'
      BY <1>1, <1>11, <1>15, <1>16, <1>17, <2>1 DEF Typed, CpuRecord, HistRecord, Frame
    <2>3. QED
      BY <1>10, <1>11, <1>13, <1>15, <2>2 DEF Linked, Level
  <1>19. CASE Again(r[n])
    <2>1. n > 0 /\ GoesOn(i, r[n].zf)
      BY <1>13, <1>19 DEF Again
    <2>2. \A m \in 1..h : GoesOn(i, Rounds(i, d)[m].zf)
      <3>1. \A m \in 1..h : m \in 1..h - 1 \/ m = h
        BY <1>12, <1>13
      <3>2. QED
        BY <1>13, <1>14, <2>1, <3>1
    <2>3. begun' = <<d>> /\ cpu'.ip = Ready.prev
      BY <1>8, <1>10, <1>15, <1>19
    <2>4. (Resumes(cpu.ip, stack) \in Restarts)'
      BY <1>7, <1>11, <1>17, <2>3 DEF Resumes
    <2>5. data' = Rounds(program'.string, d)[h]
      BY <1>10, <1>11, <1>13
    <2>6. Partway'
      BY <1>11, <1>13, <2>2, <2>3, <2>4, <2>5 DEF Partway
    <2>7. QED
      BY <1>18, <2>3, <2>6 DEF SearchInv
  <1>20. CASE ~Again(r[n])
    <2>1. h = d.cx \/ (h > 0 /\ ~GoesOn(i, Rounds(i, d)[h].zf))
      <3>1. r[n].cx \in Nat /\ (h = 0 => n = 0)
        BY <1>12, <1>13 DEF h
      <3>2. CASE r[n].cx = 0
        BY <1>12, <1>13, <3>2
      <3>3. CASE r[n].cx # 0
        <4>1. h > 0 /\ r[n].cx > 0
          BY <1>12, <1>13, <3>1, <3>3
        <4>2. QED
          BY <1>13, <1>20, <4>1 DEF Again
      <3>4. QED
        BY <3>2, <3>3
    <2>2. h = Handled(i, d)
      BY <1>1, <1>13, <1>14, <2>1, EndsAt
    <2>3. Searched(i, d, r[n]) /\ Copied(i, d, r[n])
      BY <1>1, <1>13, <2>2, SearchEnds, CopyEnds
    <2>4. begun' = <<>>
      BY <1>10, <1>20
    <2>5. QED
      BY <1>8, <1>10, <1>18, <2>3, <2>4 DEF SearchInv, Partway
  <1>21. QED
    BY <1>19, <1>20

LEMMA SearchInit == Init => SearchInv
  <1> SUFFICES ASSUME Init PROVE SearchInv
    OBVIOUS
  <1>1. program \in Programs /\ stack = <<>> /\ begun = <<>> /\ data = program.data
    BY DEF Init
  <1>2. Typed
    BY OverrideInit DEF OInv
  <1>3. data \in Work
    BY <1>1, DataAssumption
  <1>4. QED
    BY <1>1, <1>2, <1>3 DEF Init, SearchInv, Linked, Level, Partway

LEMMA SearchStep ==
  ASSUME SearchInv, Saving(program), [Next]_vars
  PROVE  SearchInv'
  <1>1. CASE Wait \/ NewSlice \/ UNCHANGED vars
    <2>1. UNCHANGED <<program, stack, hist, data, begun>>
      BY <1>1 DEF Wait, NewSlice, vars
    <2>2. cpu' \in CpuRecord /\ cpu'.ip = cpu.ip
          /\ (cpu'.segNext => cpu.segNext /\ cpu'.prev = cpu.prev)
      BY <1>1 DEF Wait, NewSlice, vars, Halted, AtBoundary, SearchInv, Typed, CpuRecord
    <2>3. Restarts' = Restarts /\ HandlerPart' = HandlerPart /\ Positions' = Positions
      BY <2>1, PlacesStay
    <2>4. Typed'
      BY <2>1, <2>2, <2>3 DEF SearchInv, Typed, CpuRecord, HistRecord, Frame
    <2>5. Linked' /\ Level(cpu.ip, stack)' /\ Partway'
      BY <2>1, <2>2, <2>3 DEF SearchInv, Linked, Level, Partway, Resumes
    <2>6. QED
      BY <2>1, <2>4, <2>5 DEF SearchInv
  <1>2. QED
    BY <1>1, PlainSearch, LoadSearch, IretSearch, RepSearch, RepIgnoredSearch DEF Next, Iterate

\* However often a repeated string instruction is cut by its slice or
\* interrupted and executed again, it is left with CX, SI, DI and ZF as one
\* uninterrupted search leaves them, for every segment, count, direction and
\* program whose handlers save the registers they use.
THEOREM SearchesComplete ==
  ASSUME \A p \in Programs : Saving(p)
  PROVE  Spec => SearchIsRight
  <1>1. SearchInv => Saving(program)
    BY DEF SearchInv, Typed
  <1>2. SearchInv /\ [Next]_vars => SearchInv'
    BY <1>1, SearchStep
  <1>3. SearchInv /\ [Next]_vars => [Left => Searched(program.string, Begun, data')]_vars
    BY <1>1, RepSearch DEF Left
  <1>4. QED
    BY <1>2, <1>3, SearchInit, PTL DEF Spec, Safe, SearchIsRight

\* And memory, the accumulator and the ports are as one uninterrupted copy,
\* fill or transfer leaves them, element by element, also where the
\* destination overlaps the source or wraps.
THEOREM CopiesComplete ==
  ASSUME \A p \in Programs : Saving(p)
  PROVE  Spec => CopyIsRight
  <1>1. SearchInv => Saving(program)
    BY DEF SearchInv, Typed
  <1>2. SearchInv /\ [Next]_vars => SearchInv'
    BY <1>1, SearchStep
  <1>3. SearchInv /\ [Next]_vars => [Left => Copied(program.string, Begun, data')]_vars
    BY <1>1, RepSearch DEF Left
  <1>4. QED
    BY <1>2, <1>3, SearchInit, PTL DEF Spec, Safe, CopyIsRight
=============================================================================
