------------------------------ MODULE CpuLoop ------------------------------
(***************************************************************************)
(* The CPU's instruction loop (i80186_cpu_device::execute_run): prefixes,  *)
(* repeated string instructions, HLT, and the points where the INTR line   *)
(* is looked at.  A slice ends after any instruction, and in the middle of *)
(* a repeated one; the line changes between slices, when an instruction    *)
(* touches the interrupt controller, and at the acknowledgement.           *)
(*                                                                         *)
(* Left out: NMI and single-stepping, which nothing on the board raises or *)
(* switches on, and DMA requests, which the 188EB does not map.            *)
(*                                                                         *)
(* Programs are external: sequences of                                     *)
(*   "seg" "lock" "rep"        prefixes                                    *)
(*   "string"                  the program's string instruction; repeated  *)
(*                             when a "rep" precedes it                    *)
(*   "load"                    loads the registers it uses                 *)
(*   "loadss" "sti" "cli" "hlt" "iret"                                     *)
(*   "io"                      touches the interrupt controller            *)
(*   "op"                      anything else                               *)
(***************************************************************************)
EXTENDS StringOps

CONSTANTS
  Programs,   \* [main, handler, string, data]: main starts over at its end
  MaxDepth    \* bound on nested handlers: the line stays low beyond it

Instructions == {"seg", "lock", "rep", "string", "load", "loadss", "sti", "cli", "hlt",
                 "iret", "io", "op"}

ASSUME CpuAssumption ==
  /\ \A p \in Programs : /\ {p.main, p.handler} \subseteq Seq(Instructions) \ {<<>>}
                         /\ p.handler[Len(p.handler)] = "iret"
  /\ MaxDepth \in Nat \ {0}

ASSUME DataAssumption == \A p \in Programs : p.string \in StringCode /\ p.data \in Work

VARIABLES
  program,   \* what is in memory
  cpu,       \* [ip, prev, seg, segNext, noInt, iff, halt]
  data,      \* memory and the registers of string instructions
  running,   \* m_icount > 0
  intr,      \* the INTR line, m_pending_irq
  stack,     \* pushed by interrupt(): [ip, iff], the last first; over is history
  begun,     \* history: data when a repeated instruction that is not finished
             \* was first executed; no element when there is none
  hist       \* history: [shadow, split, over, bare]

vars == <<program, cpu, data, running, intr, stack, begun, hist>>

Code  == program.main \o program.handler
Entry == Len(program.main) + 1
Following(ip) == IF ip = Len(program.main) THEN 1 ELSE ip + 1

Init ==
  /\ program \in Programs
  /\ cpu = [ip |-> 1, prev |-> 1, seg |-> FALSE, segNext |-> FALSE, noInt |-> 0,
            iff |-> FALSE, halt |-> FALSE]
  /\ data = program.data /\ begun = <<>>
  /\ running = FALSE /\ intr = FALSE /\ stack = <<>>
  /\ hist = [shadow |-> FALSE, split |-> FALSE, over |-> FALSE, bare |-> FALSE]

\* The line after it could change, with n handlers running.
Lines(n) == IF n < MaxDepth THEN BOOLEAN ELSE {FALSE}

-----------------------------------------------------------------------------
(* The boundary before an instruction.                                     *)

AtBoundary == ~cpu.segNext

\* The interrupt is taken here.
Taken == AtBoundary /\ intr /\ cpu.noInt = 0 /\ cpu.iff

Halted == AtBoundary /\ cpu.halt /\ ~Taken

\* Mutants of Ready: prev moves on after a prefix; the shadow of an
\* instruction does not end.
ReadyForgets ==
  IF Taken THEN [cpu EXCEPT !.ip = Entry, !.prev = Entry, !.seg = FALSE,
                            !.iff = FALSE, !.halt = FALSE]
  ELSE IF AtBoundary THEN [cpu EXCEPT !.prev = cpu.ip, !.seg = FALSE, !.noInt = 0]
  ELSE [cpu EXCEPT !.prev = cpu.ip, !.seg = TRUE, !.segNext = FALSE]

ReadyStays ==
  IF Taken THEN [cpu EXCEPT !.ip = Entry, !.prev = Entry, !.seg = FALSE,
                            !.iff = FALSE, !.halt = FALSE]
  ELSE IF AtBoundary THEN [cpu EXCEPT !.prev = cpu.ip, !.seg = FALSE]
  ELSE [cpu EXCEPT !.seg = TRUE, !.segNext = FALSE]

\* The CPU when the next opcode is fetched.
Ready ==
  IF Taken THEN [cpu EXCEPT !.ip = Entry, !.prev = Entry, !.seg = FALSE,
                            !.iff = FALSE, !.halt = FALSE]
  ELSE IF AtBoundary THEN [cpu EXCEPT !.prev = cpu.ip, !.seg = FALSE, !.noInt = 0]
  ELSE [cpu EXCEPT !.seg = TRUE, !.segNext = FALSE]

Opcode == Code[Ready.ip]

Pushed == IF Taken THEN <<[ip |-> cpu.ip, iff |-> cpu.iff, over |-> hist.over]>> \o stack
          ELSE stack

\* History: a segment prefix stands before this instruction.
Over == hist.over /\ ~Taken

\* History after an instruction that does or does not shield the next one.
After(shadow) == [hist EXCEPT !.split = @ \/ (Taken /\ hist.shadow),
                              !.shadow = shadow, !.over = FALSE]

\* What an instruction leaves alone.  It may have been the last of the slice.
Rest == /\ running' \in BOOLEAN
        /\ intr' \in IF Taken THEN Lines(Len(Pushed)) ELSE {intr}
        /\ UNCHANGED program

Quiet == UNCHANGED <<data, begun>>

Advanced == [Ready EXCEPT !.ip = Following(@)]

Runs(op) == running /\ ~Halted /\ Opcode = op

-----------------------------------------------------------------------------
(* Instructions.                                                           *)

Op ==
  /\ Runs("op")
  /\ cpu' = Advanced
  /\ stack' = Pushed
  /\ hist' = After(FALSE)
  /\ Rest /\ Quiet

\* An access to the interrupt controller may raise or lower the line.
Io ==
  /\ Runs("io")
  /\ cpu' = Advanced
  /\ stack' = Pushed
  /\ hist' = After(FALSE)
  /\ running' \in BOOLEAN
  /\ intr' \in Lines(Len(Pushed))
  /\ UNCHANGED <<program, data, begun>>

Load ==
  /\ Runs("load")
  /\ cpu' = Advanced
  /\ data' = [program.data EXCEPT !.mem = data.mem]
  /\ stack' = Pushed
  /\ hist' = After(FALSE)
  /\ Rest /\ UNCHANGED begun

Cli ==
  /\ Runs("cli")
  /\ cpu' = [Advanced EXCEPT !.iff = FALSE]
  /\ stack' = Pushed
  /\ hist' = After(FALSE)
  /\ Rest /\ Quiet

\* Mutant of Shielding: STI does not shield the instruction after it.
ShieldingSome == {"loadss", "lock"}

\* STI, a load of SS and LOCK shield the next instruction.
Shielding == {"loadss", "lock", "sti"}

Shield ==
  /\ \E op \in {"loadss", "lock", "sti"} : Runs(op)
  /\ cpu' = [Advanced EXCEPT !.noInt = IF Opcode \in Shielding THEN 1 ELSE @,
                             !.iff = @ \/ Opcode = "sti"]
  /\ stack' = Pushed
  /\ hist' = [After(TRUE) EXCEPT !.over = Opcode = "lock" /\ Over]
  /\ Rest /\ Quiet

Segment ==
  /\ Runs("seg")
  /\ cpu' = [Advanced EXCEPT !.segNext = TRUE]
  /\ stack' = Pushed
  /\ hist' = [After(TRUE) EXCEPT !.over = TRUE]
  /\ Rest /\ Quiet

Hlt ==
  /\ Runs("hlt")
  /\ cpu' = [Advanced EXCEPT !.halt = TRUE]
  /\ stack' = Pushed
  /\ hist' = After(FALSE)
  /\ running' = FALSE
  /\ intr' \in IF Taken THEN Lines(Len(Pushed)) ELSE {intr}
  /\ UNCHANGED <<program, data, begun>>

Iret ==
  /\ Runs("iret") /\ Pushed # <<>>
  /\ cpu' = [Ready EXCEPT !.ip = Head(Pushed).ip, !.iff = Head(Pushed).iff]
  /\ stack' = Tail(Pushed)
  /\ hist' = [After(FALSE) EXCEPT !.over = Head(Pushed).over]
  /\ Rest /\ Quiet

\* The string instruction alone.
StringOnce ==
  /\ Runs("string")
  /\ cpu' = Advanced
  /\ data' = Stepped(program.string, data)
  /\ stack' = Pushed
  /\ hist' = [After(FALSE) EXCEPT !.bare = @ \/ (Over /\ ~Ready.seg)]
  /\ Rest /\ UNCHANGED begun

\* repx_op: a segment prefix may stand between REP and the instruction.
Inner     == Following(Ready.ip)
InnerSeg  == Code[Inner] = "seg"
Repeatee  == IF InnerSeg THEN Following(Inner) ELSE Inner
Override  == Ready.seg \/ InnerSeg

\* Mutant of Again: an instruction that its comparison ended starts again.
AgainAlways(d) == d.cx > 0

\* Elements are left and no comparison ended it: m_ip = m_prev_ip.
Again(d) == d.cx > 0 /\ GoesOn(program.string, d.zf)

\* Mutant of Stored: the count is not written back.
StoredNot(d) == [d EXCEPT !.cx = data.cx]

\* CX gets the count when the loop is left.
Stored(d) == d

Begun == IF begun = <<>> THEN data ELSE begun[1]

\* REP: one element when CX is not 0, and more until CX is used up, the
\* comparison ends it, or the slice does; in that last case the instruction
\* starts again from its first prefix.
Rep ==
  /\ Runs("rep") /\ Code[Repeatee] = "string"
  /\ Rest
  /\ \E n \in (IF data.cx = 0 THEN {0} ELSE 1..data.cx) :
       LET r == Rounds(program.string, data)
       IN  /\ \A m \in 1..n - 1 : GoesOn(program.string, r[m].zf)
           /\ Again(r[n]) => ~running'
           /\ data' = Stored(r[n])
           /\ cpu' = [Ready EXCEPT !.seg = FALSE, !.segNext = FALSE,
                 !.ip = IF Again(r[n]) THEN Ready.prev ELSE Following(Repeatee)]
           /\ begun' = IF Again(r[n]) THEN <<Begun>> ELSE <<>>
           /\ hist' = [After(FALSE) EXCEPT !.bare = @ \/ (Over /\ ~Ready.seg),
                                           !.over = Over /\ Again(r[n])]
  /\ stack' = Pushed

\* REP before another instruction: that is executed next, as if by itself.
RepIgnored ==
  /\ Runs("rep") /\ Code[Repeatee] # "string"
  /\ cpu' = [Ready EXCEPT !.ip = Repeatee, !.seg = Override, !.segNext = InnerSeg]
  /\ stack' = Pushed
  /\ hist' = [After(InnerSeg) EXCEPT !.over = InnerSeg \/ Over]
  /\ Rest /\ Quiet

\* HLT: the rest of the slice passes.
Wait ==
  /\ running /\ Halted
  /\ cpu' = [cpu EXCEPT !.prev = cpu.ip, !.seg = FALSE]
  /\ running' = FALSE
  /\ UNCHANGED <<program, intr, stack, hist, data, begun>>

\* Between slices timers expire and the host writes.
NewSlice ==
  /\ ~running /\ running' = TRUE
  /\ intr' \in Lines(Len(stack))
  /\ UNCHANGED <<program, cpu, stack, hist, data, begun>>

Iterate == \/ Op \/ Io \/ Load \/ Cli \/ Shield \/ Segment \/ Hlt \/ Iret
           \/ StringOnce \/ Rep \/ RepIgnored \/ Wait

Next == Iterate \/ NewSlice

Safe == Init /\ [][Next]_vars

\* run_cycles keeps running slices, and a slice executes instructions.
Spec == Safe /\ WF_vars(Iterate) /\ WF_vars(NewSlice)

-----------------------------------------------------------------------------
(* Properties.                                                             *)

\* No interrupt is taken between STI, a load of SS or a prefix and the
\* instruction after it (m_no_interrupt, m_seg_prefix_next).
NothingSplit == ~hist.split

\* A string instruction keeps its segment override in every round, also after
\* an interrupt between two rounds, whether the prefix stands before REP or
\* after it.  (A LOCK or a second REP after the prefix does lose it.)
OverrideKept == ~hist.bare

\* However often a repeated instruction is cut by the slice or interrupted and
\* executed again, it is left only when all its elements are handled or at the
\* first element that ends its search: CX, SI, DI and ZF say which one.
Left == Rep /\ cpu'.ip # Ready.prev
SearchIsRight == [][Left => Searched(program.string, Begun, data')]_vars

\* And then every element was copied, filled or transferred once and in order,
\* also where the destination overlaps the source or wraps in its segment.
CopyIsRight == [][Left => Copied(program.string, Begun, data')]_vars

\* The STI; HLT idiom loses no wakeup: a CPU halted with interrupts enabled
\* starts again when the line stays up.
WakesUp == cpu.halt /\ cpu.iff /\ intr ~> ~cpu.halt \/ ~intr
=============================================================================
