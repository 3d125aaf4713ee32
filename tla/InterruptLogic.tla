--------------------------- MODULE InterruptLogic ---------------------------
(***************************************************************************)
(* The 80C188EB interrupt controller of mame/i186.cpp (intr_state and the  *)
(* handlers that change it), outside iRMX mode: RELREG bit 14 is 0 in this *)
(* firmware (notes/PORTING.md, "Relocation register").                     *)
(*                                                                         *)
(* Every handler is an operator from the controller's state, a record      *)
(* "ic", to its state after the handler returns, trailing calls included,  *)
(* so that the modules that use the controller can chain them.             *)
(*                                                                         *)
(* A source is named by its bit in the in-service and request registers:   *)
(* 0 the timers, 2..3 DMA0..1, 4..7 INT0..3.  That is also the order in    *)
(* which a scan of one priority level looks at the sources.                *)
(***************************************************************************)
EXTENDS Integers, FiniteSets

CONSTANT Sources       \* the sources present in an instance

ASSUME SourcesAssumption == Sources \subseteq {0} \cup 2..7

TMR  == 0
Dma  == Sources \cap 2..3
Ext  == Sources \cap 4..7
Timers == 0..2

-----------------------------------------------------------------------------
(* State.                                                                  *)

\* A source's control word: the priority with the mask bit above it (bit 3),
\* level-triggered mode, cascade mode, special fully nested mode.
Ctl == [lvl : 0..15, ltm : BOOLEAN, cascade : BOOLEAN, sfnm : BOOLEAN]

\* TCUCON and the DMA words keep 4 bits, I2CON and I3CON 5, I0CON and I1CON 7.
CtlFits(s, c) == /\ s < 4 => ~c.ltm
                 /\ s \notin {4, 5} => ~c.cascade /\ ~c.sfnm

Level(n) == [lvl |-> n, ltm |-> FALSE, cascade |-> FALSE, sfnm |-> FALSE]

Vectors == {0, 8, 10, 11, 12, 13, 14, 15, 18, 19}

ICState ==
  [ctl : [Sources -> Ctl],       \* m_intr.timer[0], dma[], ext[]
   priorityMask : 0..7,
   inService : SUBSET Sources,
   request : SUBSET Sources,     \* latched DMA and external requests
   status : SUBSET Timers,       \* timers that request an interrupt
   ackMask : SUBSET Sources,     \* what the next acknowledge will serve
   poll : [valid : BOOLEAN, vector : Vectors],
   pending : BOOLEAN,
   extState : SUBSET Sources,    \* level of each external line
   intr : BOOLEAN]               \* INT_IRQ in the CPU's m_pending_irq

\* Every register holds what its width allows, and only the words that have a
\* mode bit hold it.
ICOk(ic) == /\ ic \in ICState
            /\ \A s \in Sources : CtlFits(s, ic.ctl[s])
            /\ ic.extState \subseteq Ext
            /\ TMR \notin ic.request

\* device_start zero-fills the structure and the CPU's pending interrupts;
\* device_reset then masks every source.  The INTR line is not lowered by it:
\* the CPU core keeps INT_IRQ across a reset.
DeviceReset(ic) ==
  [ctl |-> [s \in Sources |-> Level(15)],
   priorityMask |-> 7,
   inService |-> {}, request |-> {}, status |-> {}, ackMask |-> {},
   poll |-> [valid |-> FALSE, vector |-> 0],
   pending |-> FALSE, extState |-> {},
   intr |-> ic.intr]

PowerOn == DeviceReset([intr |-> FALSE])

-----------------------------------------------------------------------------
(* The priority scan.                                                      *)

Before(ic, a, b) == \/ ic.ctl[a].lvl < ic.ctl[b].lvl
                    \/ ic.ctl[a].lvl = ic.ctl[b].lvl /\ a < b

\* Levels above the priority mask are not looked at; nor is a masked source,
\* whose word compares as 8 or more.
Scanned(ic) == {s \in Sources : ic.ctl[s].lvl <= ic.priorityMask}

Requesting(ic, s) == IF s = TMR THEN ic.status # {} ELSE s \in ic.request

\* INT2 (INT3) serves as the acknowledge of INT0 (INT1) in cascade mode.
Cascaded(ic, s) == s \in {6, 7} /\ s - 2 \in Sources /\ ic.ctl[s - 2].cascade

\* Mutant of Blocks: a source in service does not end the scan.
BlocksNever(ic, s) == FALSE

\* A source in service ends the scan; in special fully nested mode only when
\* it does not request again.
Blocks(ic, s) == /\ s \in ic.inService
                 /\ ic.ctl[s].sfnm => ~Requesting(ic, s)

Wants(ic, s) == Requesting(ic, s) /\ ~Blocks(ic, s) /\ ~Cascaded(ic, s)

Stops(ic) == {s \in Scanned(ic) : Blocks(ic, s) \/ Wants(ic, s)}

IsFirst(ic, s) == /\ s \in Stops(ic)
                  /\ \A t \in Stops(ic) : t = s \/ Before(ic, s, t)

First(ic) == CHOOSE s \in Stops(ic) : IsFirst(ic, s)

\* Requests of cascaded lines that the scan meets before it stops are erased.
Erased(ic) == {s \in Scanned(ic) :
                 /\ s \in ic.request /\ Cascaded(ic, s) /\ ~Blocks(ic, s)
                 /\ \A t \in Stops(ic) : Before(ic, s, t)}

TimerVector == [t \in Timers |-> IF t = 0 THEN 8 ELSE 17 + t]

LowestTimer(T) == CHOOSE t \in T : \A u \in T : t <= u

VectorOf(ic, s) == IF s = TMR THEN TimerVector[LowestTimer(ic.status)] ELSE s + 8

\* Mutant of UpdateInterruptState: "pending" survives an empty scan.
UpdateInterruptStateSticky(ic) ==
  LET seen == [ic EXCEPT !.request = @ \ Erased(ic)]
  IN  IF Stops(ic) = {}
        THEN [seen EXCEPT !.intr = FALSE]
      ELSE IF Blocks(ic, First(ic))
        THEN seen
      ELSE [seen EXCEPT !.ackMask = {First(ic)},
                        !.poll = [valid |-> TRUE, vector |-> VectorOf(ic, First(ic))],
                        !.intr = IF ic.pending THEN @ ELSE TRUE,
                        !.pending = TRUE]

\* Mutant of UpdateInterruptState: the acknowledge mask is set before the test
\* for a source in service, not after it.
UpdateInterruptStateEarly(ic) ==
  LET seen == [ic EXCEPT !.request = @ \ Erased(ic)]
  IN  IF Stops(ic) = {}
        THEN [seen EXCEPT !.pending = FALSE, !.intr = FALSE]
      ELSE IF Blocks(ic, First(ic))
        THEN [seen EXCEPT !.ackMask = {First(ic)}]
      ELSE [seen EXCEPT !.ackMask = {First(ic)},
                        !.poll = [valid |-> TRUE, vector |-> VectorOf(ic, First(ic))],
                        !.intr = IF ic.pending THEN @ ELSE TRUE,
                        !.pending = TRUE]

\* The early return on a source in service leaves pending, ackMask, poll and
\* the INTR line as they were.
UpdateInterruptState(ic) ==
  LET seen == [ic EXCEPT !.request = @ \ Erased(ic)]
  IN  IF Stops(ic) = {}
        THEN [seen EXCEPT !.pending = FALSE, !.intr = FALSE]
      ELSE IF Blocks(ic, First(ic))
        THEN seen
      ELSE [seen EXCEPT !.ackMask = {First(ic)},
                        !.poll = [valid |-> TRUE, vector |-> VectorOf(ic, First(ic))],
                        !.intr = IF ic.pending THEN @ ELSE TRUE,
                        !.pending = TRUE]

-----------------------------------------------------------------------------
(* Requests, acknowledge, end of interrupt.                                *)

\* external_int: only a change of the line does anything.
ExternalInt(ic, s, state) ==
  IF (s \in ic.extState) = state
    THEN ic
  ELSE IF state
    THEN UpdateInterruptState([ic EXCEPT !.request = @ \cup {s},
                                         !.extState = @ \cup {s}])
  ELSE UpdateInterruptState([ic EXCEPT !.request = @ \ {s},
                                       !.ackMask = @ \ {s},
                                       !.extState = @ \ {s}])

\* The interrupt request made by timer_elapsed for a timer whose INT bit is set.
TimerRequest(ic, t) == UpdateInterruptState([ic EXCEPT !.status = @ \cup {t}])

\* Mutant of IntCallback: every latched request is cleared, not those served.
IntCallbackClearsAll(ic) ==
  [ic EXCEPT
     !.intr = FALSE,
     !.pending = FALSE,
     !.request = {},
     !.inService = @ \cup ic.ackMask,
     !.status = {},
     !.ackMask = {},
     !.poll.valid = FALSE]

\* int_callback, for the CPU's acknowledge and for a read of the poll register.
IntCallback(ic) ==
  [ic EXCEPT
     !.intr = FALSE,
     !.pending = FALSE,
     !.request = @ \ {s \in ic.ackMask : ~ic.ctl[s].ltm},
     !.inService = @ \cup ic.ackMask,
     !.status = IF ic.ackMask = {TMR}
                  THEN @ \ {t \in Timers : TimerVector[t] = ic.poll.vector}
                  ELSE @,
     !.ackMask = {},
     !.poll.valid = FALSE]

\* The vector int_callback hands to the CPU: a slave controller's answer in
\* cascade mode.  No slave is connected here and the shim's default is 0.
AckVector(ic) ==
  IF ic.poll.vector \in {12, 13} /\ ic.poll.vector - 8 \in Sources
     /\ ic.ctl[ic.poll.vector - 8].cascade
    THEN 0
    ELSE ic.poll.vector

VectorSource(v) == IF v \in {8, 18, 19} THEN TMR ELSE v - 8

EoiSpecific(ic, v) ==
  UpdateInterruptState([ic EXCEPT !.inService = @ \ {VectorSource(v)}])

\* Mutant of EoiBefore: of two sources on one level, the later one first.
EoiBeforeReversed(ic, a, b) ==
  \/ ic.ctl[a].lvl % 8 < ic.ctl[b].lvl % 8
  \/ ic.ctl[a].lvl % 8 = ic.ctl[b].lvl % 8 /\ a > b

\* The non-specific search compares 3 bits only: a source masked while it is
\* in service is still found.
EoiBefore(ic, a, b) ==
  \/ ic.ctl[a].lvl % 8 < ic.ctl[b].lvl % 8
  \/ ic.ctl[a].lvl % 8 = ic.ctl[b].lvl % 8 /\ a < b

Retired(ic) == {s \in ic.inService :
                  \A t \in ic.inService : t = s \/ EoiBefore(ic, s, t)}

EoiNonspecific(ic) ==
  UpdateInterruptState([ic EXCEPT !.inService = @ \ Retired(ic)])

-----------------------------------------------------------------------------
(* Writes to the peripheral control block (internal_port_w).  Each ends in *)
(* update_interrupt_state; the EOI register runs it a second time.         *)

\* Mutant of WriteEoiNonspecific: no scan after the EOI.
WriteEoiNonspecificSilent(ic) == [ic EXCEPT !.inService = @ \ Retired(ic)]

WriteEoiSpecific(ic, v)  == UpdateInterruptState(EoiSpecific(ic, v))
WriteEoiNonspecific(ic)  == UpdateInterruptState(EoiNonspecific(ic))

\* The mask register sets or clears bit 3 of every control word.
WriteMask(ic, M) ==
  UpdateInterruptState(
    [ic EXCEPT !.ctl = [s \in Sources |->
       [ic.ctl[s] EXCEPT !.lvl = (@ % 8) + (IF s \in M THEN 8 ELSE 0)]]])

WritePriorityMask(ic, p) == UpdateInterruptState([ic EXCEPT !.priorityMask = p])
WriteInService(ic, S)    == UpdateInterruptState([ic EXCEPT !.inService = S])

\* Only the two DMA bits of the request register can be written.
WriteRequest(ic, D) ==
  UpdateInterruptState([ic EXCEPT !.request = (@ \ Dma) \cup D])

WriteStatus(ic, T)  == UpdateInterruptState([ic EXCEPT !.status = T])
WriteCtl(ic, s, c)  == UpdateInterruptState([ic EXCEPT !.ctl[s] = c])

\* Reading the poll register acknowledges when it shows a valid vector.
ReadPoll(ic) == IF ic.poll.valid THEN IntCallback(ic) ELSE ic
=============================================================================
