------------------------ MODULE InterruptController ------------------------
(***************************************************************************)
(* The interrupt controller as a component: its state "ic" under every     *)
(* sequence of line changes, timer expiries, register writes and           *)
(* acknowledges that the CPU and the board can make.                       *)
(***************************************************************************)
EXTENDS InterruptLogic

CONSTANTS
  CtlWords,      \* control words the firmware writes
  PriorityMasks, \* priority masks it writes
  Elapsing,      \* timers that run with their INT bit set
  Rewrites       \* TRUE: registers are also rewritten while a source is in
                 \* service; FALSE: only between interrupts, and in-service
                 \* bits are written only to clear them

ASSUME ParameterAssumption ==
  /\ CtlWords \subseteq Ctl
  /\ PriorityMasks \subseteq 0..7
  /\ Elapsing \subseteq Timers
  /\ Rewrites \in BOOLEAN

VARIABLE ic

MayRewrite == Rewrites \/ ic.inService = {}

-----------------------------------------------------------------------------
Init == ic = PowerOn

RaiseLine == \E s \in Ext : s \notin ic.extState /\ ic' = ExternalInt(ic, s, TRUE)
DropLine  == \E s \in Ext : s \in ic.extState /\ ic' = ExternalInt(ic, s, FALSE)

Elapse == \E t \in Elapsing : TMR \in Sources /\ ic' = TimerRequest(ic, t)

\* interrupt(-1): the CPU answers the INTR line when its IF allows.
CpuAcknowledge == ic.intr /\ ic' = IntCallback(ic)

PollAcknowledge == ic.poll.valid /\ ic' = ReadPoll(ic)

\* A specific EOI's five bits need not name a source.
EndOfInterrupt == \/ ic' = WriteEoiNonspecific(ic)
                  \/ \E v \in 0..31 : ic' = WriteEoiSpecific(ic, v)

WriteMaskRegister ==
  /\ MayRewrite
  /\ \E M \in SUBSET Sources : ic' = WriteMask(ic, M)

WritePriorityMaskRegister ==
  /\ MayRewrite
  /\ \E p \in PriorityMasks : ic' = WritePriorityMask(ic, p)

WriteControlRegister ==
  /\ MayRewrite
  /\ \E s \in Sources \ Dma, c \in CtlWords : CtlFits(s, c) /\ ic' = WriteCtl(ic, s, c)

WriteInServiceRegister ==
  \E S \in SUBSET Sources :
    /\ Rewrites \/ S \subseteq ic.inService
    /\ ic' = WriteInService(ic, S)

WriteRequestRegister == \E D \in SUBSET Dma : ic' = WriteRequest(ic, D)

WriteStatusRegister == \E T \in SUBSET Elapsing : TMR \in Sources /\ ic' = WriteStatus(ic, T)

Reset == ic' = DeviceReset(ic)

Next == \/ RaiseLine \/ DropLine \/ Elapse
        \/ CpuAcknowledge \/ PollAcknowledge \/ EndOfInterrupt
        \/ WriteMaskRegister \/ WritePriorityMaskRegister \/ WriteControlRegister
        \/ WriteInServiceRegister \/ WriteRequestRegister \/ WriteStatusRegister
        \/ Reset

Spec == Init /\ [][Next]_ic

-----------------------------------------------------------------------------
(* Type invariant of the controller's registers.                           *)
TypeOK == ICOk(ic)

\* A line in both level-triggered and special fully nested mode keeps its
\* request through the acknowledge and asks again at once, but int_callback
\* does not run update_interrupt_state: the second interrupt waits for the
\* next register write or line change.
SelfNesting(c) == \E s \in Sources : c.ctl[s].ltm /\ c.ctl[s].sfnm

\* No lost interrupt: after every handler of i186.cpp, if the priority scan
\* would deliver a request then the CPU's INTR line is already asserted for
\* it.  No request can sit unnoticed in the controller until some unrelated
\* event happens to run the scan.
NoLostInterrupt ==
  ~SelfNesting(ic) =>
    \A s \in Sources : IsFirst(ic, s) /\ Wants(ic, s) => ic.intr

\* A source in service ends the scan.  Reached with INTR up, this leaves INTR,
\* pending, the acknowledge mask and the vector as an earlier scan set them.
Suspended(c) == c.intr /\ \E s \in Sources : IsFirst(c, s) /\ Blocks(c, s)

\* After a reset every source is masked and pending is clear; the CPU's line
\* may still be up.
Unprogrammed(c) == Scanned(c) = {} /\ ~c.pending

\* The inductive form, in both directions.  A winner is asserted, with its own
\* acknowledge mask and vector.  INTR is up only for a winner, but for two
\* cases in which the code leaves it up: Suspended and Unprogrammed.
\* update_interrupt_state raises INTR only when pending was clear, so pending
\* without INTR would silence the controller for good.
Winner(c) ==
  /\ c.pending => c.intr
  /\ ~SelfNesting(c) => \A s \in Sources :
       IsFirst(c, s) /\ Wants(c, s) =>
         /\ c.intr /\ c.pending /\ c.ackMask = {s}
         /\ c.poll = [valid |-> TRUE, vector |-> VectorOf(c, s)]
  /\ c.intr => \/ \E s \in Sources : IsFirst(c, s) /\ Wants(c, s)
               \/ Suspended(c) \/ Unprogrammed(c)

\* An acknowledge serves the winner of the scan made after the last change of
\* a register or a line, unless a source in service suspended that scan or no
\* source is programmed yet: Winner holds after every handler.
WinnerAsserted == Winner(ic)

\* A suspended INTR is a withdrawn request's: a line that fell, or a timer or
\* DMA request cleared by a store, while a source of lower priority was in
\* service.  What the acknowledge would serve has stopped asking; no request
\* that still stands is answered with the mask or vector of an older scan.
\* It holds when control words change only between interrupts.
StaleIsWithdrawn ==
  ~Rewrites /\ Suspended(ic) => \A s \in ic.ackMask : ~Requesting(ic, s)

\* Strict nesting (notes/PORTING.md, "Interrupt dispatch": a lower-priority
\* source is not even looked at while a higher one is in service): an
\* acknowledge puts in service only a source that precedes all those already
\* in service.  It holds when control words change only between interrupts.
StrictNesting ==
  [][\A s \in ic'.inService \ ic.inService, t \in ic.inService :
       Before(ic, s, t)]_ic

\* Nothing is forgotten: a latched request or timer event disappears only by
\* being put in service, by its line being withdrawn, by a register write
\* that names it, by a cascade word that turns its line into an output, or by
\* a reset.  In particular the acknowledge of one timer keeps the others.
NothingForgotten ==
  [][/\ \A s \in ic.request \ ic'.request :
          \/ s \in ic'.inService
          \/ s \in Ext /\ s \notin ic'.extState
          \/ s \in Dma /\ (WriteRequestRegister \/ Reset)
          \/ Cascaded(ic', s)
     /\ Cardinality(ic.status \ ic'.status) > 1 =>
          WriteStatusRegister \/ Reset]_ic
=============================================================================
