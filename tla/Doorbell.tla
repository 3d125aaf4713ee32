------------------------------ MODULE Doorbell ------------------------------
(***************************************************************************)
(* The path of a byte from the host to the firmware: host_write latches    *)
(* the byte and raises INT1, the interrupt controller of mame/i186.cpp     *)
(* arbitrates it against the sample timer, the firmware's INT1 handler     *)
(* reads the mailbox as its first instruction, which lowers INT1 again.    *)
(*                                                                         *)
(* The firmware is not part of the repository.  It is modelled from what   *)
(* doubletalk_board.cpp and notes/PORTING.md say of it: it programs the    *)
(* control words with interrupts disabled, its INT1 handler reads the      *)
(* mailbox first, and every handler ends its interrupt with a non-specific *)
(* EOI (0x8000 to the EOI register).  Whether it enables interrupts inside *)
(* a handler is not said, so it may.  What the board and the firmware do   *)
(* to the controller are steps of InterruptController.                     *)
(***************************************************************************)
EXTENDS InterruptController, Sequences

CONSTANTS
  MaxWrites,    \* bound on the host's writes
  MaxDepth      \* bound on nested handlers

INT1 == 5

\* The sources the card uses: the timers, one of which paces the DAC, and INT1.
Used == {TMR, INT1}

\* This firmware leaves I1CON 0 but for priority and mode of trigger: neither
\* cascade nor special fully nested (notes/investigation-audio-path.md:106).
ASSUME DoorbellAssumption ==
  /\ MaxWrites \in Nat /\ MaxDepth \in Nat \ {0}
  /\ Used \subseteq Sources
  /\ \A c \in CtlWords : ~c.cascade /\ ~c.sfnm

VARIABLES
  mailbox,      \* [data, pending]: m_mailbox_data, m_mailbox_pending
  frames,       \* the firmware's handlers, innermost first: the source, whether
                \* it has read the mailbox, and whether it has issued its EOI
  iflag,        \* the CPU's IF
  programmed,   \* the sources whose control words the firmware has written
  written, taken \* history: bytes written, last byte read while pending

doorbellVars == <<ic, mailbox, frames, iflag, programmed, written, taken>>

Booted == programmed = Used

-----------------------------------------------------------------------------
DoorbellInit ==
  /\ Init
  /\ mailbox = [data |-> 0, pending |-> FALSE]
  /\ frames = <<>>
  /\ iflag = FALSE /\ programmed = {}
  /\ written = 0 /\ taken = 0

\* host_write: no handshake is tested here, so it may come at any time
\* (dtalk_stop writes Ctrl-X whatever RDY says).
HostWrite ==
  /\ written < MaxWrites
  /\ written' = written + 1
  /\ mailbox' = [data |-> written', pending |-> TRUE]
  /\ ic' = ExternalInt(ic, INT1, TRUE)
  /\ UNCHANGED <<frames, iflag, programmed, taken>>

\* Mutant of BoardReset: the controller is not reset with the mailbox.
BoardResetHalf ==
  /\ mailbox' = [data |-> 0, pending |-> FALSE]
  /\ frames' = <<>> /\ iflag' = FALSE /\ programmed' = {}
  /\ UNCHANGED <<ic, written, taken>>

\* board reset: the CPU's device_reset, an empty mailbox, IF clear.
BoardReset ==
  /\ Reset
  /\ mailbox' = [data |-> 0, pending |-> FALSE]
  /\ frames' = <<>> /\ iflag' = FALSE /\ programmed' = {}
  /\ UNCHANGED <<written, taken>>

\* The timers run from boot on, also while their handler does.
TimerElapse ==
  /\ Booted /\ Elapse
  /\ UNCHANGED <<mailbox, frames, iflag, programmed, written, taken>>

\* execute_run's dispatch: INT_IRQ pending and IF set.  int_callback runs, the
\* vector selects the handler, IF is cleared.
HandlerOf(v) == IF v \in {8, 18, 19} THEN TMR ELSE IF v = 13 THEN INT1 ELSE -1

Acknowledge ==
  /\ CpuAcknowledge /\ iflag /\ Len(frames) < MaxDepth
  /\ frames' = <<[src |-> HandlerOf(AckVector(ic)), read |-> FALSE, ended |-> FALSE]>>
               \o frames
  /\ iflag' = FALSE
  /\ UNCHANGED <<mailbox, programmed, written, taken>>

-----------------------------------------------------------------------------
(* The firmware.                                                           *)

Running(src) == frames # <<>> /\ Head(frames).src = src

\* Boot: TCUCON and I1CON are written with interrupts disabled.
Boot ==
  /\ \E s \in Used \ programmed, c \in CtlWords :
       /\ CtlFits(s, c)
       /\ ic' = WriteCtl(ic, s, c)
       /\ programmed' = programmed \cup {s}
  /\ UNCHANGED <<mailbox, frames, iflag, written, taken>>

\* Mutant of MailboxRead: the byte stays pending.
MailboxReadKeepsByte ==
  /\ Running(INT1) /\ ~Head(frames).read
  /\ frames' = [frames EXCEPT ![1].read = TRUE]
  /\ taken' = mailbox.data
  /\ ic' = ExternalInt(ic, INT1, FALSE)
  /\ UNCHANGED <<mailbox, iflag, programmed, written>>

\* mailbox_read, reached only from the INT1 handler's first instruction.
MailboxRead ==
  /\ Running(INT1) /\ ~Head(frames).read
  /\ frames' = [frames EXCEPT ![1].read = TRUE]
  /\ taken' = mailbox.data
  /\ mailbox' = [mailbox EXCEPT !.pending = FALSE]
  /\ ic' = ExternalInt(ic, INT1, FALSE)
  /\ UNCHANGED <<iflag, programmed, written>>

MayProceed == frames # <<>> /\ (Running(INT1) => Head(frames).read)

EndInterrupt ==
  /\ MayProceed /\ ~Head(frames).ended
  /\ frames' = [frames EXCEPT ![1].ended = TRUE]
  /\ ic' = WriteEoiNonspecific(ic)
  /\ UNCHANGED <<mailbox, iflag, programmed, written, taken>>

Return ==
  /\ MayProceed /\ Head(frames).ended
  /\ frames' = Tail(frames)
  /\ iflag' = TRUE
  /\ UNCHANGED <<ic, mailbox, programmed, written, taken>>

\* The main program brackets critical sections, the first of which is the boot;
\* a handler may re-enable.
Disable == /\ Booted /\ frames = <<>> /\ iflag
           /\ iflag' = FALSE
           /\ UNCHANGED <<ic, mailbox, frames, programmed, written, taken>>

Enable == /\ Booted /\ ~iflag /\ (frames # <<>> => MayProceed)
          /\ iflag' = TRUE
          /\ UNCHANGED <<ic, mailbox, frames, programmed, written, taken>>

DoorbellNext ==
        \/ HostWrite \/ BoardReset \/ TimerElapse \/ Acknowledge
        \/ Boot \/ MailboxRead \/ EndInterrupt \/ Return \/ Disable \/ Enable

DoorbellSafe == DoorbellInit /\ [][DoorbellNext]_doorbellVars

\* The CPU runs.  The timer's handler is shorter than its period, overruns
\* pass (doubletalk_board.h measured 907 to 998 cycles between the handler's
\* writes to the DAC, 952 nominal): between two timer interrupts the
\* interrupted program gets on, INT1 is acknowledged in one of the gaps, and
\* the main program ends its critical sections: strong fairness.
Overrun == TimerElapse /\ \E i \in DOMAIN frames : frames[i].src = TMR

Fairness ==
  /\ <>[][~Overrun]_doorbellVars
  /\ WF_doorbellVars(Boot) /\ WF_doorbellVars(MailboxRead)
  /\ SF_doorbellVars(Acknowledge /\ ic.ackMask = {INT1})
  /\ SF_doorbellVars(Acknowledge /\ ic.ackMask = {TMR})
  /\ SF_doorbellVars(Running(INT1) /\ EndInterrupt) /\ SF_doorbellVars(Running(TMR) /\ EndInterrupt)
  /\ SF_doorbellVars(Running(INT1) /\ Return) /\ SF_doorbellVars(Running(TMR) /\ Return)
  /\ SF_doorbellVars(frames = <<>> /\ Enable)

DoorbellSpec == DoorbellSafe /\ Fairness

-----------------------------------------------------------------------------
(* Properties.                                                             *)

\* No spurious doorbell: when the INT1 handler is about to read the mailbox a
\* byte waits there, so no byte is taken twice.
NoSpuriousRead == Running(INT1) /\ ~Head(frames).read => mailbox.pending

\* The EOI ends the handler that issues it: the source a non-specific EOI
\* retires is the one of the innermost handler that has not ended.  Retiring
\* an outer handler's source would let it interrupt itself.
Unended == {i \in DOMAIN frames : ~frames[i].ended}
EoiMatchesHandler ==
  Unended # {} =>
    Retired(ic) = {frames[CHOOSE i \in Unended : \A j \in Unended : i <= j].src}

\* The board implements the one-place mailbox, and a byte that waits in it is
\* read, whatever the sample timer does (notes/PORTING.md, "Host protocol": a
\* timed deassert silently dropped interrupts; the read-triggered one must not).
Port == INSTANCE Mailbox WITH slot <- IF mailbox.pending THEN mailbox.data ELSE 0
ImplementsMailbox == Port!Safe
EventuallyServed  == Port!Served
=============================================================================
