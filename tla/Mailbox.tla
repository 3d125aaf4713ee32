------------------------------ MODULE Mailbox ------------------------------
(***************************************************************************)
(* What the card's input port promises its host: a one-place register.  A  *)
(* write replaces an unread byte (doubletalk_board.cpp, host_write), the   *)
(* firmware takes each byte at most once and in order, a reset empties the *)
(* register, and a byte that waits is eventually taken or replaced.        *)
(*                                                                         *)
(* Bytes are named by the number of the write that brought them.           *)
(***************************************************************************)
EXTENDS Naturals

CONSTANT MaxWrites     \* bound on the host's writes, for model checking

VARIABLES
  written,   \* number of bytes the host has written
  slot,      \* the byte that waits, 0 when there is none
  taken      \* the last byte the firmware took

mailboxVars == <<written, slot, taken>>

Init == written = 0 /\ slot = 0 /\ taken = 0

Write == /\ written < MaxWrites
         /\ written' = written + 1
         /\ slot' = written'
         /\ UNCHANGED taken

Take == /\ slot # 0
        /\ taken' = slot
        /\ slot' = 0
        /\ UNCHANGED written

Clear == /\ slot' = 0
         /\ UNCHANGED <<written, taken>>

Next == Write \/ Take \/ Clear

\* A waiting byte does not wait for ever.
Served == (slot # 0) ~> (slot = 0)

Safe == Init /\ [][Next]_mailboxVars

Spec == Safe /\ Served
=============================================================================
