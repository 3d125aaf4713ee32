---------------------------- MODULE MCDacStream ----------------------------
(***************************************************************************)
(* A kernel of two writes on each side in place of 8, a write every 2      *)
(* cycles in place of 952 and at most 4 in place of 1024; more is silence. *)
(* Output samples come every 2 or 3 cycles, so that some have a            *)
(* bracket of their own and some share one.                                *)
(***************************************************************************)
EXTENDS DacStream

MCGaps  == {2, 4}
MCWaits == {2, 5}
=============================================================================
