--------------------------- MODULE MCDtalkSession ---------------------------
(* Small instances of DtalkSession: 2 cycles to a sample and odd intervals, so *)
(* that the conversions between them round.                                   *)
EXTENDS DtalkSession
=============================================================================
