-------------------------- MODULE MCLongArithmetic --------------------------
(***************************************************************************)
(* Bytes, two limbs.  The binary limbs are the ends of both number ranges  *)
(* and one value between; the decimal ones hold the digits at which the    *)
(* adjustments begin; the counts go round the width (8, and 9 with carry)  *)
(* and beyond the five bits the processor looks at.                        *)
(***************************************************************************)
EXTENDS LongArithmetic

MCBinary == {0, 1, 86, 127, 128, 255}
MCPacked == {0, 1, 9, 16, 85, 120, 136, 153}
MCDigits == {0, 1, 4, 5, 9}
MCCounts == {0, 1, 7, 8, 9, 17, 24, 33}
=============================================================================
