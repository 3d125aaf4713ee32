----------------------------- MODULE MCDoorbell -----------------------------
(* A small instance of Doorbell: the card's two active sources; either one  *)
(* ahead or both on one level, INT1 by edge or by level.                    *)
EXTENDS Doorbell

Word(n, l) == [lvl |-> n, ltm |-> l, cascade |-> FALSE, sfnm |-> FALSE]
CardWords  == {Word(n, l) : n \in {0, 2}, l \in BOOLEAN}
=============================================================================
