-------------------------- MODULE MCRegisterBlock --------------------------
(* A small instance of RegisterBlock: two timers and the cascade pair       *)
(* INT0/INT2, on two priorities.  The program writes the EOI, mask,         *)
(* in-service and status registers, two control words, an offset without a  *)
(* register and the relocation register, and reads POLL.                    *)
EXTENDS RegisterBlock, TLC

CascadeWords   == {Level(0), Level(1), Level(7),
                   [lvl |-> 7, ltm |-> TRUE, cascade |-> TRUE, sfnm |-> FALSE]}

Seven == {0, 1, 2, 4, 5}       \* level 7, level-triggered, cascade: 0x37
SomeWords ==
  1 :> {{15}, {3}} @@              \* EOI: non-specific, timers
  2 :> {} @@                       \* POLL
  4 :> {{4, 6}} @@
  6 :> {{}} @@
  8 :> {{1}} @@
  9 :> {{0}} @@
  12 :> {{0}, Seven} @@
  22 :> {{}} @@
  84 :> {{0, 1, 2, 3, 4, 5, 6, 7, 12}}
SomePages == {0..7}
=============================================================================
