---------------------------- MODULE ByteChannel ----------------------------
(***************************************************************************)
(* What dtalk_queue promises (dtalk.h: "delivered to the card RDY-gated as *)
(* it accepts them"): the bytes of a session reach the card in the order   *)
(* they were queued, each of them once, unless a stop drops the line.  A   *)
(* stop puts the Clear command in front, and nothing overtakes it.         *)
(***************************************************************************)
EXTENDS Naturals, Sequences

CONSTANT Clear      \* the byte 0x18

VARIABLES
  line,     \* bytes on their way, the next one first
  got       \* the bytes that the card took since it was reset

channelVars == <<line, got>>

Init == line = <<>> /\ got = <<>>

Put == /\ line' \in Seq(Nat)
       /\ line' = line \o SubSeq(line', Len(line) + 1, Len(line'))
       /\ got' = got

Arrive == /\ line # <<>>
          /\ got' = Append(got, Head(line))
          /\ line' = Tail(line)

Stop == line' = <<Clear>> /\ got' = got

Reset == line' = <<>> /\ got' = <<>>

Spec == Init /\ [][Put \/ Arrive \/ Stop \/ Reset]_channelVars
=============================================================================
