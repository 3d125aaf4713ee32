------------------------------ MODULE HostFeed ------------------------------
(***************************************************************************)
(* How bytes get from the host's queue into the card: dtalk.cpp's feed()   *)
(* inside dtalk_synth, and the same loop as main() in dtalk_cli.cpp writes *)
(* it for a bare board.  The host looks at RDY, writes, and runs the card  *)
(* for a fixed time before it looks again; nothing but that time keeps it  *)
(* from seeing the RDY of the byte before, and from leaving too early when *)
(* RDY is about to come back.                                              *)
(*                                                                         *)
(* Times are microseconds of machine time (10 cycles).  The card's side is *)
(* external: "RDY drops 2-3us after a write and returns 180-190us later",  *)
(* but not before its buffer has room.  The step that drops RDY is the     *)
(* handler that reads the mailbox (Doorbell has its interrupt).            *)
(***************************************************************************)
EXTENDS Integers, Sequences

CONSTANTS
  AfterByte,     \* the host runs that long after a byte,
  AfterFeed,     \* and that long when it could not write
  Overshoots,    \* run_cycles may run longer, by part of an instruction
  Drops, Backs,  \* external: time from a write to the drop of RDY, and from
                 \* there to its return
  Boots,         \* external: time left, when boot() has given up, to the
                 \* firmware's start
  Room,          \* external: bytes that the card buffers
  MaxBytes, MaxStops   \* bounds of the model

Clear == 0

ASSUME HostFeedAssumption ==
  /\ {AfterByte, AfterFeed} \subseteq Nat \ {0}
  /\ Overshoots \subseteq Nat
  /\ Drops \subseteq Nat /\ Backs \subseteq Nat \ {0} /\ Boots \subseteq Nat \ {0}
  /\ Room \in Nat \ {0} /\ MaxBytes \in Nat /\ MaxStops \in Nat

\* The host runs longer after a write than a card whose firmware has started
\* takes to see it.
ASSUME DropAssumption == \A d \in Drops : d < AfterByte /\ d < AfterFeed

VARIABLES
  queue,    \* bytes not yet written, numbered as the host queued them
  at,       \* where the host is: "host", "feed" (about to look at RDY), "idle"
            \* (fed what it could), "run" (inside run_cycles)
  left,     \* time that run_cycles still runs
  then,     \* where the host goes on after it
  mail,     \* the mailbox: empty, or a byte that waits
  rdy,      \* bit 0x10 of m_tts_status
  up,       \* the firmware has started: it answers INT1
  due,      \* time to the card's next step: taking the byte that waits, or
            \* raising RDY; -1 when it has none
  held,     \* bytes in the card's buffer
  taken,    \* history: the bytes that the card took since it was reset
  count, stops   \* bytes queued, stops and resets made

vars == <<queue, at, left, then, mail, rdy, up, due, held, taken, count, stops>>

Never == -1

Init ==
  /\ queue = <<>> /\ at = "host" /\ left = 0 /\ then = "host"
  /\ mail = <<>> /\ rdy = TRUE /\ up = TRUE /\ due = Never /\ held = 0
  /\ taken = <<>> /\ count = 0 /\ stops = 0

-----------------------------------------------------------------------------
(* The host.                                                               *)

Card == <<mail, rdy, up, due, held, taken>>

\* dtalk_queue; dtalk_say is two of them.
Queue ==
  /\ at = "host" /\ count < MaxBytes
  /\ \E n \in 1..(MaxBytes - count) :
       /\ queue' = queue \o [i \in 1..n |-> count + i]
       /\ count' = count + n
  /\ UNCHANGED <<Card, at, left, then, stops>>

\* dtalk_synth is entered.
Synth == at = "host" /\ at' = "feed" /\ UNCHANGED <<Card, queue, left, then, count, stops>>

\* run_cycles(n), after which the host goes on at p.
Runs(n, p) == at' = "run" /\ then' = p /\ \E o \in Overshoots : left' = n + o

\* host_write: what waits in the mailbox is overwritten.  Before the firmware
\* has started, the byte waits for its start.
HostWrites(b) ==
  /\ mail' = <<b>>
  /\ due' \in IF up THEN Drops ELSE {due}
  /\ UNCHANGED <<rdy, up, held, taken>>

\* Mutant of FeedByte: the host looks again too early.
FeedByteEarly ==
  /\ at = "feed" /\ queue # <<>> /\ rdy
  /\ HostWrites(Head(queue)) /\ queue' = Tail(queue)
  /\ \E n \in 1..AfterByte : Runs(n, "feed")
  /\ UNCHANGED <<count, stops>>

\* A turn of the loop.
FeedByte ==
  /\ at = "feed" /\ queue # <<>> /\ rdy
  /\ HostWrites(Head(queue)) /\ queue' = Tail(queue)
  /\ Runs(AfterByte, "feed")
  /\ UNCHANGED <<count, stops>>

\* Mutant of FeedEnd: the card is not run while the host waits for RDY.
FeedEndIdle ==
  /\ at = "feed" /\ ~(queue # <<>> /\ rdy)
  /\ at' = "idle"
  /\ UNCHANGED <<Card, queue, left, then, count, stops>>

\* The loop ends, and the caller runs the card: a chunk of dtalk_synth, or a
\* turn of the command line's own loop.
FeedEnd ==
  /\ at = "feed" /\ ~(queue # <<>> /\ rdy)
  /\ Runs(AfterFeed, "idle")
  /\ UNCHANGED <<Card, queue, count, stops>>

\* dtalk_synth goes round again, or returns.
FeedAgain ==
  /\ at = "idle" /\ at' \in {"feed", "host"}
  /\ UNCHANGED <<Card, queue, left, then, count, stops>>

\* Mutant of Stop: the bytes not yet written stay queued.
StopKeepsQueue ==
  /\ at = "host" /\ stops < MaxStops
  /\ HostWrites(Clear) /\ Runs(AfterFeed, "host")
  /\ stops' = stops + 1
  /\ UNCHANGED <<count, queue>>

\* dtalk_stop: 0x18 is written whatever RDY says, and a chunk is run.
Stop ==
  /\ at = "host" /\ stops < MaxStops
  /\ queue' = <<>>
  /\ HostWrites(Clear) /\ Runs(AfterFeed, "host")
  /\ stops' = stops + 1
  /\ UNCHANGED count

\* dtalk_reset: the board is reset, and boot() waits for RDY until its limit.
\* Then dtalk_reset returns all the same, with a card that has not started.
Reset ==
  /\ at = "host" /\ stops < MaxStops
  /\ queue' = <<>> /\ mail' = <<>> /\ held' = 0 /\ taken' = <<>>
  /\ \/ rdy' = TRUE /\ up' = TRUE /\ due' = Never
     \/ rdy' = FALSE /\ up' = FALSE /\ due' \in Boots
  /\ stops' = stops + 1
  /\ UNCHANGED <<at, left, then, count>>

-----------------------------------------------------------------------------
(* Time and the card.  It moves only while the host runs it.               *)

Host == <<queue, count, stops>>

\* Time passes to the card's next step or the end of the run.
Pass ==
  /\ at = "run" /\ left > 0 /\ due # 0
  /\ LET d == IF due # Never /\ due < left THEN due ELSE left
     IN  /\ left' = left - d
         /\ due' = IF due = Never THEN Never ELSE due - d
  /\ UNCHANGED <<Host, at, then, mail, rdy, up, held, taken>>

\* run_cycles returns.
Returns ==
  /\ at = "run" /\ left = 0
  /\ at' = then
  /\ UNCHANGED <<Card, Host, left, then>>

\* The handler: mailbox_read, and RDY is dropped.  Clear empties the buffer.
Take ==
  /\ at = "run" /\ due = 0 /\ mail # <<>>
  /\ mail' = <<>> /\ rdy' = FALSE /\ up' = TRUE
  /\ taken' = Append(taken, mail[1])
  /\ held' = IF mail[1] = Clear THEN 0 ELSE held + 1
  /\ due' \in Backs
  /\ UNCHANGED <<Host, at, left, then>>

\* RDY comes back, at the firmware's start for the first time, or has to wait
\* for room.
Raise ==
  /\ at = "run" /\ due = 0 /\ mail = <<>>
  /\ rdy' = (held < Room) /\ up' = TRUE /\ due' = Never
  /\ UNCHANGED <<Host, at, left, then, mail, held, taken>>

\* The card speaks what it buffers, and raises RDY if it waited for that.
Speak ==
  /\ at = "run" /\ held > 0
  /\ held' = held - 1
  /\ rdy' = (rdy \/ due = Never)
  /\ UNCHANGED <<Host, at, left, then, mail, up, due, taken>>

Next == \/ Queue \/ Synth \/ FeedByte \/ FeedEnd \/ FeedAgain \/ Stop \/ Reset
        \/ Pass \/ Returns \/ Take \/ Raise \/ Speak

\* The machine runs when it is run, the card goes on speaking, and the caller
\* comes back for the rest of its audio.
Fairness ==
  /\ WF_vars(Pass) /\ WF_vars(Returns) /\ WF_vars(Take) /\ WF_vars(Raise)
  /\ WF_vars(FeedByte) /\ WF_vars(FeedEnd) /\ WF_vars(FeedAgain)
  /\ SF_vars(Synth) /\ SF_vars(Speak)

Spec == Init /\ [][Next]_vars

FairSpec == Spec /\ Fairness

-----------------------------------------------------------------------------
(* Properties.                                                             *)

\* Type invariant.
TypeOK ==
  /\ queue \in Seq(Nat) /\ taken \in Seq(Nat)
  /\ at \in {"host", "feed", "idle", "run"} /\ then \in {"host", "feed", "idle"}
  /\ left \in Nat /\ due \in Nat \cup {Never}
  /\ mail \in Seq(Nat) /\ Len(mail) \in {0, 1}
  /\ rdy \in BOOLEAN /\ up \in BOOLEAN /\ held \in Nat /\ count \in Nat /\ stops \in Nat

\* host_write's comment: "Overrun silently loses the previous unconsumed
\* byte".  Where the host may write, by feed or by a stop, no byte waits, but
\* on a card whose boot gave up: it gets no byte but the Ctrl-X of a stop,
\* which waits for the firmware longer than dtalk_stop runs the card, and all
\* that a second stop can overwrite is that Ctrl-X, by its own.
NoOverrun == at # "run" => mail = <<>> \/ (~up /\ ~rdy /\ mail = <<Clear>>)

Channel == INSTANCE ByteChannel WITH line <- mail \o queue, got <- taken

\* The bytes reach the card in order and each once, but for those a stop drops.
ImplementsByteChannel == Channel!Spec

\* feed's comment: "so the next loop iteration can feed the next byte instead
\* of stalling to the next chunk".  Right after a byte, feed leaves bytes
\* behind only when the card has no room for them.
FeedsOn ==
  [][FeedEnd /\ then = "feed" => queue = <<>> \/ held = Room]_vars

\* Every byte queued reaches the card or is dropped by a stop.
AllHandedOver == \A b \in 1..MaxBytes :
  (b \in {queue[i] : i \in DOMAIN queue}) ~> (b \notin {queue[i] : i \in DOMAIN queue})
=============================================================================
