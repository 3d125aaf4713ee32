---------------------------- MODULE DtalkSession ----------------------------
(***************************************************************************)
(* The C API of dtalk.cpp: one instance, its input queue, the stream of    *)
(* samples it hands out and the index marks it places in that stream.      *)
(*                                                                         *)
(* Time is counted in CPU cycles.  Sample n of the board's output grid is  *)
(* taken at cycle n * Hz / Rate (pull_samples); index events carry the     *)
(* cycle at which the firmware wrote them.  The instance maps one to the   *)
(* other, past what boot and dtalk_stop have thrown away.  Sample values   *)
(* and text are not modelled, only how many there are.                     *)
(*                                                                         *)
(* The firmware is not part of the repository: "card" is what dtalk.cpp    *)
(* relies on (RDY, SYNC and the two buffer pointers, index events).        *)
(***************************************************************************)
EXTENDS Integers, Sequences

CONSTANTS
  Hz, Rate,     \* CPU_HZ and SAMPLE_RATE, scaled
  Chunk,        \* RUN_CHUNK_CYCLES
  FeedGap,      \* cycles run after each byte in feed()
  Settle,       \* IDLE_SETTLE_CYCLES
  Margin,       \* the lookahead pull_samples holds back
  BootStep, BootLimit, Swallow,  \* the three constants of boot()
  Overshoots,   \* how far run_cycles may run past its target
  BootTime,     \* external: longest time the firmware takes to raise RDY
  Gap,          \* external: longest time a card with work looks idle
  Requests,     \* values of max_samples
  MaxQueue, MaxMarks, MaxTime   \* bounds of the model

ASSUME SessionAssumption ==
  /\ {Hz, Rate, Chunk, FeedGap, Settle, BootStep, BootTime} \subseteq Nat \ {0}
  /\ {Margin, BootLimit, Swallow, Gap, MaxQueue, MaxMarks, MaxTime} \subseteq Nat
  /\ Overshoots \subseteq Nat /\ Requests \subseteq Nat \ {0}
  /\ Rate <= Hz

\* IDLE_SETTLE_CYCLES "covers the firmware's own latency" (dtalk.cpp:106), and
\* is far longer than the lookahead.
ASSUME SettleAssumption == Gap < Settle /\ Margin <= Settle

VARIABLES
  now,      \* now_cycles()
  grid,     \* m_next_sample_index
  events,   \* m_index_events
  card,     \* the firmware
  queue,    \* bytes not yet accepted by the card
  carry,    \* samples pulled and not delivered
  marks,    \* marks not yet read by the host
  base, dropped,   \* samples_base, samples_dropped
  idle,     \* idle_stable
  call,     \* the dtalk_synth call in progress
  delivered, since \* history: samples delivered since create or reset; the
                   \* cycle at which the last stop or reset ended

vars == <<now, grid, events, card, queue, carry, marks, base, dropped, idle,
          call, delivered, since>>

-----------------------------------------------------------------------------
(* The output grid.                                                        *)

\* The sample that sounds at cycle t, and the number of samples taken before t.
SampleAt(t)      == (t * Rate) \div Hz
SamplesBefore(t) == (t * Rate + Hz - 1) \div Hz

Larger(a, b) == IF a > b THEN a ELSE b

\* pull_samples: the grid advances to the horizon, never back.
Pulled(g, t, drain) == Larger(g, SamplesBefore(t - (IF drain THEN 0 ELSE Margin)))

-----------------------------------------------------------------------------
(* The card.  It has work from the byte it accepts to the end of speech.   *)
(* "busy" is what card_busy() sees of that: SYNC, which is up as long as   *)
(* there is speech, and the buffer pointers.  "hidden" is for how long it  *)
(* has seen nothing although there was work, "heard" the last cycle with   *)
(* speech.  Speech lasts longer than one chunk, so card_busy() sees it.    *)

Event == [at : Nat, marker : BOOLEAN]     \* marker FALSE: the idle value 0x7f

Ready(t) == [up |-> TRUE, upBy |-> t, work |-> FALSE, busy |-> FALSE,
             hidden |-> 0, heard |-> t]
Down(t)  == [Ready(t) EXCEPT !.up = FALSE, !.upBy = t + BootTime]

\* A card with work after running from cycle t to u: still hidden, done without
\* speech (a command), speaking, or done speaking.
Later(c, t, u) ==
  {d \in {[c EXCEPT !.busy = FALSE, !.hidden = @ + (u - t)]} : d.hidden <= Gap}
  \cup (IF c.busy THEN {[c EXCEPT !.work = FALSE, !.busy = FALSE, !.hidden = 0, !.heard = x] : x \in t..u}
        ELSE {[c EXCEPT !.work = FALSE, !.hidden = 0]})
  \cup {[c EXCEPT !.busy = TRUE, !.hidden = 0, !.heard = u]}

\* Every outcome of running a card c from cycle t to cycle u.
Runs(c, t, u) ==
  IF ~c.up
    THEN (IF u < c.upBy THEN {[card |-> c, said |-> <<>>]} ELSE {})
         \cup {[card |-> Ready(u), said |-> <<[at |-> x, marker |-> FALSE]>>] : x \in t..u}
  ELSE IF ~c.work
    THEN {[card |-> c, said |-> <<>>]}
  ELSE {[card |-> d, said |-> <<>>] : d \in Later(c, t, u)}
       \cup {r \in [card : {d \in Later(c, t, u) : c.busy \/ d.busy},
                    said : {<<[at |-> x, marker |-> TRUE]>> : x \in t..u}] :
               r.said[1].at <= r.card.heard}

\* host_write of a byte that the card accepts.
Accepts(c) == [c EXCEPT !.work = TRUE, !.hidden = IF c.work THEN @ ELSE 0]

-----------------------------------------------------------------------------
(* boot(): run until RDY or the time limit, swallow the power-on audio.    *)

\* Where the loop of boot() stops, started at cycle t, when RDY rises at r.
\* The limit is a cycle of the machine's clock, which a reset does not rewind.
BootEnd(t, r) ==
  LET stops == {k \in 0..(BootTime + 1) :
                  t + k * BootStep >= r \/ t + k * BootStep >= BootLimit}
  IN  t + BootStep * (CHOOSE k \in stops : \A j \in stops : k <= j)

BootResults(t) == {[ok |-> r <= BootEnd(t, r), rdy |-> r,
                    end |-> BootEnd(t, r) + (IF r <= BootEnd(t, r) THEN Swallow ELSE 0)] :
                   r \in t + 1 .. t + BootTime}

\* The host is not inside dtalk_synth.  In a call, "left" samples still fit the
\* buffer; "start" is history, the samples delivered before the call.
Host == [phase |-> "host", left |-> 0, start |-> 0]

\* dtalk_create returns an instance only when boot succeeds.
Init ==
  /\ \E b \in BootResults(0) :
       /\ b.ok
       /\ now = b.end
       /\ grid = Pulled(0, b.end, TRUE)
       /\ base = SampleAt(b.end)
       /\ card = Ready(b.end)
       /\ since = b.end
  /\ queue = 0 /\ carry = 0 /\ marks = <<>> /\ events = <<>>
  /\ dropped = 0 /\ idle = 0 /\ delivered = 0 /\ call = Host

\* dtalk_reset.  The result of boot() is ignored: when it gives up, base and
\* the pending audio stay as they were.
ResetInstance ==
  /\ call = Host /\ now < MaxTime
  /\ \E b \in BootResults(now) :
       /\ now' = b.end
       /\ since' = b.end
       /\ grid' = IF b.ok THEN Pulled(grid, b.end, TRUE) ELSE grid
       /\ base' = IF b.ok THEN SampleAt(b.end) ELSE base
       /\ card' = IF b.ok THEN Ready(b.end) ELSE [Down(now) EXCEPT !.upBy = b.rdy]
  /\ queue' = 0 /\ carry' = 0 /\ marks' = <<>> /\ events' = <<>>
  /\ dropped' = 0 /\ idle' = 0 /\ delivered' = 0
  /\ UNCHANGED call

-----------------------------------------------------------------------------
(* Calls that return at once.                                              *)

\* Mutant of Queue: idle_stable is not restarted.
QueueKeepsIdle ==
  /\ call = Host /\ now < MaxTime
  /\ \E n \in 1..(MaxQueue - queue) : queue' = queue + n
  /\ UNCHANGED <<now, grid, events, card, carry, marks, base, dropped, idle, call,
                 delivered, since>>

\* dtalk_queue
Queue ==
  /\ call = Host /\ now < MaxTime
  /\ \E n \in 1..(MaxQueue - queue) : queue' = queue + n
  /\ idle' = 0
  /\ UNCHANGED <<now, grid, events, card, carry, marks, base, dropped, call,
                 delivered, since>>

\* Mutants of Stop: the carried samples are not counted; the index events of
\* the cancelled speech are left on the board.
StopForgetsCarry ==
  /\ call = Host /\ now < MaxTime
  /\ \E o \in Overshoots :
       LET u == now + Chunk + o
           g == Pulled(grid, u, TRUE)
       IN  /\ now' = u /\ since' = u
           /\ grid' = g
           /\ dropped' = dropped + (g - grid)
           /\ card' = IF card.up THEN Ready(u) ELSE card
  /\ queue' = 0 /\ carry' = 0 /\ marks' = <<>> /\ events' = <<>> /\ idle' = 0
  /\ UNCHANGED <<base, call, delivered>>

StopKeepsEvents ==
  /\ call = Host /\ now < MaxTime
  /\ \E o \in Overshoots, r \in Runs(card, now, now + Chunk) :
       LET u == now + Chunk + o
           g == Pulled(grid, u, TRUE)
       IN  /\ now' = u /\ since' = u
           /\ grid' = g
           /\ dropped' = dropped + (g - grid) + carry
           /\ card' = Ready(u)
           /\ events' = r.said
  /\ queue' = 0 /\ carry' = 0 /\ marks' = <<>> /\ idle' = 0
  /\ UNCHANGED <<base, call, delivered>>

\* dtalk_stop: Ctrl-X without handshake, one chunk for the firmware to react
\* (external: it then has dropped its work), everything pulled and discarded.
Stop ==
  /\ call = Host /\ now < MaxTime
  /\ \E o \in Overshoots, r \in Runs(card, now, now + Chunk) :
       LET u == now + Chunk + o
           g == Pulled(grid, u, TRUE)
       IN  /\ now' = u /\ since' = u
           /\ grid' = g
           /\ dropped' = dropped + (g - grid) + carry
           /\ card' = IF r.card.up THEN Ready(u) ELSE r.card
  /\ queue' = 0 /\ carry' = 0 /\ marks' = <<>> /\ events' = <<>> /\ idle' = 0
  /\ UNCHANGED <<base, call, delivered>>

\* dtalk_read_index_marks: the oldest n.
ReadMarks ==
  /\ call = Host
  /\ \E n \in 1..Len(marks) : marks' = SubSeq(marks, n + 1, Len(marks))
  /\ UNCHANGED <<now, grid, events, card, queue, carry, base, dropped, idle, call,
                 delivered, since>>

-----------------------------------------------------------------------------
(* dtalk_synth and dtalk_synth16: the same loop.                           *)

Smaller(a, b) == IF a < b THEN a ELSE b

\* drain_carry of n available samples, and the return when the buffer is full.
Drain(c, n) ==
  LET take == Smaller(n, c.left)
  IN  /\ carry' = n - take
      /\ delivered' = delivered + take
      /\ call' = IF take = c.left THEN Host
                 ELSE [c EXCEPT !.left = @ - take, !.phase = "feed"]

SynthEnter ==
  /\ call = Host /\ now < MaxTime
  /\ \E m \in Requests :
       Drain([phase |-> "feed", left |-> m, start |-> delivered], carry)
  /\ UNCHANGED <<now, grid, events, card, queue, marks, base, dropped, idle, since>>

\* One turn of feed(): the card is RDY, takes a byte and runs on.
FeedByte ==
  /\ call.phase = "feed"
  /\ queue > 0 /\ card.up
  /\ queue' = queue - 1
  /\ \E o \in Overshoots :
       LET u == now + FeedGap + o
       IN  \E r \in Runs(Accepts(card), now, u) :
             /\ now' = u
             /\ card' = r.card
             /\ events' = events \o r.said
  /\ UNCHANGED <<grid, carry, marks, base, dropped, idle, call, delivered, since>>

\* feed() ends when nothing is queued or RDY is low, which it may be whenever
\* the card is down or has work.
FeedEnd ==
  /\ call.phase = "feed"
  /\ queue > 0 /\ card.up => card.work
  /\ call' = [call EXCEPT !.phase = "run"]
  /\ UNCHANGED <<now, grid, events, card, queue, carry, marks, base, dropped, idle,
                 delivered, since>>

LooksIdle == queue = 0 /\ ~card.busy

\* The loop is left once the card has looked idle for the settle time.
SynthIdle ==
  /\ call.phase = "run"
  /\ LooksIdle /\ idle >= Settle
  /\ call' = Host
  /\ UNCHANGED <<now, grid, events, card, queue, carry, marks, base, dropped, idle,
                 delivered, since>>

\* Where an index event of cycle t falls in the delivered stream.
StreamPosition(t) == Larger(SampleAt(t) - (base + dropped), 0)

\* pull()'s marks, with the history the properties need.
Placed(evs) ==
  [i \in DOMAIN evs |-> [pos |-> StreamPosition(evs[i].at), at |-> evs[i].at,
                         marker |-> evs[i].marker, early |-> call.start]]

\* The rest of the loop's body: run a chunk, pull, drain.
SynthChunk ==
  /\ call.phase = "run"
  /\ ~(LooksIdle /\ idle >= Settle)
  /\ Len(marks) + Len(events) < MaxMarks
  /\ idle' = IF LooksIdle THEN idle + Chunk ELSE 0
  /\ \E o \in Overshoots :
       LET u == now + Chunk + o
           g == Pulled(grid, u, FALSE)
       IN  \E r \in Runs(card, now, u) :
             /\ now' = u
             /\ card' = r.card
             /\ grid' = g
             /\ marks' = marks \o Placed(events \o r.said)
             /\ events' = <<>>
             /\ Drain(call, carry + (g - grid))
  /\ UNCHANGED <<queue, base, dropped, since>>

Next == \/ ResetInstance \/ Queue \/ Stop \/ ReadMarks
        \/ SynthEnter \/ FeedByte \/ FeedEnd \/ SynthIdle \/ SynthChunk

Spec == Init /\ [][Next]_vars

-----------------------------------------------------------------------------
(* Properties.                                                             *)

\* The sample of the delivered stream that sounds at cycle t, from the grid
\* alone: the stream's samples so far, less those that come after t.
TruePosition(t) == delivered + carry - (grid - SampleAt(t))

\* Marks are placed where they sound: each unread mark names the sample of
\* the delivered stream at which the firmware wrote it, to within one sample,
\* however often speech was cancelled before (drop_pending_audio's comment:
\* "otherwise every mark after a cancel would fire late by the running total
\* of discarded audio").  One sample is what boot's rounding leaves.
MarksArePlaced ==
  \A i \in DOMAIN marks :
    marks[i].pos - Larger(TruePosition(marks[i].at), 0) \in 0..1

\* No mark of cancelled speech: a mark read after dtalk_stop or dtalk_reset was
\* written after it, and no mark comes after its sample was handed out by an
\* earlier dtalk_synth call.
MarksAreCurrent ==
  \A i \in DOMAIN marks : /\ marks[i].at >= since
                          /\ marks[i].pos + 1 >= marks[i].early

\* dtalk_synth comes back short only when speech is done (dtalk.h: "0 only
\* once idle"): nothing is queued, the card has no work, and every sample up
\* to the end of the speech has been handed out.
ShortMeansDone ==
  [][SynthIdle => /\ queue = 0 /\ ~card.work /\ carry = 0
                  /\ SamplesBefore(card.heard) <= grid]_vars
=============================================================================

