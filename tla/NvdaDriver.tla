----------------------------- MODULE NvdaDriver -----------------------------
(***************************************************************************)
(* The NVDA synthesizer driver: NVDA's main thread calls speak, cancel and *)
(* terminate, the driver's own thread runs _synthLoop.  They share the     *)
(* queue of utterances, the _stopping event, the mark map and, under       *)
(* _libLock, the dtalk instance.  One step of a thread is one access to    *)
(* something shared; a "with self._libLock" block is one step.             *)
(*                                                                         *)
(* The instance is modelled by what DtalkSession shows of it: it hands out *)
(* samples and places marks in them.  A chunk counts as one sample.  The   *)
(* WavePlayer is NVDA's and external: feed queues a chunk and blocks while *)
(* its buffer is full, a chunk's onDone runs when it has been played, idle *)
(* waits for the end of playback, stop drops what has not been played.     *)
(***************************************************************************)
EXTENDS Integers, Sequences, FiniteSets

CONSTANTS
  MaxUtterances,  \* bound on the calls of speak
  MaxCancels,     \* bound on the calls of cancel
  Length,         \* chunks of an utterance
  MarksEach,      \* index commands of an utterance, the k-th in its k-th chunk
  MarkNumbers,    \* marker numbers before they roll over (100)
  MarksPerRead,   \* marks read after a chunk (16)
  Buffer,         \* chunks the player holds before feed blocks
  FeedFails,      \* TRUE: feed may raise
  Terminates,     \* TRUE: NVDA may call terminate
  JoinTimesOut    \* TRUE: join(timeout=5) may give up

ASSUME DriverAssumption ==
  /\ {MaxUtterances, MaxCancels, MarksEach} \subseteq Nat
  /\ {Length, MarkNumbers, MarksPerRead, Buffer} \subseteq Nat \ {0}
  /\ {FeedFails, Terminates, JoinTimesOut} \subseteq BOOLEAN

VARIABLES
  main,       \* where the main thread is
  queue,      \* self._queue: utterances, None last of all
  stopping,   \* self._stopping
  markMap,    \* self._markMap: marker number -> NVDA index
  dt,         \* the dtalk instance
  synth,      \* the synth thread
  player,     \* [open, chunks]: the WavePlayer
  hist        \* history the properties speak of

vars == <<main, queue, stopping, markMap, dt, synth, player, hist>>

None == 0
Utterances == 1..MaxUtterances
Indexes    == 1..(MaxUtterances * MarksEach)
Numbers    == 0..(MarkNumbers - 1)

\* NVDA's indexes, in the order spoken: those of utterance u.
IndexesOf(u) == {(u - 1) * MarksEach + k : k \in 1..MarksEach}

\* The marker number speak gives to an index: _nextMark counts them, modulo 100.
NumberOf(i) == (i - 1) % MarkNumbers

Init ==
  /\ main = [at |-> "free", ending |-> FALSE]
  /\ queue = <<>> /\ stopping = FALSE
  /\ markMap = [v \in Numbers |-> None]
  /\ dt = [alive |-> TRUE, todo |-> <<>>, pos |-> 0, marks |-> <<>>]
  /\ synth = [at |-> "get", utt |-> None, n |-> 0, new |-> <<>>, pending |-> <<>>,
              fired |-> <<>>, of |-> None, samplesDone |-> 0]
  /\ player = [open |-> TRUE, chunks |-> <<>>]
  /\ hist = [said |-> 0, cancels |-> 0, silenced |-> 0,
             fed |-> [u \in Utterances |-> 0], done |-> {}, notified |-> <<>>,
             raised |-> FALSE, inHand |-> {}, reused |-> FALSE, unread |-> {}]

-----------------------------------------------------------------------------
(* The main thread.                                                        *)

\* The indexes whose marker number is given out and not yet looked up: their
\* utterance waits, or the instance has not come to the mark, or has placed it.
Outstanding ==
  (UNION {IndexesOf(queue[i]) : i \in {j \in DOMAIN queue : queue[j] # None}})
    \cup (IF synth.at \in {"clear", "queue"} THEN IndexesOf(synth.utt) ELSE {})
    \cup (UNION {{(dt.todo[i].utt - 1) * MarksEach + k : k \in (dt.todo[i].marked + 1)..MarksEach} :
                   i \in DOMAIN dt.todo})
    \cup {dt.marks[i].index : i \in DOMAIN dt.marks}
    \cup {synth.new[i].index : i \in DOMAIN synth.new}

\* To speak u is to give a number to two indexes at once: the numbers have
\* rolled over on one that is outstanding.
Reuses(u) == \E i \in IndexesOf(u), j \in Outstanding \cup IndexesOf(u) :
               i # j /\ NumberOf(i) = NumberOf(j)

\* speak: marker numbers are assigned, the utterance is queued.
Speak ==
  /\ main.at = "free" /\ hist.said < MaxUtterances
  /\ LET u == hist.said + 1
     IN  /\ queue' = Append(queue, u)
         /\ markMap' = [v \in Numbers |->
              LET mine == {i \in IndexesOf(u) : NumberOf(i) = v}
              IN  IF mine = {} THEN markMap[v]
                  ELSE CHOOSE i \in mine : \A j \in mine : j <= i]
         /\ hist' = [hist EXCEPT !.said = u, !.reused = @ \/ Reuses(u)]
  /\ UNCHANGED <<main, stopping, dt, synth, player>>

\* cancel, step by step; terminate begins with it.  All that was spoken so far
\* is to be silent.
CancelBegin ==
  /\ main.at = "free"
  /\ \/ hist.cancels < MaxCancels /\ main' = [at |-> "drain", ending |-> FALSE]
     \/ Terminates /\ main' = [at |-> "drain", ending |-> TRUE]
  /\ stopping' = TRUE
  /\ hist' = [hist EXCEPT !.cancels = IF main'.ending THEN @ ELSE @ + 1,
                          !.silenced = hist.said]
  /\ UNCHANGED <<queue, markMap, dt, synth, player>>

\* Mutant of CancelDrain: one utterance is dropped.
CancelDrainOne ==
  /\ main.at = "drain"
  /\ main' = [main EXCEPT !.at = "stop"]
  /\ queue' = IF queue = <<>> THEN queue ELSE Tail(queue)
  /\ UNCHANGED <<stopping, markMap, dt, synth, player, hist>>

CancelDrain ==
  /\ main.at = "drain"
  /\ IF queue = <<>>
       THEN main' = [main EXCEPT !.at = "stop"] /\ UNCHANGED queue
       ELSE queue' = Tail(queue) /\ UNCHANGED main
  /\ UNCHANGED <<stopping, markMap, dt, synth, player, hist>>

\* The utterance that the thread has taken off the queue, and that whose chunk
\* it holds.
InHand == (IF synth.at \in {"get", "gone", "lost"} THEN {} ELSE {synth.utt})
            \cup (IF synth.n > 0 THEN {synth.of} ELSE {})

CancelStop ==
  /\ main.at = "stop"
  /\ dt' = [dt EXCEPT !.todo = <<>>, !.marks = <<>>]
  /\ main' = [main EXCEPT !.at = "clear"]
  /\ hist' = [hist EXCEPT !.inHand = InHand]
  /\ UNCHANGED <<queue, stopping, markMap, synth, player>>

CancelClear ==
  /\ main.at = "clear"
  /\ markMap' = [v \in Numbers |-> None]
  /\ main' = [main EXCEPT !.at = "player"]
  /\ UNCHANGED <<queue, stopping, dt, synth, player, hist>>

CancelPlayer ==
  /\ main.at = "player"
  /\ player' = [player EXCEPT !.chunks = <<>>]
  /\ main' = [main EXCEPT !.at = IF main.ending THEN "put" ELSE "free"]
  /\ UNCHANGED <<queue, stopping, markMap, dt, synth, hist>>

TerminatePut ==
  /\ main.at = "put"
  /\ queue' = Append(queue, None)
  /\ main' = [main EXCEPT !.at = "join"]
  /\ UNCHANGED <<stopping, markMap, dt, synth, player, hist>>

\* join, then the player is closed.
TerminateJoin ==
  /\ main.at = "join" /\ synth.at = "gone"
  /\ main' = [main EXCEPT !.at = "close"]
  /\ player' = [player EXCEPT !.open = FALSE, !.chunks = <<>>]
  /\ UNCHANGED <<queue, stopping, markMap, dt, synth, hist>>

\* join gives up after its five seconds: all goes on as if the thread had ended.
JoinGivesUp ==
  /\ JoinTimesOut /\ main.at = "join" /\ synth.at # "gone"
  /\ main' = [main EXCEPT !.at = "close"]
  /\ player' = [player EXCEPT !.open = FALSE, !.chunks = <<>>]
  /\ UNCHANGED <<queue, stopping, markMap, dt, synth, hist>>

\* _DtalkDLL.close: the instance is destroyed whether the thread lives or not.
TerminateClose ==
  /\ main.at = "close"
  /\ dt' = [dt EXCEPT !.alive = FALSE]
  /\ main' = [main EXCEPT !.at = "gone"]
  /\ UNCHANGED <<queue, stopping, markMap, synth, player, hist>>

-----------------------------------------------------------------------------
(* The synth thread.                                                       *)

Get ==
  /\ synth.at = "get" /\ queue # <<>>
  /\ queue' = Tail(queue)
  /\ synth' = [synth EXCEPT !.at = IF Head(queue) = None THEN "gone" ELSE "clear",
                            !.utt = Head(queue)]
  /\ UNCHANGED <<main, stopping, markMap, dt, player, hist>>

\* Mutant of ClearStopping: the event is left as the last cancel set it.
ClearStoppingNever ==
  /\ synth.at = "clear"
  /\ synth' = [synth EXCEPT !.at = "queue", !.pending = <<>>]
  /\ UNCHANGED <<main, queue, stopping, markMap, dt, player, hist>>

ClearStopping ==
  /\ synth.at = "clear"
  /\ stopping' = FALSE
  /\ synth' = [synth EXCEPT !.at = "queue", !.pending = <<>>]
  /\ UNCHANGED <<main, queue, markMap, dt, player, hist>>

\* The handle the thread keeps is of an instance that terminate has destroyed,
\* for join gave up: the call works on freed memory.  The thread is lost to the
\* model, which says nothing of what such a call does.
CallDestroyed ==
  /\ synth.at \in {"queue", "call"} /\ ~dt.alive
  /\ synth' = [synth EXCEPT !.at = "lost"]
  /\ UNCHANGED <<main, queue, stopping, markMap, dt, player, hist>>

\* dtalk_queue, under the lock.
DtalkQueue ==
  /\ synth.at = "queue" /\ dt.alive
  /\ dt' = [dt EXCEPT !.todo = Append(@, [utt |-> synth.utt, made |-> 0, marked |-> 0])]
  /\ synth' = [synth EXCEPT !.at = "test"]
  /\ UNCHANGED <<main, queue, stopping, markMap, player, hist>>

TestStopping ==
  /\ synth.at = "test"
  /\ synth' = [synth EXCEPT !.at = IF stopping THEN "get" ELSE "call"]
  /\ UNCHANGED <<main, queue, stopping, markMap, dt, player, hist>>

\* The chunk of its utterance in which the k-th mark falls.
ChunkOf(k) == IF k < Length THEN k ELSE Length

\* Marks number from..to of an utterance whose first chunk is sample start + 1.
\* A mark is kept as the index it was set for; the driver is told its number.
MarksOf(u, from, to, start) ==
  [k \in 1..(to - from + 1) |->
     [pos |-> start + ChunkOf(from + k - 1), index |-> (u - 1) * MarksEach + from + k - 1]]

\* dtalk_synth16 and dtalk_read_index_marks, under one lock.  The board looks
\* ahead of the samples it hands out, so marks of the next chunk may be known.
\* Without samples the marks are not read: those left over wait for the next
\* utterance.
DtalkSynth ==
  /\ synth.at = "call" /\ dt.alive
  /\ IF dt.todo = <<>>
       THEN /\ synth' = [synth EXCEPT !.at = "ended", !.n = 0]
            /\ hist' = [hist EXCEPT !.unread = IF dt.marks = <<>> THEN @ ELSE @ \cup {synth.utt}]
            /\ UNCHANGED dt
       ELSE \E m \in Head(dt.todo).marked .. MarksEach :
              LET head  == Head(dt.todo)
                  made  == head.made + 1
                  marks == dt.marks \o MarksOf(head.utt, head.marked + 1, m, dt.pos - head.made)
                  read  == IF Len(marks) < MarksPerRead THEN Len(marks) ELSE MarksPerRead
              IN  /\ \A k \in 1..MarksEach : /\ ChunkOf(k) <= made => k <= m
                                             /\ k <= m => ChunkOf(k) <= made + 1
                  /\ dt' = [dt EXCEPT
                       !.pos = @ + 1,
                       !.marks = SubSeq(marks, read + 1, Len(marks)),
                       !.todo = (IF made = Length THEN <<>>
                                 ELSE <<[head EXCEPT !.made = made, !.marked = m]>>) \o Tail(@)]
                  /\ synth' = [synth EXCEPT !.at = "map", !.n = 1, !.of = head.utt,
                                            !.new = SubSeq(marks, 1, read)]
                  /\ UNCHANGED hist
  /\ UNCHANGED <<main, queue, stopping, markMap, player>>

\* One pop of the mark map, then the next; when none is left, the marks that
\* this chunk passes.
PopMark ==
  /\ synth.at = "map" /\ synth.new # <<>>
  /\ LET m     == Head(synth.new)
         value == NumberOf(m.index)
     IN  /\ synth' = [synth EXCEPT !.new = Tail(@),
              !.pending = IF markMap[value] = None THEN @
                          ELSE Append(@, [pos |-> m.pos, index |-> markMap[value]])]
         /\ markMap' = [markMap EXCEPT ![value] = None]
  /\ UNCHANGED <<main, queue, stopping, dt, player, hist>>

\* The elements of s at the positions I, in order: what a list comprehension
\* keeps (without the recursion of SelectSeq, which no proof can unfold).
Picked(s, I) ==
  [k \in 1..Cardinality(I) |-> s[CHOOSE i \in I : Cardinality({j \in I : j <= i}) = k]]

\* The pending marks up to and including sample e.
UpTo(e) == {i \in DOMAIN synth.pending : synth.pending[i].pos <= e}

\* Mutants of Select: a mark on the last sample of the chunk waits for the
\* next chunk; the marks that fire are not taken off the list.
SelectLate ==
  /\ synth.at = "map" /\ synth.new = <<>>
  /\ LET passed == UpTo(synth.samplesDone + synth.n - 1)
     IN  synth' = [synth EXCEPT !.at = "feed",
           !.fired   = Picked(synth.pending, passed),
           !.pending = Picked(@, DOMAIN @ \ passed)]
  /\ UNCHANGED <<main, queue, stopping, markMap, dt, player, hist>>

SelectKeeps ==
  /\ synth.at = "map" /\ synth.new = <<>>
  /\ synth' = [synth EXCEPT !.at = "feed",
       !.fired = Picked(synth.pending, UpTo(synth.samplesDone + synth.n))]
  /\ UNCHANGED <<main, queue, stopping, markMap, dt, player, hist>>

Select ==
  /\ synth.at = "map" /\ synth.new = <<>>
  /\ LET passed == UpTo(synth.samplesDone + synth.n)
     IN  synth' = [synth EXCEPT !.at = "feed",
           !.fired   = Picked(synth.pending, passed),
           !.pending = Picked(@, DOMAIN @ \ passed)]
  /\ UNCHANGED <<main, queue, stopping, markMap, dt, player, hist>>

\* Mutant of Feed: the position is not advanced.
FeedForgets ==
  /\ synth.at = "feed" /\ player.open /\ Len(player.chunks) < Buffer
  /\ player' = [player EXCEPT !.chunks = Append(@, [of |-> synth.of,
                                 fired |-> synth.fired])]
  /\ synth' = [synth EXCEPT !.at = "test", !.n = 0, !.fired = <<>>]
  /\ hist' = [hist EXCEPT !.fed[synth.of] = @ + 1]
  /\ UNCHANGED <<main, queue, stopping, markMap, dt>>

Feed ==
  /\ synth.at = "feed" /\ player.open /\ Len(player.chunks) < Buffer
  /\ player' = [player EXCEPT !.chunks = Append(@, [of |-> synth.of,
                                 fired |-> synth.fired])]
  /\ synth' = [synth EXCEPT !.at = "test", !.samplesDone = @ + synth.n, !.n = 0, !.fired = <<>>]
  /\ hist' = [hist EXCEPT !.fed[synth.of] = @ + 1]
  /\ UNCHANGED <<main, queue, stopping, markMap, dt>>

\* feed raises (the audio device failed, or the player is closed): the handler
\* of _synthLoop logs and goes back for the next utterance.
FeedRaises ==
  /\ synth.at = "feed" /\ (FeedFails \/ ~player.open)
  /\ synth' = [synth EXCEPT !.at = "get", !.n = 0, !.fired = <<>>]
  /\ hist' = [hist EXCEPT !.raised = TRUE]
  /\ UNCHANGED <<main, queue, stopping, markMap, dt, player>>

\* After n == 0: idle unless cancelled, then the notification.
Ended ==
  /\ synth.at = "ended"
  /\ synth' = [synth EXCEPT !.at = IF stopping THEN "get" ELSE "idle"]
  /\ UNCHANGED <<main, queue, stopping, markMap, dt, player, hist>>

IdleAndNotify ==
  /\ synth.at = "idle" /\ player.chunks = <<>>
  /\ synth' = [synth EXCEPT !.at = "get"]
  /\ hist' = [hist EXCEPT !.done = @ \cup {synth.utt}]
  /\ UNCHANGED <<main, queue, stopping, markMap, dt, player>>

-----------------------------------------------------------------------------
(* The player: the first chunk has been played, its onDone runs.           *)
Play ==
  /\ player.chunks # <<>>
  /\ player' = [player EXCEPT !.chunks = Tail(@)]
  /\ hist' = [hist EXCEPT !.notified = @ \o Head(player.chunks).fired]
  /\ UNCHANGED <<main, queue, stopping, markMap, dt, synth>>

-----------------------------------------------------------------------------
MainThread == \/ Speak \/ CancelBegin \/ CancelDrain \/ CancelStop \/ CancelClear
              \/ CancelPlayer \/ TerminatePut \/ TerminateJoin \/ JoinGivesUp
              \/ TerminateClose

SynthThread == \/ Get \/ ClearStopping \/ CallDestroyed \/ DtalkQueue \/ TestStopping \/ DtalkSynth
               \/ PopMark \/ Select \/ Feed \/ FeedRaises \/ Ended \/ IdleAndNotify

Next == MainThread \/ SynthThread \/ Play

Safe == Init /\ [][Next]_vars

\* Both threads are scheduled, the player plays and a call NVDA has begun goes
\* on (join comes back, if only because it gives up); nothing makes NVDA call, or
\* feed raise.
Fairness == /\ WF_vars(SynthThread)
            /\ WF_vars(Play)
            /\ WF_vars(main.at # "free" /\ MainThread)

Spec == Safe /\ Fairness

-----------------------------------------------------------------------------
(* Properties.                                                             *)

\* Index notifications come in the order of the text and never twice, however
\* cancels interleave with the synth thread, and however often the marker
\* numbers roll over, unless speak has given one out while it was outstanding.
InOrder ==
  ~hist.reused =>
    \A i, j \in DOMAIN hist.notified :
      i < j => hist.notified[i].index < hist.notified[j].index

\* synthDoneSpeaking means spoken: unless it was cancelled, the utterance has
\* been fed whole and each of its indexes was notified before (nvda/README.md,
\* "the driver converts to synthIndexReached notifications"), but where marks
\* were still unread when its samples ended.  A feed that raised leaves its
\* speech in the instance and later marks misplaced; a number given out while
\* it was outstanding misdirects two indexes.
Notified == {hist.notified[i].index : i \in DOMAIN hist.notified}
DoneMeansSpoken ==
  \A u \in hist.done : u > hist.silenced /\ ~hist.raised /\ ~hist.reused =>
    hist.fed[u] = Length /\ (u \in hist.unread \/ IndexesOf(u) \subseteq Notified)

\* The comment of _synthLoop on samplesDone: "Cumulative dtalk_synth() output
\* position; matches the emulator's own absolute sample counter", however
\* cancels fall between the threads' steps, and as long as no feed raised.
SamplesInStep == ~hist.raised => synth.samplesDone + synth.n = dt.pos

\* What a cancel leaves audible: _stopping is cleared after the get, tested and
\* used without a lock.  Once cancel has returned, the only cancelled speech
\* that still reaches the player is what the thread had in hand when
\* dtalk_stop was called, whatever feeds raised before.
OnlyInHandIsHeard ==
  [][Feed /\ main.at = "free" /\ synth.of <= hist.silenced
       => synth.of \in hist.inHand]_vars

\* Speech goes on.  Every utterance that is not cancelled is spoken to the end,
\* and no cancel leaves _stopping set for a later one.  An exception in feed
\* costs speech, not the thread: the thread always comes back to its queue,
\* and ends when it is told to; where join gave up it may instead be lost in
\* the instance that was destroyed under it.
SpeechGoesOn ==
  /\ \A u \in Utterances :
       hist.said >= u ~> u \in hist.done \/ u <= hist.silenced \/ hist.raised
  /\ []<>(synth.at \in {"get", "gone", "lost"})
  /\ main.at = "join" ~> synth.at \in {"gone", "lost"}
=============================================================================
