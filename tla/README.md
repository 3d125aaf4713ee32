# A TLA+ development of the DoubleTalk PC emulator

The repository runs the firmware of the RC Systems DoubleTalk PC speech card on an
emulated 80C188EB and makes an NVDA synthesizer driver of it. This directory holds
TLA+ modules of its parts, TLC configurations that check them on small instances, and
theorems about fourteen modules of them with proofs checked by TLAPS. Every definition is
translated from the source named beside it in `PROJECT.json` ("map"). Paths below are
relative to `src/doubletalk/`.

## 1. The system

```
 NVDA main thread      synth thread          player (NVDA)
   speak cancel   queue  _synthLoop   feed     onDone
        \__________________|____________________/    nvda/.../__init__.py
                           | dtalk_* calls (under _libLock)
                        dtalk.cpp        queue, carry, marks, sample origin, rate boost
                           | run_cycles, host_write, pull_samples, drain index events
   shim/emu.cpp  ----  doubletalk_board.cpp   mailbox, DAC queue, markers
   run loop, timers        |  INT1, ports
        |              mame/i186.cpp      timers, interrupt controller, execute_run
        +---slices----->mame/i86.cpp, i86inline.h   instructions, flags
                           |
                       firmware ROM (not in the repository)
```

Everything below `dtalk.cpp` is one thread of control: callbacks run inside the call
that caused them, and time is a count of CPU cycles. What is concurrent is the guest:
its interrupts may come between any two instructions, its handlers nest, its program and
the host write the same registers. The NVDA driver adds real threads.

### Inventory

| Component (source) | State | Operations | Meets the others by | Hard behaviour | What makes it correct |
|---|---|---|---|---|---|
| Interrupt controller (`mame/i186.cpp` 960-1340, 1728, 1936-2042) | request, in-service, status, masks, control words, poll status, acknowledge mask, INTR | `external_int`, timer request, `int_callback`, EOI, poll read, eight register writes, reset | timers and board raise requests, CPU acknowledges | a scan with early returns, nested handlers, cascade and level modes | nothing requested is left unasserted, nothing forgotten, strict nesting |
| Register block (`mame/i186.cpp` 826-944, 1670-2043) | relocation register, words behind the controller's and the timers' offsets | stores and loads by port and by address, byte and word, even and odd | the CPU's bus cycles; the controller's operations | an offset table, a mask that is a view of eight words, a relocation that moves the block under the program | one register per offset; both views of the mask agree |
| Byte path (`doubletalk_board.cpp` 97-132) | mailbox byte, pending | `host_write`, `mailbox_read`, reset | INT1 of the controller | an unhandshaked write racing the handler | one-place mailbox; a byte is read |
| Timer unit (`mame/i186.cpp` 1323-1559) | control word, maxima, count, deadline | elapse, four register writes, TMRIN, read, reset | deadlines with the shim, requests to the controller | a count derived from elapsed time | behaves as a counter |
| Run loop (`shim/emu.cpp`) | clock, slice, timers' expiries | `run_cycles`, `adjust`, callbacks | runs CPU slices, fires timers | a timer armed inside the slice it must cut short | clock = cycles, exact expiry, order |
| Instruction loop and string instructions (`i186.cpp` 205-300, 572-720; `i86.cpp` 1705-1756, 2228-2306; `i86inline.h` 496-642) | ip, prefixes, shadow, IF, halt, CX, SI, DI, DF, ZF, a segment | interrupt, prefix, REP, seven string instructions, HLT, IRET | INTR line, slices | interrupts between the parts of an instruction, a repetition executed again | nothing split, searches and copies right however cut, no lost wakeup |
| ALU and flags (`i86inline.h`, `i86.cpp`) | lazily kept flags | arithmetic, shifts, decimal, PUSHF/POPF | - | flags folded at interrupts, range ends | exact results |
| DAC and resampler (`doubletalk_board.cpp` 135-290) | queue of writes, cursor, grid | capture, `pull_samples`, reset | CPU writes, host pulls | samples made behind writes still to come, trimming | the same samples however pulled |
| Byte feed (`dtalk.cpp` 290-347, 427-443) | text queue, what the host waits for | feed, stop, reset, the chunks of `dtalk_synth` | RDY and the mailbox, `run_cycles` | a fixed wait in place of a handshake, a stop that ignores RDY | a byte channel: in order, once |
| Session (`dtalk.cpp`) | queue, carry, marks, sample origin, idle time | create, reset, queue, stop, synth, read marks | board, driver | discarded audio, idle detection, boot timeout | marks at their samples, short read = done |
| Rate boost (`dtalk.cpp` 112-279) | ROM words, snapshot, level | save, apply | firmware reads the table | repeated application, truncation, bytes | level 0 authentic, floor, order |
| Driver: speech (`nvda/.../__init__.py` 254-328, 609-705) | queue, `_stopping`, mark map, `samplesDone` | speak, cancel, terminate, `_synthLoop`, onDone | two threads, player callbacks | cancel against the synth thread | order, done after indexes, counters in step, progress |
| Driver: settings (same file, 146-607) | voice, sliders | setters, `loadSettings`, prefix | text stream to the card | implied values, dropped commands, stale profiles | heard as shown |
| Not modelled | | | | | see section 7 |

`PROJECT.json` lists the same parts with their status, and the hazards of the code with
the lines where they bite and the properties that cover them.

## 2. Modules

| Module | Models | Built on | Instance and run |
|---|---|---|---|
| `InterruptLogic` | the controller as functions on its state | - | |
| `InterruptController` | the controller alone, any order of handlers | `InterruptLogic` | with `RegisterBlock` |
| `RegisterBlock` | the peripheral control block: the program's stores and loads over the controller; implements `InterruptController` | `InterruptController` | `RegisterBlock.cfg` |
| `Mailbox` | abstract: a one-place mailbox that is served | - | |
| `Doorbell` | board mailbox + controller + firmware handlers; implements `Mailbox` | `InterruptController` | `Doorbell.cfg` |
| `ByteChannel` | abstract: bytes in order, each once, until a stop | - | |
| `HostFeed` | `feed` in real time against RDY and the mailbox; implements `ByteChannel` | - | `HostFeed.cfg` |
| `TimerControl` | timer control words | - | |
| `TimerCounter` | abstract: counters moved on with every cycle | `TimerControl` | |
| `TimerUnit` | timers kept as deadlines; implements `TimerCounter` | `TimerControl` | `TimerUnit.cfg` |
| `Scheduler` | `run_cycles` and the timers' expiries | - | `Scheduler.cfg` |
| `StringOps` | string instructions as functions, and what a repeated one is to do | - | |
| `CpuLoop` | `execute_run`, executing `StringOps` | `StringOps` | `CpuLoop.cfg` |
| `Alu` | instructions as functions on operands and flags | - | |
| `LongArithmetic` | guest routines over `Alu`, interrupted anywhere | `Alu` | `LongArithmetic.cfg` |
| `DacStream` | capture and `pull_samples` | - | `DacStream.cfg` |
| `DtalkSession` | the C API | - | `DtalkSession.cfg`, `DtalkSession_reset.cfg` |
| `RateTable` | the rate boost | - | with `NvdaSettings` |
| `NvdaDriver` | the driver's threads | - | `NvdaDriver.cfg` |
| `NvdaSettings` | the driver's settings, the command stream and the boost of the instance | `RateTable` | `NvdaSettings.cfg` |

`MC<module>` holds the sets an instance needs. `<module>_proofs` holds theorems;
`NvdaSettings_proofs` has those about `RateTable` as well, `CpuLoop_proofs` those about
`StringOps`, `Controller_proofs` those about `InterruptController`, `RegisterBlock` and
`Doorbell`, and `Board_proofs` those about `HostFeed` and `DacStream`.
Definitions named "Mutant of ..." are plausible bugs of the definition next to them; each
one shows that a property can fail, and none belongs to a specification.

How modules follow the code:

* A record per hardware object (`ic`, `timer[t]`, `cpu`) whose fields are the members of
  the C++ class; one operator or action per handler, guard by guard, with the scan,
  rearming or trimming that the handler calls included. `InterruptLogic` is written as
  functions because the code's handlers call each other; `UpdateInterruptState` is the
  scan every one of them ends with.
* `RegisterBlock` has the CPU's side of the same operations: a word is the set of its
  bits, a store is what the bus makes of an operand (the other lane of a byte is zero, or
  AH), `Written` finds the register behind an offset and hands it to the operation of
  `InterruptLogic`. `InterruptController` and `RateTable` have no run of their own: they
  are checked where they are used, and proved about alone.
* `CpuLoop` executes `StringOps` element by element: `Rep` is one execution of the
  instruction, cut after any element; `Searched` and `Copied` say what all executions
  together must have done, from the state before the first.
* In `NvdaDriver` one step of a thread is one access to something shared, and a
  `with self._libLock` block is one step. Everywhere else a call is one step, except
  `dtalk_synth` in `DtalkSession`, whose chunks and bytes are steps: the firmware's
  answer differs between them.
* The firmware is external. It is whatever `dtalk.cpp`, the board and
  `notes/PORTING.md` rely on: control words set with interrupts disabled, the INT1
  handler reads the mailbox first, a non-specific EOI, RDY/SYNC/buffer pointers.
* Data is abstracted to what properties tell apart: samples are counted and a sample
  stands for the writes it is weighed from; text is a count or a record of the settings
  it wants; a DAC level is the number of its write; a chunk of speech is one sample of
  `NvdaDriver`.

## 3. What is checked

Every run passes but the last of the table. States are distinct states.

| Run | Instance and bounds | Shows |
|---|---|---|
| `RegisterBlock` | the timers (two of them elapse), INT0 and INT2; one priority mask; nine offsets with one or two words each, every width and lane; 33,090 states | `WinnerAsserted`: the winner of the scan is asserted with its own mask and vector, and INTR is up without a winner only where a source in service suspended the scan or nothing is programmed after a reset. `StaleIsWithdrawn`: such a suspended INTR is a withdrawn request's. `StrictNesting`: an acknowledge preempts only lower priorities. `NothingForgotten`: a request ends only by acknowledge, withdrawal or a register write. `MaskAgrees`: mask register and control words show one mask. `NoAlias`: a store changes what its own offset shows, the few others that its register's meaning moves, and nothing else |
| `Doorbell` | timer and INT1, on the same or different levels, INT1 edge or level, 2 writes, 3 nested handlers; 5,043 states | `NoSpuriousRead`, `EoiMatchesHandler`, `ImplementsMailbox`, `EventuallyServed` |
| `HostFeed` | the code's own times (2,000 cycles after a byte, 100,000 to a chunk) and the card's (20-30 and 1,800-1,900); buffer of 3, 6 bytes, 3 stops or resets, 0.1 s to the start of a card whose boot gave up; 325,319 states | `NoOverrun`: no write of the host hits a byte that waits, but a Ctrl-X that of an earlier stop on a card that has not started. `ImplementsByteChannel`. `FeedsOn`: feed leaves bytes behind only when the card has no room. `AllHandedOver` |
| `TimerUnit` | timers 0 and 2; counts modulo 2 of 2 cycles each; every mode; 141,654 states | `ImplementsCounter` |
| `Scheduler` | 2 timers, instructions of 1 or 4 cycles, delays 1 and 3, slice 4, requests 3 and 7, clock to 9; 150,580 states | `ClockIsHonest`, `OnTime`, `FiresInOrder`, `Returns` |
| `CpuLoop` | 8 programs (4 mains, 2 handlers) with each of 18 string instructions, 8 contents of a segment of 3 elements, CX 0, 2 and 4; 3 nested handlers; 671,608 states | `NothingSplit`, `OverrideKept`, `SearchIsRight`, `CopyIsRight`, `WakesUp` |
| `LongArithmetic` | 20 routines on two bytes; 6 binary, 8 packed and 5 unpacked values, 8 shift counts; 201,648 states | `ResultsAreExact`: of sums, differences, comparisons, products, quotients, shifts and decimal routines |
| `DacStream` | kernel half-width 2, write distances 2 (speech) and 4 (limit or silence), 6 writes, time to 18; 75,888 states | `TapsAreReal`, `HoldsLastLevel` |
| `DtalkSession` | one queued byte at a time, 2 marks, time to 22, boot limit out of reach; 1,021,142 states | `MarksArePlaced`, `MarksAreCurrent`, `ShortMeansDone` |
| `NvdaDriver` | 2 utterances of 2 chunks and 4 marks, 5 marker numbers, 2 marks to a read, 1 cancel, feeds that may raise, a terminate that may stop waiting; 592,086 states | `InOrder`, `DoneMeansSpoken`, `SamplesInStep`, `SpeechGoesOn`; `OnlyInHandIsHeard`: after a cancel no cancelled speech is heard but what the synth thread had in hand at `dtalk_stop` |
| `NvdaSettings` | voices 0 and 3, pitch, reverb, volume, two profiles (one stale), a table of 7 words from a byte to the largest, 2 commands in flight; 322,365 states | `HeardAsShown`, `VoiceShowsThrough`, `RestoreWins` (with the boost), `FloorKept`, `HigherIsFaster` |
| `DtalkSession_reset` | as `DtalkSession`, boot limit 20 within time 40 | violates `MarksArePlaced`: section 6 |

Why the bounds are enough for the interesting cases:

* `RegisterBlock`: three sources give two on one level, a preempting pair and the
  cascade pair with its output line, which a store to I0CON turns from a request line to
  an output and back. Nine offsets are every kind of register: EOI, POLL, mask,
  in-service, status, two control words, one without a register, and the relocation
  register, whose store moves the block from ports to memory.
  DMA requests and `Rewrites = TRUE` (control words rewritten under a handler, without
  which nesting is the firmware's own fault) are left to the theorems, which have no
  bounds.
* `Doorbell`: two writes are an overwritten byte or two bytes on either side of a read;
  three frames are a handler of each source and one inside them. The theorems on the byte
  path need neither bound, and take any of the timers.
* `HostFeed`: three stops are a reset whose boot gives up and two more Ctrl-X before the
  firmware starts, 0.1 s later and ten times as long as a stop runs the card. Six bytes
  are more than the buffer and the mailbox hold together, so that RDY stays low until the
  card has spoken. The theorem `FedSafely` needs none of the
  times but that the host waits longer after a byte than RDY takes to drop; the command
  line's own loop (`dtalk_cli.cpp:325-340`, 100 cycles after a byte) is such a host.
* `TimerUnit`: modulo 2 and with a prescaler of 2, every count is a wrap, a maximum or
  the one before, and each phase of a count occurs; maxima 0 (a whole lap) and 1. The
  view of the instance identifies a count that is worked out when asked for with one
  worked out already: every operation on a running timer works it out first or
  overwrites it.
* `Scheduler`: delays shorter and longer than the slice and the instruction, two timers
  due in one overrun in both orders. `TimersPunctual` and `ClockCorrect` need none.
* `CpuLoop`: a segment of three elements with CX 4 is a copy that runs into its own
  source, in both directions, and wraps; CX 0 with ZF of either value is the case in
  which a repeated comparison compares nothing.
* `LongArithmetic`: bytes, because TLC's integers end at 32 bits; the word instructions
  are the same formulas on `Base` 65536. The values are the ends of both ranges and
  the digits at which decimal adjustments begin.
* `DacStream`: the constants are the code's ratios (the mean distance, twice it at most,
  a kernel of several writes) scaled down; six writes fill the kernel and trim the queue.
* `DtalkSession`: boot, two marks, a stop, a second text and partial reads fit in the
  time bound, `Requests` of one sample and of more than a chunk.
* `NvdaDriver`: eight indexes on five marker numbers, so that the numbers roll over in the
  second utterance, before and after those of the first have been looked up; four marks of
  which three fall in the last chunk, and two to a read, so that marks wait for the next
  read and some are still unread when the samples end. A cancel and a terminate, which
  begins with one, are two cancels.
* `NvdaSettings`: the two voices differ in pitch and reverb; a table with the extremes of
  a word, the ends of a byte and the stock minimum. `BoostIsSafe` needs no bound.

`CHECK_DEADLOCK FALSE` stands where the system stops: bounded time, calls or routines,
or a terminated driver.

## 4. Fairness

* `Scheduler`: weak fairness of the loop's steps; the loop is one thread that runs on.
  The callers' next call is not assumed.
* `CpuLoop`: weak fairness of instructions and of new slices: `run_cycles` runs slices
  and a slice runs instructions.
* `Doorbell`: the CPU runs (weak fairness of `Boot` and `MailboxRead`, strong fairness of
  acknowledges, EOIs, returns and of the main program's STI, which other handlers
  interrupt again and again), and the sample timer overruns its own handler only
  finitely often. `Boot` is the firmware's initialisation, one control word at a time;
  `TimerElapse` and STI come after it. `doubletalk_board.h:57-62` measured 907 to 998 cycles between the handler's writes
  to the DAC, 952 nominal: it keeps up with its timer.
  Without that last assumption a higher-priority timer may starve INT1, on the card as here.
* `HostFeed`: weak fairness of the machine inside `run_cycles` and of the feed loop;
  strong fairness of `Synth` and `Speak`: a client that queued text comes back for audio
  (`dtalk.h` has it call `dtalk_synth` in a loop), and a card that is run goes on
  speaking, though other steps come between.
* `NvdaDriver`: both threads are scheduled, the player plays, a call that NVDA has begun
  goes on; `join` comes back, if only because it gives up after its 5 s. NVDA need not
  call and feed need not raise.

## 5. What is proved

TLAPS proves these for every value of the constants that satisfies the named
assumptions.

* `Controller_proofs`, on the controller: `TypeCorrect`, and `NothingLost`:
  `Spec => [](NoLostInterrupt /\ WinnerAsserted)`, for any sources, control words and
  masks, rewritten at any moment. The inductive invariant is `WinnerAsserted` with the type
  invariant: a winner of the scan is asserted with its own mask and vector, and INTR up
  without a winner means that a source in service ends the scan (`Suspended`) or that
  nothing is programmed (`Unprogrammed`): the two ways in which the early returns of
  `update_interrupt_state`, and a reset, leave INTR up. The plain statement
  (`NoLostInterrupt`: a deliverable request finds INTR up) is not inductive, because
  after an acknowledge it says nothing of requests behind the one served; and `pending`
  without `intr` would silence the controller, because the scan raises the line only when
  `pending` was clear. `StepShape` shows that every handler is either an acknowledge, a
  reset, or ends with a scan of a well-formed state; `UpdateWins` that the scan
  establishes the winner. Excluded by definition (`SelfNesting`): a source that is
  level-triggered and special fully nested.
  `AcknowledgesNest`: `Spec => StrictNesting`, from `~Rewrites` (priorities, masks and
  in-service bits are left alone while an interrupt is in service). Its invariant
  `Nested` ties two registers that the scan writes at different times: what the next
  acknowledge will serve precedes everything in service. `WinnerPrecedes` is the heart:
  a source in service that the winner did not precede would have ended the scan before
  it, or lies beyond the priority mask.
  `StaleAcknowledges`: `Spec => []StaleIsWithdrawn`, from `~Rewrites` too: a suspended INTR
  answers no request that still stands. Its invariant (`Chosen`) is that what INTR was
  raised for is still scanned and not blocked by itself; by `Nested` it precedes what is in
  service, so if it still asked, the scan would come to it first. With `WinnerAsserted` this
  says what every acknowledge serves: the winner, or a request that was withdrawn before it.
  `RequestsKept`: `Spec => NothingForgotten`. `StepShape` leaves three ways to lose a
  latched request; a scan erases only lines that serve as outputs of a cascade
  (`ScansKeep`), and an acknowledge clears one timer's status bit, its own
  (`OneTimerServed`).
* `Controller_proofs`, on the register block: `BlockImplementsController`: for any offsets,
  words and pages, every access of the program is one of the controller's operations or leaves
  it alone, so that `BlockLosesNothing`, `BlockNests`, `BlockStale` and `BlockForgetsNothing`
  carry the properties above over to a program that has only ports and addresses. Assumed of the program is `Disciplined`.
  `MasksAgree`: `BlockSpec => []MaskAgrees`. The mask register has no storage of its own,
  it is put together from bit 3 of eight control words and taken apart into them; the
  proof is that the two directions are inverse to each other for every word on the bus.
  `OffsetsApart`: `BlockSpec => []NoAlias`: in every reachable state and for every word that
  a program may store, `Coupled` names per offset what else may change. What an offset shows
  is a function of the words behind it (`SameContents`), a store writes only words that its own offset or the
  coupled view shows (`StoreKeepsOthers`), and the scan moves neither control words nor
  the mask (`ScanKeepsWords`). The invariant is `Backed`: an offset that no register is
  wired to has a word of its own.
* `Controller_proofs`, on the byte path with the firmware's handlers, any number of writes, any
  nesting and any priorities. `BoardImplementsController`: what the board and the
  firmware do to the controller are steps of `InterruptController`, reset and boot
  included, so that its theorems hold of the card. `BoardImplementsMailbox`
  (`ImplementsMailbox`): the path implements the one-place mailbox. `NoEmptyRead`
  (`NoSpuriousRead`) and `EoiMatches` (`EoiMatchesHandler`). The four rest on one
  invariant of three relations: what is asserted is the winner of the scan and precedes
  everything in service (`Asserted`), the in-service bits are the handlers that have not
  ended, each preceding those it interrupted (`Handlers`), and the line of INT1 is up
  exactly while a byte waits, a request meaning a byte (`Line`). None is inductive
  alone: an acknowledge keeps the order of the handlers because of what is asserted, and
  a read lowers the line because the handler that reads is the one INT1 asked for.
* `CpuLoop_proofs`: `Unsplit` (`NothingSplit`) for every program, string instruction and
  nesting of handlers. The invariant (`Guarded`) is that an open shadow is held by
  `m_seg_prefix_next` or by `m_no_interrupt`: two guards, set by different
  instructions and spent at the boundary in one place.
  `OverrideSurvives` (`OverrideKept`): a string instruction keeps its segment override
  however it is interrupted. Assumed of the programs is `Plain`: neither LOCK nor a
  second REP between the prefix and the instruction, because these two lose it in the code
  (section 6). The invariant (`OInv`) is that an override still owed is either up in
  `m_seg_prefix_next`, or the address to resume at, in the CPU or in a frame on the stack,
  is one from which the prefix is executed again.
  `SearchesComplete` (`SearchIsRight`) and `CopiesComplete` (`CopyIsRight`): for every
  segment, count, direction, string instruction and program, a repeated instruction that
  is cut and executed again ends as one uninterrupted search, copy, fill or transfer does,
  overlapping and wrapping destinations included. Assumed of the programs is `Saving`:
  their handlers use no string instructions and do not load these registers, as the model
  has no handler that saves and puts them back. The invariant (`SearchInv`) is that an
  unfinished instruction has done some first k rounds, none of which ended it (`Partway`),
  and that the place the main program goes on from, in the CPU or at the bottom of the
  stack, leads through prefixes to its REP (`Restarts`, the largest set of places closed
  under that); `Linked` takes this from the end of a chain of prefixes to its beginning,
  `m_prev_ip`, and `Level` keeps handlers apart from the main program. What n rounds
  compute rests on lemmas about `Rounds` and `Source`: `RoundsGoOn` (k rounds and then n
  are k + n), `EndsAt` (where the first comparison ends it is `Handled`), `SearchEnds`,
  `CopyEnds` (the last element put at a place is what memory holds there). They are
  inductions on sets of numbers from the well-foundedness of < (`UpTo`): the library's
  induction theorems take an operator and cannot be used.
* `NvdaDriver_proofs`: the driver's threads, for any number of utterances, cancels, chunks
  and marks, and any interleaving; terminate may stop waiting and feeds may raise.
  `SamplesCounted` (`SamplesInStep`): the invariant adds when the thread holds a chunk
  (`Holding`), without which the sum is not kept by the step that drops it.
  `CancelledIsSilent` (`OnlyInHandIsHeard`): the invariant (`AllLive`) is that all that
  can still reach the player is newer than the last cancel or was in the thread's hand
  when it stopped the instance, suspended while a cancel drains the queue.
  `NotifiedInOrder` (`InOrder`): an index passes six stages between the instance and NVDA
  (read, pending, in hand, in the player's chunks, notified, and the instance's own list);
  every stage holds larger indexes than the one after it (`Chain`), no index on its way is
  beyond what the instance has looked ahead to (`Frontier`), and marks lie at their
  samples in the same order. It holds for any number of marker numbers, however often
  `_nextMark` wraps: the invariant adds (`MapTrue`) that `_markMap` has, at the number of an
  outstanding index, that index or nothing, where a cancel has cleared it. What the
  property excepts is what breaks that, a number given out while it is outstanding
  (`hist.reused`), when one number means two indexes (section 6).
  `SpokenToTheEnd` (`DoneMeansSpoken`): an utterance that NVDA is told is done, and that no
  cancel followed, was fed whole and each of its indexes notified, for any number of marks to an
  utterance and to a read. Excepted is the utterance at whose last sample marks were still
  unread (`hist.unread`), since `_synthLoop` reads at most 16 marks a chunk and none after
  the last. The invariant follows what is *wanted*, which no cancel
  followed: the instance holds nothing wanted but the thread's utterance (`Alone`); its
  chunks fed and in hand are those the instance has made, each mark the instance has
  looked ahead to is at one of the stages, and each other number still means its index in
  `_markMap` (`Accounted`), as do those of utterances that wait (`Mapped`); once all is
  made nothing lies ahead (`Behindhand`). What holds even after a feed raised is kept apart
  (`Ground`): no stop flag over wanted speech, nothing of it begun before the thread took
  it, no samples left in the instance when the thread says done.
* `Board_proofs`, bytes in: `FedSafely` (`NoOverrun`) and `FeedImplementsChannel`
  (`ImplementsByteChannel`), from `DropAssumption`: each wait of the host is longer than
  RDY of a started card takes to drop. The invariant says that a byte waits in the mailbox
  only while the host runs the card, and with more time left than the card needs to take
  it; or on a card whose firmware has not started after a boot that gave up, where RDY
  keeps `feed` away and the byte is the Ctrl-X of a stop, for whatever time to the start.
  `FeedKeepsPace` (`FeedsOn`) assumes `InTime`: after a byte the host waits longer than
  the card needs to be ready again, as the 2,000 cycles of `dtalk_synth` are meant to
  ("180-190us" in its comment). The invariant `Paced` is that RDY is low while the host
  looks only when the buffer is full. The command line's pace of 100 cycles does not
  satisfy `InTime`.
* `Board_proofs`, samples out: `NoTapIsMissing` (`TapsAreReal`) and `SilenceHoldsLevel`
  (`HoldsLastLevel`), for every kernel, rate, pace of the writes and pattern of pulls, from
  `IsrMax <= 2 * Isr`: the margin that `pull_samples` keeps is reckoned in mean
  distances and must cover the kernel in greatest ones. The properties compare a sample
  with the whole recording, of which the queue keeps a part. `DacInv` says which: the
  queue is the end of the recording (`Suffix`), its cursor is a kernel behind its first
  write once anything was retired (`CursorIn`) and has not passed the next sample
  (`Passed`). With that the walk from the cursor finds the bracket that the recording has
  (`CursorIs`), and the left half of the kernel is in the queue. The right half is in the
  recording because a sample not drained lies a kernel behind the time (`Fresh`); the same
  fact keeps later writes from changing what the sample should have been.
* `TimerUnit_proofs`: `SampleClockLives` (`NeverStuck`, which the run checks as part of
  `ImplementsCounter`: counters that are on run on) and `DeadlinesCount`
  (`ImplementsCounter`), for every width of the counters, every prescale and any of the
  three timers. The first is inductive with the shape of the records: a timer that is on,
  counts cycles and waits for no trigger is rearmed by whatever writes to it. The second is
  the step simulation of `TimerCounter`, under which a count, output and request at every
  cycle are those worked out from the deadline. One fact carries it: a deadline of
  `Prescale * q + s` cycles means that the count is `q` short of its maximum and `s`
  cycles into the step. From it come the step of one cycle (`Tick`), with the wrap and the
  change of the maximum, and its inverse (`Rearming`), which a register write relies on.
  As in the run, a step counts when the deadlines before and after it are the timers' own:
  a write to a prescaled timer that is on gives it another (section 6).
* `DtalkSession_proofs`: `MarksCurrent` (`MarksAreCurrent`): an event in the board's queue was
  made after the last cut and lies beyond the last pull, so a cut that drops the queue drops
  what is older. `MarksPlaced` (`MarksArePlaced`): the four counters of samples are one
  account. What was discarded, dropped, delivered and carried makes up the grid
  (`Ahead`), to within the one sample that boot's rounding leaves (`Exact`); each call
  moves samples between the four, and a stop or reset discards the carry and the margin
  into the same account. `ShortIsDone` (`ShortMeansDone`): at a short return the card has
  been idle for `Settle` cycles, and all it said was pulled (`Seen`).
  The last two assume `ResetsInTime`, that no reset is made when `boot()` would give up for
  the machine's clock: without it both fail, and `DtalkSession_reset` shows how.
  All take `SettleAssumption`: the card never looks idle for as long as
  `IDLE_SETTLE_CYCLES` (150 ms) while it has work, which `dtalk.cpp:106` claims of the
  firmware, and the margin, a few writes to the DAC, is shorter than that.
* `Scheduler_proofs`: `ClockCorrect` (the clock counts exactly the executed cycles) and
  `TimersPunctual` (`OnTime`). The invariant adds `InSlice` (while cycles are left
  the slice has not been cut short, and it ends no later than the target and every expiry) and `OverrunsLittle` (what is due is due by less than the last
  instruction). `TimersInOrder` (`FiresInOrder`): no expiry that is set, and not the clock
  itself, lies before the last that fired (`Onward`).
* `NvdaSettings_proofs`, on the rate table: `BoostIsSafe` (level 0 authentic, floors kept,
  order of speeds kept) and `BoostIsMonotonic`. The invariant is that the table is the stock
  table scaled *once* by the current level, which rules compounding out; the rest is
  arithmetic on one word (`ScaledWord` and its companions). `DriverBoosts`: the driver is
  one of the hosts that `RateTable` allows, so it keeps both.
  On the settings, for any voices, linked settings, profiles and positions of the sliders:
  `SeenIsHeard` (`HeardAsShown`), `ProfileWins` (`RestoreWins`) and `PresetsShowThrough`
  (`VoiceShowsThrough`). The card is read one aspect at a time. A text in the stream is
  *settled* in an aspect when some command before it gives the value wanted and none after
  that another one, or when none touches it and the card shows it already: that is
  inductive as the card takes messages one by one and survives a cancel. An utterance is
  `SelfContained`: its own prefix settles every aspect, whatever the card was left at,
  because what the prefix omits is what its voice command presets. `PresetsShowThrough` is
  that rounding a preset to the slider and back gives the preset again.

The assumptions are the `ASSUME`s of the modules, which TLC evaluates on every run.

Model-checked only: all liveness (`Returns`, `WakesUp`, `EventuallyServed`,
`SpeechGoesOn`, `AllHandedOver`), which needs ENABLED and fairness; and `LongArithmetic`,
whose numbers are sums of limbs weighted with powers: the provers take `^` as a function
they know nothing of, so not even b^(k + 1) = b * b^k can be had.

## 6. Deviations met while modelling

With a run that shows it:

* `dtalk.cpp:335`: `boot()` gives up when the machine's *absolute* time passes 10 s, so a
  `dtalk_reset` later than that does not wait for the firmware at all, ignores the failure and takes
  the sample origin too early (`DtalkSession_reset`).

Seen in the models; the properties name them as exceptions, or do not depend on them:

* `mame/i186.cpp:1085`, `1149`, `1168`: a scan that a source in service ends returns before
  it looks at INTR. A request withdrawn meanwhile (a line that falls, a status bit that is
  stored away) leaves INTR up, with an empty acknowledge mask and its old vector: the next
  acknowledge answers a request that is gone. A CPU reset leaves INTR up, too (`784-805`).
* `dtalk.cpp:434`: after a reset whose boot gave up, the Ctrl-X of `dtalk_stop` waits for
  the firmware's start, longer than the stop runs the card; a second stop overwrites it.

* `mame/i186.cpp:1147`: a source is blocked by itself or by an earlier source in service,
  not by "something at this level"; of two sources on one level the earlier one preempts.
* `doubletalk_board.cpp:160`: the idle value of the marker port is an index event like any other.
* `nvda/.../__init__.py:672` and `638-648`: an utterance dequeued before cancel drains,
  or a chunk past the test of `_stopping`, is heard after `cancel` has returned.
* `__init__.py:316-330`: when `join` times out, `close(unload=False)` still destroys the
  instance, under the thread that has cached `lib` and `handle` (656-657); the comment at
  321-325 expects no more than a leak. The thread's next call works on freed memory; the
  model stops it there (`CallDestroyed`, "lost") and claims nothing of what comes after.
* `__init__.py:699`: a feed that raises leaves `samplesDone` behind for good.
* `__init__.py:618`: a marker number is given out again while it is outstanding when more
  than 100 indexes wait: the two take each other's notification.
* `__init__.py:680`: more than 16 marks in the last chunk are notified after `synthDoneSpeaking`, or lost.
* `mame/i186.cpp:817`: a CPU reset leaves the deadline of a timer it switches off.
* `mame/i186.cpp:1530`: a register write to a prescaled timer that is on gives it a deadline of its own.
* `mame/i186.cpp:1374`: bit 0 is continuous, bit 1 alternate; `notes/PORTING.md:212-213` has bit 1 as auto-reload.
* `mame/i86.cpp:1379`, `1384`: after SBB neither JL nor JNL may jump (a zero result with overflow).
* `doubletalk_board.cpp:222-224`: before the first write the level is that write's when it is queued, not the power-on level.
* `dtalk.cpp:427-443`: what the driver had handed to the instance when it was cancelled is
  dropped there, but an utterance dequeued before the drain and queued after the stop
  stays in the instance and is spoken before the next.
* `mame/i186.cpp:1670`: the firmware's RELREG of 0x1095 has bit 12 set, so the block moves to
  memory at 0x09500; `notes/PORTING.md:142-144` says that the bit is clear.
* `mame/i186.cpp:1728`: a load of POLL acknowledges first and returns the word with the
  valid bit already cleared: a program that polls cannot tell that it got an interrupt.
* `mame/i86.cpp:2475-2499`: IDIV of 0x80000000 by -1 overflows a C++ `int`.
* `mame/i86.cpp:2348`: IMUL sets CF and OF for every negative product that has a sign-extended high half.
* `mame/i86.cpp:1447-1468`: group 0x82 extends the sign of its immediate before the byte
  operation, so that the carry of ADD and SUB with operands from 0x80 on is not the byte's;
  `Alu` has the groups 0x80, 0x81 and 0x83.
* `mame/i86.cpp:2231`: LOCK does not set `m_seg_prefix_next`, so the boundary after it drops a
  segment override in front of it, and an interrupted repeat resumes behind both.
* `mame/i86.cpp:2242`: a repeated instruction that was cut pays for its prefixes again.

## 7. What is not modelled

* Decoding, addressing, MOV/PUSH/CALL/ENTER bodies and cycle counts: a table, best
  shown by a processor test suite. The parts with control (prefixes, REP and the string
  instructions, shadows, HLT) are in `CpuLoop`.
* Chip-select registers, DMA and serial ports: behind offsets that the 188EB's table
  (`internal_port_offset`) does not produce, or registers that only store. Word accesses
  that cross the end of a page; the timers' counts and control words behind the block,
  which `TimerUnit` has.
* The output filters and the Lanczos weights: real numbers without control.
* NMI, single-stepping, slave and iRMX modes of the controller: not used by the board.
* The command-line tool (its feeding loops are `HostFeed`'s with another pace), build files, and pass-through calls (`dtalk_set_lowpass_hz`,
  getters, `pause`).
* Mode bits written over a running timer (`MayMerge`), self-nesting lines (`SelfNesting`).

## 8. Plan

Done, in the order of importance: interrupt controller and its proofs; byte path; session;
driver; timers and run loop with proof; settings; rate boost with proof; instruction
loop; arithmetic; DAC. Then the register block over the controller with the proof that it
implements it, the byte feed in real time with its abstract channel and proofs, the string
instructions, silence after a cancel, and the rate boost under the driver's settings.

Next, modelling:

1. The sample clock: timer 0's elapse through `Scheduler`'s slices, acknowledge, EOI and
   DAC write, which would replace `Doorbell`'s assumption on the sample timer.
2. Stack frames (PUSHA, ENTER, nested traps) at segment ends, BOUND and divide traps in
   `CpuLoop`; NMI and the trap flag.
3. `DtalkSession` under `NvdaDriver`: an abstract instance that both use, `DtalkSession`
   shown to implement it.

Proved since: the byte path on the controller, the driver's threads up to what "done"
means, the settings, the mask register and the storage of the offsets, the segment
override, the order of the timers, the pace of the byte feed, the session's marks and
short returns, the samples of the DAC, the timer unit as a counter for every range
and prescaler, and repeated string instructions, however they are cut.
