----------------------------- MODULE Scheduler -----------------------------
(***************************************************************************)
(* The run loop of shim/emu.cpp: running_machine::run_cycles sizes each    *)
(* CPU slice to end at the next timer expiry, fires what is due between    *)
(* slices, and a timer set from inside a slice to expire before its end    *)
(* cuts the slice short.  Time is in CPU cycles.                           *)
(*                                                                         *)
(* An instruction costs one of Costs cycles and may set or stop one timer  *)
(* before its cycles are counted (the port accesses of i86.cpp come before *)
(* their CLK); so may a callback.                                          *)
(***************************************************************************)
EXTENDS Integers

CONSTANTS
  Timers,       \* m_timers, numbered in the order of the list
  Requests,     \* arguments of run_cycles
  Costs,        \* cycles an instruction may take
  Delays,       \* durations a timer is set to
  MaxSlice,     \* MAX_SLICE
  MaxTime       \* bound of the model on the clock

ASSUME SchedulerAssumption ==
  /\ Timers \subseteq Nat
  /\ Costs # {}
  /\ {MaxSlice} \cup Requests \cup Costs \cup Delays \subseteq Nat \ {0}
  /\ MaxTime \in Nat

VARIABLES
  at,           \* where run_cycles is: "host", "fire", "cpu" or "final"
  base,         \* m_base_cycles
  target,
  icount,       \* the CPU's cycle counter
  sliceBase,    \* shim_slice_base
  sliceEnd,     \* m_slice_end
  expire,       \* m_expire of each timer; Never when it is not enabled
  spent,        \* history: cycles the CPU has executed
  fired         \* history: the time the last callback saw

vars == <<at, base, target, icount, sliceBase, sliceEnd, expire, spent, fired>>

Never == -1

Init == /\ at = "host"
        /\ base = 0 /\ target = 0
        /\ icount = 0 /\ sliceBase = 0 /\ sliceEnd = 0
        /\ expire = [t \in Timers |-> Never]
        /\ spent = 0 /\ fired = 0

\* now_cycles() outside a callback.
Now == IF at = "cpu" THEN base + sliceBase - icount ELSE base

Armed == {t \in Timers : expire[t] # Never}

Lesser(a, b)  == IF a < b THEN a ELSE b
Greater(a, b) == IF a > b THEN a ELSE b

-----------------------------------------------------------------------------
\* The caller: dtalk.cpp runs a chunk, a feed gap, a boot step.
RunCycles ==
  /\ at = "host" /\ base < MaxTime
  /\ \E n \in Requests : target' = base + n
  /\ at' = "fire"
  /\ UNCHANGED <<base, icount, sliceBase, sliceEnd, expire, spent, fired>>

Due == {t \in Armed : expire[t] <= base}

\* The earliest, and of several the first in the list.
IsNext(t) == \A u \in Due : \/ expire[t] < expire[u]
                            \/ expire[t] = expire[u] /\ t <= u

\* emu_timer::adjust at time now, for one of Delays or for never: the new expiry.
Expiries(now) == {now + d : d \in Delays} \cup {Never}

\* Mutants of Fire: the last in the list that is due, whatever its expiry; a
\* timer that fired stays enabled.
FireAny ==
  /\ at \in {"fire", "final"}
  /\ \E t \in Due :
       /\ \A u \in Due : u <= t
       /\ fired' = expire[t]
       /\ \E u \in Timers, e \in Expiries(expire[t]) :
            expire' = [expire EXCEPT ![t] = Never, ![u] = e]
  /\ UNCHANGED <<at, base, target, icount, sliceBase, sliceEnd, spent>>

FireRepeats ==
  /\ at \in {"fire", "final"}
  /\ \E t \in Due :
       /\ IsNext(t)
       /\ fired' = expire[t]
       /\ \E u \in Timers, e \in Expiries(expire[t]) :
            expire' = [expire EXCEPT ![u] = e]
  /\ UNCHANGED <<at, base, target, icount, sliceBase, sliceEnd, spent>>

\* One turn of fire_due_timers: time is pinned to the expiry, and the
\* callback may set its own timer again or do as it likes with another one.
Fire ==
  /\ at \in {"fire", "final"}
  /\ \E t \in Due :
       /\ IsNext(t)
       /\ fired' = expire[t]
       /\ \E u \in Timers, e \in Expiries(expire[t]) :
            expire' = [expire EXCEPT ![t] = Never, ![u] = e]
  /\ UNCHANGED <<at, base, target, icount, sliceBase, sliceEnd, spent>>

Horizon == {target} \cup {expire[t] : t \in Armed}

\* Nothing is due: a slice up to the next expiry or the target.
BeginSlice ==
  /\ at = "fire" /\ Due = {}
  /\ \E e \in Horizon :
       /\ \A f \in Horizon : e <= f
       /\ sliceBase' = Lesser(Greater(e - base, 1), MaxSlice)
  /\ icount' = sliceBase'
  /\ sliceEnd' = base + sliceBase'
  /\ at' = "cpu"
  /\ UNCHANGED <<base, target, expire, spent, fired>>

\* An instruction that touches no timer, or stops one.
Execute ==
  /\ at = "cpu" /\ icount > 0
  /\ \E c \in Costs :
       /\ icount' = icount - c
       /\ spent' = spent + c
  /\ \/ UNCHANGED expire
     \/ \E u \in Armed : expire' = [expire EXCEPT ![u] = Never]
  /\ UNCHANGED <<at, base, target, sliceBase, sliceEnd, fired>>

\* Mutants of ExecuteSet: the slice is not cut short; it is, but its base is
\* not moved with it.
ExecuteSetNoAbort ==
  /\ at = "cpu" /\ icount > 0
  /\ \E u \in Timers, d \in Delays, c \in Costs :
       /\ expire' = [expire EXCEPT ![u] = Now + d]
       /\ icount' = icount - c
       /\ UNCHANGED sliceBase
       /\ spent' = spent + c
  /\ UNCHANGED <<at, base, target, sliceEnd, fired>>

ExecuteSetNoRebase ==
  /\ at = "cpu" /\ icount > 0
  /\ \E u \in Timers, d \in Delays, c \in Costs :
       /\ expire' = [expire EXCEPT ![u] = Now + d]
       /\ icount' = (IF Now + d < sliceEnd THEN 0 ELSE icount) - c
       /\ UNCHANGED sliceBase
       /\ spent' = spent + c
  /\ UNCHANGED <<at, base, target, sliceEnd, fired>>

\* An instruction that sets a timer: timer_list_changed cuts the slice short,
\* abort_timeslice moves its base by as much.
ExecuteSet ==
  /\ at = "cpu" /\ icount > 0
  /\ \E u \in Timers, d \in Delays, c \in Costs :
       /\ expire' = [expire EXCEPT ![u] = Now + d]
       /\ LET cut == Now + d < sliceEnd
          IN  /\ icount' = (IF cut THEN 0 ELSE icount) - c
              /\ sliceBase' = IF cut THEN sliceBase - icount ELSE sliceBase
       /\ spent' = spent + c
  /\ UNCHANGED <<at, base, target, sliceEnd, fired>>

\* A halted CPU gives up the rest of its slice.
Halt ==
  /\ at = "cpu" /\ icount > 0
  /\ spent' = spent + icount
  /\ icount' = 0
  /\ UNCHANGED <<at, base, target, sliceBase, sliceEnd, expire, fired>>

\* What was consumed counts, which may be more than the slice, or less when it
\* was cut short.
EndSlice ==
  /\ at = "cpu" /\ icount <= 0
  /\ base' = base + (sliceBase - icount)
  /\ at' = IF base' < target THEN "fire" ELSE "final"
  /\ UNCHANGED <<target, icount, sliceBase, sliceEnd, expire, spent, fired>>

Return ==
  /\ at = "final" /\ Due = {}
  /\ at' = "host"
  /\ UNCHANGED <<base, target, icount, sliceBase, sliceEnd, expire, spent, fired>>

Step == \/ Fire \/ BeginSlice \/ Execute \/ ExecuteSet \/ Halt \/ EndSlice \/ Return

Next == RunCycles \/ Step

Safe == Init /\ [][Next]_vars

\* run_cycles is one thread that runs on; its caller need not call again.
Spec == Safe /\ WF_vars(Step)

-----------------------------------------------------------------------------
(* Properties.                                                             *)

\* Type invariant.
TypeOK ==
  /\ at \in {"host", "fire", "cpu", "final"}
  /\ {base, target, sliceEnd, spent, fired} \subseteq Nat
  /\ icount \in Int /\ sliceBase \in Int
  /\ expire \in [Timers -> Nat \cup {Never}]

\* The clock is honest: now_cycles() is the number of cycles executed, also
\* after a slice was cut short or overran.
ClockIsHonest == Now = spent

\* Expiry is exact to the instruction boundary (emu.h, design notes): no
\* instruction starts at or after the expiry of a timer that has not fired.
Punctual == at = "cpu" /\ icount > 0 => \A t \in Armed : Now < expire[t]

\* A timer is never overdue by a whole instruction, and nothing is due when
\* run_cycles returns, which overruns its target by less than an instruction.
NeverLate ==
  /\ \A t \in Armed : \E c \in Costs : Now - expire[t] < c
  /\ at = "host" => /\ \A t \in Armed : base < expire[t]
                    /\ target > 0 => \E c \in Costs : base - target < c

\* A timer fires at the first instruction boundary at or after its expiry:
\* no instruction starts late and nothing is left due.
OnTime == Punctual /\ NeverLate

\* Callbacks see time move forward: no timer fires at a time before that of
\* one that has fired already, even after the CPU overran both.
FiresInOrder == [][fired' >= fired]_vars

\* run_cycles returns, whatever the callbacks set.
Returns == at # "host" ~> at = "host"
=============================================================================
