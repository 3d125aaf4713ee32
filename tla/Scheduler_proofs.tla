-------------------------- MODULE Scheduler_proofs --------------------------
(***************************************************************************)
(* For every set of timers, costs, delays and requests: the clock of       *)
(* Scheduler is honest, no instruction starts late, no timer is overdue by *)
(* an instruction, run_cycles overruns by less than one, and timers fire   *)
(* in the order of their expiries.                                         *)
(*                                                                         *)
(* The inductive invariant says why: while the CPU has cycles left, the    *)
(* slice has not been cut short, and ends at or before every expiry and    *)
(* the target.  Only then does an instruction run, so it overruns them by  *)
(* less than its own cost.                                                 *)
(***************************************************************************)
EXTENDS Scheduler, TLAPS

\* By less than an instruction.
Within(n) == \E c \in Costs : n < c

InSlice ==
  at = "cpu" /\ icount > 0 =>
    /\ base + sliceBase = sliceEnd
    /\ sliceEnd <= target
    /\ \A t \in Timers : expire[t] # Never => sliceEnd <= expire[t]

OverrunsLittle ==
  /\ \A t \in Timers : expire[t] # Never => Within(Now - expire[t])
  /\ at = "fire" => base < target
  /\ at \in {"cpu", "final"} => Within(Now - target)
  /\ at = "host" => /\ \A t \in Timers : expire[t] # Never => base < expire[t]
                    /\ target > 0 => Within(base - target)

IInv == TypeOK /\ ClockIsHonest /\ InSlice /\ OverrunsLittle

\* The parameters, in the form the steps use.
LEMMA Parameters ==
  /\ \A c \in Costs : c \in Nat /\ c > 0
  /\ \A d \in Delays : d \in Nat /\ d > 0
  /\ \A n \in Requests : n \in Nat /\ n > 0
  /\ MaxSlice \in Nat /\ MaxSlice > 0
  /\ Costs # {}
BY SchedulerAssumption

LEMMA InitInv == Init => IInv
<1> SUFFICES ASSUME Init PROVE IInv
  OBVIOUS
<1>1. TypeOK
  BY DEF Init, TypeOK, Never
<1>2. ClockIsHonest /\ InSlice
  BY DEF Init, ClockIsHonest, Now, InSlice
<1>3. OverrunsLittle
  BY DEF Init, OverrunsLittle, Never
<1> QED
  BY <1>1, <1>2, <1>3 DEF IInv

\* A callback moves one expiry to after the time it was pinned to, which was
\* itself overdue by less than an instruction.
LEMMA FireInv ==
  ASSUME IInv, Fire PROVE IInv'
<1> USE DEF IInv, TypeOK, Never
<1>0. PICK t \in Due :
         /\ fired' = expire[t]
         /\ \E u \in Timers, e \in Expiries(expire[t]) :
              expire' = [expire EXCEPT ![t] = Never, ![u] = e]
  BY DEF Fire
<1>1. PICK u \in Timers, e \in Expiries(expire[t]) :
         expire' = [expire EXCEPT ![t] = Never, ![u] = e] /\ fired' = expire[t]
  BY <1>0
<1>2. t \in Timers /\ expire[t] \in Nat /\ expire[t] <= base /\ at \in {"fire", "final"}
  BY DEF Due, Armed, Fire
<1>3. e = Never \/ (e \in Nat /\ e > expire[t])
  BY <1>2, Parameters DEF Expiries
<1>4. TypeOK'
  BY <1>1, <1>2, <1>3 DEF Fire
<1>5. UNCHANGED <<at, base, target, icount, sliceBase, sliceEnd, spent>> /\ Now' = Now
  BY DEF Fire, Now
<1>6. ClockIsHonest' /\ InSlice'
  BY <1>2, <1>5 DEF ClockIsHonest, InSlice
<1>7. ASSUME NEW v \in Timers, expire'[v] # Never PROVE Within(Now - expire'[v])
  <2>1. CASE v = u
    <3>1. expire'[v] = e /\ e \in Nat /\ e > expire[t]
      BY <1>1, <1>3, <1>7, <2>1
    <3>2. PICK c \in Costs : Now - expire[t] < c
      BY <1>2 DEF OverrunsLittle, Within
    <3>3. Now \in Int /\ c \in Nat
      BY Parameters DEF Now
    <3>4. Now - expire'[v] < c
      BY <3>1, <3>2, <3>3, <1>2
    <3> QED
      BY <3>4 DEF Within
  <2>2. CASE v # u
    BY <1>1, <1>7, <2>2 DEF OverrunsLittle
  <2> QED
    BY <2>1, <2>2
<1>8. OverrunsLittle'
  BY <1>2, <1>5, <1>7 DEF OverrunsLittle, Within
<1> QED
  BY <1>4, <1>6, <1>8

LEMMA BeginSliceInv ==
  ASSUME IInv, BeginSlice PROVE IInv'
<1> USE DEF IInv, TypeOK, Never
<1>1. PICK e \in Horizon : /\ \A f \in Horizon : e <= f
                           /\ sliceBase' = Lesser(Greater(e - base, 1), MaxSlice)
  BY DEF BeginSlice
<1>2. at = "fire" /\ base < target
  BY DEF BeginSlice, OverrunsLittle
<1>3. ASSUME NEW t \in Timers, expire[t] # Never PROVE expire[t] \in Nat /\ base < expire[t] /\ e <= expire[t]
  <2>1. t \in Armed
    BY <1>3 DEF Armed
  <2>2. t \notin Due
    BY DEF BeginSlice
  <2> QED
    BY <1>1, <2>1, <2>2 DEF Due, Horizon
<1>4. e \in Nat /\ base < e /\ e <= target
  BY <1>1, <1>2, <1>3 DEF Horizon, Armed
<1>5. sliceBase' \in Nat /\ sliceBase' > 0 /\ sliceBase' <= e - base
  BY <1>1, <1>4, Parameters DEF Lesser, Greater
<1>6. /\ icount' = sliceBase' /\ sliceEnd' = base + sliceBase' /\ at' = "cpu"
      /\ UNCHANGED <<base, target, expire, spent, fired>>
  BY DEF BeginSlice
<1>7. Now' = Now /\ Now = base
  BY <1>2, <1>5, <1>6 DEF Now
<1>8. TypeOK'
  BY <1>5, <1>6
<1>9. ClockIsHonest'
  BY <1>6, <1>7 DEF ClockIsHonest
<1>10. InSlice'
  BY <1>3, <1>4, <1>5, <1>6 DEF InSlice
<1>11. Within(Now' - target)
  <2>1. PICK c \in Costs : c > 0 /\ c \in Nat
    BY Parameters
  <2>2. base - target < c
    BY <1>2, <2>1
  <2> QED
    BY <1>7, <2>2 DEF Within
<1>12. OverrunsLittle'
  BY <1>6, <1>7, <1>11 DEF OverrunsLittle, Within
<1> QED
  BY <1>8, <1>9, <1>10, <1>12

\* What an instruction of cost c does to the clock, whether or not the slice
\* was cut short: it starts before every expiry and before the target.
LEMMA Running ==
  ASSUME IInv, at = "cpu", icount > 0
  PROVE /\ Now \in Int /\ Now < target
        /\ \A t \in Timers : expire[t] # Never => Now < expire[t] /\ expire[t] \in Nat
BY DEF IInv, TypeOK, InSlice, Now, Never

LEMMA ExecuteInv ==
  ASSUME IInv, Execute PROVE IInv'
<1> USE DEF IInv, TypeOK, Never
<1>1. PICK c \in Costs : icount' = icount - c /\ spent' = spent + c
  BY DEF Execute
<1>2. c \in Nat /\ c > 0
  BY Parameters
<1>3. at = "cpu" /\ icount > 0 /\ UNCHANGED <<at, base, target, sliceBase, sliceEnd, fired>>
  BY DEF Execute
<1>4. Now' = Now + c
  BY <1>1, <1>2, <1>3 DEF Now
<1>5. expire' \in [Timers -> Nat \cup {Never}]
      /\ \A t \in Timers : expire'[t] # Never => expire'[t] = expire[t] /\ expire[t] # Never
  BY DEF Execute, Armed
<1>6. TypeOK'
  BY <1>1, <1>2, <1>3, <1>5
<1>7. ClockIsHonest'
  BY <1>1, <1>4 DEF ClockIsHonest
<1>8. InSlice'
  BY <1>1, <1>2, <1>3, <1>5 DEF InSlice
<1>9. Now' - target < c
  BY <1>2, <1>3, <1>4, Running
<1>10. \A t \in Timers : expire'[t] # Never => Now' - expire'[t] < c
  BY <1>2, <1>3, <1>4, <1>5, Running
<1>11. OverrunsLittle'
  BY <1>3, <1>9, <1>10 DEF OverrunsLittle, Within
<1> QED
  BY <1>6, <1>7, <1>8, <1>11

LEMMA ExecuteSetInv ==
  ASSUME IInv, ExecuteSet PROVE IInv'
<1> USE DEF IInv, TypeOK, Never
<1>1. PICK u \in Timers, d \in Delays, c \in Costs :
         /\ expire' = [expire EXCEPT ![u] = Now + d]
         /\ icount' = (IF Now + d < sliceEnd THEN 0 ELSE icount) - c
         /\ sliceBase' = IF Now + d < sliceEnd THEN sliceBase - icount ELSE sliceBase
         /\ spent' = spent + c
  BY DEF ExecuteSet
<1>2. c \in Nat /\ c > 0 /\ d \in Nat /\ d > 0
  BY Parameters
<1>3. at = "cpu" /\ icount > 0 /\ UNCHANGED <<at, base, target, sliceEnd, fired>>
  BY DEF ExecuteSet
<1>4. Now \in Nat /\ Now < target
  BY <1>3, Running DEF ClockIsHonest
<1>5. Now' = Now + c
  BY <1>1, <1>2, <1>3 DEF Now
<1>6. TypeOK'
  BY <1>1, <1>2, <1>3, <1>4
<1>7. ClockIsHonest'
  BY <1>1, <1>5 DEF ClockIsHonest
<1>8. InSlice'
  BY <1>1, <1>2, <1>3, <1>4 DEF InSlice
<1>9. Now' - target < c
  BY <1>2, <1>3, <1>4, <1>5
<1>10. \A t \in Timers : expire'[t] # Never => Now' - expire'[t] < c
  BY <1>1, <1>2, <1>3, <1>4, <1>5, Running
<1>11. OverrunsLittle'
  BY <1>3, <1>9, <1>10 DEF OverrunsLittle, Within
<1> QED
  BY <1>6, <1>7, <1>8, <1>11

LEMMA HaltInv ==
  ASSUME IInv, Halt PROVE IInv'
<1> USE DEF IInv, TypeOK, Never
<1>1. /\ at = "cpu" /\ icount > 0 /\ icount' = 0 /\ spent' = spent + icount
      /\ UNCHANGED <<at, base, target, sliceBase, sliceEnd, expire, fired>>
  BY DEF Halt
<1>2. Now' = sliceEnd /\ Now' = Now + icount
  BY <1>1 DEF Now, InSlice
<1>3. TypeOK' /\ ClockIsHonest' /\ InSlice'
  BY <1>1, <1>2 DEF ClockIsHonest, InSlice
<1>4. PICK c \in Costs : c \in Nat /\ c > 0
  BY Parameters
<1>5. /\ Now' - target < c
      /\ \A t \in Timers : expire[t] # Never => Now' - expire[t] < c
  BY <1>1, <1>2, <1>4 DEF InSlice
<1>6. OverrunsLittle'
  BY <1>1, <1>5 DEF OverrunsLittle, Within
<1> QED
  BY <1>3, <1>6

LEMMA OtherInv ==
  ASSUME IInv, RunCycles \/ EndSlice \/ Return PROVE IInv'
<1> USE DEF IInv, TypeOK, Never
<1>1. CASE RunCycles
  <2>1. target' \in Nat /\ target' > base
    BY <1>1, Parameters DEF RunCycles
  <2>2. /\ at = "host" /\ at' = "fire"
        /\ UNCHANGED <<base, icount, sliceBase, sliceEnd, expire, spent, fired>>
    BY <1>1 DEF RunCycles
  <2>3. Now' = Now
    BY <2>2 DEF Now
  <2>4. TypeOK' /\ ClockIsHonest' /\ InSlice'
    BY <2>1, <2>2, <2>3 DEF ClockIsHonest, InSlice
  <2>5. OverrunsLittle'
    BY <2>1, <2>2, <2>3 DEF OverrunsLittle, Within
  <2> QED
    BY <2>4, <2>5
<1>2. CASE EndSlice
  <2>1. /\ at = "cpu" /\ base' = base + (sliceBase - icount) /\ at' \in {"fire", "final"}
        /\ at' = "fire" => base' < target
        /\ UNCHANGED <<target, icount, sliceBase, sliceEnd, expire, spent, fired>>
    BY <1>2 DEF EndSlice
  <2>2. Now' = Now /\ base' = Now
    BY <2>1 DEF Now
  <2>3. TypeOK' /\ ClockIsHonest' /\ InSlice'
    BY <2>1, <2>2 DEF ClockIsHonest, InSlice
  <2>4. OverrunsLittle'
    BY <2>1, <2>2 DEF OverrunsLittle, Within
  <2> QED
    BY <2>3, <2>4
<1>3. CASE Return
  <2>1. /\ at = "final" /\ Due = {} /\ at' = "host"
        /\ UNCHANGED <<base, target, icount, sliceBase, sliceEnd, expire, spent, fired>>
    BY <1>3 DEF Return
  <2>2. Now' = Now /\ Now = base
    BY <2>1 DEF Now
  <2>3. TypeOK' /\ ClockIsHonest' /\ InSlice'
    BY <2>1, <2>2 DEF ClockIsHonest, InSlice
  <2>4. \A t \in Timers : expire[t] # Never => base < expire[t]
    BY <2>1 DEF Due, Armed
  <2>5. OverrunsLittle'
    BY <2>1, <2>2, <2>4 DEF OverrunsLittle, Within
  <2> QED
    BY <2>3, <2>5
<1> QED
  BY <1>1, <1>2, <1>3

LEMMA StutterInv ==
  ASSUME IInv, UNCHANGED vars PROVE IInv'
BY DEF vars, IInv, TypeOK, ClockIsHonest, InSlice, OverrunsLittle, Within, Now

LEMMA NextInv == IInv /\ [Next]_vars => IInv'
<1> SUFFICES ASSUME IInv, [Next]_vars PROVE IInv'
  OBVIOUS
<1> QED
  BY FireInv, BeginSliceInv, ExecuteInv, ExecuteSetInv, HaltInv, OtherInv, StutterInv
     DEF Next, Step

LEMMA InvImplies == IInv => TypeOK /\ ClockIsHonest /\ Punctual /\ NeverLate
<1> SUFFICES ASSUME IInv PROVE TypeOK /\ ClockIsHonest /\ Punctual /\ NeverLate
  OBVIOUS
<1>1. Punctual
  BY Running DEF Punctual, Armed
<1>2. NeverLate
  BY DEF IInv, OverrunsLittle, NeverLate, Within, Armed
<1> QED
  BY <1>1, <1>2 DEF IInv

\* For every instance: the clock counts exactly the cycles executed.
THEOREM ClockCorrect == Safe => [](TypeOK /\ ClockIsHonest)
<1>1. IInv => TypeOK /\ ClockIsHonest
  BY InvImplies
<1> QED
  BY InitInv, NextInv, <1>1, PTL DEF Safe

\* For every instance: no instruction starts at or after the expiry of a timer
\* that has not fired, no timer is overdue by a whole instruction, and
\* run_cycles returns with nothing due and less than one instruction late.
THEOREM TimersPunctual == Safe => []OnTime
<1>1. IInv => OnTime
  BY InvImplies DEF OnTime
<1> QED
  BY InitInv, NextInv, <1>1, PTL DEF Safe

-----------------------------------------------------------------------------
(* The order in which timers fire.                                         *)

\* No expiry, and not the clock either, lies before the last one fired.
Onward == fired <= Now /\ \A t \in Timers : expire[t] # Never => fired <= expire[t]

LEMMA OnwardFire ==
  ASSUME IInv, Onward, Fire PROVE fired' >= fired /\ Onward'
<1> USE DEF IInv, TypeOK, Never
<1>1. PICK t \in Due : IsNext(t) /\ fired' = expire[t]
                       /\ \E u \in Timers, e \in Expiries(expire[t]) :
                            expire' = [expire EXCEPT ![t] = Never, ![u] = e]
  BY DEF Fire
<1>2. PICK u \in Timers, e \in Expiries(expire[t]) :
         expire' = [expire EXCEPT ![t] = Never, ![u] = e]
  BY <1>1
<1>3. t \in Timers /\ expire[t] \in Nat /\ expire[t] <= base /\ base \in Nat
  BY DEF Due, Armed
<1>4. e = Never \/ (e \in Nat /\ e > expire[t])
  BY <1>2, <1>3, Parameters DEF Expiries
<1>5. Now' = base
  BY DEF Fire, Now
<1>6. ASSUME NEW v \in Timers, expire[v] # Never PROVE expire[t] <= expire[v]
  BY <1>1, <1>3, <1>6 DEF Due, Armed, IsNext
<1>7. \A v \in Timers : expire'[v] # Never => expire[t] <= expire'[v]
  BY <1>2, <1>3, <1>4, <1>6
<1>8. Onward'
  BY <1>1, <1>3, <1>5, <1>7 DEF Onward
<1> QED
  BY <1>1, <1>3, <1>8 DEF Onward

LEMMA OnwardOther ==
  ASSUME IInv, IInv', Onward, [Next]_vars, ~Fire PROVE fired' = fired /\ Onward'
<1> USE DEF IInv, TypeOK, Never
<1>1. CASE Execute
  <2>1. PICK c \in Costs : icount' = icount - c
    BY <1>1 DEF Execute
  <2>2. c \in Nat /\ Now' = Now + c
    BY <1>1, <2>1, Parameters DEF Execute, Now
  <2>3. \A t \in Timers : expire'[t] # Never => expire'[t] = expire[t] /\ expire[t] # Never
    BY <1>1 DEF Execute, Armed
  <2>4. fired' = fired /\ Now \in Int
    BY <1>1 DEF Execute, Now
  <2> QED
    BY <2>2, <2>3, <2>4 DEF Onward
<1>2. CASE ExecuteSet
  <2>1. PICK u \in Timers, d \in Delays, c \in Costs :
           /\ expire' = [expire EXCEPT ![u] = Now + d]
           /\ icount' = (IF Now + d < sliceEnd THEN 0 ELSE icount) - c
           /\ sliceBase' = IF Now + d < sliceEnd THEN sliceBase - icount ELSE sliceBase
    BY <1>2 DEF ExecuteSet
  <2>2. at = "cpu" /\ UNCHANGED <<at, base, fired>>
    BY <1>2 DEF ExecuteSet
  <2>3. c \in Nat /\ d \in Nat /\ Now \in Int /\ Now' = Now + c
    BY <2>1, <2>2, Parameters DEF Now
  <2>4. \A t \in Timers : expire'[t] # Never => fired <= expire'[t]
    BY <2>1, <2>3 DEF Onward
  <2> QED
    BY <2>2, <2>3, <2>4 DEF Onward
<1>3. CASE Halt
  <2>1. Now' = Now + icount /\ icount > 0 /\ fired' = fired /\ expire' = expire /\ Now \in Int
    BY <1>3 DEF Halt, Now
  <2> QED
    BY <2>1 DEF Onward
<1>4. CASE BeginSlice
  <2>1. Now' = base /\ Now = base /\ UNCHANGED <<fired, expire>>
    BY <1>4 DEF BeginSlice, Now
  <2> QED
    BY <2>1 DEF Onward
<1>5. CASE EndSlice
  <2>1. Now' = Now /\ UNCHANGED <<fired, expire>>
    BY <1>5 DEF EndSlice, Now
  <2> QED
    BY <2>1 DEF Onward
<1>6. CASE RunCycles \/ Return \/ UNCHANGED vars
  <2>1. Now' = Now /\ UNCHANGED <<fired, expire>>
    BY <1>6 DEF RunCycles, Return, vars, Now
  <2> QED
    BY <2>1 DEF Onward
<1> QED
  BY <1>1, <1>2, <1>3, <1>4, <1>5, <1>6 DEF Next, Step

\* For every instance: callbacks see time move forward, whatever they and the
\* program set, and however far an instruction overran.
THEOREM TimersInOrder == Safe => FiresInOrder
<1>1. Init => Onward
  BY DEF Init, Onward, Now, Never
<1>2. IInv /\ IInv' /\ Onward /\ [Next]_vars => Onward' /\ [fired' >= fired]_vars
  BY OnwardFire, OnwardOther DEF IInv, TypeOK
<1> QED
  BY <1>1, <1>2, InitInv, NextInv, PTL DEF Safe, FiresInOrder
=============================================================================
