----------------------------- MODULE StringOps -----------------------------
(***************************************************************************)
(* The string instructions MOVS, STOS, LODS, CMPS, SCAS, INS and OUTS, for *)
(* the module that executes them.                                          *)
(*                                                                         *)
(* An instruction i is [op, prefix, down], with the DF it runs under.  It  *)
(* works on a record d = [mem, si, di, cx, a, zf, in, out].  Memory is a   *)
(* ring of elements, one segment that both SI and DI wrap in; an element   *)
(* is a byte, or a word at an even offset.                                 *)
(***************************************************************************)
EXTENDS Integers, Sequences

CONSTANT Elements     \* elements of the segment

ASSUME StringAssumption == Elements \in Nat \ {0}

Offsets == 0..(Elements - 1)
Ops     == {"movs", "stos", "lods", "cmps", "scas", "ins", "outs"}

StringCode == [op : Ops, prefix : {"repe", "repne"}, down : BOOLEAN]

Work == [mem : [Offsets -> Int], si : Offsets, di : Offsets, cx : Nat, a : Int,
         zf : BOOLEAN, in : Nat, out : Seq(Int)]

Compares(i) == i.op \in {"cmps", "scas"}
UsesSI(i)   == i.op \in {"movs", "lods", "cmps", "outs"}
UsesDI(i)   == i.op \in {"movs", "stos", "cmps", "scas", "ins"}

Moved(i, o, n) == IF i.down THEN (o - n) % Elements ELSE (o + n) % Elements

\* External: what the n-th read of the port returns.
FromPort(n) == n % 2

\* i_movsb ... i_scasw, i_insb ... i_outsw: one element.
Stepped(i, d) ==
  [d EXCEPT
     !.mem = CASE i.op = "movs" -> [@ EXCEPT ![d.di] = d.mem[d.si]]
               [] i.op = "stos" -> [@ EXCEPT ![d.di] = d.a]
               [] i.op = "ins"  -> [@ EXCEPT ![d.di] = FromPort(d.in)]
               [] OTHER -> @,
     !.si  = IF UsesSI(i) THEN Moved(i, @, 1) ELSE @,
     !.di  = IF UsesDI(i) THEN Moved(i, @, 1) ELSE @,
     !.a   = IF i.op = "lods" THEN d.mem[d.si] ELSE @,
     !.zf  = IF Compares(i) THEN (IF i.op = "cmps" THEN d.mem[d.si] ELSE d.a) = d.mem[d.di]
             ELSE @,
     !.in  = IF i.op = "ins" THEN @ + 1 ELSE @,
     !.out = IF i.op = "outs" THEN Append(@, d.mem[d.si]) ELSE @]

\* The registers and memory after n elements of a repeated instruction.
Rounds(i, d) ==
  LET r[n \in 0..d.cx] == IF n = 0 THEN d ELSE [Stepped(i, r[n - 1]) EXCEPT !.cx = @ - 1]
  IN  r

\* The comparison lets a repetition go on.
GoesOn(i, zf) == Compares(i) => zf = (i.prefix = "repe")

-----------------------------------------------------------------------------
(* What a repeated instruction is to do, from the state before its first   *)
(* execution: how many elements it handles, and what it makes of memory.   *)

Equal(i, d, k) ==
  (IF i.op = "cmps" THEN d.mem[Moved(i, d.si, k - 1)] ELSE d.a) = d.mem[Moved(i, d.di, k - 1)]

Stoppers(i, d) == {k \in 1..d.cx : Compares(i) /\ Equal(i, d, k) = (i.prefix = "repne")}

Handled(i, d) ==
  IF Stoppers(i, d) = {} THEN d.cx
  ELSE CHOOSE k \in Stoppers(i, d) : \A j \in Stoppers(i, d) : k <= j

\* The element that the k-th place of the destination gets: a source element,
\* or, where the destination runs into the source, one the copy put there.
Source(i, d, k) ==
  LET put[n \in 1..k] ==
        LET hits == {j \in 1..(n - 1) : Moved(i, d.di, j - 1) = Moved(i, d.si, n - 1)}
        IN  CASE i.op = "stos" -> d.a
              [] i.op = "ins" -> FromPort(d.in + n - 1)
              [] OTHER -> IF hits = {} THEN d.mem[Moved(i, d.si, n - 1)]
                          ELSE put[CHOOSE j \in hits : \A h \in hits : h <= j]
  IN  put[k]

\* A search from d ends in e.
Searched(i, d, e) ==
  LET n == Handled(i, d)
  IN  /\ e.cx = d.cx - n
      /\ e.si = IF UsesSI(i) THEN Moved(i, d.si, n) ELSE d.si
      /\ e.di = IF UsesDI(i) THEN Moved(i, d.di, n) ELSE d.di
      /\ e.zf = IF Compares(i) /\ n > 0 THEN Equal(i, d, n) ELSE d.zf

\* A copy, a fill or a transfer from d ends in e: every element once, in
\* order, and nothing else.
Copied(i, d, e) ==
  LET n == Handled(i, d)
      last(o) == {k \in 1..n : /\ Moved(i, d.di, k - 1) = o
                               /\ \A j \in k + 1..n : Moved(i, d.di, j - 1) # o}
  IN  /\ e.mem = [o \in Offsets |->
           IF i.op \in {"movs", "stos", "ins"} /\ last(o) # {}
             THEN Source(i, d, CHOOSE k \in last(o) : TRUE) ELSE d.mem[o]]
      /\ e.a = IF i.op = "lods" /\ n > 0 THEN d.mem[Moved(i, d.si, n - 1)] ELSE d.a
      /\ e.out = d.out \o (IF i.op = "outs"
                             THEN [k \in 1..n |-> d.mem[Moved(i, d.si, k - 1)]] ELSE <<>>)
      /\ e.in = d.in + IF i.op = "ins" THEN n ELSE 0
=============================================================================
