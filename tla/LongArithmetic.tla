--------------------------- MODULE LongArithmetic ---------------------------
(***************************************************************************)
(* What a program gets from the arithmetic of Alu when it chains it:       *)
(* routines on numbers of several limbs, decimal numbers and branch-free   *)
(* selections, one loop round per step, interrupted anywhere by a handler  *)
(* that leaves nothing of the flags but the word PUSHF stored.             *)
(*                                                                         *)
(* The routines are external: any 8086 program may contain them.  Each is  *)
(* correct on the real processor, so each property says that the emulated  *)
(* instructions work together as the real ones do, flags included.         *)
(***************************************************************************)
EXTENDS Alu

CONSTANTS
  Limbs,        \* limbs of a number
  Binary,       \* values of a limb in the binary routines
  Packed,       \* values of a limb in the packed decimal routines
  Digits,       \* values of a limb in the unpacked decimal routines
  Counts        \* shift counts

ASSUME LongAssumption ==
  /\ Limbs \in Nat \ {0, 1}
  /\ Binary \subseteq 0..Base - 1
  /\ \A b \in Packed : b \div 16 \in 0..9 /\ b % 16 \in 0..9
  /\ Digits \subseteq 0..9
  /\ Counts \subseteq Nat

Limb == 0..Limbs - 1

VARIABLES
  routine,   \* the routine that runs
  x, y, n,   \* its operands: two long numbers and a limb; the result is in x
  i,         \* loop rounds done
  hi,        \* a register that carries from round to round
  trap,      \* a division has raised interrupt 0
  f,         \* the flags
  saved,     \* the flags word on the stack inside a handler, else NotSaved
  x0         \* history: x as it was

vars == <<routine, x, y, n, i, hi, trap, f, saved, x0>>

NotSaved == {-1}
Garbage  == {[cf |-> b, pf |-> b, af |-> b, zf |-> b, sf |-> b, of |-> b] : b \in BOOLEAN}

TwoOperands == {"add", "sub", "cmp", "min", "daa", "das", "aaa", "aas"}
Values(r) == CASE r \in {"daa", "das"} -> Packed
               [] r \in {"aaa", "aas"} -> Digits
               [] OTHER                -> Binary
Operand(r) == CASE r \in {"mul", "div", "idiv", "imul"} -> Binary
                [] r \in {"turn", "spin"}               -> Counts
                [] OTHER                                -> {0}
Routines == {"add", "sub", "neg", "cmp", "min", "abs", "zero", "mul", "div", "idiv", "imul",
             "double", "halve", "turn", "spin", "daa", "das", "aaa", "aas", "aam"}

\* Every routine begins with CLC, the negation with STC.
Init == /\ routine \in Routines
        /\ x \in [Limb -> Values(routine)]
        /\ y \in [Limb -> IF routine \in TwoOperands THEN Values(routine) ELSE {0}]
        /\ n \in Operand(routine)
        /\ i = 0 /\ hi = 0 /\ trap = FALSE
        /\ f \in {[g EXCEPT !.cf = (routine = "neg")] : g \in Garbage}
        /\ saved = NotSaved
        /\ x0 = x

-----------------------------------------------------------------------------
(* The loop rounds.                                                        *)

Round(r) == routine = r /\ i < Limbs /\ saved = NotSaved

Kept == UNCHANGED <<routine, y, n, saved, x0>>

\* Limb j becomes v; LOOP counts without touching the flags.
Becomes(j, v, g) == x' = [x EXCEPT ![j] = v] /\ f' = g /\ i' = i + 1 /\ Kept

\* ADC; INC of the index: the carry must survive it.
AddRound ==
  /\ Round("add")
  /\ LET s == AluOp("adc", x[i], y[i], f)
         c == Inc(i, s.f)
     IN  x' = [x EXCEPT ![i] = s.val] /\ i' = c.val /\ f' = c.f
  /\ Kept /\ UNCHANGED <<hi, trap>>

SubRound ==
  /\ Round("sub")
  /\ LET s == AluOp("sbb", x[i], y[i], f) IN Becomes(i, s.val, s.f)
  /\ UNCHANGED <<hi, trap>>

\* NOT; ADC 0, from STC.
NegRound ==
  /\ Round("neg")
  /\ LET s == AluOp("adc", Not(x[i]), 0, f) IN Becomes(i, s.val, s.f)
  /\ UNCHANGED <<hi, trap>>

CmpRound ==
  /\ Round("cmp")
  /\ Becomes(i, x[i], AluOp("cmp", x[i], y[i], f).f)
  /\ UNCHANGED <<hi, trap>>

\* The smaller of two limbs: SUB; SBB m,m; AND; ADD.
MinRound ==
  /\ Round("min")
  /\ LET d == AluOp("sub", x[i], y[i], f)
         m == AluOp("sbb", hi, hi, d.f)
         a == AluOp("and", m.val, d.val, m.f)
         s == AluOp("add", a.val, y[i], a.f)
     IN  Becomes(i, s.val, s.f)
  /\ UNCHANGED <<hi, trap>>

\* The magnitude of a limb: CBW; XOR; SUB.
AbsRound ==
  /\ Round("abs")
  /\ LET m == SignFill(x[i])
         a == AluOp("xor", x[i], m, f)
         s == AluOp("sub", a.val, m, a.f)
     IN  Becomes(i, s.val, s.f)
  /\ UNCHANGED <<hi, trap>>

\* Is the number 0?  OR of all limbs.
ZeroRound ==
  /\ Round("zero")
  /\ LET s == AluOp("or", hi, x[i], f) IN hi' = s.val /\ Becomes(i, x[i], s.f)
  /\ UNCHANGED trap

\* MUL; ADD the limb carried; ADC 0 to the next.
MulRound ==
  /\ Round("mul")
  /\ LET p == Mul(x[i], n, f)
         a == AluOp("add", p.lo, hi, p.f)
         h == AluOp("adc", p.hi, 0, a.f)
     IN  hi' = h.val /\ Becomes(i, a.val, h.f)
  /\ UNCHANGED trap

\* DIV from the top, the remainder carried down.
DivRound ==
  /\ Round("div") /\ ~trap
  /\ LET j == Limbs - 1 - i
         d == Div(hi, x[j], n, f)
     IN  hi' = d.rem /\ trap' = d.trap /\ Becomes(j, d.quo, d.f)

\* One signed division of the two lowest limbs.
IdivRound ==
  /\ Round("idiv") /\ i = 0
  /\ LET d == Idiv(x[1], x[0], n, f)
     IN  /\ x' = [x EXCEPT ![0] = d.quo] /\ hi' = d.rem /\ trap' = d.trap
         /\ f' = d.f /\ i' = Limbs
  /\ Kept

\* A signed product: the high half of the long form, the low half and the
\* flags of the short one.
ImulRound ==
  /\ Round("imul")
  /\ LET p == Imul(x[i], n, f)
         s == ImulShort(x[i], n, p.f)
     IN  hi' = p.hi /\ Becomes(i, s.val, s.f)
  /\ UNCHANGED trap

DoubleRound ==
  /\ Round("double")
  /\ LET s == ShiftOne(IF i = 0 THEN "shl" ELSE "rcl", x[i], f) IN Becomes(i, s.val, s.f)
  /\ UNCHANGED <<hi, trap>>

\* SAR, then RCR downwards; DEC of the index: the carry must survive it.
HalveRound ==
  /\ Round("halve")
  /\ LET j == Limbs - 1 - i
         s == ShiftOne(IF i = 0 THEN "sar" ELSE "rcr", x[j], f)
     IN  Becomes(j, s.val, Dec(j, s.f).f)
  /\ UNCHANGED <<hi, trap>>

\* There and back by the same count: through the carry, and without it.
TurnRound ==
  /\ Round("turn")
  /\ LET a == Shift("rcl", n, x[i], f)
         b == Shift("rcr", n, a.val, a.f)
     IN  Becomes(i, b.val, b.f)
  /\ UNCHANGED <<hi, trap>>

SpinRound ==
  /\ Round("spin")
  /\ LET a == Shift("rol", n, x[i], f)
         b == Shift("ror", n, a.val, a.f)
     IN  Becomes(i, b.val, b.f)
  /\ UNCHANGED <<hi, trap>>

DaaRound ==
  /\ Round("daa")
  /\ LET s == AluOp("adc", x[i], y[i], f)
         d == Adj4(1, s.val, s.f)
     IN  Becomes(i, d.val, d.f)
  /\ UNCHANGED <<hi, trap>>

DasRound ==
  /\ Round("das")
  /\ LET s == AluOp("sbb", x[i], y[i], f)
         d == Adj4(-1, s.val, s.f)
     IN  Becomes(i, d.val, d.f)
  /\ UNCHANGED <<hi, trap>>

AaaRound ==
  /\ Round("aaa")
  /\ LET s == AluOp("adc", x[i], y[i], f)
         d == AdjB(1, s.val, 0, s.f)
     IN  hi' = d.ah /\ Becomes(i, d.al, d.f)
  /\ UNCHANGED trap

AasRound ==
  /\ Round("aas")
  /\ LET s == AluOp("sbb", x[i], y[i], f)
         d == AdjB(-1, s.val, 0, s.f)
     IN  hi' = d.ah /\ Becomes(i, d.al, d.f)
  /\ UNCHANGED trap

\* AAM takes a byte apart, AAD puts it together again.
AamRound ==
  /\ Round("aam")
  /\ LET d == Aam(hi, x[i], 10, f)
         s == Aad(d.ah, d.al, 10, d.f)
     IN  hi' = d.ah /\ trap' = d.trap /\ Becomes(i, s.val, s.f)

LoopRound ==
  \/ AddRound \/ SubRound \/ NegRound \/ CmpRound \/ MinRound \/ AbsRound \/ ZeroRound
  \/ MulRound \/ DivRound \/ IdivRound \/ ImulRound
  \/ DoubleRound \/ HalveRound \/ TurnRound \/ SpinRound \/ DaaRound \/ DasRound \/ AaaRound \/ AasRound
  \/ AamRound

-----------------------------------------------------------------------------
(* Interrupts.                                                             *)

Interrupt == /\ saved = NotSaved
             /\ saved' = Compress(f)
             /\ f' \in Garbage
             /\ UNCHANGED <<routine, x, y, n, i, hi, trap, x0>>

Iret == /\ saved # NotSaved
        /\ f' = PopFlags(saved)
        /\ saved' = NotSaved
        /\ UNCHANGED <<routine, x, y, n, i, hi, trap, x0>>

Next == LoopRound \/ Interrupt \/ Iret

Spec == Init /\ [][Next]_vars

-----------------------------------------------------------------------------
(* Properties.  They speak of the routine, so of its own flags.            *)

Own(r)  == routine = r /\ saved = NotSaved
Done(r) == Own(r) /\ i = Limbs

\* The numbers in the limbs from k on and in those below k, in base b.
From(z, k, b)  == MapThenSumSet(LAMBDA j : z[j] * b^(j - k), k..Limbs - 1)
Below(z, k, b) == MapThenSumSet(LAMBDA j : z[j] * b^j, 0..k - 1)
Whole(z)       == Below(z, Limbs, Base)
SignedWhole(z) == Whole(z) - (IF Negative(z[Limbs - 1]) THEN Base^Limbs ELSE 0)

\* At every round of a long addition the limbs so far and the carry are the
\* exact sum, though INC moves the index and handlers run in between: INC
\* keeps the carry, ADC takes and gives it, PUSHF and POPF carry it across.
SumIsExact ==
  /\ Own("add") => Below(x, i, Base) + Bit(f.cf) * Base^i = Below(x0, i, Base) + Below(y, i, Base)
  /\ Own("neg") => Below(x, i, Base) + Bit(f.cf) * Base^i = Base^i - Below(x0, i, Base)

\* The same of a long subtraction; at its end the carry tells which number is
\* the smaller one, and sign and overflow together which one is, as signed.
DifferenceIsExact ==
  /\ Own("sub") => Below(x, i, Base) - Bit(f.cf) * Base^i = Below(x0, i, Base) - Below(y, i, Base)
  /\ Done("sub") => /\ Jumps("c", f) <=> Whole(x0) < Whole(y)
                    /\ JumpsNot("l", f) <=> SignedWhole(x0) >= SignedWhole(y)

\* After CMP every conditional jump decides what its name says, unsigned and
\* signed, also when the difference overflows: the lazily kept flags and the
\* conditions' formulas fit together.
ComparisonsHold ==
  Own("cmp") /\ i > 0 =>
    LET a == x[i - 1] b == y[i - 1]
    IN  /\ Jumps("c", f)  <=> a < b
        /\ Jumps("ce", f) <=> a <= b
        /\ Jumps("z", f)  <=> a = b
        /\ Jumps("l", f)  <=> Signed(a) < Signed(b)
        /\ Jumps("le", f) <=> Signed(a) <= Signed(b)
        /\ \A c \in {"c", "ce", "z", "l", "le"} : JumpsNot(c, f) = ~Jumps(c, f)

\* A long number times a limb: product limbs and the limb carried are exact at
\* every round.  A signed product is exact, and the short form's carry tells
\* when its low half is not all of it.
ProductIsExact ==
  /\ Own("mul") => Below(x, i, Base) + hi * Base^i = Below(x0, i, Base) * n
  /\ Own("imul") /\ i > 0 =>
       LET p == Signed(x0[i - 1]) * Signed(n)
       IN  Signed(hi) * Base + x[i - 1] = p /\ (f.cf <=> Signed(x[i - 1]) # p)

\* A long number divided by a limb from the top: quotient and remainder are
\* exact at every round and no division traps but one by 0, because each
\* remainder is below the divisor.  A signed division traps exactly when no
\* quotient of the byte fits, else its remainder follows the dividend.
QuotientIsExact ==
  /\ Own("div") => /\ trap <=> n = 0 /\ i > 0
                   /\ ~trap => LET k == Limbs - i
                               IN  From(x, k, Base) * n + hi = From(x0, k, Base)
                   /\ n # 0 => hi < n
  /\ Done("idiv") =>
       LET num == Signed(x0[1]) * Base + x0[0]
           d   == Signed(n)
           Fits(q) == LET r == num - q * d IN Magnitude(r) < Magnitude(d) /\ r * num >= 0
       IN  IF trap THEN \A q \in 1 - Half..Half - 1 : ~Fits(q)
                   ELSE Fits(Signed(x[0])) /\ Signed(hi) = num - Signed(x[0]) * d

\* Doubling and halving a long number loses nothing but the bit that ends in
\* the carry, and a rotation there and back by any count, the carry included or
\* not and the count above the width or not, is no change.
ShiftsAreExact ==
  /\ Own("double") => Below(x, i, Base) + Bit(f.cf) * Base^i = 2 * Below(x0, i, Base)
  /\ Done("halve") => SignedWhole(x) * 2 + Bit(f.cf) = SignedWhole(x0)
  /\ Own("turn") \/ Own("spin") => x = x0
  /\ Own("turn") => ~f.cf

\* Decimal numbers add and subtract in their own base with DAA, DAS, AAA and
\* AAS after ADC and SBB, every carry included: the adjustments use the half carry
\* and the carry the addition left.  AAD undoes AAM and leaves the flags of the
\* whole byte.
DecimalIsExact ==
  LET Decimal(z) == [j \in Limb |-> (z[j] \div 16) * 10 + (z[j] % 16)]
  IN  /\ Own("daa") => Below(Decimal(x), i, 100) + Bit(f.cf) * 100^i
                         = Below(Decimal(x0), i, 100) + Below(Decimal(y), i, 100)
      /\ Own("das") => Below(Decimal(x), i, 100) - Bit(f.cf) * 100^i
                         = Below(Decimal(x0), i, 100) - Below(Decimal(y), i, 100)
      /\ Own("aaa") => /\ Below(x, i, 10) + Bit(f.cf) * 10^i
                            = Below(x0, i, 10) + Below(y, i, 10)
                       /\ hi = Bit(f.cf)
      /\ Own("aas") => /\ Below(x, i, 10) - Bit(f.cf) * 10^i
                            = Below(x0, i, 10) - Below(y, i, 10)
                       /\ hi = (IF f.cf THEN 255 ELSE 0)
      /\ Own("aam") => x = x0 /\ ~trap /\ (i > 0 => (f.zf <=> x0[i - 1] = 0))

\* Selections without a jump: SUB, SBB, AND and ADD give the smaller of two
\* limbs, CBW, XOR and SUB the magnitude, and OR over all limbs the zero flag.
BranchlessIsExact ==
  /\ Own("min") => \A j \in 0..i - 1 : x[j] = IF x0[j] <= y[j] THEN x0[j] ELSE y[j]
  /\ Own("abs") => \A j \in 0..i - 1 : x[j] = Magnitude(Signed(x0[j]))
  /\ Done("zero") => (f.zf <=> Whole(x0) = 0)

\* Every routine gives the exact results above, whatever interrupts it.
ResultsAreExact ==
  /\ SumIsExact /\ DifferenceIsExact /\ ComparisonsHold /\ BranchlessIsExact
  /\ ProductIsExact /\ QuotientIsExact
  /\ ShiftsAreExact /\ DecimalIsExact
=============================================================================
