-------------------------------- MODULE Alu --------------------------------
(***************************************************************************)
(* The arithmetic of the emulated 80188 (mame/i86.cpp, i86inline.h and     *)
(* i186.cpp) as operators: each takes operands and flags and gives the     *)
(* value that is written back and the flags the program sees next.         *)
(*                                                                         *)
(* The byte and the word form of an instruction are one operator: Bits is  *)
(* 8 or 16.  Numbers are unsigned; the code's 32-bit intermediates never   *)
(* overflow in the forms modelled here.  The code keeps flags lazily       *)
(* (m_CarryVal, m_SignVal, ...); a flag here is what its macro reads.      *)
(***************************************************************************)
EXTENDS Integers, FiniteSets, FiniteSetsExt

CONSTANT Bits

ASSUME BitsAssumption == Bits \in Nat \ {0}

Base == 2^Bits
Half == 2^(Bits - 1)

Flags == [cf : BOOLEAN, pf : BOOLEAN, af : BOOLEAN, zf : BOOLEAN, sf : BOOLEAN, of : BOOLEAN]

Bit(c) == IF c THEN 1 ELSE 0

OnesOf(x)   == {k \in 0..Bits - 1 : (x \div 2^k) % 2 = 1}
Number(S)   == SumSet({2^k : k \in S})
Negative(x) == x >= Half
Signed(x)   == IF Negative(x) THEN x - Base ELSE x

\* PF is the parity of the low byte whatever the width.
Even(x) == Cardinality(OnesOf(x) \cap 0..7) % 2 = 0

\* set_SZPF_Byte, set_SZPF_Word
SZP(f, x) == [f EXCEPT !.sf = Negative(x), !.zf = (x = 0), !.pf = Even(x)]

-----------------------------------------------------------------------------
(* Addition, subtraction, logic.                                           *)

\* ADDB and ADDX, with the carry their callers set.
Add(dst, src, c, f) ==
  LET res == dst + src + c
      r   == res % Base
  IN  [val |-> r,
       f |-> [SZP(f, r) EXCEPT !.cf = (res >= Base),
                !.of = /\ Negative(dst) = Negative(src)
                       /\ Negative(r) # Negative(dst),
                !.af = ((dst % 16) + (src % 16) + c >= 16)]]

\* SUBB and SUBX; NEG is a subtraction from 0, CMP one whose value is dropped.
Sub(dst, src, b, f) ==
  LET res == dst - src - b
      r   == res % Base
  IN  [val |-> r,
       f |-> [SZP(f, r) EXCEPT !.cf = (res < 0),
                !.of = /\ Negative(dst) # Negative(src)
                       /\ Negative(r) # Negative(dst),
                !.af = ((dst % 16) - (src % 16) - b < 0)]]

\* ORB, ANDB, XORB and their word forms.
Logic(x, f) == [val |-> x,
                f |-> [SZP(f, x) EXCEPT !.cf = FALSE, !.of = FALSE, !.af = FALSE]]

\* The eight operations of the groups 0x80, 0x81 and 0x83.  (0x82, a second
\* code for the byte group, extends the sign of its operand before the byte
\* operation, so that its carry is another one for operands from 0x80 on.)
AluOp(op, dst, src, f) ==
  CASE op = "add" -> Add(dst, src, 0, f)
    [] op = "or"  -> Logic(Number(OnesOf(dst) \cup OnesOf(src)), f)
    [] op = "adc" -> Add(dst, src, Bit(f.cf), f)
    [] op = "sbb" -> Sub(dst, src, Bit(f.cf), f)
    [] op = "and" -> Logic(Number(OnesOf(dst) \cap OnesOf(src)), f)
    [] op = "sub" -> Sub(dst, src, 0, f)
    [] op = "xor" -> Logic(Number((OnesOf(dst) \ OnesOf(src)) \cup (OnesOf(src) \ OnesOf(dst))), f)
    [] op = "cmp" -> [val |-> dst, f |-> Sub(dst, src, 0, f).f]

\* INC and DEC keep the carry.
Inc(x, f) == LET s == Add(x, 1, 0, f) IN [s EXCEPT !.f.cf = f.cf]
Dec(x, f) == LET s == Sub(x, 1, 0, f) IN [s EXCEPT !.f.cf = f.cf]

Not(x) == Base - 1 - x

\* CBW and CWD: the high half that extends x.
SignFill(x) == IF Negative(x) THEN Base - 1 ELSE 0

-----------------------------------------------------------------------------
(* Shifts and rotates: one step, then the counted forms.                   *)

Step(op, s) ==
  LET low  == s.val % 2 = 1
      high == Negative(s.val)
  IN  CASE op = "rol" -> [val |-> ((2 * s.val) % Base) + Bit(high), cf |-> high]
        [] op = "ror" -> [val |-> (s.val \div 2) + Half * Bit(low), cf |-> low]
        [] op = "rcl" -> [val |-> ((2 * s.val) % Base) + Bit(s.cf), cf |-> high]
        [] op = "rcr" -> [val |-> (s.val \div 2) + Half * Bit(s.cf), cf |-> low]
        [] op = "shl" -> [val |-> (2 * s.val) % Base, cf |-> high]
        [] op = "shr" -> [val |-> s.val \div 2, cf |-> low]
        [] op = "sar" -> [val |-> (s.val \div 2) + Half * Bit(high), cf |-> low]

Steps(op, n, x, cf) ==
  LET steps[k \in 0..n] == IF k = 0 THEN [val |-> x, cf |-> cf] ELSE Step(op, steps[k - 1])
  IN  steps[n]

\* 0xc0, 0xc1, 0xd2, 0xd3: five bits of the count; rotates leave the other
\* flags alone, shifts set those of the result.
Shift(op, count, x, f) ==
  LET n == count % 32
      s == Steps(op, n, x, f.cf)
  IN  IF n = 0 THEN [val |-> x, f |-> f]
      ELSE [val |-> s.val,
            f |-> IF op \in {"rol", "ror", "rcl", "rcr"}
                    THEN [f EXCEPT !.cf = s.cf]
                    ELSE [SZP(f, s.val) EXCEPT !.cf = s.cf]]

\* 0xd0, 0xd1: by one, with the overflow flag.
ShiftOne(op, x, f) ==
  LET s == Shift(op, 1, x, f)
  IN  [s EXCEPT !.f.of = op # "sar" /\ Negative(x) # Negative(s.val)]

-----------------------------------------------------------------------------
(* Multiplication and division of the groups 0xf6 and 0xf7.  A product and *)
(* a dividend have a high and a low half; a quotient that does not fit, or *)
(* a divisor 0, raises interrupt 0 and changes nothing.                    *)

Mul(x, y, f) ==
  LET p == x * y
  IN  [lo |-> p % Base, hi |-> p \div Base,
       f |-> [f EXCEPT !.cf = (p >= Base), !.of = (p >= Base), !.zf = (p = 0)]]

\* The carry says that the high half is not 0, also where it only extends the
\* sign of the low half.
Imul(x, y, f) ==
  LET p  == Signed(x) * Signed(y)
      hi == (p \div Base) % Base
  IN  [lo |-> p % Base, hi |-> hi,
       f |-> [f EXCEPT !.cf = (hi # 0), !.of = (hi # 0), !.zf = (p = 0)]]

\* 0x69, 0x6b: the product's low half, and whether it is the whole product.
ImulShort(x, y, f) ==
  LET p == Signed(x) * Signed(y)
      c == p \notin -Half..Half - 1
  IN  [val |-> p % Base, f |-> [f EXCEPT !.cf = c, !.of = c]]

Div(hi, lo, y, f) ==
  LET q == (hi * Base + lo) \div y
      r == (hi * Base + lo) % y
  IN  IF y = 0 \/ q >= Base
        THEN [trap |-> TRUE, quo |-> lo, rem |-> hi, f |-> f]
        ELSE [trap |-> FALSE, quo |-> q, rem |-> r, f |-> [f EXCEPT !.zf = (q = 0)]]

\* C++ rounds to 0; the remainder has the dividend's sign.  m_MF is 1 from
\* reset on (POPF reads it as 1), so the quotient -Half does not fit.
Magnitude(n) == IF n < 0 THEN -n ELSE n
Idiv(hi, lo, y, f) ==
  LET n == Signed(hi) * Base + lo
      d == Signed(y)
      m == Magnitude(n) \div Magnitude(d)
      q == IF (n < 0) = (d < 0) THEN m ELSE -m
  IN  IF y = 0 \/ q \notin 1 - Half..Half - 1
        THEN [trap |-> TRUE, quo |-> lo, rem |-> hi, f |-> f]
        ELSE [trap |-> FALSE, quo |-> q % Base, rem |-> (n - q * d) % Base,
              f |-> [f EXCEPT !.zf = (q = 0)]]

-----------------------------------------------------------------------------
(* Decimal adjustments: AL, and AH for the unpacked forms, are bytes.      *)

\* Mutant of Adj4: the carry of the addition is not looked at.
Adj4Carryless(sign, al, f) ==
  LET low   == f.af \/ al % 16 > 9
      one   == IF low THEN al + sign * 6 ELSE al
      high  == one \notin 0..159
      two   == IF high THEN one + sign * 96 ELSE one
  IN  [val |-> two % 256, f |-> [SZP(f, two % 256) EXCEPT !.af = low, !.cf = high]]

\* ADJ4: DAA (sign 1) and DAS (sign -1).
Adj4(sign, al, f) ==
  LET low   == f.af \/ al % 16 > 9
      one   == IF low THEN al + sign * 6 ELSE al
      carry == f.cf \/ one \notin 0..255
      high  == carry \/ one > 159
      two   == IF high THEN one + sign * 96 ELSE one
  IN  [val |-> two % 256, f |-> [SZP(f, two % 256) EXCEPT !.af = low, !.cf = high]]

\* ADJB: AAA (sign 1) and AAS (sign -1).  What AH gets makes up for a carry
\* out of AL.
AdjB(sign, al, ah, f) ==
  LET adjust == f.af \/ al % 16 > 9
      more   == IF al + sign * 6 \in 0..255 THEN 1 ELSE 2
  IN  [al |-> IF adjust THEN (al + sign * 6) % 16 ELSE al % 16,
       ah |-> IF adjust THEN (ah + sign * more) % 256 ELSE ah,
       f |-> [f EXCEPT !.af = adjust, !.cf = adjust]]

\* AAM and AAD, with the digits' base as operand.  AAM sets the flags of the
\* word AX, AAD those of the byte AL; AAM by 0 traps and sets none.
Aam(ah, al, d, f) ==
  LET q == al \div d
      r == al % d
  IN  IF d = 0 THEN [trap |-> TRUE, ah |-> ah, al |-> al, f |-> f]
      ELSE [trap |-> FALSE, ah |-> q, al |-> r,
            f |-> [f EXCEPT !.sf = (q >= 128), !.zf = (q = 0 /\ r = 0), !.pf = Even(r)]]
Aad(ah, al, d, f) == LET v == (ah * d + al) % 256 IN [val |-> v, f |-> SZP(f, v)]

-----------------------------------------------------------------------------
(* The flags word and the conditions.                                      *)

\* CompressFlags: the bits that are set.  Bit 1 always is.
Compress(f) == {k \in {0, 1, 2, 4, 6, 7, 11} :
                  CASE k = 0 -> f.cf [] k = 1 -> TRUE [] k = 2 -> f.pf [] k = 4 -> f.af
                    [] k = 6 -> f.zf [] k = 7 -> f.sf [] k = 11 -> f.of}

Expand(w) == [cf |-> 0 \in w, pf |-> 2 \in w, af |-> 4 \in w,
              zf |-> 6 \in w, sf |-> 7 \in w, of |-> 11 \in w]

\* POPF, and IRET: the four high bits are read as ones.
PopFlags(w) == Expand(w \cup 12..15)

\* The conditions of the even codes 0x70..0x7e.
Jumps(cond, f) ==
  CASE cond = "o"  -> f.of                    [] cond = "c"  -> f.cf
    [] cond = "z"  -> f.zf                    [] cond = "s"  -> f.sf
    [] cond = "p"  -> f.pf                    [] cond = "ce" -> f.cf \/ f.zf
    [] cond = "l"  -> f.sf # f.of /\ ~f.zf    [] cond = "le" -> f.zf \/ f.sf # f.of

\* The odd codes: negations, but "not less" has a formula of its own.
JumpsNot(cond, f) == IF cond = "l" THEN f.sf = f.of ELSE ~Jumps(cond, f)
=============================================================================
