------------------------------ MODULE IntHelper ------------------------------
(***************************************************************************)
(* Integer instructions the emulator computes in C (target-i386/           *)
(* int_helper.c): division, decimal adjustment, bit scans, multiplication, *)
(* and rotation through carry (shift_helper_template.h).  A calculation is *)
(* one step from its operands to its result.  Words have W bits where the  *)
(* code has 64.                                                            *)
(***************************************************************************)
EXTENDS Integers, Sequences, FiniteSets

CONSTANTS W, Bytes  \* word size; the bytes decimal instructions are given

VARIABLE calc  \* [kind, in, out], out being <<>> before the step

Word == 2 ^ W
Bit(x, n) == (x \div 2 ^ n) % 2
Signed(x, n) == IF x >= 2 ^ (n - 1) THEN x - 2 ^ n ELSE x
Overflow == <<"DIVZ">>

-----------------------------------------------------------------------------
(* Division *)

\* The narrow divisions, of 2w bits by w: helper_divb_AL to helper_divl_EAX.
divide(num, den, w) ==
  IF den = 0 \/ num \div den >= 2 ^ w THEN Overflow
  ELSE <<num \div den, num % den>>
\* C rounds towards zero; the remainder has the dividend's sign.
Abs(x) == IF x < 0 THEN -x ELSE x
Trunc(num, den) ==
  LET q == Abs(num) \div Abs(den) IN IF (num < 0) = (den < 0) THEN q ELSE -q
\* helper_idivb_AL to helper_idivl_EAX; the quotient has to be what it is
\* when it is cut to w bits and extended.
idivide(num, den, w) ==
  LET n == Signed(num, 2 * w)  d == Signed(den, w)  q == Trunc(n, d) IN
  IF den = 0 THEN Overflow
  ELSE IF Signed(q % 2 ^ w, w) # q THEN Overflow
  ELSE <<q % 2 ^ w, (n - q * d) % 2 ^ w>>

\* A double word is <<low, high>>.
add128(lh, a, b) ==
  LET low == (lh[1] + a) % Word
      carry == IF low < a THEN 1 ELSE 0
  IN  <<low, (lh[2] + carry + b) % Word>>
neg128(lh) == add128(<<Word - 1 - lh[1], Word - 1 - lh[2]>>, 1, 0)

\* One turn of the shift and subtract loop.
DivStep_CarryLost(s, b) ==
  LET a1 == (2 * s[2] + Bit(s[1], W - 1)) % Word
      qb == IF a1 >= b THEN 1 ELSE 0
  IN  <<(2 * s[1] + qb) % Word, (a1 - qb * b) % Word>>
DivStep(s, b) ==
  LET ab == Bit(s[2], W - 1)
      a1 == (2 * s[2] + Bit(s[1], W - 1)) % Word
      qb == IF ab = 1 \/ a1 >= b THEN 1 ELSE 0
  IN  <<(2 * s[1] + qb) % Word, (a1 - qb * b) % Word>>

\* div64: quotient and remainder, or Overflow.
div64(lh, b) ==
  LET turn[i \in 0 .. W] == IF i = 0 THEN lh ELSE DivStep(turn[i - 1], b) IN
  IF lh[2] = 0 THEN <<lh[1] \div b, lh[1] % b>>
  ELSE IF lh[2] >= b THEN Overflow
  ELSE turn[W]

idiv64(lh, b) ==
  LET Half == Word \div 2
      sa == lh[2] >= Half
      sb == b >= Half
      d == div64(IF sa THEN neg128(lh) ELSE lh, IF sb THEN Word - b ELSE b)
  IN  IF d = Overflow \/ d[1] > Half \/ (sa = sb /\ d[1] = Half) THEN Overflow
      ELSE <<IF sa # sb THEN (-d[1]) % Word ELSE d[1], IF sa THEN (-d[2]) % Word ELSE d[2]>>

\* helper_divq_EAX, helper_idivq_EAX
divq(lh, b) == IF b = 0 THEN Overflow ELSE div64(lh, b)
idivq(lh, b) == IF b = 0 THEN Overflow ELSE idiv64(lh, b)

\* helper_mulq_EAX_T0, helper_imulq_EAX_T0: product and CC_SRC, which is not
\* zero when the high word says more than the low.
mulq(a, b) == <<(a * b) % Word, (a * b) \div Word, ((a * b) \div Word) # 0>>
imulq(a, b) ==
  LET p == (Signed(a, W) * Signed(b, W)) % (Word * Word)
      high == p \div Word
  IN  <<p % Word, high, high # (IF Bit(p, W - 1) = 1 THEN Word - 1 ELSE 0)>>

-----------------------------------------------------------------------------
(* Decimal adjustment: AL, AH, AF, CF *)

helper_aam(al, base) == [al |-> al % base, ah |-> al \div base]
helper_aad(al, ah, base) == [al |-> (ah * base + al) % 256, ah |-> 0]

Adjusts(al, af) == al % 16 > 9 \/ af
helper_aaa(al, ah, af) ==
  IF Adjusts(al, af)
    THEN [al |-> (al + 6) % 16, ah |-> (ah + 1 + IF al > 249 THEN 1 ELSE 0) % 256, c |-> TRUE]
  ELSE [al |-> al % 16, ah |-> ah, c |-> FALSE]
helper_aas(al, ah, af) ==
  IF Adjusts(al, af)
    THEN [al |-> (al - 6) % 16, ah |-> (ah - 1 - IF al < 6 THEN 1 ELSE 0) % 256, c |-> TRUE]
  ELSE [al |-> al % 16, ah |-> ah, c |-> FALSE]

helper_daa(al, af, cf) ==
  LET al1 == IF Adjusts(al, af) THEN (al + 6) % 256 ELSE al IN
  IF al1 > 159 \/ cf THEN [al |-> (al1 + 96) % 256, c |-> TRUE]
  ELSE [al |-> al1, c |-> FALSE]
helper_das(al, af, cf) ==
  LET al1 == IF Adjusts(al, af) THEN (al - 6) % 256 ELSE al
      borrow == Adjusts(al, af) /\ (al < 6 \/ cf)
  IN  IF al > 153 \/ cf THEN [al |-> (al1 - 96) % 256, c |-> TRUE]
      ELSE [al |-> al1, c |-> borrow]

-----------------------------------------------------------------------------
(* Bit scans and rotations *)

helper_bsf(x) ==
  LET scan[n \in 0 .. W] == IF Bit(x, n) = 1 THEN n ELSE scan[n + 1] IN scan[0]
helper_bsr(x) ==
  LET scan[n \in 0 .. W] == IF Bit(x, n) = 1 THEN n ELSE scan[n - 1] IN scan[W - 1]

\* The tables that reduce a count modulo 9 and 17; a count of 32-bit operands
\* is only masked.
Table(bits) ==
  CASE bits = 8 -> <<0, 1, 2, 3, 4, 5, 6, 7, 8, 0, 1, 2, 3, 4, 5, 6, 7, 8,
                     0, 1, 2, 3, 4, 5, 6, 7, 8, 0, 1, 2, 3, 4>>
    [] bits = 16 -> <<0, 1, 2, 3, 4, 5, 6, 7, 8, 9, 10, 11, 12, 13, 14, 15, 16,
                      0, 1, 2, 3, 4, 5, 6, 7, 8, 9, 10, 11, 12, 13, 14>>
Count(t1, bits) == Table(bits)[(t1 % 32) + 1]

\* helper_rcl, helper_rcr: the operand and the carry after it.
helper_rcl(x, c, t1, bits) ==
  LET n == Count(t1, bits)
      top == IF n > 1 THEN x \div 2 ^ (bits + 1 - n) ELSE 0
  IN  IF n = 0 THEN <<x, c>>
      ELSE <<(x * 2 ^ n + c * 2 ^ (n - 1) + top) % 2 ^ bits, Bit(x, bits - n)>>
helper_rcr(x, c, t1, bits) ==
  LET n == Count(t1, bits)
      low == IF n > 1 THEN x * 2 ^ (bits + 1 - n) ELSE 0
  IN  IF n = 0 THEN <<x, c>>
      ELSE <<(x \div 2 ^ n + c * 2 ^ (bits - n) + low) % 2 ^ bits, Bit(x, n - 1)>>

-----------------------------------------------------------------------------
(* The calculations *)

Words == 0 .. Word - 1
Calculation(kind, in) == calc = [kind |-> kind, in |-> in, done |-> FALSE, out |-> <<>>]
CalcInit ==
  \/ \E low \in Words, high \in Words, b \in Words, k \in {"div", "idiv"} : Calculation(k, <<<<low, high>>, b>>)
  \/ \E a \in Words, b \in Words : Calculation("mul", <<a, b>>)
  \/ \E x \in Words \ {0} : Calculation("scan", x)
  \/ \E a \in Bytes, b \in Bytes, c \in 0 .. 1, k \in {"decimal", "unpacked"} : Calculation(k, <<a, b, c>>)
  \/ \E x \in {1, 129, 200}, c \in 0 .. 1, t1 \in {0, 1, 5, 8, 9, 10, 16, 17, 31}, n \in {8, 16} :
       Calculation("rotate", <<x, c, t1, n>>)

\* The instructions that follow an addition, and a subtraction, of bytes.
AddAf(a, b, c) == (a % 16) + (b % 16) + c > 15
SubAf(a, b, c) == (a % 16) < (b % 16) + c
Decimal(a, b, c) ==
  [sum |-> helper_daa((a + b + c) % 256, AddAf(a, b, c), a + b + c > 255),
   dif |-> helper_das((a - b - c) % 256, SubAf(a, b, c), a < b + c)]
Unpacked(a, b, c) ==
  LET x == a % 16  y == b % 16 IN
  [sum |-> helper_aaa((x + y + c) % 256, 0, AddAf(x, y, c)),
   dif |-> helper_aas((x - y - c) % 256, 0, SubAf(x, y, c)),
   split |-> helper_aam(a, 10),
   join |-> helper_aad(helper_aam(a, 10).al, helper_aam(a, 10).ah, 10)]

Calculate(c) ==
  LET i == c.in IN
  CASE c.kind = "div" -> divq(i[1], i[2])
    [] c.kind = "idiv" -> idivq(i[1], i[2])
    [] c.kind = "mul" -> <<mulq(i[1], i[2]), imulq(i[1], i[2])>>
    [] c.kind = "scan" -> <<helper_bsf(i), helper_bsr(i)>>
    [] c.kind = "decimal" -> Decimal(i[1], i[2], i[3])
    [] c.kind = "unpacked" -> Unpacked(i[1], i[2], i[3])
    [] c.kind = "rotate" -> <<helper_rcl(i[1], i[2], i[3], i[4]), helper_rcr(i[1], i[2], i[3], i[4])>>

CalcNext == ~calc.done /\ calc' = [calc EXCEPT !.done = TRUE, !.out = Calculate(calc)]
-----------------------------------------------------------------------------
(* Properties *)

Finished(kind) == calc.done /\ calc.kind = kind

\* The loop of div64 and the sign handling of idiv64 are the division that
\* the narrower instructions leave to C: the same quotients, remainders and
\* overflows; and imul's flag says whether the product fits.
DivisionsAgree ==
  LET num == calc.in[1][1] + calc.in[1][2] * Word  den == calc.in[2] IN
  /\ Finished("div") => calc.out = divide(num, den, W)
  /\ Finished("idiv") => calc.out = idivide(num, den, W)
  /\ Finished("mul") =>
       LET p == Signed(calc.in[1], W) * Signed(calc.in[2], W) IN
       /\ calc.out[2][3] <=> p \notin -(Word \div 2) .. Word \div 2 - 1
       /\ calc.out[2][1] = p % Word /\ calc.out[1][2] = (calc.in[1] * calc.in[2]) \div Word
  /\ Finished("scan") =>
       LET ones == {n \in 0 .. W - 1 : Bit(calc.in, n) = 1} IN
       \A n \in ones : calc.out[1] <= n /\ n <= calc.out[2] /\ {calc.out[1], calc.out[2]} \subseteq ones

\* Decimal digits added and subtracted binary, then adjusted, are the decimal
\* sum and difference.  (helper_daa is wrong about binary sums from 0xfa up.)
Dec(a) == (a \div 16) * 10 + (a % 16)
IsDec(a) == a % 16 < 10 /\ a \div 16 < 10
DecimalsRight ==
  LET a == calc.in[1]  b == calc.in[2]  c == calc.in[3]  r == calc.out
      x == a % 16  y == b % 16
  IN
  /\ Finished("decimal") /\ IsDec(a) /\ IsDec(b) =>
       /\ (a + b + c) \notin 250 .. 255 =>
            Dec(r.sum.al) + (IF r.sum.c THEN 100 ELSE 0) = Dec(a) + Dec(b) + c
       /\ Dec(r.dif.al) - (IF r.dif.c THEN 100 ELSE 0) = Dec(a) - Dec(b) - c
  /\ Finished("unpacked") =>
       /\ r.join.al = a /\ r.split.al < 10
       /\ x < 10 /\ y < 10 =>
            /\ r.sum.al + 10 * r.sum.ah = x + y + c /\ r.sum.c = (r.sum.ah # 0)
            /\ r.dif.al - (IF r.dif.c THEN 10 ELSE 0) = x - y - c

\* A rotation through carry is as many rotations by one.
OneLeft(xc, bits) == <<(2 * xc[1] + xc[2]) % 2 ^ bits, Bit(xc[1], bits - 1)>>
OneRight(xc, bits) == <<xc[1] \div 2 + xc[2] * 2 ^ (bits - 1), xc[1] % 2>>
RotationsCompose ==
  Finished("rotate") =>
    LET bits == calc.in[4]
        left[n \in 0 .. 31] == IF n = 0 THEN <<calc.in[1], calc.in[2]>> ELSE OneLeft(left[n - 1], bits)
        right[n \in 0 .. 31] == IF n = 0 THEN <<calc.in[1], calc.in[2]>> ELSE OneRight(right[n - 1], bits)
    IN  calc.out = <<left[calc.in[3]], right[calc.in[3]]>>
=============================================================================
