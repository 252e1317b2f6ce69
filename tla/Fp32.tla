-------------------------------- MODULE Fp32 --------------------------------
(***************************************************************************)
(* The arithmetic of the FP32 coprocessor of design.sv: pack_fp32 and      *)
(* fp_calculate, over any binary format.  design.sv has ExpBits = 8 and    *)
(* FracBits = 23.  A number is a record of its three fields, a vector of   *)
(* bits is the natural number it encodes, and the status nibble is the set *)
(* of the flags that are up.                                               *)
(***************************************************************************)
EXTENDS Integers

CONSTANTS ExpBits, FracBits

ASSUME FormatAssumption ==
    /\ ExpBits \in Nat /\ ExpBits >= 2
    /\ FracBits \in Nat /\ FracBits >= 2

ExpMax == 2^ExpBits - 1             \* the exponent of infinities and NaNs
Bias   == 2^(ExpBits - 1) - 1
Hidden == 2^FracBits                \* the weight of the hidden bit
MantTop == 16 * Hidden              \* above a significand with its 3 GRS bits

Number == [sign : {0, 1}, exp : 0 .. ExpMax, frac : 0 .. Hidden - 1]
Operations == {"ADD", "SUB", "MUL", "DIV"}

Zero(s)     == [sign |-> s, exp |-> 0, frac |-> 0]
Infinity(s) == [sign |-> s, exp |-> ExpMax, frac |-> 0]
NaN         == [sign |-> 0, exp |-> ExpMax, frac |-> Hidden \div 2]

IsZero(x)     == x.exp = 0 /\ x.frac = 0
IsInfinity(x) == x.exp = ExpMax /\ x.frac = 0
IsNaN(x)      == x.exp = ExpMax /\ x.frac # 0

Exponent(x)    == IF x.exp = 0 THEN 1 ELSE x.exp
Significand(x) == IF x.exp = 0 THEN x.frac ELSE Hidden + x.frac

Negate(x) == [x EXCEPT !.sign = 1 - @]
Xor(s, t) == IF s = t THEN 0 ELSE 1

Exactly(x)     == [status |-> {}, number |-> x]
InvalidNaN     == [status |-> {"invalid"}, number |-> NaN]

\* The last bit of v stands for everything that was lost.
Sticky(v, lost) == IF lost /\ v % 2 = 0 THEN v + 1 ELSE v

shift_right_sticky(v, n) ==
    IF n <= 0 THEN v ELSE Sticky(v \div 2^n, v % 2^n # 0)
-----------------------------------------------------------------------------
(* Packing and rounding                                                    *)

\* Faulty: a tie always goes up.
round_half_up(mant) == (mant + 4) \div 8

\* Three guard bits are rounded away, to nearest and ties to even.
RoundSignificand(mant) ==
    LET sig == mant \div 8
        grs == mant % 8
    IN  IF grs > 4 \/ (grs = 4 /\ sig % 2 = 1) THEN sig + 1 ELSE sig

\* Rounding may carry into the exponent.  At the least exponent the hidden bit
\* tells the normal numbers from the subnormal ones.
Encoded(sign, exp, mant) ==
    LET rounded == RoundSignificand(mant)
        e == exp + (IF rounded = 2 * Hidden THEN 1 ELSE 0)
        frac == rounded % Hidden
    IN  IF e >= ExpMax
          THEN [status |-> {"overflow"}, number |-> Infinity(sign)]
        ELSE IF e > 1 \/ rounded >= Hidden
          THEN Exactly([sign |-> sign, exp |-> e, frac |-> frac])
        ELSE [status |-> IF mant % 8 # 0 THEN {"underflow"} ELSE {},
              number |-> [sign |-> sign, exp |-> 0, frac |-> frac]]

pack_fp32(sign, exp, mant) ==
    IF mant = 0 THEN Exactly(Zero(sign))
    ELSE IF exp > 0 THEN Encoded(sign, exp, mant)
    ELSE Encoded(sign, 1, shift_right_sticky(mant, 1 - exp))

\* The result is shifted left while its exponent allows it.
Shifts(exp, mant) ==
    LET legal == {n \in 0 .. FracBits + 4 : mant * 2^n < MantTop /\ n < exp}
    IN  IF mant = 0 \/ legal = {} THEN 0
        ELSE CHOOSE m \in legal : \A k \in legal : m >= k

Normalized(sign, exp, mant) ==
    pack_fp32(sign, exp - Shifts(exp, mant), mant * 2^Shifts(exp, mant))
-----------------------------------------------------------------------------
(* ADD and SUB.  sb is the sign with which b takes part.                   *)

FiniteSum(a, b, sb) ==
    LET exp == IF Exponent(a) > Exponent(b) THEN Exponent(a) ELSE Exponent(b)
        ma == shift_right_sticky(8 * Significand(a), exp - Exponent(a))
        mb == shift_right_sticky(8 * Significand(b), exp - Exponent(b))
        sum == ma + mb
    IN  IF a.sign # sb
          THEN IF ma > mb THEN Normalized(a.sign, exp, ma - mb)
               ELSE IF mb > ma THEN Normalized(sb, exp, mb - ma)
               ELSE Exactly(Zero(0))
        ELSE IF sum >= MantTop
          THEN pack_fp32(a.sign, exp + 1, shift_right_sticky(sum \div 2, 1))
        ELSE pack_fp32(a.sign, exp, sum)

Add(a, b) ==
    IF IsInfinity(a) /\ IsInfinity(b)
      THEN IF a.sign # b.sign THEN InvalidNaN ELSE Exactly(a)
    ELSE IF IsInfinity(a) THEN Exactly(a)
    ELSE IF IsInfinity(b) THEN Exactly(b)
    ELSE IF IsZero(a) /\ IsZero(b) THEN Exactly(Zero(a.sign * b.sign))
    ELSE IF IsZero(a) THEN Exactly(b)
    ELSE IF IsZero(b) THEN Exactly(a)
    ELSE FiniteSum(a, b, b.sign)

\* Faulty: the special cases of ADD, without the change of sign.
SubtractLikeAdd(a, b) ==
    IF {a, b} \cap {Zero(0), Zero(1), Infinity(0), Infinity(1)} # {}
      THEN Add(a, b) ELSE FiniteSum(a, b, 1 - b.sign)

Subtract(a, b) ==
    IF IsInfinity(a) /\ IsInfinity(b)
      THEN IF a.sign = b.sign THEN InvalidNaN ELSE Exactly(a)
    ELSE IF IsInfinity(a) THEN Exactly(a)
    ELSE IF IsInfinity(b) THEN Exactly(Negate(b))
    ELSE IF IsZero(a) /\ IsZero(b) THEN Exactly(Zero(a.sign * (1 - b.sign)))
    ELSE IF IsZero(a) THEN Exactly(Negate(b))
    ELSE IF IsZero(b) THEN Exactly(a)
    ELSE FiniteSum(a, b, 1 - b.sign)
-----------------------------------------------------------------------------
(* MUL and DIV                                                             *)

\* The product keeps its leading bits; the bits below join the sticky bit.
FiniteProduct(a, b) ==
    LET sign == Xor(a.sign, b.sign)
        product == Significand(a) * Significand(b)
        exp == Exponent(a) + Exponent(b) - Bias
        kept(unit) == 2 * (product \div unit) + (IF product % unit = 0 THEN 0 ELSE 1)
    IN  IF product >= 2 * Hidden * Hidden
          THEN Normalized(sign, exp + 1, kept(Hidden \div 2))
          ELSE Normalized(sign, exp, kept(Hidden \div 4))

\* Faulty: zero times infinity is not recognised.
MultiplyUnchecked(a, b) ==
    LET sign == Xor(a.sign, b.sign)
    IN  IF IsInfinity(a) \/ IsInfinity(b) THEN Exactly(Infinity(sign))
        ELSE IF IsZero(a) \/ IsZero(b) THEN Exactly(Zero(sign))
        ELSE FiniteProduct(a, b)

Multiply(a, b) ==
    LET sign == Xor(a.sign, b.sign)
    IN  IF (IsZero(a) /\ IsInfinity(b)) \/ (IsInfinity(a) /\ IsZero(b)) THEN InvalidNaN
        ELSE IF IsInfinity(a) \/ IsInfinity(b) THEN Exactly(Infinity(sign))
        ELSE IF IsZero(a) \/ IsZero(b) THEN Exactly(Zero(sign))
        ELSE FiniteProduct(a, b)

\* Of a quotient with more bits than the significand, the top ones are lost.
FiniteQuotient(a, b) ==
    LET sign == Xor(a.sign, b.sign)
        top == 8 * Hidden
        quotient == (Significand(a) * top) \div Significand(b)
        inexact == (Significand(a) * top) % Significand(b) # 0
        exp == Exponent(a) - Exponent(b) + Bias
    IN  IF (quotient \div top) % 2 = 1
          THEN Normalized(sign, exp, Sticky(quotient % MantTop, inexact))
          ELSE Normalized(sign, exp - 1, Sticky(2 * (quotient % top), inexact))

Divide(a, b) ==
    LET sign == Xor(a.sign, b.sign)
    IN  IF (IsZero(a) /\ IsZero(b)) \/ (IsInfinity(a) /\ IsInfinity(b)) THEN InvalidNaN
        ELSE IF IsZero(b)
          THEN [status |-> {"div_by_zero"}, number |-> Infinity(sign)]
        ELSE IF IsZero(a) THEN Exactly(Zero(sign))
        ELSE IF IsInfinity(a) THEN Exactly(Infinity(sign))
        ELSE IF IsInfinity(b) THEN Exactly(Zero(sign))
        ELSE FiniteQuotient(a, b)

fp_calculate(a, b, op) ==
    IF IsNaN(a) \/ IsNaN(b) THEN InvalidNaN
    ELSE CASE op = "ADD" -> Add(a, b)
           [] op = "SUB" -> Subtract(a, b)
           [] op = "MUL" -> Multiply(a, b)
           [] op = "DIV" -> Divide(a, b)
=============================================================================
