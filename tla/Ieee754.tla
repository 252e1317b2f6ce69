------------------------------ MODULE Ieee754 -------------------------------
(***************************************************************************)
(* What design.sv claims for its FP32 coprocessor (lines 978-980),         *)
(* IEEE-754 arithmetic rounded to nearest with ties to even, stated        *)
(* without its algorithm: the exact result is a fraction, and the number   *)
(* returned is the nearest one.  The behaviours go through all pairs of    *)
(* operands and all operations.                                            *)
(***************************************************************************)
EXTENDS Fp32

VARIABLES a, b, op

ieeeVars == <<a, b, op>>

IeeeInit == a \in Number /\ b \in Number /\ op = "ADD"

IeeeNext == op' \in Operations /\ UNCHANGED <<a, b>>

IeeeSpec == IeeeInit /\ [][IeeeNext]_ieeeVars

outcome == fp_calculate(a, b, op)
-----------------------------------------------------------------------------
(* Rounding to nearest                                                     *)

IsFinite(x) == x.exp # ExpMax

\* Magnitudes are ordered as their codes.  Value is in units of the least
\* subnormal; infinity stands where the next number would be.
InfinityCode == ExpMax * Hidden
Coded(sign, code) == [sign |-> sign, exp |-> code \div Hidden, frac |-> code % Hidden]
Value(x) == Significand(x) * 2^(Exponent(x) - 1)
CodeValue(code) == Value(Coded(0, code))

Largest(S) == CHOOSE m \in S : \A k \in S : m >= k

\* The code nearest to n/d.
Nearest(n, d) ==
    LET below == Largest({c \in 0 .. InfinityCode : CodeValue(c) * d <= n})
        middle == (CodeValue(below) + CodeValue(below + 1)) * d
    IN  IF below = InfinityCode \/ 2 * n < middle THEN below
        ELSE IF 2 * n > middle \/ below % 2 = 1 THEN below + 1
        ELSE below

\* The outcome of an operation whose exact result is n/d with that sign.
Rounded(sign, n, d) ==
    LET code == Nearest(n, d)
    IN  [status |-> IF code = InfinityCode THEN {"overflow"}
                    ELSE IF code < Hidden /\ CodeValue(code) * d # n THEN {"underflow"}
                    ELSE {},
         number |-> Coded(sign, code)]

Signed(x) == IF x.sign = 0 THEN Value(x) ELSE -Value(x)

\* A zero sum is positive, unless both terms are negative zeros.
RoundedSum(s, t) ==
    LET sum == Signed(s) + Signed(t)
    IN  IF sum > 0 THEN Rounded(0, sum, 1)
        ELSE IF sum < 0 THEN Rounded(1, -sum, 1)
        ELSE Exactly(Zero(IF IsZero(s) /\ s.sign = t.sign THEN s.sign ELSE 0))

Unit == 2^(Bias - 1 + FracBits)     \* 1 in units of the least subnormal

FiniteResult ==
    CASE op = "ADD" -> RoundedSum(a, b)
      [] op = "SUB" -> RoundedSum(a, Negate(b))
      [] op = "MUL" -> Rounded(Xor(a.sign, b.sign), Value(a) * Value(b), Unit)
      [] op = "DIV" -> Rounded(Xor(a.sign, b.sign), Value(a) * Unit, Value(b))
-----------------------------------------------------------------------------
(* Properties                                                              *)

Normal(x) == x.exp \notin {0, ExpMax}
Terms == IF op = "SUB" THEN <<a, Negate(b)>> ELSE <<a, b>>

\* design.sv halves a sum that carries out of its significand twice and still
\* gives it a hidden bit: 1 + s/2 for a significand s, 3 for 1 + 1.
Carries ==
    /\ op \in {"ADD", "SUB"} /\ a.sign = Terms[2].sign
    /\ IsFinite(a) /\ IsFinite(b)
    /\ LET exp == Largest({Exponent(a), Exponent(b)})
       IN  shift_right_sticky(8 * Significand(a), exp - Exponent(a))
             + shift_right_sticky(8 * Significand(b), exp - Exponent(b)) >= MantTop

\* It normalizes products and quotients of subnormals after dropping bits.
Denormal ==
    /\ op \in {"MUL", "DIV"}
    /\ ~Normal(a) \/ ~Normal(b)

\* Differences, sums that do not carry, and products and quotients of normal
\* numbers are rounded once, to the nearest number and ties to even, down to
\* the subnormals and up to infinity, and raise the flags that go with it.
RoundsToNearest ==
    IsFinite(a) /\ IsFinite(b) /\ ~Carries /\ ~Denormal => outcome = FiniteResult

Swapped == fp_calculate(b, a, op)
Opposite(x) == IF IsNaN(x) THEN x ELSE Negate(x)

\* ADD and SUB are written out one after the other in design.sv: they must stay
\* the same operation on a and on -b, for infinities and zeros too.  Sums and
\* products commute, and a product or quotient changes sign with its operand.
SignLaws ==
    /\ op = "SUB" => outcome = fp_calculate(a, Negate(b), "ADD")
    /\ op \in {"ADD", "MUL"} => outcome = Swapped
    /\ op \in {"MUL", "DIV"} =>
         LET other == fp_calculate(Negate(a), b, op)
         IN  /\ other.status = outcome.status
             /\ other.number = Opposite(outcome.number)

Undefined(s, t) ==
    CASE op \in {"ADD", "SUB"} -> IsInfinity(s) /\ t = Negate(s)
      [] op = "MUL" -> {s, t} \cap {Zero(0), Zero(1)} # {}
                         /\ {s, t} \cap {Infinity(0), Infinity(1)} # {}
      [] op = "DIV" -> (IsZero(s) /\ IsZero(t)) \/ (IsInfinity(s) /\ IsInfinity(t))

\* A NaN comes from a NaN or from an undefined operation and from nothing else,
\* and only it is flagged as invalid.  An infinity that finite operands give is
\* flagged, as a division by zero or as an overflow; design.sv also flags
\* infinity over zero, which is exact in IEEE-754.  Sums and differences never
\* underflow, and a product or quotient that does is subnormal or zero; which
\* ones are flagged is said by RoundsToNearest, of normal operands.
ExceptionsFlagged ==
    LET fresh == IsFinite(a) /\ IsFinite(b) /\ IsInfinity(outcome.number)
        divides == op = "DIV" /\ IsFinite(a) /\ ~IsZero(a) /\ IsZero(b)
        infinityOverZero == op = "DIV" /\ IsInfinity(a) /\ IsZero(b)
    IN  /\ IsNaN(outcome.number) <=>
             (IsNaN(a) \/ IsNaN(b) \/ Undefined(Terms[1], Terms[2]))
        /\ "invalid" \in outcome.status <=> IsNaN(outcome.number)
        /\ "div_by_zero" \in outcome.status <=> divides \/ infinityOverZero
        /\ "overflow" \in outcome.status <=> fresh /\ ~divides
        /\ "underflow" \in outcome.status =>
             /\ op \in {"MUL", "DIV"} /\ IsFinite(a) /\ IsFinite(b)
             /\ outcome.number.exp = 0
-----------------------------------------------------------------------------
(* What the header of the coprocessor says and its code does not do        *)

\* "IEEE-754 binary32, round-to-nearest, ties-to-even", for every sum.
SumRoundsToNearest ==
    op = "ADD" /\ IsFinite(a) /\ IsFinite(b) => outcome = FiniteResult
=============================================================================
