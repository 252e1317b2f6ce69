----------------------------- MODULE Fp32Proofs -----------------------------
(***************************************************************************)
(* Proofs about the arithmetic of the FP32 coprocessor of design.sv, for   *)
(* every binary format and all operands: rounding to nearest, the laws of  *)
(* signs, and when the status nibble is raised.                            *)
(***************************************************************************)
EXTENDS Ieee754, FiniteSetTheorems, FunctionTheorems, WellFoundedInduction, TLAPS

-----------------------------------------------------------------------------
(* Powers of two                                                           *)

LEMMA SubsetsOf ==
    ASSUME NEW n \in Nat
    PROVE  IsFiniteSet(SUBSET (1 .. n)) /\ Cardinality(SUBSET (1 .. n)) = 2^n
<1>1. IsFiniteSet(1 .. n) /\ Cardinality(1 .. n) = n
  <2>1. /\ IsFiniteSet(1 .. n)
        /\ Cardinality(1 .. n) = IF 1 > n THEN 0 ELSE n - 1 + 1
    BY FS_Interval
  <2> QED
    BY <2>1
<1> QED
  BY <1>1, FS_SUBSET

LEMMA PowerType ==
    ASSUME NEW n \in Nat
    PROVE  2^n \in Nat \ {0}
<1> DEFINE S == SUBSET (1 .. n)
<1>1. IsFiniteSet(S) /\ Cardinality(S) = 2^n
  BY SubsetsOf
<1>2. S # {}
  BY {} \in S
<1> HIDE DEF S
<1>3. Cardinality(S) \in Nat /\ Cardinality(S) # 0
  BY <1>1, <1>2, FS_CardinalityType, FS_EmptySet
<1> QED
  BY <1>1, <1>3

LEMMA PowerDoubles ==
    ASSUME NEW n \in Nat
    PROVE  2^(n + 1) = 2 * 2^n
<1> DEFINE A == SUBSET (1 .. n)
           B == {X \cup {n + 1} : X \in A}
           f == [X \in A |-> X \cup {n + 1}]
<1>1. IsFiniteSet(A) /\ Cardinality(A) = 2^n
  BY SubsetsOf
<1>2. Cardinality(SUBSET (1 .. n + 1)) = 2^(n + 1)
  BY SubsetsOf
<1>3. \A X \in A : n + 1 \notin X
  OBVIOUS
<1>4. SUBSET (1 .. n + 1) = A \cup B
  <2>1. ASSUME NEW X \in SUBSET (1 .. n + 1) PROVE X \in A \cup B
    <3>1. CASE n + 1 \notin X
      BY <3>1
    <3>2. CASE n + 1 \in X
      <4>1. X \ {n + 1} \in A
        OBVIOUS
      <4>2. X = (X \ {n + 1}) \cup {n + 1}
        BY <3>2
      <4> QED
        BY <4>1, <4>2
    <3> QED
      BY <3>1, <3>2
  <2>2. ASSUME NEW X \in A \cup B PROVE X \in SUBSET (1 .. n + 1)
    OBVIOUS
  <2> QED
    BY <2>1, <2>2
<1>5. A \cap B = {}
  BY <1>3
<1>6. f \in Bijection(A, B)
  <2>1. \A X, Y \in A : X \cup {n + 1} = Y \cup {n + 1} => X = Y
    BY <1>3
  <2>2. f \in [A -> B]
    OBVIOUS
  <2>3. \A X, Y \in A : f[X] = f[Y] => X = Y
    BY <2>1
  <2>4. \A Z \in B : \E X \in A : f[X] = Z
    OBVIOUS
  <2> HIDE DEF f, A, B
  <2> QED
    BY <2>2, <2>3, <2>4, Fun_IsBij
<1> HIDE DEF A, B, f
<1>7. IsFiniteSet(B) /\ Cardinality(B) = Cardinality(A)
  <2>1. ExistsBijection(A, B)
    BY <1>6 DEF ExistsBijection
  <2> QED
    BY <1>1, <2>1, FS_Bijection
<1>8. Cardinality(A \cup B)
        = Cardinality(A) + Cardinality(B) - Cardinality(A \cap B)
  BY <1>1, <1>7, FS_Union
<1>9. Cardinality(A \cap B) = 0
  BY <1>5, FS_EmptySet
<1>10. Cardinality(A \cup B) = 2^(n + 1)
  BY <1>2, <1>4, Zenon
<1>11. 2^n \in Nat
  BY PowerType
<1> QED
  BY <1>1, <1>7, <1>8, <1>9, <1>10, <1>11

LEMMA FormatSizes ==
    /\ ExpMax \in Nat /\ ExpMax >= 3
    /\ Hidden \in Nat /\ Hidden >= 4 /\ Hidden \div 2 # 0
    /\ Bias \in Nat
<1>1. ASSUME NEW n \in Nat, n >= 2
      PROVE  2^n \in Nat /\ 2^n >= 4
  <2>1. n - 2 \in Nat /\ n - 1 \in Nat /\ n - 2 + 1 = n - 1 /\ n - 1 + 1 = n
    BY <1>1
  <2>2. 2^(n - 2) \in Nat \ {0}
    BY <2>1, PowerType
  <2>3. 2^(n - 2 + 1) = 2 * 2^(n - 2) /\ 2^(n - 1 + 1) = 2 * 2^(n - 1)
    BY <2>1, PowerDoubles
  <2>4. 2^n = 2 * (2 * 2^(n - 2))
    BY <2>1, <2>3, Zenon
  <2> QED
    BY <2>2, <2>4
<1>2. 2^ExpBits \in Nat /\ 2^ExpBits >= 4 /\ 2^FracBits \in Nat /\ 2^FracBits >= 4
  BY <1>1, FormatAssumption
<1>3. 2^(ExpBits - 1) \in Nat \ {0}
  BY FormatAssumption, PowerType
<1> QED
  BY <1>2, <1>3 DEF ExpMax, Hidden, Bias
-----------------------------------------------------------------------------
(* Packing                                                                 *)

\* What the flags say of a result that is not invalid.
Flagged(p) ==
    /\ ~IsNaN(p.number)
    /\ "invalid" \notin p.status /\ "div_by_zero" \notin p.status
    /\ "overflow" \in p.status <=> IsInfinity(p.number)
    /\ "underflow" \in p.status => p.number.exp = 0

LEMMA EncodedFlagged ==
    ASSUME NEW sign, NEW exp \in Int, NEW mant
    PROVE  Flagged(Encoded(sign, exp, mant))
<1> DEFINE rounded == RoundSignificand(mant)
           e == exp + (IF rounded = 2 * Hidden THEN 1 ELSE 0)
           frac == rounded % Hidden
           low == [status |-> IF mant % 8 # 0 THEN {"underflow"} ELSE {},
                   number |-> [sign |-> sign, exp |-> 0, frac |-> frac]]
<1>1. Encoded(sign, exp, mant) =
        IF e >= ExpMax THEN [status |-> {"overflow"}, number |-> Infinity(sign)]
        ELSE IF e > 1 \/ rounded >= Hidden
          THEN Exactly([sign |-> sign, exp |-> e, frac |-> frac])
        ELSE low
  BY DEF Encoded
<1>2. e \in Int
  OBVIOUS
<1> HIDE DEF e, rounded, frac
<1>3. CASE e >= ExpMax
  <2>1. Encoded(sign, exp, mant) = [status |-> {"overflow"}, number |-> Infinity(sign)]
    BY <1>1, <1>3
  <2> QED
    BY <2>1 DEF Flagged, Infinity, IsNaN, IsInfinity
<1>4. CASE ~(e >= ExpMax) /\ (e > 1 \/ rounded >= Hidden)
  <2>1. Encoded(sign, exp, mant) = Exactly([sign |-> sign, exp |-> e, frac |-> frac])
    BY <1>1, <1>4
  <2>2. e # ExpMax
    BY <1>2, <1>4, FormatSizes
  <2> QED
    BY <2>1, <2>2 DEF Flagged, Exactly, IsNaN, IsInfinity
<1>5. CASE ~(e >= ExpMax) /\ ~(e > 1 \/ rounded >= Hidden)
  <2>1. Encoded(sign, exp, mant) = low
    BY <1>1, <1>5
  <2>2. 0 # ExpMax
    BY FormatSizes
  <2> QED
    BY <2>1, <2>2 DEF Flagged, IsNaN, IsInfinity
<1> QED
  BY <1>3, <1>4, <1>5

LEMMA PackFlagged ==
    ASSUME NEW sign, NEW exp \in Int, NEW mant
    PROVE  Flagged(pack_fp32(sign, exp, mant))
<1>1. CASE mant = 0
  <2>1. 0 # ExpMax
    BY FormatSizes
  <2> QED
    BY <1>1, <2>1 DEF pack_fp32, Exactly, Zero, Flagged, IsNaN, IsInfinity
<1>2. CASE mant # 0
  BY <1>2, EncodedFlagged DEF pack_fp32
<1> QED
  BY <1>1, <1>2

LEMMA NatWellFounded ==
    IsWellFoundedOn({ss \in Nat \X Nat : ss[1] < ss[2]}, Nat)
BY NatLessThanWellFounded DEF OpToRel

LEMMA Greatest ==
    ASSUME NEW n \in Nat, NEW S \in SUBSET (0 .. n), S # {}
    PROVE  \E m \in S : \A k \in S : m >= k
<1> DEFINE R == {ss \in Nat \X Nat : ss[1] < ss[2]}
           T == {n - k : k \in S}
<1>1. T \in SUBSET Nat /\ T # {}
  <2>1. \A k \in 0 .. n : n - k \in Nat
    OBVIOUS
  <2>2. \A k \in S : n - k \in Nat
    BY <2>1
  <2> QED
    BY <2>2
<1>2. PICK t \in T : \A u \in T : ~(<<u, t>> \in R)
  <2>1. IsWellFoundedOn(R, Nat)
    BY NatWellFounded
  <2> HIDE DEF R, T
  <2> QED
    BY <1>1, <2>1, WFMin
<1>3. \A u \in T : ~(u < t)
  BY <1>1, <1>2
<1>4. PICK m \in S : t = n - m
  OBVIOUS
<1>5. \A k \in S : m >= k
  <2>1. ASSUME NEW k \in S PROVE m >= k
    <3>1. ~(n - k < n - m)
      BY <1>3, <1>4
    <3> QED
      BY <3>1
  <2> QED
    BY <2>1
<1> QED
  BY <1>4, <1>5

\* The shift that normalizes is a number of steps.
LEMMA ShiftsType ==
    ASSUME NEW exp, NEW mant
    PROVE  Shifts(exp, mant) \in Nat
<1> DEFINE legal == {n \in 0 .. FracBits + 4 : mant * 2^n < MantTop /\ n < exp}
           top == CHOOSE m \in legal : \A k \in legal : m >= k
<1>1. Shifts(exp, mant) = IF mant = 0 \/ legal = {} THEN 0 ELSE top
  BY Zenon DEF Shifts
<1>2. legal \subseteq 0 .. FracBits + 4
  BY Zenon
<1>3. FracBits + 4 \in Nat
  BY FormatAssumption
<1> HIDE DEF legal
<1>4. ASSUME legal # {}
      PROVE  top \in Nat
  <2>1. \E m \in legal : \A k \in legal : m >= k
    BY <1>2, <1>3, <1>4, Greatest
  <2>2. top \in legal
    BY <2>1, Zenon
  <2> HIDE DEF top
  <2> QED
    BY <1>2, <1>3, <2>2
<1> HIDE DEF top
<1> QED
  BY <1>1, <1>4

LEMMA NormalizedFlagged ==
    ASSUME NEW sign, NEW exp \in Int, NEW mant
    PROVE  Flagged(Normalized(sign, exp, mant))
<1>1. exp - Shifts(exp, mant) \in Int
  BY ShiftsType
<1> QED
  BY <1>1, PackFlagged DEF Normalized
-----------------------------------------------------------------------------
(* Operands                                                                *)

LEMMA NumberParts ==
    ASSUME NEW x \in Number
    PROVE  /\ x.sign \in {0, 1} /\ x.exp \in Int /\ x.frac \in Nat
           /\ Exponent(x) \in Int /\ Significand(x) \in Nat
           /\ IsFinite(x) <=> ~IsNaN(x) /\ ~IsInfinity(x)
           /\ IsZero(x) => IsFinite(x)
<1>1. x.sign \in {0, 1} /\ x.exp \in Int /\ x.frac \in Nat
  BY DEF Number
<1>2. Exponent(x) \in Int /\ Significand(x) \in Nat
  BY <1>1, FormatSizes DEF Exponent, Significand
<1>3. IsFinite(x) <=> ~IsNaN(x) /\ ~IsInfinity(x)
  BY DEF IsFinite, IsNaN, IsInfinity
<1>4. IsZero(x) => IsFinite(x)
  BY FormatSizes DEF IsZero, IsFinite
<1> QED
  BY <1>1, <1>2, <1>3, <1>4

LEMMA SameNumber ==
    ASSUME NEW x \in Number, NEW y \in Number,
           x.sign = y.sign, x.exp = y.exp, x.frac = y.frac
    PROVE  x = y
BY DEF Number

LEMMA Negated ==
    ASSUME NEW x \in Number
    PROVE  /\ Negate(x) \in Number
           /\ Negate(x).sign = 1 - x.sign
           /\ Negate(x).exp = x.exp /\ Negate(x).frac = x.frac
           /\ Exponent(Negate(x)) = Exponent(x) /\ Significand(Negate(x)) = Significand(x)
           /\ IsZero(Negate(x)) <=> IsZero(x)
           /\ IsInfinity(Negate(x)) <=> IsInfinity(x)
           /\ IsNaN(Negate(x)) <=> IsNaN(x)
           /\ IsFinite(Negate(x)) <=> IsFinite(x)
<1>1. /\ Negate(x) \in Number
      /\ Negate(x).sign = 1 - x.sign
      /\ Negate(x).exp = x.exp /\ Negate(x).frac = x.frac
  BY DEF Negate, Number
<1> QED
  BY <1>1 DEF Exponent, Significand, IsZero, IsInfinity, IsNaN, IsFinite

\* A number is told by its fields to be a zero or an infinity.
LEMMA Specials ==
    ASSUME NEW x \in Number
    PROVE  /\ IsZero(x) <=> x \in {Zero(0), Zero(1)}
           /\ IsInfinity(x) <=> x \in {Infinity(0), Infinity(1)}
<1>1. \A s \in {0, 1} : Zero(s) \in Number /\ Infinity(s) \in Number
  BY FormatSizes DEF Zero, Infinity, Number
<1>2. x.sign \in {0, 1}
  BY NumberParts
<1>3. IsZero(x) => x = Zero(x.sign)
  BY <1>1, <1>2, SameNumber DEF IsZero, Zero
<1>4. IsInfinity(x) => x = Infinity(x.sign)
  BY <1>1, <1>2, SameNumber DEF IsInfinity, Infinity
<1>5. \A s : IsZero(Zero(s)) /\ IsInfinity(Infinity(s))
  BY DEF IsZero, Zero, IsInfinity, Infinity
<1> QED
  BY <1>2, <1>3, <1>4, <1>5

\* Two infinities of opposite signs.
LEMMA OppositeInfinities ==
    ASSUME NEW x \in Number, NEW y \in Number
    PROVE  (IsInfinity(x) /\ y = Negate(x))
             <=> (IsInfinity(x) /\ IsInfinity(y) /\ x.sign # y.sign)
<1>1. y = Negate(x) => (IsInfinity(y) <=> IsInfinity(x)) /\ y.sign = 1 - x.sign
  BY Negated
<1>2. x.sign \in {0, 1} /\ y.sign \in {0, 1}
  BY NumberParts
<1>3. 1 - x.sign # x.sign
  BY <1>2
<1>4. ASSUME IsInfinity(x), IsInfinity(y), x.sign # y.sign
      PROVE  y = Negate(x)
  <2>1. y.sign = 1 - x.sign
    BY <1>2, <1>4
  <2>2. Negate(x).sign = 1 - x.sign /\ Negate(x).exp = x.exp
        /\ Negate(x).frac = x.frac /\ Negate(x) \in Number
    BY Negated
  <2> QED
    BY <1>4, <2>1, <2>2, SameNumber DEF IsInfinity
<1> QED
  BY <1>1, <1>3, <1>4

\* ADD and SUB are the same operation.
LEMMA SubtractIsAdd ==
    ASSUME NEW x \in Number, NEW y \in Number
    PROVE  Subtract(x, y) = Add(x, Negate(y))
<1>1. x.sign \in {0, 1} /\ y.sign \in {0, 1}
  BY NumberParts
<1>2. x.sign = y.sign <=> x.sign # 1 - y.sign
  BY <1>1
<1>3. FiniteSum(x, y, 1 - y.sign) = FiniteSum(x, Negate(y), Negate(y).sign)
  BY Negated DEF FiniteSum
<1> QED
  BY <1>2, <1>3, Negated DEF Subtract, Add
-----------------------------------------------------------------------------
(* When flags go up                                                        *)

LEMMA FiniteFlagged ==
    ASSUME NEW x \in Number, NEW y \in Number
    PROVE  /\ \A s : Flagged(FiniteSum(x, y, s))
           /\ Flagged(FiniteProduct(x, y))
           /\ Flagged(FiniteQuotient(x, y))
<1>1. Exponent(x) \in Int /\ Exponent(y) \in Int /\ Bias \in Int
  BY NumberParts, FormatSizes
<1>2. Flagged(Exactly(Zero(0)))
  BY FormatSizes DEF Exactly, Zero, Flagged, IsNaN, IsInfinity
<1>3. ASSUME NEW s
      PROVE  Flagged(FiniteSum(x, y, s))
  <2> DEFINE exp == IF Exponent(x) > Exponent(y) THEN Exponent(x) ELSE Exponent(y)
             mx == shift_right_sticky(8 * Significand(x), exp - Exponent(x))
             my == shift_right_sticky(8 * Significand(y), exp - Exponent(y))
  <2>1. exp \in Int /\ exp + 1 \in Int
    BY <1>1
  <2>2. \/ FiniteSum(x, y, s) = Normalized(x.sign, exp, mx - my)
        \/ FiniteSum(x, y, s) = Normalized(s, exp, my - mx)
        \/ FiniteSum(x, y, s) = Exactly(Zero(0))
        \/ FiniteSum(x, y, s)
              = pack_fp32(x.sign, exp + 1, shift_right_sticky((mx + my) \div 2, 1))
        \/ FiniteSum(x, y, s) = pack_fp32(x.sign, exp, mx + my)
    BY Zenon DEF FiniteSum
  <2> HIDE DEF exp, mx, my
  <2> QED
    BY <1>2, <2>1, <2>2, NormalizedFlagged, PackFlagged
<1>4. Flagged(FiniteProduct(x, y))
  <2> DEFINE exp == Exponent(x) + Exponent(y) - Bias
  <2>1. exp \in Int /\ exp + 1 \in Int
    BY <1>1
  <2>2. \E sign, mant : \/ FiniteProduct(x, y) = Normalized(sign, exp + 1, mant)
                       \/ FiniteProduct(x, y) = Normalized(sign, exp, mant)
    BY Zenon DEF FiniteProduct
  <2> HIDE DEF exp
  <2> QED
    BY <2>1, <2>2, NormalizedFlagged
<1>5. Flagged(FiniteQuotient(x, y))
  <2> DEFINE exp == Exponent(x) - Exponent(y) + Bias
  <2>1. exp \in Int /\ exp - 1 \in Int
    BY <1>1
  <2>2. \E sign, mant : \/ FiniteQuotient(x, y) = Normalized(sign, exp - 1, mant)
                       \/ FiniteQuotient(x, y) = Normalized(sign, exp, mant)
    BY Zenon DEF FiniteQuotient
  <2> HIDE DEF exp
  <2> QED
    BY <2>1, <2>2, NormalizedFlagged
<1> QED
  BY <1>3, <1>4, <1>5

\* The exceptions of an operation: NaN and its flag when it is undefined, an
\* overflow when it makes an infinity of finite operands.
AddExceptions(p, x, y) ==
    /\ IsNaN(p.number) <=> (IsInfinity(x) /\ IsInfinity(y) /\ x.sign # y.sign)
    /\ "invalid" \in p.status <=> IsNaN(p.number)
    /\ "div_by_zero" \notin p.status
    /\ "overflow" \in p.status <=>
         (IsFinite(x) /\ IsFinite(y) /\ IsInfinity(p.number))

LEMMA AddFlags ==
    ASSUME NEW x \in Number, NEW y \in Number, ~IsNaN(x), ~IsNaN(y)
    PROVE  AddExceptions(Add(x, y), x, y)
<1>1. Flagged(FiniteSum(x, y, y.sign))
  BY FiniteFlagged
<1>2. /\ IsFinite(x) <=> ~IsInfinity(x)
      /\ IsFinite(y) <=> ~IsInfinity(y)
  BY NumberParts
<1>3. /\ IsNaN(NaN) /\ InvalidNaN.number = NaN /\ InvalidNaN.status = {"invalid"}
      /\ \A n : Exactly(n).number = n /\ Exactly(n).status = {}
      /\ \A n : ~IsNaN(Zero(n)) /\ ~IsInfinity(Zero(n))
  BY FormatSizes DEF IsNaN, IsInfinity, NaN, Zero, Exactly, InvalidNaN
<1>4. CASE IsInfinity(x) /\ IsInfinity(y) /\ x.sign # y.sign
  <2>1. Add(x, y) = InvalidNaN
    BY <1>4 DEF Add
  <2> QED
    BY <1>2, <1>3, <1>4, <2>1 DEF AddExceptions
<1>5. CASE ~(IsInfinity(x) /\ IsInfinity(y) /\ x.sign # y.sign)
           /\ (IsInfinity(x) \/ IsInfinity(y))
  <2>1. \/ Add(x, y) = Exactly(x)
        \/ Add(x, y) = Exactly(y)
    BY <1>5 DEF Add
  <2> QED
    BY <1>2, <1>3, <1>5, <2>1 DEF AddExceptions
<1>6. CASE ~IsInfinity(x) /\ ~IsInfinity(y)
  <2>1. \/ Add(x, y) = Exactly(x)
        \/ Add(x, y) = Exactly(y)
        \/ Add(x, y) = Exactly(Zero(x.sign * y.sign))
        \/ Add(x, y) = FiniteSum(x, y, y.sign)
    BY <1>6 DEF Add
  <2> QED
    BY <1>1, <1>2, <1>3, <1>6, <2>1 DEF AddExceptions, Flagged
<1> QED
  BY <1>4, <1>5, <1>6

\* An underflow of finite operands, to a subnormal number or to zero.
Underflows(p, x, y) ==
    "underflow" \in p.status => IsFinite(x) /\ IsFinite(y) /\ p.number.exp = 0

ProductExceptions(p, x, y) ==
    /\ Underflows(p, x, y)
    /\ IsNaN(p.number) <=> \/ IsZero(x) /\ IsInfinity(y)
                           \/ IsInfinity(x) /\ IsZero(y)
    /\ "invalid" \in p.status <=> IsNaN(p.number)
    /\ "div_by_zero" \notin p.status
    /\ "overflow" \in p.status <=>
         (IsFinite(x) /\ IsFinite(y) /\ IsInfinity(p.number))

LEMMA MultiplyFlags ==
    ASSUME NEW x \in Number, NEW y \in Number, ~IsNaN(x), ~IsNaN(y),
           NEW p, p = Multiply(x, y)
    PROVE  ProductExceptions(p, x, y)
<1> USE DEF ProductExceptions, Underflows
<1> DEFINE undefined == (IsZero(x) /\ IsInfinity(y)) \/ (IsInfinity(x) /\ IsZero(y))
<1>1. Flagged(FiniteProduct(x, y))
  BY FiniteFlagged
<1>2. /\ IsFinite(x) <=> ~IsInfinity(x)
      /\ IsFinite(y) <=> ~IsInfinity(y)
      /\ IsZero(x) => ~IsInfinity(x)
      /\ IsZero(y) => ~IsInfinity(y)
  BY NumberParts
<1>3. /\ IsNaN(NaN) /\ InvalidNaN.number = NaN /\ InvalidNaN.status = {"invalid"}
      /\ \A n : Exactly(n).number = n /\ Exactly(n).status = {}
      /\ \A n : ~IsNaN(Zero(n)) /\ ~IsInfinity(Zero(n)) /\ ~IsNaN(Infinity(n))
  BY FormatSizes DEF IsNaN, IsInfinity, NaN, Zero, Infinity, Exactly, InvalidNaN
<1>4. CASE undefined
  <2>1. p = InvalidNaN
    BY <1>4 DEF Multiply
  <2> QED
    BY <1>2, <1>3, <1>4, <2>1
<1>5. CASE ~undefined /\ (IsInfinity(x) \/ IsInfinity(y))
  <2>1. p = Exactly(Infinity(Xor(x.sign, y.sign)))
    BY <1>5 DEF Multiply
  <2> QED
    BY <1>2, <1>3, <1>5, <2>1
<1>6. CASE ~IsInfinity(x) /\ ~IsInfinity(y)
  <2>1. \/ p = Exactly(Zero(Xor(x.sign, y.sign)))
        \/ p = FiniteProduct(x, y)
    BY <1>6 DEF Multiply
  <2> QED
    BY <1>1, <1>2, <1>3, <1>6, <2>1 DEF Flagged
<1> QED
  BY <1>4, <1>5, <1>6

QuotientExceptions(p, x, y) ==
    /\ Underflows(p, x, y)
    /\ IsNaN(p.number) <=> \/ IsZero(x) /\ IsZero(y)
                           \/ IsInfinity(x) /\ IsInfinity(y)
    /\ "invalid" \in p.status <=> IsNaN(p.number)
    /\ "div_by_zero" \in p.status <=> IsZero(y) /\ ~IsZero(x)
    /\ "overflow" \in p.status <=>
         /\ IsFinite(x) /\ IsFinite(y) /\ IsInfinity(p.number)
         /\ ~(IsZero(y) /\ ~IsZero(x))

LEMMA DivideFlags ==
    ASSUME NEW x \in Number, NEW y \in Number, ~IsNaN(x), ~IsNaN(y),
           NEW p, p = Divide(x, y)
    PROVE  QuotientExceptions(p, x, y)
<1> USE DEF QuotientExceptions, Underflows
<1> DEFINE undefined == (IsZero(x) /\ IsZero(y)) \/ (IsInfinity(x) /\ IsInfinity(y))
           byZero == [status |-> {"div_by_zero"}, number |-> Infinity(Xor(x.sign, y.sign))]
<1>1. Flagged(FiniteQuotient(x, y))
  BY FiniteFlagged
<1>2. /\ IsFinite(x) <=> ~IsInfinity(x)
      /\ IsFinite(y) <=> ~IsInfinity(y)
      /\ IsZero(x) => ~IsInfinity(x)
      /\ IsZero(y) => ~IsInfinity(y)
  BY NumberParts
<1>3. /\ IsNaN(NaN) /\ InvalidNaN.number = NaN /\ InvalidNaN.status = {"invalid"}
      /\ \A n : Exactly(n).number = n /\ Exactly(n).status = {}
      /\ \A n : ~IsNaN(Zero(n)) /\ ~IsInfinity(Zero(n)) /\ ~IsNaN(Infinity(n))
  BY FormatSizes DEF IsNaN, IsInfinity, NaN, Zero, Infinity, Exactly, InvalidNaN
<1>4. CASE undefined
  <2>1. p = InvalidNaN
    BY <1>4 DEF Divide
  <2>2. IsNaN(p.number) /\ p.status = {"invalid"}
    BY <1>3, <2>1
  <2>3. ~(IsZero(y) /\ ~IsZero(x)) /\ ~(IsFinite(x) /\ IsFinite(y) /\ IsInfinity(p.number))
    <3>1. IsNaN(p.number) => ~IsInfinity(p.number)
      BY DEF IsNaN, IsInfinity
    <3> QED
      BY <1>2, <1>4, <2>2, <3>1
  <2>4. "overflow" \notin p.status /\ "div_by_zero" \notin p.status
        /\ "invalid" \in p.status /\ "underflow" \notin p.status
    BY <2>2
  <2> HIDE DEF undefined
  <2> QED
    BY <1>4, <2>2, <2>3, <2>4 DEF undefined
<1>5. CASE ~undefined /\ IsZero(y)
  <2>1. p = byZero
    BY <1>5 DEF Divide
  <2>2. p.status = {"div_by_zero"} /\ ~IsNaN(p.number)
    BY <1>3, <2>1
  <2> QED
    BY <1>2, <1>5, <2>2
<1>6. CASE ~undefined /\ ~IsZero(y) /\ (IsInfinity(x) \/ IsInfinity(y))
  <2>1. \/ p = Exactly(Infinity(Xor(x.sign, y.sign)))
        \/ p = Exactly(Zero(Xor(x.sign, y.sign)))
    BY <1>6 DEF Divide
  <2> QED
    BY <1>2, <1>3, <1>6, <2>1
<1>7. CASE ~IsZero(y) /\ ~IsInfinity(x) /\ ~IsInfinity(y)
  <2>1. \/ p = Exactly(Zero(Xor(x.sign, y.sign)))
        \/ p = FiniteQuotient(x, y)
    BY <1>7 DEF Divide
  <2> QED
    BY <1>1, <1>2, <1>3, <1>7, <2>1 DEF Flagged
<1> QED
  BY <1>4, <1>5, <1>6, <1>7
-----------------------------------------------------------------------------
(* Signs                                                                   *)

\* q is p with its number negated.
Flipped(p, q) == q.status = p.status /\ q.number = Opposite(p.number)

LEMMA Xors ==
    ASSUME NEW s \in {0, 1}, NEW t \in {0, 1}
    PROVE  /\ Xor(s, t) \in {0, 1} /\ Xor(s, t) = Xor(t, s)
           /\ Xor(1 - s, t) = 1 - Xor(s, t)
BY DEF Xor

LEMMA RecordFlipped ==
    ASSUME NEW s, NEW t, t = 1 - s, NEW e, NEW f, NEW st,
           NEW p, p = [status |-> st, number |-> [sign |-> s, exp |-> e, frac |-> f]],
           NEW q, q = [status |-> st, number |-> [sign |-> t, exp |-> e, frac |-> f]],
           ~IsNaN(p.number)
    PROVE  Flipped(p, q)
BY DEF Flipped, Opposite, Negate

LEMMA EncodedFlipped ==
    ASSUME NEW s, NEW exp \in Int, NEW mant
    PROVE  Flipped(Encoded(s, exp, mant), Encoded(1 - s, exp, mant))
<1> DEFINE rounded == RoundSignificand(mant)
           e == exp + (IF rounded = 2 * Hidden THEN 1 ELSE 0)
           frac == rounded % Hidden
           st == IF mant % 8 # 0 THEN {"underflow"} ELSE {}
           P(z) == IF e >= ExpMax THEN [status |-> {"overflow"}, number |-> Infinity(z)]
                   ELSE IF e > 1 \/ rounded >= Hidden
                     THEN Exactly([sign |-> z, exp |-> e, frac |-> frac])
                   ELSE [status |-> st, number |-> [sign |-> z, exp |-> 0, frac |-> frac]]
<1>1. Encoded(s, exp, mant) = P(s) /\ Encoded(1 - s, exp, mant) = P(1 - s)
  BY Zenon DEF Encoded
<1>2. ~IsNaN(Encoded(s, exp, mant).number)
  BY EncodedFlagged DEF Flagged
<1> HIDE DEF e, rounded, frac, st
<1>3. CASE e >= ExpMax
  <2>1. /\ P(s) = [status |-> {"overflow"},
                   number |-> [sign |-> s, exp |-> ExpMax, frac |-> 0]]
        /\ P(1 - s) = [status |-> {"overflow"},
                       number |-> [sign |-> 1 - s, exp |-> ExpMax, frac |-> 0]]
    BY <1>3 DEF Infinity
  <2> HIDE DEF P
  <2> QED
    BY <1>1, <1>2, <2>1, RecordFlipped
<1>4. CASE ~(e >= ExpMax) /\ (e > 1 \/ rounded >= Hidden)
  <2>1. /\ P(s) = [status |-> {}, number |-> [sign |-> s, exp |-> e, frac |-> frac]]
        /\ P(1 - s) = [status |-> {}, number |-> [sign |-> 1 - s, exp |-> e, frac |-> frac]]
    BY <1>4 DEF Exactly
  <2> HIDE DEF P
  <2> QED
    BY <1>1, <1>2, <2>1, RecordFlipped
<1>5. CASE ~(e >= ExpMax) /\ ~(e > 1 \/ rounded >= Hidden)
  <2>1. /\ P(s) = [status |-> st, number |-> [sign |-> s, exp |-> 0, frac |-> frac]]
        /\ P(1 - s) = [status |-> st, number |-> [sign |-> 1 - s, exp |-> 0, frac |-> frac]]
    BY <1>5
  <2> HIDE DEF P
  <2> QED
    BY <1>1, <1>2, <2>1, RecordFlipped
<1> QED
  BY <1>3, <1>4, <1>5

LEMMA PackFlipped ==
    ASSUME NEW s, NEW exp \in Int, NEW mant
    PROVE  Flipped(pack_fp32(s, exp, mant), pack_fp32(1 - s, exp, mant))
<1>1. CASE mant = 0
  <2>1. /\ pack_fp32(s, exp, mant)
             = [status |-> {}, number |-> [sign |-> s, exp |-> 0, frac |-> 0]]
        /\ pack_fp32(1 - s, exp, mant)
             = [status |-> {}, number |-> [sign |-> 1 - s, exp |-> 0, frac |-> 0]]
    BY <1>1 DEF pack_fp32, Exactly, Zero
  <2>2. ~IsNaN(pack_fp32(s, exp, mant).number)
    BY PackFlagged DEF Flagged
  <2> QED
    BY <2>1, <2>2, RecordFlipped
<1>2. CASE mant # 0 /\ exp > 0
  <2>1. /\ pack_fp32(s, exp, mant) = Encoded(s, exp, mant)
        /\ pack_fp32(1 - s, exp, mant) = Encoded(1 - s, exp, mant)
    BY <1>2 DEF pack_fp32
  <2> QED
    BY <2>1, EncodedFlipped
<1>3. CASE mant # 0 /\ ~(exp > 0)
  <2> DEFINE m == shift_right_sticky(mant, 1 - exp)
  <2>1. /\ pack_fp32(s, exp, mant) = Encoded(s, 1, m)
        /\ pack_fp32(1 - s, exp, mant) = Encoded(1 - s, 1, m)
    BY <1>3 DEF pack_fp32
  <2> HIDE DEF m
  <2> QED
    BY <2>1, EncodedFlipped
<1> QED
  BY <1>1, <1>2, <1>3

LEMMA NormalizedFlipped ==
    ASSUME NEW s, NEW exp \in Int, NEW mant
    PROVE  Flipped(Normalized(s, exp, mant), Normalized(1 - s, exp, mant))
<1>1. exp - Shifts(exp, mant) \in Int
  BY ShiftsType
<1> QED
  BY <1>1, PackFlipped DEF Normalized

\* A product or a quotient changes sign with its first operand.
LEMMA FiniteFlipped ==
    ASSUME NEW x \in Number, NEW y \in Number
    PROVE  /\ Flipped(FiniteProduct(x, y), FiniteProduct(Negate(x), y))
           /\ Flipped(FiniteQuotient(x, y), FiniteQuotient(Negate(x), y))
<1> DEFINE s == Xor(x.sign, y.sign)
<1>1. Exponent(x) \in Int /\ Exponent(y) \in Int /\ Bias \in Int
  BY NumberParts, FormatSizes
<1>2. Xor(Negate(x).sign, y.sign) = 1 - s
  BY NumberParts, Negated, Xors
<1>3. Exponent(Negate(x)) = Exponent(x) /\ Significand(Negate(x)) = Significand(x)
  BY Negated
<1>4. Flipped(FiniteProduct(x, y), FiniteProduct(Negate(x), y))
  <2> DEFINE product == Significand(x) * Significand(y)
             exp == Exponent(x) + Exponent(y) - Bias
             kept(unit) == 2 * (product \div unit) + (IF product % unit = 0 THEN 0 ELSE 1)
             P(z) == IF product >= 2 * Hidden * Hidden
                       THEN Normalized(z, exp + 1, kept(Hidden \div 2))
                       ELSE Normalized(z, exp, kept(Hidden \div 4))
  <2>1. FiniteProduct(x, y) = P(s)
    BY Zenon DEF FiniteProduct
  <2>2. FiniteProduct(Negate(x), y) = P(1 - s)
    BY <1>2, <1>3, Zenon DEF FiniteProduct
  <2>3. exp \in Int /\ exp + 1 \in Int
    BY <1>1
  <2> HIDE DEF exp, product, kept
  <2>4. Flipped(P(s), P(1 - s))
    BY <2>3, NormalizedFlipped
  <2> QED
    BY <2>1, <2>2, <2>4
<1>5. Flipped(FiniteQuotient(x, y), FiniteQuotient(Negate(x), y))
  <2> DEFINE top == 8 * Hidden
             quotient == (Significand(x) * top) \div Significand(y)
             inexact == (Significand(x) * top) % Significand(y) # 0
             exp == Exponent(x) - Exponent(y) + Bias
             one == Sticky(quotient % MantTop, inexact)
             two == Sticky(2 * (quotient % top), inexact)
             P(z) == IF (quotient \div top) % 2 = 1
                       THEN Normalized(z, exp, one) ELSE Normalized(z, exp - 1, two)
  <2>1. FiniteQuotient(x, y) = P(s)
    BY Zenon DEF FiniteQuotient
  <2>2. FiniteQuotient(Negate(x), y) = P(1 - s)
    BY <1>2, <1>3, Zenon DEF FiniteQuotient
  <2>3. exp \in Int /\ exp - 1 \in Int
    BY <1>1
  <2> HIDE DEF exp, quotient, top, one, two
  <2>4. Flipped(P(s), P(1 - s))
    BY <2>3, NormalizedFlipped
  <2> QED
    BY <2>1, <2>2, <2>4
<1> QED
  BY <1>4, <1>5

LEMMA SpecialsFlipped ==
    ASSUME NEW s \in {0, 1}, NEW t, t = 1 - s
    PROVE  /\ Flipped(Exactly(Zero(s)), Exactly(Zero(t)))
           /\ Flipped(Exactly(Infinity(s)), Exactly(Infinity(t)))
           /\ Flipped(InvalidNaN, InvalidNaN)
           /\ Flipped([status |-> {"div_by_zero"}, number |-> Infinity(s)],
                      [status |-> {"div_by_zero"}, number |-> Infinity(t)])
<1>1. IsNaN(NaN) /\ \A n : ~IsNaN(Zero(n)) /\ ~IsNaN(Infinity(n))
  BY FormatSizes DEF IsNaN, NaN, Zero, Infinity
<1>2. Flipped(InvalidNaN, InvalidNaN)
  BY <1>1 DEF Flipped, Opposite, InvalidNaN
<1>3. Negate(Zero(s)) = Zero(t) /\ Negate(Infinity(s)) = Infinity(t)
  BY DEF Negate, Zero, Infinity
<1> QED
  BY <1>1, <1>2, <1>3 DEF Flipped, Opposite, Exactly

LEMMA MultiplyFlipped ==
    ASSUME NEW x \in Number, NEW y \in Number
    PROVE  Flipped(Multiply(x, y), Multiply(Negate(x), y))
<1> DEFINE s == Xor(x.sign, y.sign)
           t == Xor(Negate(x).sign, y.sign)
           n == Negate(x)
<1>1. s \in {0, 1} /\ t = 1 - s
  BY NumberParts, Negated, Xors
<1>2. (IsZero(n) <=> IsZero(x)) /\ (IsInfinity(n) <=> IsInfinity(x))
  BY Negated
<1>3. /\ Flipped(Exactly(Zero(s)), Exactly(Zero(t)))
      /\ Flipped(Exactly(Infinity(s)), Exactly(Infinity(t)))
      /\ Flipped(InvalidNaN, InvalidNaN)
      /\ Flipped(FiniteProduct(x, y), FiniteProduct(n, y))
  BY <1>1, SpecialsFlipped, FiniteFlipped
<1>4. /\ Multiply(x, y) =
           IF (IsZero(x) /\ IsInfinity(y)) \/ (IsInfinity(x) /\ IsZero(y)) THEN InvalidNaN
           ELSE IF IsInfinity(x) \/ IsInfinity(y) THEN Exactly(Infinity(s))
           ELSE IF IsZero(x) \/ IsZero(y) THEN Exactly(Zero(s))
           ELSE FiniteProduct(x, y)
      /\ Multiply(n, y) =
           IF (IsZero(n) /\ IsInfinity(y)) \/ (IsInfinity(n) /\ IsZero(y)) THEN InvalidNaN
           ELSE IF IsInfinity(n) \/ IsInfinity(y) THEN Exactly(Infinity(t))
           ELSE IF IsZero(n) \/ IsZero(y) THEN Exactly(Zero(t))
           ELSE FiniteProduct(n, y)
  BY Zenon DEF Multiply
<1> HIDE DEF s, t, n
<1>5. Flipped(Multiply(x, y), Multiply(n, y))
  BY <1>2, <1>3, <1>4
<1> QED
  BY <1>5 DEF n

LEMMA DivideFlipped ==
    ASSUME NEW x \in Number, NEW y \in Number
    PROVE  Flipped(Divide(x, y), Divide(Negate(x), y))
<1> DEFINE s == Xor(x.sign, y.sign)
           t == Xor(Negate(x).sign, y.sign)
           n == Negate(x)
           byZero(z) == [status |-> {"div_by_zero"}, number |-> Infinity(z)]
<1>1. s \in {0, 1} /\ t = 1 - s
  BY NumberParts, Negated, Xors
<1>2. (IsZero(n) <=> IsZero(x)) /\ (IsInfinity(n) <=> IsInfinity(x))
  BY Negated
<1>3. /\ Flipped(Exactly(Zero(s)), Exactly(Zero(t)))
      /\ Flipped(Exactly(Infinity(s)), Exactly(Infinity(t)))
      /\ Flipped(InvalidNaN, InvalidNaN)
      /\ Flipped(FiniteQuotient(x, y), FiniteQuotient(n, y))
      /\ Flipped(byZero(s), byZero(t))
  BY <1>1, SpecialsFlipped, FiniteFlipped
<1>4. /\ Divide(x, y) =
           IF (IsZero(x) /\ IsZero(y)) \/ (IsInfinity(x) /\ IsInfinity(y)) THEN InvalidNaN
           ELSE IF IsZero(y) THEN byZero(s)
           ELSE IF IsZero(x) THEN Exactly(Zero(s))
           ELSE IF IsInfinity(x) THEN Exactly(Infinity(s))
           ELSE IF IsInfinity(y) THEN Exactly(Zero(s))
           ELSE FiniteQuotient(x, y)
      /\ Divide(n, y) =
           IF (IsZero(n) /\ IsZero(y)) \/ (IsInfinity(n) /\ IsInfinity(y)) THEN InvalidNaN
           ELSE IF IsZero(y) THEN byZero(t)
           ELSE IF IsZero(n) THEN Exactly(Zero(t))
           ELSE IF IsInfinity(n) THEN Exactly(Infinity(t))
           ELSE IF IsInfinity(y) THEN Exactly(Zero(t))
           ELSE FiniteQuotient(n, y)
  BY Zenon DEF Divide
<1> HIDE DEF s, t, n, byZero
<1>5. Flipped(Divide(x, y), Divide(n, y))
  BY <1>2, <1>3, <1>4
<1> QED
  BY <1>5 DEF n
-----------------------------------------------------------------------------
(* Sums and products commute                                               *)

LEMMA ShiftType ==
    ASSUME NEW v \in Nat, NEW n \in Int
    PROVE  shift_right_sticky(v, n) \in Int
<1>1. CASE n <= 0
  BY <1>1 DEF shift_right_sticky
<1>2. CASE ~(n <= 0)
  <2>1. 2^n \in Nat \ {0}
    BY <1>2, PowerType
  <2> DEFINE w == v \div 2^n
             lost == v % 2^n # 0
  <2>2. w \in Int
    BY <2>1
  <2>3. shift_right_sticky(v, n) = Sticky(w, lost)
    BY <1>2 DEF shift_right_sticky
  <2> HIDE DEF w, lost
  <2>4. Sticky(w, lost) \in Int
    BY <2>2 DEF Sticky
  <2> QED
    BY <2>3, <2>4
<1> QED
  BY <1>1, <1>2

LEMMA SumCommutes ==
    ASSUME NEW x \in Number, NEW y \in Number
    PROVE  FiniteSum(x, y, y.sign) = FiniteSum(y, x, x.sign)
<1> DEFINE top(p, q) == IF Exponent(p) > Exponent(q) THEN Exponent(p) ELSE Exponent(q)
           e == top(x, y)
           mx == shift_right_sticky(8 * Significand(x), e - Exponent(x))
           my == shift_right_sticky(8 * Significand(y), e - Exponent(y))
           P(s, t, m, n) ==
             IF s # t
               THEN IF m > n THEN Normalized(s, e, m - n)
                    ELSE IF n > m THEN Normalized(t, e, n - m)
                    ELSE Exactly(Zero(0))
             ELSE IF m + n >= MantTop
               THEN pack_fp32(s, e + 1, shift_right_sticky((m + n) \div 2, 1))
             ELSE pack_fp32(s, e, m + n)
<1>1. /\ Exponent(x) \in Int /\ Exponent(y) \in Int
      /\ Significand(x) \in Nat /\ Significand(y) \in Nat
  BY NumberParts
<1>2. top(y, x) = e /\ e \in Int
  BY <1>1
<1>3. FiniteSum(x, y, y.sign) = P(x.sign, y.sign, mx, my)
  BY Zenon DEF FiniteSum
<1>4. FiniteSum(y, x, x.sign) = P(y.sign, x.sign, my, mx)
  BY <1>2, Zenon DEF FiniteSum
<1>5. mx \in Int /\ my \in Int
  <2>1. e - Exponent(x) \in Int /\ e - Exponent(y) \in Int
        /\ 8 * Significand(x) \in Nat /\ 8 * Significand(y) \in Nat
    BY <1>1, <1>2
  <2> HIDE DEF e
  <2> QED
    BY <2>1, ShiftType
<1> HIDE DEF e, mx, my
<1>6. mx + my = my + mx /\ (mx > my => ~(my > mx))
  BY <1>5
<1>7. P(x.sign, y.sign, mx, my) = P(y.sign, x.sign, my, mx)
  BY <1>6
<1> QED
  BY <1>3, <1>4, <1>7

LEMMA AddCommutes ==
    ASSUME NEW x \in Number, NEW y \in Number
    PROVE  Add(x, y) = Add(y, x)
<1>1. x.sign \in {0, 1} /\ y.sign \in {0, 1}
  BY NumberParts
<1>2. x.sign * y.sign = y.sign * x.sign
  BY <1>1
<1>3. IsInfinity(x) /\ IsInfinity(y) /\ x.sign = y.sign => x = y
  BY SameNumber DEF IsInfinity
<1>4. FiniteSum(x, y, y.sign) = FiniteSum(y, x, x.sign)
  BY SumCommutes
<1> QED
  BY <1>2, <1>3, <1>4 DEF Add

LEMMA MultiplyCommutes ==
    ASSUME NEW x \in Number, NEW y \in Number
    PROVE  Multiply(x, y) = Multiply(y, x)
<1>1. /\ Exponent(x) \in Int /\ Exponent(y) \in Int /\ Bias \in Int
      /\ Significand(x) \in Nat /\ Significand(y) \in Nat
  BY NumberParts, FormatSizes
<1>2. Xor(x.sign, y.sign) = Xor(y.sign, x.sign)
  BY DEF Xor
<1>3. /\ Significand(x) * Significand(y) = Significand(y) * Significand(x)
      /\ Exponent(x) + Exponent(y) - Bias = Exponent(y) + Exponent(x) - Bias
  BY <1>1
<1>4. FiniteProduct(x, y) = FiniteProduct(y, x)
  BY <1>2, <1>3, Zenon DEF FiniteProduct
<1> QED
  BY <1>2, <1>4 DEF Multiply
-----------------------------------------------------------------------------
(* Least elements, powers and division                                     *)

LEMMA Least ==
    ASSUME NEW S \in SUBSET Nat, S # {}
    PROVE  \E k \in S : \A j \in S : ~(j < k)
<1> DEFINE L == {ss \in Nat \X Nat : ss[1] < ss[2]}
<1>1. IsWellFoundedOn(L, Nat)
  BY NatWellFounded
<1>2. \E k \in S : \A j \in S : ~(<<j, k>> \in L)
  <2> HIDE DEF L
  <2> QED
    BY <1>1, WFMin
<1> QED
  BY <1>2

\* The sum of exponents is the exponent of the product.
LEMMA PowerAdds ==
    ASSUME NEW m \in Nat, NEW n \in Nat
    PROVE  2^(m + n) = 2^m * 2^n
<1> DEFINE S == {k \in Nat : 2^(m + k) # 2^m * 2^k}
<1>1. S = {}
  <2> SUFFICES ASSUME S # {} PROVE FALSE
    OBVIOUS
  <2>1. PICK k \in S : \A j \in S : ~(j < k)
    BY Least
  <2>2. 2^m \in Nat \ {0} /\ 2^0 \in Nat \ {0}
    BY PowerType
  <2>3. 2^(0 + 1) = 2 * 2^0 /\ 2^1 = 2
    BY PowerDoubles
  <2>4. 2^0 = 1
    BY <2>2, <2>3
  <2>5. CASE k = 0
    <3>1. m + 0 = m
      OBVIOUS
    <3> QED
      BY <2>1, <2>2, <2>4, <2>5, <3>1
  <2>6. CASE k # 0
    <3>1. k - 1 \in Nat /\ k - 1 < k /\ k - 1 + 1 = k /\ m + (k - 1) \in Nat
          /\ (m + (k - 1)) + 1 = m + k
      BY <2>6
    <3>2. 2^(m + (k - 1)) = 2^m * 2^(k - 1)
      BY <2>1, <3>1
    <3>3. 2^k = 2 * 2^(k - 1) /\ 2^(m + k) = 2 * 2^(m + (k - 1))
      BY <3>1, PowerDoubles
    <3>4. 2^(k - 1) \in Nat
      BY <3>1, PowerType
    <3>5. 2 * (2^m * 2^(k - 1)) = 2^m * (2 * 2^(k - 1))
      BY <2>2, <3>4
    <3>6. 2^(m + k) = 2^m * 2^k
      BY <3>2, <3>3, <3>5
    <3> QED
      BY <2>1, <3>6
  <2> QED
    BY <2>5, <2>6
<1> QED
  BY <1>1

LEMMA PowersOrdered ==
    ASSUME NEW m \in Nat, NEW n \in Nat, m <= n
    PROVE  2^m <= 2^n
<1>1. n - m \in Nat /\ m + (n - m) = n
  OBVIOUS
<1>2. 2^n = 2^m * 2^(n - m)
  BY <1>1, PowerAdds
<1>3. 2^m \in Nat \ {0} /\ 2^(n - m) \in Nat \ {0}
  BY <1>1, PowerType
<1> QED
  BY <1>2, <1>3

LEMMA DivisionIs ==
    ASSUME NEW c \in Nat \ {0}, NEW v \in Nat
    PROVE  v \div c \in Nat /\ v % c \in 0 .. c - 1 /\ v = c * (v \div c) + (v % c)
OBVIOUS

LEMMA DivisionUnique ==
    ASSUME NEW c \in Nat \ {0}, NEW q \in Nat, NEW r \in 0 .. c - 1,
           NEW v, v = c * q + r
    PROVE  v \div c = q /\ v % c = r
<1> DEFINE p == v \div c
           s == v % c
<1>1. v \in Nat
  OBVIOUS
<1>2. p \in Nat /\ s \in 0 .. c - 1 /\ v = c * p + s
  BY <1>1, DivisionIs
<1> HIDE DEF p, s
<1>3. \A x, y \in Nat : x < y => c * x + c <= c * y
  OBVIOUS
<1>4. c * p \in Nat /\ c * q \in Nat
  BY <1>2
<1>5. ~(p < q) /\ ~(q < p)
  BY <1>2, <1>3, <1>4
<1> QED
  BY <1>2, <1>4, <1>5 DEF p, s
-----------------------------------------------------------------------------
(* Comparisons                                                             *)

\* x is to y as v is to w: less, equal or greater.
Same(x, y, v, w) == (x < y <=> v < w) /\ (x = y <=> v = w)

LEMMA Scaled ==
    ASSUME NEW x \in Int, NEW y \in Int, NEW c \in Nat \ {0}
    PROVE  Same(x, y, c * x, c * y)
<1>1. x < y => c * x < c * y
  OBVIOUS
<1>2. x > y => c * x > c * y
  OBVIOUS
<1>3. c * x \in Int /\ c * y \in Int
  OBVIOUS
<1> QED
  BY <1>1, <1>2, <1>3 DEF Same

\* What the sticky bit is for: the shifted number is to every even number as
\* the number is.
LEMMA StickyCompares ==
    ASSUME NEW v \in Nat, NEW c \in Nat \ {0}, NEW k \in Int
    PROVE  LET m == Sticky(v \div c, v % c # 0)
           IN  m \in Nat /\ Same(m, 2 * k, v, c * (2 * k))
<1> DEFINE q == v \div c
           r == v % c
           m == Sticky(q, r # 0)
<1>1. q \in Nat /\ r \in 0 .. c - 1 /\ v = c * q + r
  BY DivisionIs
<1> SUFFICES m \in Nat /\ Same(m, 2 * k, v, c * (2 * k))
  OBVIOUS
<1>2. m = IF r # 0 /\ q % 2 = 0 THEN q + 1 ELSE q
  BY DEF Sticky
<1> HIDE DEF q, r, m
<1>3. m \in Nat
  BY <1>1, <1>2
<1>4. CASE q >= 2 * k + 1
  <2>1. c * q >= c * (2 * k + 1)
    BY <1>1, <1>4
  <2>2. c * (2 * k + 1) = c * (2 * k) + c /\ c * (2 * k) \in Int
    OBVIOUS
  <2>3. v > c * (2 * k)
    BY <1>1, <2>1, <2>2
  <2>4. m > 2 * k
    BY <1>1, <1>2, <1>4
  <2> QED
    BY <1>1, <1>3, <2>2, <2>3, <2>4 DEF Same
<1>5. CASE q = 2 * k
  <2>1. q % 2 = 0
    BY <1>1, <1>5
  <2>2. v = c * (2 * k) + r /\ c * (2 * k) \in Int
    BY <1>1, <1>5
  <2> QED
    BY <1>1, <1>2, <1>5, <2>1, <2>2 DEF Same
<1>6. CASE q < 2 * k
  <2>1. c * (q + 1) <= c * (2 * k)
    BY <1>1, <1>6
  <2>2. c * (q + 1) = c * q + c /\ c * (2 * k) \in Int
    BY <1>1
  <2>3. v < c * (2 * k)
    BY <1>1, <2>1, <2>2
  <2>4. m < 2 * k
    BY <1>1, <1>2, <1>6
  <2> QED
    BY <1>1, <1>3, <2>2, <2>3, <2>4 DEF Same
<1> QED
  BY <1>1, <1>3, <1>4, <1>5, <1>6
-----------------------------------------------------------------------------
(* The numbers of a format in their order                                  *)

\* Where a significand of that exponent stands among all codes.
CodeAt(e, sig) == Hidden * (e - 1) + sig

LEMMA HiddenIsEven ==
    /\ Hidden \in Nat /\ Hidden >= 4
    /\ \E h \in Nat \ {0} : Hidden = 4 * h
<1>1. FracBits - 2 \in Nat /\ 2 \in Nat /\ (FracBits - 2) + 2 = FracBits /\ 1 \in Nat
      /\ 0 \in Nat /\ 0 + 1 = 1 /\ 1 + 1 = 2
  BY FormatAssumption
<1>2. 2^(FracBits - 2) \in Nat \ {0} /\ 2^0 \in Nat \ {0}
  BY <1>1, PowerType
<1>3. Hidden = 2^(FracBits - 2) * 2^2
  BY <1>1, PowerAdds DEF Hidden
<1>4. 2^2 = 4
  <2>1. 2^(1 + 1) = 2 * 2^1
    BY <1>1, PowerDoubles
  <2> QED
    BY <2>1
<1> QED
  BY <1>2, <1>3, <1>4, FormatSizes

LEMMA CodedIs ==
    ASSUME NEW e \in Nat \ {0}, NEW sig \in Nat, sig < 2 * Hidden,
           sig >= Hidden \/ e = 1, NEW s
    PROVE  /\ CodeAt(e, sig) \in Nat
           /\ Coded(s, CodeAt(e, sig))
                = [sign |-> s, exp |-> IF sig < Hidden THEN 0 ELSE e,
                   frac |-> IF sig < Hidden THEN sig ELSE sig - Hidden]
<1> DEFINE c == CodeAt(e, sig)
<1>1. Hidden \in Nat \ {0}
  BY FormatSizes
<1>2. CASE sig < Hidden
  <2>1. e = 1 /\ c = Hidden * 0 + sig /\ sig \in 0 .. Hidden - 1 /\ 0 \in Nat
    BY <1>1, <1>2 DEF CodeAt
  <2> HIDE DEF c
  <2>2. c \div Hidden = 0 /\ c % Hidden = sig
    BY <1>1, <2>1, DivisionUnique
  <2>3. c \in Nat
    BY <1>1, <2>1
  <2> QED
    BY <1>2, <2>2, <2>3 DEF Coded, c
<1>3. CASE ~(sig < Hidden)
  <2>1. sig - Hidden \in 0 .. Hidden - 1
    BY <1>1, <1>3
  <2>2. c = Hidden * e + (sig - Hidden)
    BY <1>1 DEF CodeAt
  <2> HIDE DEF c
  <2>3. c \div Hidden = e /\ c % Hidden = sig - Hidden
    <3>1. e \in Nat
      OBVIOUS
    <3> DEFINE f == sig - Hidden
    <3>2. f \in 0 .. Hidden - 1 /\ c = Hidden * e + f
      BY <2>1, <2>2
    <3> HIDE DEF f
    <3>3. c \div Hidden = e /\ c % Hidden = f
      BY <1>1, <3>1, <3>2, DivisionUnique
    <3> QED
      BY <3>3 DEF f
  <2>4. c \in Nat
    BY <1>1, <2>1, <2>2
  <2> QED
    BY <1>3, <2>3, <2>4 DEF Coded, c
<1> QED
  BY <1>2, <1>3

LEMMA CodeValueIs ==
    ASSUME NEW e \in Nat \ {0}, NEW sig \in Nat, sig <= 2 * Hidden,
           sig >= Hidden \/ e = 1
    PROVE  CodeValue(CodeAt(e, sig)) = 2^(e - 1) * sig
<1>1. Hidden \in Nat \ {0} /\ e - 1 \in Nat /\ 2^(e - 1) \in Nat \ {0}
  BY FormatSizes, PowerType
<1>2. CASE sig < 2 * Hidden
  <2> DEFINE x == Coded(0, CodeAt(e, sig))
  <2>1. /\ x.exp = IF sig < Hidden THEN 0 ELSE e
        /\ x.frac = IF sig < Hidden THEN sig ELSE sig - Hidden
    BY <1>2, CodedIs
  <2> HIDE DEF x
  <2>2. Exponent(x) = e /\ Significand(x) = sig
    BY <1>1, <2>1 DEF Exponent, Significand
  <2>3. Value(x) = sig * 2^(e - 1)
    BY <2>2 DEF Value
  <2> QED
    BY <1>1, <2>3 DEF CodeValue, x
<1>3. CASE sig = 2 * Hidden
  <2> DEFINE x == Coded(0, CodeAt(e + 1, Hidden))
  <2>1. CodeAt(e, sig) = CodeAt(e + 1, Hidden)
    BY <1>1, <1>3 DEF CodeAt
  <2>2. x.exp = e + 1 /\ x.frac = 0
    BY <1>1, CodedIs
  <2> HIDE DEF x
  <2>3. Exponent(x) = e + 1 /\ Significand(x) = Hidden
    BY <1>1, <2>2 DEF Exponent, Significand
  <2>4. 2^((e - 1) + 1) = 2 * 2^(e - 1)
    BY <1>1, PowerDoubles
  <2>5. (e - 1) + 1 = e /\ (e + 1) - 1 = e
    BY <1>1
  <2>6. Value(x) = Hidden * (2 * 2^(e - 1))
    BY <2>3, <2>4, <2>5 DEF Value
  <2> QED
    BY <1>1, <1>3, <2>1, <2>6 DEF CodeValue, x
<1> QED
  BY <1>1, <1>2, <1>3

LEMMA EveryCode ==
    ASSUME NEW c \in Nat
    PROVE  \E e \in Nat \ {0}, sig \in Nat :
              /\ sig < 2 * Hidden /\ (sig >= Hidden \/ e = 1)
              /\ c = CodeAt(e, sig)
<1>1. Hidden \in Nat \ {0}
  BY FormatSizes
<1>2. CASE c < Hidden
  <2>1. c = CodeAt(1, c)
    BY <1>1 DEF CodeAt
  <2> QED
    BY <1>1, <1>2, <2>1
<1>3. CASE ~(c < Hidden)
  <2> DEFINE q == c \div Hidden
             r == c % Hidden
  <2>1. q \in Nat /\ r \in 0 .. Hidden - 1 /\ c = Hidden * q + r
    BY <1>1, DivisionIs
  <2> HIDE DEF q, r
  <2>2. q # 0
    BY <1>1, <1>3, <2>1
  <2>3. c = CodeAt(q, r + Hidden)
    BY <1>1, <2>1 DEF CodeAt
  <2> QED
    BY <1>1, <2>1, <2>2, <2>3
<1> QED
  BY <1>2, <1>3

\* Larger codes are of numbers that are not smaller.
LEMMA CodesOrdered ==
    ASSUME NEW c \in Nat, NEW k \in Nat, c <= k
    PROVE  /\ CodeValue(c) \in Nat /\ CodeValue(k) \in Nat
           /\ CodeValue(c) <= CodeValue(k)
<1>1. Hidden \in Nat \ {0}
  BY FormatSizes
<1>2. PICK e \in Nat \ {0}, sig \in Nat :
         /\ sig < 2 * Hidden /\ (sig >= Hidden \/ e = 1)
         /\ c = CodeAt(e, sig)
  BY EveryCode
<1>3. PICK f \in Nat \ {0}, tau \in Nat :
         /\ tau < 2 * Hidden /\ (tau >= Hidden \/ f = 1)
         /\ k = CodeAt(f, tau)
  BY EveryCode
<1> DEFINE P == 2^(e - 1)
           Q == 2^(f - 1)
<1>4. /\ e - 1 \in Nat /\ f - 1 \in Nat
      /\ P \in Nat \ {0} /\ Q \in Nat \ {0}
  BY PowerType
<1>5. CodeValue(c) = P * sig /\ CodeValue(k) = Q * tau
  BY <1>1, <1>2, <1>3, CodeValueIs
<1>6. e <= f
  <2> SUFFICES ASSUME e >= f + 1 PROVE FALSE
    OBVIOUS
  <2>1. Hidden * e >= Hidden * (f + 1)
    BY <1>1
  <2>2. sig >= Hidden
    BY <1>2
  <2>3. c >= Hidden * e /\ Hidden * e \in Int
    BY <1>1, <1>2, <2>2 DEF CodeAt
  <2>4. k < Hidden * (f + 1)
    BY <1>1, <1>3 DEF CodeAt
  <2>5. c \in Int /\ k \in Int /\ Hidden * (f + 1) \in Int
    BY <1>1
  <2> QED
    BY <2>1, <2>3, <2>4, <2>5
<1>7. P * sig \in Nat /\ Q * tau \in Nat
  BY <1>4
<1>8. CASE e = f
  <2>1. sig <= tau
    BY <1>1, <1>2, <1>3, <1>8 DEF CodeAt
  <2>2. P = Q
    BY <1>8
  <2> HIDE DEF P, Q
  <2> QED
    BY <1>4, <1>5, <1>7, <2>1, <2>2
<1>9. CASE e < f
  <2>1. tau >= Hidden
    BY <1>3, <1>9
  <2>2. (e - 1) + 1 = e /\ e \in Nat /\ e <= f - 1
    BY <1>9
  <2>3. 2^e = 2 * P /\ 2^e <= Q /\ 2^e \in Nat
    BY <1>4, <2>2, PowerDoubles, PowersOrdered, PowerType
  <2> HIDE DEF P, Q
  <2>4. P * sig <= P * (2 * Hidden)
    BY <1>1, <1>2, <1>4
  <2>5. P * (2 * Hidden) = (2 * P) * Hidden
    BY <1>1, <1>4
  <2>6. (2 * P) * Hidden <= Q * Hidden
    BY <1>1, <1>4, <2>3
  <2>7. Q * Hidden <= Q * tau
    BY <1>1, <1>3, <1>4, <2>1
  <2>8. P * (2 * Hidden) \in Nat /\ Q * Hidden \in Nat
    BY <1>1, <1>4
  <2> QED
    BY <1>5, <1>7, <2>4, <2>5, <2>6, <2>7, <2>8
<1> QED
  BY <1>5, <1>6, <1>7, <1>8, <1>9

LEMMA LargestIs ==
    ASSUME NEW n \in Nat, NEW d \in Nat \ {0}, NEW c \in 0 .. InfinityCode,
           CodeValue(c) * d <= n,
           c < InfinityCode => n < CodeValue(c + 1) * d
    PROVE  Largest({k \in 0 .. InfinityCode : CodeValue(k) * d <= n}) = c
<1> DEFINE S == {k \in 0 .. InfinityCode : CodeValue(k) * d <= n}
<1>0. InfinityCode \in Nat
  BY FormatSizes DEF InfinityCode
<1>1. c \in S
  OBVIOUS
<1>2. ASSUME NEW k \in S PROVE c >= k
  <2> SUFFICES ASSUME c < k PROVE FALSE
    BY <1>0
  <2>1. k \in Nat /\ c \in Nat /\ c + 1 \in Nat /\ c + 1 <= k /\ c < InfinityCode
    BY <1>0
  <2>2. CodeValue(c + 1) \in Nat /\ CodeValue(k) \in Nat /\ CodeValue(c + 1) <= CodeValue(k)
    BY <2>1, CodesOrdered
  <2>3. CodeValue(c + 1) * d <= CodeValue(k) * d
    BY <2>2
  <2>4. CodeValue(k) * d <= n /\ n < CodeValue(c + 1) * d
    BY <2>1
  <2>5. CodeValue(k) * d \in Nat /\ CodeValue(c + 1) * d \in Nat
    BY <2>2
  <2> QED
    BY <2>3, <2>4, <2>5
<1>3. S \subseteq Int
  BY <1>0
<1> HIDE DEF S
<1>4. \A m \in S : (\A k \in S : m >= k) => m = c
  BY <1>0, <1>1, <1>2, <1>3
<1>5. Largest(S) = c
  BY <1>1, <1>2, <1>4 DEF Largest
<1> QED
  BY <1>5 DEF S
-----------------------------------------------------------------------------
(* Rounding                                                                *)

\* The significand with its guard bits tells n/d from the numbers at which
\* rounding changes: m is to four times k as N/U is to k.
Guards(m, N, U) == \A k \in Nat : Same(m, 4 * k, N, U * k)

\* RoundSignificand takes the significand that is nearest, or even.
LEMMA RoundsSignificand ==
    ASSUME NEW n \in Nat, NEW U \in Nat \ {0}, NEW m \in Nat, Guards(m, 2 * n, U)
    PROVE  LET sig == m \div 8
               r == RoundSignificand(m)
           IN  /\ sig \in Nat /\ r \in {sig, sig + 1}
               /\ U * sig <= n /\ n < U * (sig + 1)
               /\ m % 8 = 0 <=> n = U * sig
               /\ 2 * n < U * (2 * sig + 1) => r = sig
               /\ 2 * n > U * (2 * sig + 1) => r = sig + 1
               /\ 2 * n = U * (2 * sig + 1) => r = sig + (sig % 2)
<1> DEFINE sig == m \div 8
           g == m % 8
           r == RoundSignificand(m)
<1>1. sig \in Nat /\ g \in 0 .. 7 /\ m = 8 * sig + g
  OBVIOUS
<1>2. r = IF g > 4 \/ (g = 4 /\ sig % 2 = 1) THEN sig + 1 ELSE sig
  BY DEF RoundSignificand
<1>3. \A k \in Nat : Same(m, 4 * k, 2 * n, U * k)
  BY DEF Guards
<1> HIDE DEF sig, g, r
<1>4. 2 * sig \in Nat /\ 2 * sig + 1 \in Nat /\ 2 * (sig + 1) \in Nat
  BY <1>1
<1>5. /\ Same(m, 4 * (2 * sig), 2 * n, U * (2 * sig))
      /\ Same(m, 4 * (2 * sig + 1), 2 * n, U * (2 * sig + 1))
      /\ Same(m, 4 * (2 * (sig + 1)), 2 * n, U * (2 * (sig + 1)))
  BY <1>3, <1>4
<1>6. U * (2 * sig) = 2 * (U * sig) /\ U * (2 * (sig + 1)) = 2 * (U * (sig + 1))
      /\ U * sig \in Nat /\ U * (sig + 1) \in Nat /\ U * (2 * sig + 1) \in Nat
  BY <1>1
<1>7. ~(m < 4 * (2 * sig)) /\ m < 4 * (2 * (sig + 1))
  BY <1>1
<1>8. U * sig <= n /\ n < U * (sig + 1)
  BY <1>5, <1>6, <1>7 DEF Same
<1>9. g = 0 <=> n = U * sig
  <2>1. g = 0 <=> m = 4 * (2 * sig)
    BY <1>1
  <2> QED
    BY <1>5, <1>6, <2>1 DEF Same
<1>10. /\ g < 4 <=> 2 * n < U * (2 * sig + 1)
       /\ g = 4 <=> 2 * n = U * (2 * sig + 1)
  <2>1. /\ g < 4 <=> m < 4 * (2 * sig + 1)
        /\ g = 4 <=> m = 4 * (2 * sig + 1)
    BY <1>1
  <2> QED
    BY <1>5, <2>1 DEF Same
<1>11. sig % 2 \in {0, 1}
  BY <1>1
<1>12. r \in {sig, sig + 1}
  BY <1>2
<1>13. /\ 2 * n < U * (2 * sig + 1) => r = sig
       /\ 2 * n > U * (2 * sig + 1) => r = sig + 1
       /\ 2 * n = U * (2 * sig + 1) => r = sig + (sig % 2)
  <2>1. 2 * n \in Nat
    OBVIOUS
  <2>2. g < 4 \/ g = 4 \/ g > 4
    BY <1>1
  <2> QED
    BY <1>1, <1>2, <1>6, <1>10, <1>11, <2>1, <2>2
<1> QED
  BY <1>1, <1>8, <1>9, <1>12, <1>13 DEF sig, g, r

\* Above the largest number, infinity is what rounding gives.
LEMMA OverflowRounds ==
    ASSUME NEW n \in Nat, NEW d \in Nat \ {0}, NEW sign,
           CodeValue(InfinityCode) * d <= n
    PROVE  Rounded(sign, n, d) = [status |-> {"overflow"}, number |-> Infinity(sign)]
<1>1. InfinityCode \in Nat /\ InfinityCode = CodeAt(ExpMax, Hidden)
      /\ ExpMax \in Nat \ {0} /\ Hidden \in Nat \ {0}
  <2>1. ExpMax \in Nat \ {0} /\ Hidden \in Nat \ {0}
    BY FormatSizes
  <2>2. \A h, x \in Nat : h * (x - 1) + h = x * h /\ x * h \in Nat
    OBVIOUS
  <2> QED
    BY <2>1, <2>2 DEF InfinityCode, CodeAt
<1>2. Largest({k \in 0 .. InfinityCode : CodeValue(k) * d <= n}) = InfinityCode
  BY <1>1, LargestIs
<1>3. Nearest(n, d) = InfinityCode
  BY <1>2 DEF Nearest
<1>4. Coded(sign, InfinityCode) = Infinity(sign)
  <2>1. Coded(sign, CodeAt(ExpMax, Hidden))
          = [sign |-> sign, exp |-> ExpMax, frac |-> Hidden - Hidden]
    BY <1>1, CodedIs
  <2> QED
    BY <1>1, <2>1 DEF Infinity
<1> QED
  BY <1>3, <1>4 DEF Rounded

LEMMA EncodedRounds ==
    ASSUME NEW sign, NEW e \in Nat \ {0}, NEW m \in Nat, m < MantTop,
           m >= 8 * Hidden \/ e = 1,
           NEW n \in Nat, NEW d \in Nat \ {0},
           NEW U, U = 2^(e - 1) * d, Guards(m, 2 * n, U)
    PROVE  Encoded(sign, e, m) = Rounded(sign, n, d)
<1> DEFINE P == 2^(e - 1)
           sig == m \div 8
           r == RoundSignificand(m)
           c == CodeAt(e, sig)
<1>1. /\ Hidden \in Nat \ {0} /\ ExpMax \in Nat /\ ExpMax >= 3
      /\ InfinityCode \in Nat /\ InfinityCode = Hidden * ExpMax
  BY FormatSizes DEF InfinityCode
<1>2. e - 1 \in Nat /\ P \in Nat \ {0}
  BY PowerType
<1>3. U = P * d /\ U \in Nat \ {0} /\ Guards(m, 2 * n, U)
  BY <1>2
<1>4. /\ sig \in Nat /\ r \in {sig, sig + 1}
      /\ U * sig <= n /\ n < U * (sig + 1)
      /\ m % 8 = 0 <=> n = U * sig
      /\ 2 * n < U * (2 * sig + 1) => r = sig
      /\ 2 * n > U * (2 * sig + 1) => r = sig + 1
      /\ 2 * n = U * (2 * sig + 1) => r = sig + (sig % 2)
  BY <1>3, RoundsSignificand
<1>5. sig < 2 * Hidden /\ (sig >= Hidden \/ e = 1)
  BY <1>1 DEF MantTop
<1> HIDE DEF P, sig, r
<1>6. /\ c \in Nat
      /\ CodeValue(c) = P * sig /\ CodeValue(c + 1) = P * (sig + 1)
      /\ CodeValue(CodeAt(e, r)) = P * r
  <2>1. c \in Nat
    BY <1>4, <1>5, CodedIs
  <2>2. CodeValue(CodeAt(e, sig)) = P * sig
    <3>1. sig <= 2 * Hidden
      BY <1>1, <1>4, <1>5
    <3> QED
      BY <1>4, <1>5, <3>1, CodeValueIs DEF P
  <2>3. sig + 1 \in Nat /\ sig + 1 <= 2 * Hidden /\ (sig + 1 >= Hidden \/ e = 1)
    BY <1>1, <1>4, <1>5
  <2>4. CodeValue(CodeAt(e, sig + 1)) = P * (sig + 1)
    BY <2>3, CodeValueIs DEF P
  <2>5. c + 1 = CodeAt(e, sig + 1)
    BY <1>1, <1>4 DEF CodeAt
  <2> QED
    BY <1>4, <2>1, <2>2, <2>4, <2>5
<1>7. /\ CodeValue(c) * d = U * sig
      /\ CodeValue(c + 1) * d = U * (sig + 1)
      /\ CodeValue(CodeAt(e, r)) * d = U * r
  BY <1>2, <1>3, <1>4, <1>6
<1> HIDE DEF c
<1>8. CASE e >= ExpMax
  <2>1. Hidden * ExpMax <= Hidden * e
    BY <1>1, <1>8
  <2>2. sig >= Hidden
    BY <1>1, <1>5, <1>8
  <2>3. Hidden * (e - 1) + Hidden = Hidden * e
    BY <1>1
  <2>4. InfinityCode <= c
    BY <1>1, <1>4, <2>1, <2>2, <2>3 DEF c, CodeAt
  <2>5. /\ CodeValue(InfinityCode) \in Nat /\ CodeValue(c) \in Nat
        /\ CodeValue(InfinityCode) <= CodeValue(c)
    BY <1>1, <1>6, <2>4, CodesOrdered
  <2>6. CodeValue(InfinityCode) * d <= CodeValue(c) * d
    BY <2>5
  <2>7. CodeValue(InfinityCode) * d <= n
    <3>1. CodeValue(InfinityCode) * d \in Nat /\ CodeValue(c) * d \in Nat
      BY <2>5
    <3> QED
      BY <1>4, <1>7, <2>6, <3>1
  <2>8. Rounded(sign, n, d) = [status |-> {"overflow"}, number |-> Infinity(sign)]
    BY <2>7, OverflowRounds
  <2>9. e + (IF r = 2 * Hidden THEN 1 ELSE 0) >= ExpMax
    BY <1>1, <1>8
  <2>10. Encoded(sign, e, m) = [status |-> {"overflow"}, number |-> Infinity(sign)]
    BY <2>9 DEF Encoded, r
  <2> QED
    BY <2>8, <2>10
<1>9. CASE e < ExpMax
  <2> DEFINE code == CodeAt(e, r)
  <2>1. Hidden * (e - 1) + 2 * Hidden <= Hidden * ExpMax
    <3>1. e + 1 <= ExpMax /\ e + 1 \in Nat
      BY <1>1, <1>9
    <3>2. Hidden * (e + 1) <= Hidden * ExpMax
      BY <1>1, <3>1
    <3>3. Hidden * (e - 1) + 2 * Hidden = Hidden * (e + 1)
      BY <1>1
    <3> QED
      BY <3>2, <3>3
  <2>2. c \in 0 .. InfinityCode /\ c < InfinityCode
    <3>1. Hidden * (e - 1) \in Nat /\ Hidden * ExpMax \in Nat
      BY <1>1, <1>2
    <3> QED
      BY <1>1, <1>4, <1>5, <1>6, <2>1, <3>1 DEF c, CodeAt
  <2>3. Largest({k \in 0 .. InfinityCode : CodeValue(k) * d <= n}) = c
    BY <1>4, <1>7, <2>2, LargestIs
  <2>4. Nearest(n, d) = code
    <3> DEFINE middle == (CodeValue(c) + CodeValue(c + 1)) * d
    <3>1. Nearest(n, d) = IF c = InfinityCode \/ 2 * n < middle THEN c
                          ELSE IF 2 * n > middle \/ c % 2 = 1 THEN c + 1
                          ELSE c
      BY <2>3 DEF Nearest
    <3>2. middle = U * (2 * sig + 1)
      <4>1. middle = (P * sig + P * (sig + 1)) * d
        BY <1>6
      <4>2. (P * sig + P * (sig + 1)) * d = (P * d) * (2 * sig + 1)
        BY <1>2, <1>4
      <4> QED
        BY <1>3, <4>1, <4>2
    <3>3. c % 2 = sig % 2
      <4>1. PICK h \in Nat : Hidden = 4 * h
        BY HiddenIsEven
      <4>2. h * (e - 1) \in Int /\ c = sig + 2 * (2 * (h * (e - 1)))
        BY <1>1, <1>2, <1>4, <4>1 DEF c, CodeAt
      <4>3. \A x \in Int : (sig + 2 * (2 * x)) % 2 = sig % 2
        BY <1>4
      <4> QED
        BY <4>2, <4>3
    <3>4. c = CodeAt(e, sig) /\ c + 1 = CodeAt(e, sig + 1)
      BY <1>1, <1>4 DEF c, CodeAt
    <3>5. U * (2 * sig + 1) \in Nat /\ 2 * n \in Nat /\ sig % 2 \in {0, 1}
      BY <1>3, <1>4
    <3> HIDE DEF middle
    <3>6. CASE 2 * n < middle
      BY <1>4, <3>1, <3>2, <3>4, <3>5, <3>6
    <3>7. CASE 2 * n > middle
      BY <1>4, <2>2, <3>1, <3>2, <3>4, <3>5, <3>7
    <3>8. CASE 2 * n = middle /\ sig % 2 = 1
      BY <1>4, <2>2, <3>1, <3>2, <3>3, <3>4, <3>5, <3>8
    <3>9. CASE 2 * n = middle /\ sig % 2 = 0
      BY <1>4, <2>2, <3>1, <3>2, <3>3, <3>4, <3>5, <3>9
    <3> QED
      BY <3>2, <3>5, <3>6, <3>7, <3>8, <3>9
  <2>5. r \in Nat /\ r <= 2 * Hidden /\ (r >= Hidden \/ e = 1)
    BY <1>1, <1>4, <1>5
  <2>6. Rounded(sign, n, d) =
          [status |-> IF code = InfinityCode THEN {"overflow"}
                      ELSE IF code < Hidden /\ CodeValue(code) * d # n THEN {"underflow"}
                      ELSE {},
           number |-> Coded(sign, code)]
    BY <2>4 DEF Rounded
  <2>7. CASE r = 2 * Hidden
    <3>1. code = CodeAt(e + 1, Hidden) /\ code = Hidden * (e + 1)
      BY <1>1, <2>7 DEF CodeAt
    <3>2. Coded(sign, code) = [sign |-> sign, exp |-> e + 1, frac |-> Hidden - Hidden]
      BY <1>1, <3>1, CodedIs
    <3>3. Coded(sign, code) = [sign |-> sign, exp |-> e + 1, frac |-> 0]
      BY <1>1, <3>2
    <3>4. r % Hidden = 0
      <4>1. r = Hidden * 2 + 0 /\ 0 \in 0 .. Hidden - 1
        BY <1>1, <2>7
      <4> QED
        BY <1>1, <4>1, DivisionUnique
    <3>5. CASE e + 1 = ExpMax
      <4>1. code = InfinityCode
        BY <1>1, <3>1, <3>5
      <4>2. Rounded(sign, n, d) = [status |-> {"overflow"}, number |-> Infinity(sign)]
        BY <2>6, <3>3, <3>5, <4>1 DEF Infinity
      <4>3. Encoded(sign, e, m) = [status |-> {"overflow"}, number |-> Infinity(sign)]
        BY <1>1, <2>7, <3>5 DEF Encoded, r
      <4> QED
        BY <4>2, <4>3
    <3>6. CASE e + 1 # ExpMax
      <4>1. code # InfinityCode /\ ~(code < Hidden)
        <5>1. e + 1 < ExpMax
          BY <1>1, <1>9, <3>6
        <5>2. Hidden * (e + 1) < Hidden * ExpMax /\ Hidden * (e + 1) >= Hidden * 1
          BY <1>1, <5>1
        <5> QED
          BY <1>1, <3>1, <5>2
      <4>2. Rounded(sign, n, d)
              = Exactly([sign |-> sign, exp |-> e + 1, frac |-> 0])
        BY <2>6, <3>3, <4>1 DEF Exactly
      <4>3. ~(e + 1 >= ExpMax) /\ e + 1 > 1
        BY <1>1, <1>9, <3>6
      <4>4. Encoded(sign, e, m)
              = Exactly([sign |-> sign, exp |-> e + 1, frac |-> r % Hidden])
        BY <2>7, <4>3 DEF Encoded, r
      <4> QED
        BY <3>4, <4>2, <4>4
    <3> QED
      BY <3>5, <3>6
  <2>8. CASE r < 2 * Hidden
    <3>1. Coded(sign, code) = [sign |-> sign, exp |-> IF r < Hidden THEN 0 ELSE e,
                               frac |-> IF r < Hidden THEN r ELSE r - Hidden]
      BY <2>5, <2>8, CodedIs
    <3>2. code < InfinityCode /\ code \in Nat
      <4>1. Hidden * (e - 1) \in Nat
        BY <1>1, <1>2
      <4> QED
        BY <1>1, <2>1, <2>5, <2>8, <4>1 DEF CodeAt
    <3>3. r # 2 * Hidden /\ e + 0 = e /\ ~(e >= ExpMax)
      BY <1>1, <1>9, <2>5, <2>8
    <3>4. Encoded(sign, e, m) =
            IF e > 1 \/ r >= Hidden
              THEN Exactly([sign |-> sign, exp |-> e, frac |-> r % Hidden])
            ELSE [status |-> IF m % 8 # 0 THEN {"underflow"} ELSE {},
                  number |-> [sign |-> sign, exp |-> 0, frac |-> r % Hidden]]
      BY <3>3 DEF Encoded, r
    <3>5. CASE r >= Hidden
      <4>1. r % Hidden = r - Hidden
        <5> DEFINE f == r - Hidden
        <5>1. r = Hidden * 1 + f /\ f \in 0 .. Hidden - 1
          BY <1>1, <2>5, <2>8, <3>5
        <5> HIDE DEF f
        <5>2. r % Hidden = f
          BY <1>1, <5>1, DivisionUnique
        <5> QED
          BY <5>2 DEF f
      <4>2. ~(code < Hidden) /\ code # InfinityCode
        BY <1>1, <1>2, <2>5, <3>2, <3>5 DEF CodeAt
      <4>3. ~(r < Hidden)
        BY <1>1, <2>5, <3>5
      <4> QED
        BY <2>6, <3>1, <3>4, <3>5, <4>1, <4>2, <4>3 DEF Exactly
    <3>6. CASE r < Hidden
      <4>1. e = 1 /\ ~(e > 1) /\ ~(r >= Hidden) /\ P = 1
        <5>1. 2^0 = 1
          BY HiddenIsEven, PowerType, PowerDoubles
        <5>2. e = 1
          BY <1>1, <2>5, <3>6
        <5>3. e - 1 = 0
          BY <5>2
        <5> QED
          BY <1>1, <2>5, <3>6, <5>1, <5>2, <5>3 DEF P
      <4>2. r % Hidden = r
        <5>1. r \in 0 .. Hidden - 1
          BY <1>1, <2>5, <3>6
        <5>2. \A h \in Nat \ {0} : \A x \in 0 .. h - 1 : x % h = x
          OBVIOUS
        <5> QED
          BY <1>1, <5>1, <5>2
      <4>3. code < Hidden /\ code # InfinityCode
        <5>1. code = r
          BY <1>1, <2>5, <4>1 DEF CodeAt
        <5> QED
          BY <1>1, <2>5, <3>2, <3>6, <5>1
      <4>4. CodeValue(code) * d # n <=> m % 8 # 0
        <5>1. U = d
          BY <1>3, <4>1
        <5>2. CodeValue(code) * d = d * r
          BY <1>7, <5>1
        <5>3. m % 8 = 0 <=> n = d * sig
          BY <1>4, <5>1
        <5>4. m % 8 = 0 => r = sig
          <6> SUFFICES ASSUME n = U * sig PROVE r = sig
            BY <1>4
          <6>1. 2 * (U * sig) < U * (2 * sig + 1)
            BY <1>3, <1>4
          <6> QED
            BY <1>4, <6>1
        <5>5. ASSUME n = d * r PROVE n = d * sig
          <6>1. CASE r = sig
            BY <5>5, <6>1
          <6>2. CASE r = sig + 1
            BY <1>4, <5>1, <5>5, <6>2
          <6> QED
            BY <1>4, <6>1, <6>2
        <5> QED
          BY <5>2, <5>3, <5>4, <5>5
      <4> QED
        BY <2>6, <3>1, <3>4, <3>6, <4>1, <4>2, <4>3, <4>4
    <3> QED
      BY <1>1, <2>5, <3>5, <3>6
  <2> QED
    BY <1>1, <2>5, <2>7, <2>8
<1> QED
  BY <1>1, <1>8, <1>9

LEMMA PowerZero == 2^0 = 1 /\ 2^1 = 2
<1>1. 0 \in Nat /\ 0 + 1 = 1
  OBVIOUS
<1>2. 2^0 \in Nat \ {0} /\ 2^1 = 2 * 2^0
  BY <1>1, PowerType, PowerDoubles
<1>3. 2^1 = 2
  OBVIOUS
<1> QED
  BY <1>2, <1>3

\* At the least exponent the unit is 1.
LEMMA EncodedLeast ==
    ASSUME NEW sign, NEW m \in Nat, m < MantTop,
           NEW n \in Nat, NEW d \in Nat \ {0},
           Guards(m, 2 * n, d)
    PROVE  Encoded(sign, 1, m) = Rounded(sign, n, d)
<1> SUFFICES ASSUME NEW e \in Nat \ {0}, e = 1 PROVE Encoded(sign, e, m) = Rounded(sign, n, d)
  OBVIOUS
<1>1. ASSUME NEW U, U = 2^(e - 1) * d, Guards(m, 2 * n, U), m >= 8 * Hidden \/ e = 1
      PROVE  Encoded(sign, e, m) = Rounded(sign, n, d)
  BY ONLY <1>1, EncodedRounds, m < MantTop
<1>2. d = 2^(e - 1) * d
  BY PowerZero
<1> QED
  BY <1>1, <1>2

\* A common factor does not matter.
LEMMA GuardsScaled ==
    ASSUME NEW m \in Nat, NEW N \in Nat, NEW U \in Nat, NEW c \in Nat \ {0},
           Guards(m, c * N, c * U)
    PROVE  Guards(m, N, U)
<1> SUFFICES ASSUME NEW k \in Nat PROVE Same(m, 4 * k, N, U * k)
  BY DEF Guards
<1>1. Same(m, 4 * k, c * N, (c * U) * k)
  BY DEF Guards
<1>2. (c * U) * k = c * (U * k) /\ U * k \in Int /\ N \in Int
  OBVIOUS
<1>3. Same(N, U * k, c * N, c * (U * k))
  BY <1>2, Scaled
<1> QED
  BY <1>1, <1>2, <1>3 DEF Same

\* Shifting right, the sticky bit keeps what rounding needs.
LEMMA GuardsShifted ==
    ASSUME NEW m \in Nat, m < MantTop, NEW N \in Nat, NEW d \in Nat \ {0},
           NEW y \in Nat \ {0}, Guards(m, 2^y * N, d)
    PROVE  LET p == shift_right_sticky(m, y)
           IN  p \in Nat /\ p < MantTop /\ Guards(p, N, d)
<1> DEFINE c == 2^y
           p == Sticky(m \div c, m % c # 0)
<1>1. c \in Nat \ {0}
  BY PowerType
<1>2. shift_right_sticky(m, y) = p
  BY DEF shift_right_sticky
<1>3. Guards(m, c * N, d)
  OBVIOUS
<1> HIDE DEF c
<1>4. \A k \in Int : p \in Nat /\ Same(p, 2 * k, m, c * (2 * k))
  BY <1>1, StickyCompares
<1> HIDE DEF p
<1>5. p \in Nat
  BY <1>4
<1>6. p < MantTop
  <2>1. 8 * Hidden \in Int /\ MantTop = 2 * (8 * Hidden) /\ MantTop \in Nat
    BY FormatSizes DEF MantTop
  <2>2. Same(p, MantTop, m, c * MantTop)
    BY <1>4, <2>1
  <2>3. m < c * MantTop
    <3>1. c >= 1 /\ c * MantTop >= 1 * MantTop /\ c * MantTop \in Int
      BY <1>1, <2>1
    <3> QED
      BY <2>1, <3>1
  <2> QED
    BY <2>2, <2>3 DEF Same
<1>7. ASSUME NEW k \in Nat
      PROVE  Same(p, 4 * k, N, d * k)
  <2>1. 2 * k \in Int /\ 2 * (2 * k) = 4 * k
    OBVIOUS
  <2>2. Same(p, 4 * k, m, c * (4 * k))
    BY <1>4, <2>1
  <2>3. c * (4 * k) = 4 * (c * k) /\ c * k \in Nat
    BY <1>1
  <2>4. Same(m, 4 * (c * k), c * N, d * (c * k))
    BY <1>3, <2>3 DEF Guards
  <2>5. d * (c * k) = c * (d * k) /\ d * k \in Int /\ N \in Int
    BY <1>1
  <2>6. Same(N, d * k, c * N, c * (d * k))
    BY <1>1, <2>5, Scaled
  <2> QED
    BY <2>2, <2>3, <2>4, <2>5, <2>6 DEF Same
<1> QED
  BY <1>2, <1>5, <1>6, <1>7 DEF Guards

\* The significand m of exponent e stands for n/d.
StandsFor(e, m, n, d, x, y) ==
    /\ x \in Nat /\ y \in Nat /\ e - 1 = x - y
    /\ Guards(m, 2^y * (2 * n), 2^x * d)

\* Packing rounds.
LEMMA PackRounds ==
    ASSUME NEW sign, NEW e \in Int, NEW m \in Nat \ {0}, m < MantTop,
           m >= 8 * Hidden \/ e = 1,
           NEW n \in Nat, NEW d \in Nat \ {0},
           NEW x, NEW y, StandsFor(e, m, n, d, x, y)
    PROVE  pack_fp32(sign, e, m) = Rounded(sign, n, d)
<1>0. /\ x \in Nat /\ y \in Nat /\ e - 1 = x - y
      /\ Guards(m, 2^y * (2 * n), 2^x * d)
  BY DEF StandsFor
<1> DEFINE X == 2^x
           Y == 2^y
<1>1. X \in Nat \ {0} /\ Y \in Nat \ {0}
  BY <1>0, PowerType
<1>2. CASE e > 0
  <2> DEFINE P == 2^(e - 1)
  <2>1. e - 1 \in Nat /\ y + (e - 1) = x /\ e \in Nat \ {0}
    BY <1>0, <1>2
  <2>2. P \in Nat \ {0} /\ X = Y * P
    BY <1>0, <2>1, PowerType, PowerAdds
  <2>3. Guards(m, Y * (2 * n), X * d)
    BY <1>0
  <2> HIDE DEF X, Y, P
  <2>4. X * d = Y * (P * d) /\ 2 * n \in Nat /\ P * d \in Nat
    BY <1>1, <2>2
  <2>5. Guards(m, 2 * n, P * d)
    BY <1>1, <2>3, <2>4, GuardsScaled
  <2>6. Encoded(sign, e, m) = Rounded(sign, n, d)
    BY <2>1, <2>5, EncodedRounds DEF P
  <2> QED
    BY <1>2, <2>6 DEF pack_fp32
<1>3. CASE ~(e > 0)
  <2> DEFINE s == 1 - e
             T == 2^s
             p == shift_right_sticky(m, s)
  <2>1. s \in Nat \ {0} /\ x + s = y
    BY <1>0, <1>3
  <2> HIDE DEF s
  <2>2. T \in Nat \ {0} /\ Y = X * T
    BY <1>0, <2>1, PowerType, PowerAdds
  <2>3. Guards(m, Y * (2 * n), X * d)
    BY <1>0
  <2> HIDE DEF X, Y, T
  <2>4. Y * (2 * n) = X * (T * (2 * n)) /\ T * (2 * n) \in Nat /\ 2 * n \in Nat /\ d \in Nat
    BY <1>1, <2>2
  <2>5. Guards(m, T * (2 * n), d)
    BY <1>1, <2>3, <2>4, GuardsScaled
  <2>6. p \in Nat /\ p < MantTop /\ Guards(p, 2 * n, d)
    BY <2>1, <2>4, <2>5, GuardsShifted DEF T
  <2> HIDE DEF p
  <2>7. Encoded(sign, 1, p) = Rounded(sign, n, d)
    BY <2>6, EncodedLeast
  <2> QED
    BY <1>3, <2>7 DEF pack_fp32, p, s
<1> QED
  BY <1>2, <1>3
-----------------------------------------------------------------------------
(* Normalizing                                                             *)

LEMMA PowersMultiply ==
    ASSUME NEW m \in Nat, NEW s \in Nat, NEW t \in Nat, s <= t
    PROVE  m * 2^s \in Nat /\ m * 2^t \in Nat /\ m * 2^s <= m * 2^t
<1>1. 2^s \in Nat /\ 2^t \in Nat /\ 2^s <= 2^t
  BY PowerType, PowersOrdered
<1> QED
  BY <1>1

\* What has its leading bit in place is left alone.
LEMMA NormalizedIsPacked ==
    ASSUME NEW sign, NEW e \in Int, NEW m \in Nat, m >= 8 * Hidden
    PROVE  Normalized(sign, e, m) = pack_fp32(sign, e, m)
<1> DEFINE legal == {n \in 0 .. FracBits + 4 : m * 2^n < MantTop /\ n < e}
           top == CHOOSE i \in legal : \A k \in legal : i >= k
<1>1. Shifts(e, m) = IF m = 0 \/ legal = {} THEN 0 ELSE top
  BY Zenon DEF Shifts
<1>2. FracBits \in Nat /\ Hidden \in Nat
  BY FormatAssumption, FormatSizes
<1>3. ASSUME NEW n \in legal PROVE n = 0
  <2> SUFFICES ASSUME n # 0 PROVE FALSE
    OBVIOUS
  <2>1. n \in Nat /\ 1 \in Nat /\ 1 <= n
    BY <1>2
  <2>2. m * 2^1 <= m * 2^n /\ m * 2^1 = m * 2 /\ m * 2^n \in Nat
    BY <2>1, PowersMultiply, PowerZero
  <2> QED
    BY <1>2, <2>2 DEF MantTop
<1>4. legal # {} => top = 0
  <2> SUFFICES ASSUME legal # {} PROVE top = 0
    OBVIOUS
  <2>1. 0 \in legal
    BY <1>3
  <2> HIDE DEF legal
  <2>2. \A i \in legal : i = 0
    BY <1>3
  <2>3. \A k \in legal : 0 >= k
    BY <2>2
  <2>4. top \in legal
    BY <2>1, <2>3
  <2> QED
    BY <2>2, <2>4
<1> HIDE DEF legal, top
<1>5. Shifts(e, m) = 0
  BY <1>1, <1>4
<1>6. e - 0 = e /\ m * 2^0 = m
  BY PowerZero
<1> QED
  BY <1>5, <1>6 DEF Normalized

\* Everything else is shifted until its leading bit is in place or the least
\* exponent is reached.
LEMMA ShiftsNormalize ==
    ASSUME NEW e \in Nat \ {0}, NEW m \in Nat \ {0}, m < MantTop
    PROVE  LET s == Shifts(e, m)
           IN  /\ s \in Nat /\ s < e
               /\ m * 2^s \in Nat \ {0} /\ m * 2^s < MantTop
               /\ m * 2^s >= 8 * Hidden \/ e - s = 1
<1> DEFINE legal == {n \in 0 .. FracBits + 4 : m * 2^n < MantTop /\ n < e}
           top == CHOOSE i \in legal : \A k \in legal : i >= k
<1>1. Shifts(e, m) = IF m = 0 \/ legal = {} THEN 0 ELSE top
  BY Zenon DEF Shifts
<1>2. FracBits + 4 \in Nat /\ FracBits \in Nat /\ Hidden \in Nat
  BY FormatAssumption, FormatSizes
<1>3. 0 \in legal
  BY <1>2, PowerZero
<1>4. legal \subseteq 0 .. FracBits + 4
  OBVIOUS
<1>5. top \in legal /\ \A k \in legal : top >= k
  <2> HIDE DEF legal
  <2>1. \E i \in legal : \A k \in legal : i >= k
    BY <1>2, <1>3, <1>4, Greatest
  <2> QED
    BY <2>1, Zenon
<1>6. Shifts(e, m) = top
  BY <1>1, <1>3
<1> HIDE DEF top
<1>7. top \in Nat /\ top < e /\ m * 2^top < MantTop
  BY <1>2, <1>5
<1>8. 2^top \in Nat \ {0} /\ m * 2^top \in Nat \ {0}
  BY <1>7, PowerType
<1>9. m * 2^top >= 8 * Hidden \/ e - top = 1
  <2> SUFFICES ASSUME m * 2^top < 8 * Hidden, e - top # 1 PROVE FALSE
    BY <1>2, <1>8
  <2>1. 2^(top + 1) = 2 * 2^top
    BY <1>7, PowerDoubles
  <2>2. m * 2^(top + 1) = 2 * (m * 2^top)
    BY <1>8, <2>1
  <2>3. m * 2^(top + 1) < MantTop /\ top + 1 < e
    BY <1>2, <1>7, <1>8, <2>2 DEF MantTop
  <2>4. top + 1 \notin legal
    BY <1>5, <1>7
  <2>5. top + 1 \notin 0 .. FracBits + 4
    BY <2>3, <2>4
  <2>6. FracBits + 4 <= top
    BY <1>2, <1>7, <2>5
  <2>7. m * 2^(FracBits + 4) <= m * 2^top
    BY <1>2, <1>7, <2>6, PowersMultiply
  <2>8. 2^(FracBits + 4) = MantTop
    <3>1. 2^(FracBits + 4) = 2^FracBits * 2^4
      BY <1>2, PowerAdds
    <3>2. 2^4 = 16
      OBVIOUS
    <3> QED
      BY <1>2, <3>1, <3>2 DEF MantTop, Hidden
  <2>9. MantTop \in Nat /\ m * MantTop >= MantTop
    BY <1>2 DEF MantTop
  <2> QED
    BY <1>7, <1>8, <2>7, <2>8, <2>9
<1> QED
  BY <1>6, <1>7, <1>8, <1>9
-----------------------------------------------------------------------------
(* Products and quotients of normal numbers                                *)

LEMMA GuardsGrown ==
    ASSUME NEW m \in Nat, NEW N \in Nat, NEW U \in Nat, NEW c \in Nat \ {0},
           Guards(m, N, U)
    PROVE  Guards(m, c * N, c * U)
<1> SUFFICES ASSUME NEW k \in Nat PROVE Same(m, 4 * k, c * N, (c * U) * k)
  BY DEF Guards
<1>1. Same(m, 4 * k, N, U * k)
  BY DEF Guards
<1>2. (c * U) * k = c * (U * k) /\ U * k \in Int /\ N \in Int
  OBVIOUS
<1>3. Same(N, U * k, c * N, c * (U * k))
  BY <1>2, Scaled
<1> QED
  BY <1>1, <1>2, <1>3 DEF Same

\* A quotient with one more bit that says whether there was a remainder.
Kept(p, u) == 2 * (p \div u) + (IF p % u = 0 THEN 0 ELSE 1)

LEMMA KeptCompares ==
    ASSUME NEW p \in Nat, NEW u \in Nat \ {0}, NEW k \in Nat
    PROVE  Kept(p, u) \in Nat /\ Same(Kept(p, u), 2 * k, p, u * k)
<1> DEFINE q == p \div u
           r == p % u
           m == Kept(p, u)
<1>1. q \in Nat /\ r \in 0 .. u - 1 /\ p = u * q + r
  BY DivisionIs
<1>2. m = 2 * q + (IF r = 0 THEN 0 ELSE 1)
  BY DEF Kept
<1> HIDE DEF q, r, m
<1>3. m \in Nat /\ u * k \in Nat /\ u * q \in Nat
  BY <1>1, <1>2
<1>4. CASE q < k
  <2>1. u * (q + 1) <= u * k /\ u * (q + 1) = u * q + u
    BY <1>1, <1>4
  <2>2. p < u * k /\ m < 2 * k
    BY <1>1, <1>2, <1>3, <1>4, <2>1
  <2> QED
    BY <1>1, <1>3, <2>2 DEF Same, m
<1>5. CASE q = k
  BY <1>1, <1>2, <1>3, <1>5 DEF Same, m
<1>6. CASE q > k
  <2>1. u * (k + 1) <= u * q /\ u * (k + 1) = u * k + u
    BY <1>1, <1>6
  <2>2. p > u * k /\ m > 2 * k
    BY <1>1, <1>2, <1>3, <1>6, <2>1
  <2> QED
    BY <1>1, <1>3, <2>2 DEF Same, m
<1> QED
  BY <1>1, <1>3, <1>4, <1>5, <1>6 DEF m

LEMMA Twice ==
    ASSUME NEW v \in Int, NEW w \in Int
    PROVE  Same(v, w, 2 * v, 2 * w)
BY DEF Same

LEMMA NormalParts ==
    ASSUME NEW x \in Number, Normal(x)
    PROVE  /\ Exponent(x) \in Nat \ {0}
           /\ Significand(x) \in Nat
           /\ Significand(x) >= Hidden /\ Significand(x) < 2 * Hidden
           /\ ~IsZero(x) /\ ~IsInfinity(x) /\ ~IsNaN(x)
<1>1. x.exp \in 0 .. ExpMax /\ x.frac \in 0 .. Hidden - 1
  BY DEF Number
<1>2. ExpMax \in Nat /\ Hidden \in Nat
  BY FormatSizes
<1> QED
  BY <1>1, <1>2 DEF Normal, Exponent, Significand, IsZero, IsInfinity, IsNaN

LEMMA UnitIs ==
    /\ Bias \in Nat \ {0} /\ Bias - 1 \in Nat
    /\ 2^(Bias - 1) \in Nat \ {0}
    /\ Unit = 2^(Bias - 1) * Hidden
    /\ Unit \in Nat \ {0}
<1>1. ExpBits - 2 \in Nat /\ 1 \in Nat /\ (ExpBits - 2) + 1 = ExpBits - 1 /\ FracBits \in Nat
  BY FormatAssumption
<1>2. 2^(ExpBits - 2) \in Nat \ {0} /\ 2^(ExpBits - 1) = 2 * 2^(ExpBits - 2)
  BY <1>1, PowerType, PowerDoubles
<1>3. Bias \in Nat \ {0} /\ Bias - 1 \in Nat
  BY <1>2 DEF Bias
<1>4. 2^(Bias - 1) \in Nat \ {0}
  BY <1>3, PowerType
<1>5. Unit = 2^(Bias - 1) * Hidden
  BY <1>1, <1>3, PowerAdds DEF Unit, Hidden
<1>6. Hidden \in Nat \ {0}
  BY FormatSizes
<1>7. 2^(Bias - 1) * Hidden \in Nat \ {0}
  BY <1>4, <1>6
<1> QED
  BY <1>3, <1>4, <1>5, <1>7

\* The powers of two that an exponent and the ones behind it stand for.
LEMMA PowersBehind ==
    ASSUME NEW e \in Nat \ {0}
    PROVE  /\ 2^(e - 1) \in Nat \ {0}
           /\ 2^e = 2 * 2^(e - 1)
           /\ 2^(e + 1) = 4 * 2^(e - 1)
           /\ 2^(e + 2) = 8 * 2^(e - 1)
<1>1. e - 1 \in Nat /\ e \in Nat /\ e + 1 \in Nat
      /\ (e - 1) + 1 = e /\ (e + 1) + 1 = e + 2
  OBVIOUS
<1>2. 2^(e - 1) \in Nat \ {0}
  BY <1>1, PowerType
<1>3. 2^e = 2 * 2^(e - 1) /\ 2^(e + 1) = 2 * 2^e /\ 2^(e + 2) = 2 * 2^(e + 1)
  BY <1>1, PowerDoubles
<1> QED
  BY <1>2, <1>3

LEMMA NormalizedRounds ==
    ASSUME NEW sign, NEW e \in Int, NEW m \in Nat, m >= 8 * Hidden, m < MantTop,
           NEW n \in Nat, NEW d \in Nat \ {0},
           NEW x, NEW y, StandsFor(e, m, n, d, x, y)
    PROVE  Normalized(sign, e, m) = Rounded(sign, n, d)
<1>1. Hidden \in Nat \ {0}
  BY FormatSizes
<1>2. m \in Nat \ {0}
  BY <1>1
<1>3. pack_fp32(sign, e, m) = Rounded(sign, n, d)
  BY <1>2, PackRounds
<1> QED
  BY <1>3, NormalizedIsPacked

\* A product keeps enough bits.
LEMMA ProductRounds ==
    ASSUME NEW x \in Number, NEW y \in Number, Normal(x), Normal(y)
    PROVE  FiniteProduct(x, y)
             = Rounded(Xor(x.sign, y.sign), Value(x) * Value(y), Unit)
<1> DEFINE s == Xor(x.sign, y.sign)
           f == Exponent(x)
           g == Exponent(y)
           t == Significand(x)
           u == Significand(y)
           p == t * u
           A == 2^(f - 1)
           C == 2^(g - 1)
           B == 2^(Bias - 1)
           n == Value(x) * Value(y)
           z == f + g
           e == f + g - Bias
<1>1. PICK h \in Nat \ {0} : Hidden = 4 * h
  BY HiddenIsEven
<1>2. /\ f \in Nat \ {0} /\ t \in Nat /\ t >= Hidden /\ t < 2 * Hidden
      /\ g \in Nat \ {0} /\ u \in Nat /\ u >= Hidden /\ u < 2 * Hidden
  BY NormalParts
<1>3. Hidden \div 2 = 2 * h /\ Hidden \div 4 = h
  BY <1>1
<1>4. /\ p >= 2 * Hidden * Hidden =>
            FiniteProduct(x, y) = Normalized(s, e + 1, Kept(p, 2 * h))
      /\ ~(p >= 2 * Hidden * Hidden) =>
            FiniteProduct(x, y) = Normalized(s, e, Kept(p, h))
  BY <1>3 DEF FiniteProduct, Kept
<1>5. /\ A \in Nat \ {0} /\ C \in Nat \ {0} /\ B \in Nat \ {0}
      /\ 2^f = 2 * A /\ 2^g = 2 * C
      /\ Bias \in Nat \ {0} /\ 2^Bias = 2 * B /\ 2^(Bias + 1) = 4 * B
      /\ Unit = B * Hidden /\ Unit \in Nat \ {0}
  BY <1>2, PowersBehind, UnitIs
<1>6. n = (t * A) * (u * C)
  BY DEF Value
<1> HIDE DEF f, g, t, u, A, B, C, n
<1>7. z \in Nat /\ 2^z = (2 * A) * (2 * C) /\ z = f + g
  <2>1. f \in Nat /\ g \in Nat
    BY <1>2
  <2>2. 2^(f + g) = 2^f * 2^g
    BY <2>1, PowerAdds
  <2>3. f + g \in Nat
    BY <2>1
  <2> QED
    BY <1>5, <2>2, <2>3
<1> HIDE DEF z
<1>8. n \in Nat /\ p \in Nat
  BY <1>2, <1>5, <1>6
<1>9. p >= Hidden * Hidden /\ p < 4 * (Hidden * Hidden)
  <2>1. t * u >= Hidden * u /\ Hidden * u >= Hidden * Hidden
    BY <1>1, <1>2
  <2>2. t * u < (2 * Hidden) * u /\ (2 * Hidden) * u <= (2 * Hidden) * (2 * Hidden)
    BY <1>1, <1>2
  <2>3. Hidden * u \in Int /\ Hidden * Hidden \in Int /\ t * u \in Int
        /\ (2 * Hidden) * u \in Int
        /\ (2 * Hidden) * (2 * Hidden) = 4 * (Hidden * Hidden)
    BY <1>1, <1>2
  <2> QED
    BY <2>1, <2>2, <2>3
<1> DEFINE G == (4 * A) * (B * C)
<1>10. G \in Nat \ {0}
  <2>1. B * C \in Nat \ {0} /\ 4 * A \in Nat \ {0}
    BY <1>5
  <2> QED
    BY <2>1
<1>11. Hidden * Hidden = 16 * (h * h) /\ h * h \in Nat /\ Hidden \in Nat
       /\ 2 * Hidden * Hidden = 32 * (h * h)
  BY <1>1
<1>12. ASSUME NEW m \in Nat, NEW k \in Nat, NEW v \in Nat \ {0}, m = Kept(p, v)
       PROVE  /\ Same(m, 4 * k, p, v * (2 * k))
              /\ Same(m, 8 * Hidden, p, v * (16 * h))
              /\ Same(m, MantTop, p, v * (32 * h))
  <2>1. 2 * k \in Nat /\ 2 * (2 * k) = 4 * k /\ 16 * h \in Nat /\ 32 * h \in Nat
    BY <1>1
  <2>2. 2 * (16 * h) = 8 * Hidden /\ 2 * (32 * h) = MantTop
    BY <1>1 DEF MantTop
  <2> HIDE DEF p
  <2>3. /\ Same(m, 2 * (2 * k), p, v * (2 * k))
        /\ Same(m, 2 * (16 * h), p, v * (16 * h))
        /\ Same(m, 2 * (32 * h), p, v * (32 * h))
    BY <1>8, <1>12, <2>1, KeptCompares
  <2> QED
    BY <2>1, <2>2, <2>3
<1>13. \A v \in Nat \ {0} : Kept(p, v) \in Nat
  BY <1>8, KeptCompares
<1> HIDE DEF p
<1>14. CASE p >= 2 * Hidden * Hidden
  <2> DEFINE v == 2 * h
             m == Kept(p, v)
  <2>1. v \in Nat \ {0} /\ m \in Nat /\ v = 2 * h
    BY <1>1, <1>13
  <2> HIDE DEF v, m
  <2>2. \A k \in Nat : /\ Same(m, 4 * k, p, v * (2 * k))
                       /\ Same(m, 8 * Hidden, p, v * (16 * h))
                       /\ Same(m, MantTop, p, v * (32 * h))
    BY <1>12, <2>1 DEF m
  <2>3. v * (16 * h) = 32 * (h * h) /\ v * (32 * h) = 64 * (h * h)
    BY <1>1, <2>1
  <2>4. ~(m < 8 * Hidden) /\ m < MantTop
    <3>1. 0 \in Nat
      OBVIOUS
    <3>2. ~(p < v * (16 * h)) /\ p < v * (32 * h)
      BY <1>8, <1>9, <1>11, <1>14, <2>3
    <3> QED
      BY <2>2, <3>1, <3>2 DEF Same
  <2>5. m >= 8 * Hidden /\ m \in Nat \ {0}
    BY <1>1, <2>1, <2>4
  <2>6. Guards(m, p, Hidden)
    <3> SUFFICES ASSUME NEW k \in Nat PROVE Same(m, 4 * k, p, Hidden * k)
      BY DEF Guards
    <3>1. v * (2 * k) = Hidden * k
      BY <1>1, <2>1
    <3> QED
      BY <2>2, <3>1
  <2>7. Guards(m, G * p, G * Hidden)
    BY <1>8, <1>10, <1>11, <2>1, <2>6, GuardsGrown
  <2>8. G * p = 2^Bias * (2 * n) /\ G * Hidden = 2^z * Unit
    <3>1. ((4 * A) * (B * C)) * (t * u) = (2 * B) * (2 * ((t * A) * (u * C)))
      BY <1>2, <1>5
    <3>2. ((4 * A) * (B * C)) * Hidden = ((2 * A) * (2 * C)) * (B * Hidden)
      BY <1>5, <1>11
    <3> QED
      BY <1>5, <1>6, <1>7, <3>1, <3>2 DEF p
  <2> DEFINE i == e + 1
  <2>9. Bias \in Nat /\ i \in Int /\ i - 1 = z - Bias
    BY <1>2, <1>5, <1>7
  <2> HIDE DEF e, G, i
  <2>10. Normalized(s, i, m) = Rounded(s, n, Unit)
    <3>1. StandsFor(i, m, n, Unit, z, Bias)
      BY <1>7, <2>7, <2>8, <2>9 DEF StandsFor
    <3> HIDE DEF s
    <3> QED
      BY <1>5, <1>8, <2>4, <2>5, <2>9, <3>1, NormalizedRounds
  <2> QED
    BY <1>4, <1>14, <2>10 DEF m, v, n, i
<1>15. CASE ~(p >= 2 * Hidden * Hidden)
  <2> DEFINE m == Kept(p, h)
  <2>1. m \in Nat
    BY <1>1, <1>13
  <2> HIDE DEF m
  <2>2. \A k \in Nat : /\ Same(m, 4 * k, p, h * (2 * k))
                       /\ Same(m, 8 * Hidden, p, h * (16 * h))
                       /\ Same(m, MantTop, p, h * (32 * h))
    BY <1>12, <2>1 DEF m
  <2>3. h * (16 * h) = 16 * (h * h) /\ h * (32 * h) = 32 * (h * h)
    BY <1>1
  <2>4. ~(m < 8 * Hidden) /\ m < MantTop
    <3>1. 0 \in Nat
      OBVIOUS
    <3>2. ~(p < h * (16 * h)) /\ p < h * (32 * h)
      BY <1>8, <1>9, <1>11, <1>15, <2>3
    <3> QED
      BY <2>2, <3>1, <3>2 DEF Same
  <2>5. m >= 8 * Hidden /\ m \in Nat \ {0}
    BY <1>1, <2>1, <2>4
  <2>6. Guards(m, 2 * p, Hidden)
    <3> SUFFICES ASSUME NEW k \in Nat PROVE Same(m, 4 * k, 2 * p, Hidden * k)
      BY DEF Guards
    <3> DEFINE w == h * (2 * k)
    <3>1. 2 * w = Hidden * k /\ w \in Int /\ p \in Int
      BY <1>1, <1>8
    <3>2. Same(m, 4 * k, p, w)
      BY <2>2
    <3> HIDE DEF w
    <3>3. Same(p, w, 2 * p, 2 * w)
      BY <3>1, Twice
    <3> QED
      BY <3>1, <3>2, <3>3 DEF Same
  <2>7. Guards(m, G * (2 * p), G * Hidden)
    <3> DEFINE w == 2 * p
    <3>1. w \in Nat /\ Guards(m, w, Hidden) /\ Hidden \in Nat
      BY <1>8, <1>11, <2>6
    <3> HIDE DEF w, G
    <3>2. Guards(m, G * w, G * Hidden)
      BY <1>10, <2>1, <3>1, GuardsGrown
    <3> QED
      BY <3>2 DEF w
  <2>8. G * (2 * p) = 2^(Bias + 1) * (2 * n) /\ G * Hidden = 2^z * Unit
    <3>1. ((4 * A) * (B * C)) * (2 * (t * u)) = (4 * B) * (2 * ((t * A) * (u * C)))
      BY <1>2, <1>5
    <3>2. ((4 * A) * (B * C)) * Hidden = ((2 * A) * (2 * C)) * (B * Hidden)
      BY <1>5, <1>11
    <3> QED
      BY <1>5, <1>6, <1>7, <3>1, <3>2 DEF p
  <2> DEFINE i == Bias + 1
  <2>9. i \in Nat /\ e \in Int /\ e - 1 = z - i
    BY <1>2, <1>5, <1>7
  <2> HIDE DEF e, G, i
  <2>10. Normalized(s, e, m) = Rounded(s, n, Unit)
    <3>1. StandsFor(e, m, n, Unit, z, i)
      <4>1. Guards(m, 2^i * (2 * n), 2^z * Unit)
        BY <2>7, <2>8 DEF i
      <4> QED
        BY <1>7, <2>9, <4>1 DEF StandsFor
    <3> HIDE DEF s
    <3> QED
      BY <1>5, <1>8, <2>4, <2>5, <2>9, <3>1, NormalizedRounds
  <2> QED
    BY <1>4, <1>15, <2>10 DEF m, n
<1> QED
  BY <1>14, <1>15

\* A quotient keeps enough bits, and none of them is lost at the top.
LEMMA QuotientRounds ==
    ASSUME NEW x \in Number, NEW y \in Number, Normal(x), Normal(y)
    PROVE  FiniteQuotient(x, y)
             = Rounded(Xor(x.sign, y.sign), Value(x) * Unit, Value(y))
<1> DEFINE s == Xor(x.sign, y.sign)
           f == Exponent(x)
           g == Exponent(y)
           t == Significand(x)
           u == Significand(y)
           top == 8 * Hidden
           N == t * top
           q == N \div u
           r == N % u
           A == 2^(f - 1)
           C == 2^(g - 1)
           B == 2^(Bias - 1)
           n == Value(x) * Unit
           d == Value(y)
           e == f - g + Bias
           z == f + Bias
           G == A * (B * C)
<1>1. Hidden \in Nat \ {0} /\ MantTop = 2 * top /\ top \in Nat \ {0}
  BY FormatSizes DEF MantTop
<1>2. /\ f \in Nat \ {0} /\ t \in Nat /\ t >= Hidden /\ t < 2 * Hidden
      /\ g \in Nat \ {0} /\ u \in Nat /\ u >= Hidden /\ u < 2 * Hidden
  BY NormalParts
<1>3. /\ (q \div top) % 2 = 1 =>
            FiniteQuotient(x, y) = Normalized(s, e, Sticky(q % MantTop, r # 0))
      /\ (q \div top) % 2 # 1 =>
            FiniteQuotient(x, y) = Normalized(s, e - 1, Sticky(2 * (q % top), r # 0))
  BY Zenon DEF FiniteQuotient
<1>4. /\ A \in Nat \ {0} /\ C \in Nat \ {0} /\ B \in Nat \ {0}
      /\ 2^f = 2 * A /\ 2^(g + 1) = 4 * C /\ 2^(g + 2) = 8 * C
      /\ Bias \in Nat \ {0} /\ 2^Bias = 2 * B
      /\ Unit = B * Hidden /\ Unit \in Nat \ {0}
  BY <1>2, PowersBehind, UnitIs
<1>5. n = (t * A) * Unit /\ d = u * C
  BY DEF Value
<1> HIDE DEF f, g, t, u, A, B, C, n, d, top
<1>6. z \in Nat /\ 2^z = (2 * A) * (2 * B) /\ z = f + Bias
  <2>1. f \in Nat /\ Bias \in Nat
    BY <1>2, <1>4
  <2>2. 2^(f + Bias) = 2^f * 2^Bias
    BY <2>1, PowerAdds
  <2>3. f + Bias \in Nat
    BY <2>1
  <2> QED
    BY <1>4, <2>2, <2>3
<1> HIDE DEF z
<1>7. n \in Nat /\ d \in Nat \ {0} /\ N \in Nat /\ u \in Nat \ {0}
  <2>1. t * A \in Nat /\ u # 0
    BY <1>1, <1>2, <1>4
  <2>2. (t * A) * Unit \in Nat /\ u * C \in Nat \ {0} /\ t * top \in Nat
    BY <1>1, <1>2, <1>4, <2>1
  <2> QED
    BY <1>2, <1>5, <2>1, <2>2
<1>8. G \in Nat \ {0}
  <2>1. B * C \in Nat \ {0}
    BY <1>4
  <2> QED
    BY <1>4, <2>1
<1>9. /\ (4 * C) * (2 * n) = G * N
      /\ (8 * C) * (2 * n) = (2 * G) * N
      /\ ((2 * A) * (2 * B)) * d = G * (4 * u)
      /\ G * (4 * u) = (2 * G) * (2 * u)
  <2>1. /\ (4 * C) * (2 * ((t * A) * (B * Hidden))) = (A * (B * C)) * (t * (8 * Hidden))
        /\ (8 * C) * (2 * ((t * A) * (B * Hidden))) = (2 * (A * (B * C))) * (t * (8 * Hidden))
    BY <1>1, <1>2, <1>4
  <2>2. /\ ((2 * A) * (2 * B)) * (u * C) = (A * (B * C)) * (4 * u)
        /\ (A * (B * C)) * (4 * u) = (2 * (A * (B * C))) * (2 * u)
    BY <1>2, <1>4
  <2> QED
    BY <1>4, <1>5, <2>1, <2>2 DEF top
<1> HIDE DEF G
<1>10. q \in Nat /\ r \in 0 .. u - 1 /\ N = u * q + r
  BY <1>7, DivisionIs
<1>11. q < 2 * top /\ 2 * q >= top
  <2>1. N >= Hidden * top /\ N < (2 * Hidden) * top
    BY <1>1, <1>2
  <2>2. Hidden * top \in Nat /\ (2 * Hidden) * top = 2 * (Hidden * top) /\ u * q \in Nat
    BY <1>1, <1>2, <1>10
  <2>3. ASSUME q >= 2 * top PROVE FALSE
    <3>1. u * q >= u * (2 * top) /\ u * (2 * top) >= Hidden * (2 * top)
      BY <1>1, <1>2, <1>10, <2>3
    <3>2. Hidden * (2 * top) = 2 * (Hidden * top) /\ u * (2 * top) \in Nat
      BY <1>1, <1>2
    <3> QED
      BY <1>2, <1>10, <2>1, <2>2, <3>1, <3>2
  <2>4. ASSUME 2 * q < top PROVE FALSE
    <3>1. q + 1 <= 4 * Hidden
      BY <1>1, <1>10, <2>4 DEF top
    <3>2. u * (q + 1) <= u * (4 * Hidden) /\ u * (4 * Hidden) <= (2 * Hidden) * (4 * Hidden)
      BY <1>1, <1>2, <1>10, <3>1
    <3>3. (2 * Hidden) * (4 * Hidden) = Hidden * top /\ u * (q + 1) = u * q + u
          /\ u * (4 * Hidden) \in Nat
      BY <1>1, <1>2, <1>10 DEF top
    <3> QED
      BY <1>2, <1>7, <1>10, <2>1, <2>2, <3>2, <3>3
  <2> HIDE DEF q
  <2> QED
    BY <1>1, <1>10, <2>3, <2>4
<1>12. CASE q >= top
  <2> DEFINE m == Sticky(q, r # 0)
  <2>1. (q \div top) % 2 = 1 /\ q % MantTop = q
    <3> HIDE DEF q
    <3>1. q = top * 1 + (q - top) /\ q - top \in 0 .. top - 1
      BY <1>1, <1>10, <1>11, <1>12
    <3>2. q \div top = 1
      BY <1>1, <1>10, <3>1, DivisionUnique
    <3>3. q = MantTop * 0 + q /\ q \in 0 .. MantTop - 1 /\ MantTop \in Nat \ {0}
      BY <1>1, <1>10, <1>11
    <3>4. q % MantTop = q
      <4>1. \A h \in Nat \ {0} : \A i \in 0 .. h - 1 : i % h = i
        OBVIOUS
      <4> QED
        BY <3>3, <4>1
    <3> QED
      BY <3>2, <3>4
  <2>2. \A k \in Int : m \in Nat /\ Same(m, 2 * k, N, u * (2 * k))
    BY <1>7, StickyCompares
  <2>3. m >= top /\ m < MantTop
    <3>1. top = 2 * (4 * Hidden) /\ 4 * Hidden \in Nat
      BY <1>1 DEF top
    <3> HIDE DEF q, r
    <3>2. m = IF r # 0 /\ q % 2 = 0 THEN q + 1 ELSE q
      BY DEF Sticky
    <3> HIDE DEF m
    <3> QED
      BY <1>1, <1>10, <1>11, <1>12, <3>1, <3>2
  <2> HIDE DEF m
  <2>4. m \in Nat
    BY <2>2
  <2>5. Guards(m, N, 4 * u)
    <3> SUFFICES ASSUME NEW k \in Nat PROVE Same(m, 4 * k, N, (4 * u) * k)
      BY DEF Guards
    <3>1. 2 * k \in Int /\ 2 * (2 * k) = 4 * k /\ u * (4 * k) = (4 * u) * k
      BY <1>2
    <3> QED
      BY <2>2, <3>1
  <2>6. Guards(m, G * N, G * (4 * u))
    <3> DEFINE v == 4 * u
    <3>1. v \in Nat /\ Guards(m, N, v)
      BY <1>2, <2>5
    <3> HIDE DEF v, N
    <3>2. Guards(m, G * N, G * v)
      BY <1>7, <1>8, <2>4, <3>1, GuardsGrown
    <3> QED
      BY <3>2 DEF v
  <2>7. StandsFor(e, m, n, d, z, g + 1) /\ e \in Int
    <3>1. Guards(m, 2^(g + 1) * (2 * n), 2^z * d)
      BY <1>4, <1>6, <1>9, <2>6
    <3>2. g + 1 \in Nat /\ e - 1 = z - (g + 1) /\ e \in Int
      BY <1>2, <1>4, <1>6
    <3> QED
      BY <1>6, <3>1, <3>2 DEF StandsFor
  <2> HIDE DEF e
  <2>8. Normalized(s, e, m) = Rounded(s, n, d)
    <3> HIDE DEF s
    <3> QED
      BY <1>7, <2>3, <2>4, <2>7, NormalizedRounds DEF top
  <2> QED
    BY <1>3, <2>1, <2>8 DEF m, n, d
<1>13. CASE q < top
  <2> DEFINE m == Kept(N, u)
             i == e - 1
  <2>1. q \div top = 0 /\ q % top = q
    <3> HIDE DEF q
    <3>1. q = top * 0 + q /\ q \in 0 .. top - 1 /\ 0 \in Nat
      BY <1>1, <1>10, <1>13
    <3> QED
      BY <1>1, <3>1, DivisionUnique
  <2>2. \A k \in Nat : m \in Nat /\ Same(m, 2 * k, N, u * k)
    BY <1>7, KeptCompares
  <2>3. m = 2 * q + (IF r = 0 THEN 0 ELSE 1)
    BY DEF Kept
  <2>4. Sticky(2 * (q % top), r # 0) = m
    <3> HIDE DEF q, r
    <3>1. (2 * q) % 2 = 0
      BY <1>10
    <3>2. Sticky(2 * q, r # 0) = IF r # 0 THEN 2 * q + 1 ELSE 2 * q
      BY <3>1 DEF Sticky
    <3>3. m = IF r # 0 THEN 2 * q + 1 ELSE 2 * q
      <4> HIDE DEF m
      <4> QED
        BY <1>10, <2>3
    <3> QED
      BY <2>1, <3>2, <3>3
  <2> HIDE DEF m
  <2>5. m \in Nat /\ m >= top /\ m < MantTop
    <3> HIDE DEF q, r
    <3> QED
      BY <1>1, <1>10, <1>11, <1>13, <2>3
  <2>6. Guards(m, N, 2 * u)
    <3> SUFFICES ASSUME NEW k \in Nat PROVE Same(m, 4 * k, N, (2 * u) * k)
      BY DEF Guards
    <3>1. 2 * k \in Nat /\ 2 * (2 * k) = 4 * k /\ u * (2 * k) = (2 * u) * k
      BY <1>2
    <3> QED
      BY <2>2, <3>1
  <2>7. Guards(m, (2 * G) * N, (2 * G) * (2 * u))
    <3> DEFINE v == 2 * u
               c == 2 * G
    <3>1. v \in Nat /\ c \in Nat \ {0} /\ Guards(m, N, v)
      BY <1>2, <1>8, <2>6
    <3> HIDE DEF v, N, c
    <3>2. Guards(m, c * N, c * v)
      BY <1>7, <2>5, <3>1, GuardsGrown
    <3> QED
      BY <3>2 DEF v, c
  <2>8. StandsFor(i, m, n, d, z, g + 2) /\ i \in Int
    <3>1. Guards(m, 2^(g + 2) * (2 * n), 2^z * d)
      BY <1>4, <1>6, <1>9, <2>7
    <3>2. g + 2 \in Nat /\ i - 1 = z - (g + 2) /\ i \in Int
      BY <1>2, <1>4, <1>6
    <3> QED
      BY <1>6, <3>1, <3>2 DEF StandsFor
  <2> HIDE DEF e, i
  <2>9. Normalized(s, i, m) = Rounded(s, n, d)
    <3> HIDE DEF s
    <3> QED
      BY <1>7, <2>5, <2>8, NormalizedRounds DEF top
  <2>10. (q \div top) % 2 # 1
    BY <2>1
  <2> QED
    BY <1>3, <2>4, <2>9, <2>10 DEF n, d, i
<1> HIDE DEF q
<1> QED
  BY <1>1, <1>10, <1>12, <1>13
-----------------------------------------------------------------------------
(* Sums                                                                    *)

\* Aligned by s places, a significand with its guard bits is to even numbers
\* as it was, and it is exact unless s is larger than the guard bits.
LEMMA Aligned ==
    ASSUME NEW u \in Nat, NEW s \in Nat, NEW v, v = 8 * u
    PROVE  LET m == shift_right_sticky(v, s)
           IN  /\ m \in Nat
               /\ \A k \in Int : Same(m, 2 * k, v, 2^s * (2 * k))
               /\ 2^s * m = v \/ s >= 4
<1> DEFINE m == shift_right_sticky(v, s)
           T == 2^s
<1>1. T \in Nat \ {0} /\ v \in Nat
  BY PowerType
<1>2. CASE s = 0
  <2>1. m = v /\ T = 1
    BY <1>2, PowerZero DEF shift_right_sticky
  <2> HIDE DEF m, T
  <2>2. \A k \in Int : T * (2 * k) = 2 * k
    BY <2>1
  <2> QED
    BY <1>1, <2>1, <2>2 DEF Same, m, T
<1>3. CASE s # 0
  <2>1. m = Sticky(v \div T, v % T # 0)
    BY <1>3 DEF shift_right_sticky
  <2> HIDE DEF m, T
  <2>2. \A k \in Int : m \in Nat /\ Same(m, 2 * k, v, T * (2 * k))
    BY <1>1, <2>1, StickyCompares
  <2>3. ASSUME s < 4 PROVE T * m = v
    <3>1. 3 - s \in Nat /\ s + (3 - s) = 3
      BY <2>3
    <3> DEFINE c == 2^(3 - s)
    <3>2. c \in Nat \ {0} /\ 2^3 = T * c
      BY <3>1, PowerType, PowerAdds DEF T
    <3> HIDE DEF c
    <3>3. T * c = 8
      BY <3>2
    <3>4. v = T * (c * u) + 0 /\ c * u \in Nat /\ 0 \in 0 .. T - 1
      BY <1>1, <3>2, <3>3
    <3> DEFINE w == c * u
               z == 0
    <3>5. v = T * w + z /\ w \in Nat /\ z \in 0 .. T - 1 /\ z = 0
      BY <3>4
    <3> HIDE DEF w, z
    <3>6. v \div T = w /\ v % T = z
      BY <1>1, <3>5, DivisionUnique
    <3>7. m = w
      BY <2>1, <3>5, <3>6 DEF Sticky
    <3> QED
      BY <1>1, <3>5, <3>7
  <2> QED
    BY <2>2, <2>3 DEF m, T
<1> QED
  BY <1>2, <1>3

\* m is to even numbers as the eighth of P that it stands for.
Halves(m, n, P) == \A j \in Int : Same(m, 2 * j, 8 * n, P * (2 * j))

\* One bit of shifting left leaves the sticky bit below the last guard bit.
LEMMA NormalizedSum ==
    ASSUME NEW sign, NEW e \in Nat \ {0}, NEW m \in Nat \ {0}, m < MantTop,
           NEW n \in Nat, Halves(m, n, 2^(e - 1)),
           m * 2^(e - 1) = 8 * n \/ m >= 4 * Hidden
    PROVE  Normalized(sign, e, m) = Rounded(sign, n, 1)
<1> DEFINE s == Shifts(e, m)
           V == 2^s
           P == 2^(e - 1)
           i == e - s
           x == e - 1
           r == m * V
<1>1. Hidden \in Nat \ {0} /\ MantTop = 16 * Hidden
  BY FormatSizes DEF MantTop
<1>2. /\ s \in Nat /\ s < e
      /\ r \in Nat \ {0} /\ r < MantTop
      /\ r >= 8 * Hidden \/ i = 1
  BY ShiftsNormalize
<1>3. Normalized(sign, e, m) = pack_fp32(sign, i, r)
  BY DEF Normalized
<1>4. V \in Nat \ {0} /\ P \in Nat \ {0}
  BY <1>2, PowerType
<1>5. Halves(m, n, P) /\ (m * P = 8 * n \/ m >= 4 * Hidden)
  OBVIOUS
<1>6. V = 1 \/ V = 2 \/ V >= 4
  <2> HIDE DEF s
  <2>1. s = 0 => V = 1
    BY PowerZero
  <2>2. s = 1 => V = 2
    BY PowerZero
  <2>3. s >= 2 => V >= 4
    <3>1. 2 \in Nat /\ 2^2 = 4
      OBVIOUS
    <3>2. s >= 2 => 2^2 <= 2^s
      BY <1>2, <3>1, PowersOrdered
    <3> QED
      BY <3>1, <3>2
  <2> QED
    BY <1>2, <2>1, <2>2, <2>3
<1>7. i \in Int /\ x \in Nat /\ i - 1 = x - s
  BY <1>2
<1>8. 2^x = P
  OBVIOUS
<1> HIDE DEF V, P, s, i, x
<1>9. Guards(r, V * (2 * n), P)
  <2> SUFFICES ASSUME NEW k \in Nat PROVE Same(r, 4 * k, V * (2 * n), P * k)
    BY DEF Guards
  <2>1. P * k \in Nat /\ V * n \in Nat
    BY <1>4
  <2>2. CASE m * P = 8 * n
    <3>1. Same(r, 4 * k, P * r, P * (4 * k))
      <4> DEFINE w == 4 * k
      <4>1. w \in Int /\ r \in Int
        BY <1>2
      <4> HIDE DEF w, r
      <4>2. Same(r, w, P * r, P * w)
        BY <1>4, <4>1, Scaled
      <4> QED
        BY <4>2 DEF w
    <3>2. P * r = V * (m * P) /\ V * (m * P) = 4 * (V * (2 * n)) /\ P * (4 * k) = 4 * (P * k)
      BY <1>4, <2>2
    <3>3. V * (2 * n) \in Int
      BY <1>4
    <3>4. Same(V * (2 * n), P * k, 4 * (V * (2 * n)), 4 * (P * k))
      BY <2>1, <3>3, Scaled
    <3> QED
      BY <3>1, <3>2, <3>4 DEF Same
  <2>3. CASE m >= 4 * Hidden /\ V = 1
    <3>1. 2 * k \in Int /\ 2 * (2 * k) = 4 * k
      OBVIOUS
    <3>2. Same(m, 4 * k, 8 * n, P * (4 * k))
      BY <1>5, <3>1 DEF Halves
    <3>3. r = m /\ V * (2 * n) = 2 * n /\ P * (4 * k) = 4 * (P * k)
      BY <1>4, <2>3
    <3> QED
      BY <2>1, <3>2, <3>3 DEF Same
  <2>4. CASE m >= 4 * Hidden /\ V = 2
    <3>1. Same(m, 2 * k, 8 * n, P * (2 * k))
      BY <1>5 DEF Halves
    <3>2. r = 2 * m /\ V * (2 * n) = 4 * n /\ P * (2 * k) = 2 * (P * k)
      BY <1>4, <2>4
    <3> QED
      BY <2>1, <3>1, <3>2 DEF Same
  <2>5. CASE m >= 4 * Hidden /\ V >= 4
    <3>1. m * V >= m * 4
      BY <1>4, <2>5
    <3> QED
      BY <1>1, <1>2, <2>5, <3>1
  <2> QED
    BY <1>5, <1>6, <2>2, <2>3, <2>4, <2>5
<1>10. StandsFor(i, r, n, 1, x, s)
  <2>1. 2^x * 1 = P
    BY <1>4, <1>8
  <2> HIDE DEF r
  <2>2. Guards(r, 2^s * (2 * n), 2^x * 1)
    BY <1>9, <2>1 DEF V
  <2> QED
    BY <1>2, <1>7, <2>2 DEF StandsFor
<1> HIDE DEF r
<1>11. pack_fp32(sign, i, r) = Rounded(sign, n, 1)
  <2> SUFFICES ASSUME NEW d \in Nat \ {0}, StandsFor(i, r, n, d, x, s)
               PROVE  pack_fp32(sign, i, r) = Rounded(sign, n, d)
    BY <1>10
  <2> QED
    BY <1>2, <1>7, PackRounds
<1> QED
  BY <1>3, <1>11 DEF r, V, i, s

\* A finite number is what rounding makes of it.
LEMMA NumberRounds ==
    ASSUME NEW x \in Number, IsFinite(x)
    PROVE  Rounded(x.sign, Value(x), 1) = Exactly(x)
<1> DEFINE e == Exponent(x)
           u == Significand(x)
           P == 2^(e - 1)
           n == Value(x)
           m == 8 * u
<1>1. Hidden \in Nat \ {0} /\ ExpMax \in Nat /\ ExpMax >= 3 /\ MantTop = 16 * Hidden
  BY FormatSizes DEF MantTop
<1>2. /\ x.exp \in 0 .. ExpMax /\ x.frac \in 0 .. Hidden - 1 /\ x.exp # ExpMax
      /\ e = IF x.exp = 0 THEN 1 ELSE x.exp
      /\ u = IF x.exp = 0 THEN x.frac ELSE Hidden + x.frac
      /\ n = u * P
  BY DEF Number, IsFinite, Exponent, Significand, Value
<1> HIDE DEF e, u, P, n
<1>3. e \in Nat \ {0} /\ e < ExpMax /\ u \in Nat /\ u < 2 * Hidden
  BY <1>1, <1>2
<1>4. u >= Hidden \/ e = 1
  BY <1>1, <1>2
<1>5. P \in Nat \ {0} /\ n \in Nat
  <2>1. e - 1 \in Nat
    BY <1>3
  <2>2. P \in Nat \ {0}
    BY <2>1, PowerType DEF P
  <2> QED
    BY <1>2, <1>3, <2>2
<1>6. m \in Nat /\ m < MantTop /\ (m >= 8 * Hidden \/ e = 1)
  BY <1>1, <1>3, <1>4
<1>7. Guards(m, 2 * n, P)
  <2> SUFFICES ASSUME NEW k \in Nat PROVE Same(m, 4 * k, 2 * n, P * k)
    BY DEF Guards
  <2>1. Same(m, 4 * k, P * m, P * (4 * k))
    <3> DEFINE w == 4 * k
    <3>1. w \in Int /\ m \in Int
      BY <1>6
    <3> HIDE DEF w, m
    <3>2. Same(m, w, P * m, P * w)
      BY <1>5, <3>1, Scaled
    <3> QED
      BY <3>2 DEF w
  <2>2. P * m = 4 * (2 * n) /\ P * (4 * k) = 4 * (P * k) /\ P * k \in Nat
    BY <1>2, <1>3, <1>5
  <2> QED
    BY <1>5, <2>1, <2>2 DEF Same
<1>8. Encoded(x.sign, e, m) = Rounded(x.sign, n, 1)
  <2> SUFFICES ASSUME NEW d \in Nat \ {0}, P = 2^(e - 1) * d, NEW t
               PROVE  Encoded(t, e, m) = Rounded(t, n, d)
    BY <1>5 DEF P
  <2> HIDE DEF m
  <2> QED
    BY <1>3, <1>5, <1>6, <1>7, EncodedRounds
<1>9. Encoded(x.sign, e, m) = Exactly(x)
  <2>1. m \div 8 = u /\ m % 8 = 0
    BY <1>3
  <2>2. RoundSignificand(m) = u
    BY <2>1 DEF RoundSignificand
  <2> HIDE DEF m
  <2>3. u # 2 * Hidden /\ e + 0 = e /\ ~(e >= ExpMax)
    BY <1>1, <1>3
  <2>4. Encoded(x.sign, e, m) =
            IF e > 1 \/ u >= Hidden
              THEN Exactly([sign |-> x.sign, exp |-> e, frac |-> u % Hidden])
            ELSE [status |-> {}, number |-> [sign |-> x.sign, exp |-> 0, frac |-> u % Hidden]]
    BY <2>1, <2>2, <2>3 DEF Encoded
  <2>5. u % Hidden = x.frac
    <3> DEFINE w == x.frac
               q == IF x.exp = 0 THEN 0 ELSE 1
    <3>1. w \in 0 .. Hidden - 1 /\ q \in Nat /\ u = Hidden * q + w
      BY <1>1, <1>2
    <3> HIDE DEF w, q
    <3>2. u % Hidden = w
      BY <1>1, <3>1, DivisionUnique
    <3> QED
      BY <3>2 DEF w
  <2>6. [sign |-> x.sign, exp |-> x.exp, frac |-> x.frac] = x
    BY DEF Number
  <2>7. (e > 1 \/ u >= Hidden) <=> x.exp # 0
    BY <1>1, <1>2
  <2>8. CASE x.exp = 0
    BY <2>4, <2>5, <2>6, <2>7, <2>8 DEF Exactly
  <2>9. CASE x.exp # 0
    BY <1>2, <2>4, <2>5, <2>6, <2>7, <2>9 DEF Exactly
  <2> QED
    BY <2>8, <2>9
<1> QED
  BY <1>8, <1>9 DEF n

LEMMA FiniteParts ==
    ASSUME NEW x \in Number, IsFinite(x)
    PROVE  /\ x.sign \in {0, 1}
           /\ Exponent(x) \in Nat \ {0} /\ Exponent(x) < ExpMax
           /\ Significand(x) \in Nat /\ Significand(x) < 2 * Hidden
           /\ Significand(x) >= Hidden \/ Exponent(x) = 1
           /\ Significand(x) = 0 <=> IsZero(x)
<1>1. Hidden \in Nat \ {0} /\ ExpMax \in Nat /\ ExpMax >= 3
  BY FormatSizes
<1>2. /\ x.exp \in 0 .. ExpMax /\ x.frac \in 0 .. Hidden - 1 /\ x.exp # ExpMax
      /\ x.sign \in {0, 1}
  BY DEF Number, IsFinite
<1> QED
  BY <1>1, <1>2 DEF Exponent, Significand, IsZero

\* The exact sum, seen from the aligned significands: t of exponent f is
\* compared with u of exponent g <= f.
LEMMA AlignedSum ==
    ASSUME NEW f \in Nat \ {0}, NEW g \in Nat \ {0}, NEW s \in Nat, f = g + s,
           NEW t \in Nat, NEW u \in Nat, t < 2 * Hidden, u < 2 * Hidden,
           t >= Hidden \/ f = 1
    PROVE  LET P == 2^(f - 1)
               Q == 2^(g - 1)
               v == 8 * u
               m == shift_right_sticky(v, s)
           IN  /\ P \in Nat \ {0} /\ Q \in Nat \ {0} /\ m \in Nat
               /\ Halves(m, u * Q, P)
               /\ P * m = 8 * (u * Q) \/ (t >= Hidden /\ m <= Hidden)
<1> DEFINE P == 2^(f - 1)
           Q == 2^(g - 1)
           T == 2^s
           v == 8 * u
           m == shift_right_sticky(v, s)
<1>1. Hidden \in Nat \ {0}
  BY FormatSizes
<1>2. Q \in Nat \ {0} /\ T \in Nat \ {0} /\ P = Q * T
  <2>1. g - 1 \in Nat /\ (g - 1) + s = f - 1
    OBVIOUS
  <2> QED
    BY <2>1, PowerType, PowerAdds
<1>3. P \in Nat \ {0}
  BY <1>2
<1>4. /\ m \in Nat
      /\ \A k \in Int : Same(m, 2 * k, v, T * (2 * k))
      /\ T * m = v \/ s >= 4
  BY Aligned
<1>5. T >= 16 \/ s < 4
  <2>1. 4 \in Nat /\ 2^4 = 16
    OBVIOUS
  <2>2. s >= 4 => 2^4 <= 2^s
    BY <2>1, PowersOrdered
  <2> QED
    BY <2>1, <2>2
<1> HIDE DEF P, Q, T, m
<1>6. ASSUME NEW k \in Int PROVE Same(m, 2 * k, 8 * (u * Q), P * (2 * k))
  <2> DEFINE w == T * (2 * k)
  <2>1. Same(m, 2 * k, v, w)
    BY <1>4
  <2>2. w \in Int /\ v \in Int
    BY <1>2
  <2>3. Q * v = 8 * (u * Q) /\ Q * w = P * (2 * k)
    <3>1. Q * (T * (2 * k)) = (Q * T) * (2 * k)
      BY <1>2
    <3> QED
      BY <1>2, <3>1
  <2> HIDE DEF v, w
  <2>4. Same(v, w, Q * v, Q * w)
    BY <1>2, <2>2, Scaled
  <2> QED
    BY <2>1, <2>3, <2>4 DEF Same
<1>7. Halves(m, u * Q, P)
  BY <1>6 DEF Halves
<1>8. CASE T * m = v
  <2>1. P * m = Q * (T * m)
    BY <1>2, <1>4
  <2>2. Q * (8 * u) = 8 * (u * Q)
    BY <1>2
  <2> QED
    BY <1>2, <1>3, <1>4, <1>7, <1>8, <2>1, <2>2 DEF P, Q, m
<1>9. CASE s >= 4
  <2>1. t >= Hidden
    BY <1>9
  <2>2. PICK h \in Nat \ {0} : Hidden = 4 * h
    BY HiddenIsEven
  <2>3. Same(m, 2 * (2 * h), v, T * (2 * (2 * h)))
    <3> DEFINE k == 2 * h
    <3>1. k \in Int
      BY <2>2
    <3> HIDE DEF k
    <3>2. Same(m, 2 * k, v, T * (2 * k))
      BY <1>4, <3>1
    <3> QED
      BY <3>2 DEF k
  <2>4. 2 * (2 * h) = Hidden /\ T >= 16
    BY <1>5, <1>9, <2>2
  <2>5. T * Hidden >= 16 * Hidden
    BY <1>1, <1>2, <2>4
  <2>6. v < T * Hidden
    BY <1>1, <1>2, <2>5
  <2>7. m < Hidden
    BY <2>3, <2>4, <2>6 DEF Same
  <2> QED
    BY <1>1, <1>2, <1>3, <1>4, <1>7, <2>1, <2>7 DEF P, Q, m
<1> QED
  BY <1>4, <1>8, <1>9

\* One sign: the sum is packed.
LEMMA SameSigns ==
    ASSUME NEW f \in Nat \ {0}, NEW t \in Nat \ {0}, NEW m \in Nat,
           t >= Hidden \/ f = 1,
           NEW P \in Nat \ {0}, P = 2^(f - 1), NEW w \in Nat,
           Halves(m, w, P),
           8 * t + m < MantTop, NEW sign
    PROVE  pack_fp32(sign, f, 8 * t + m) = Rounded(sign, t * P + w, 1)
<1> DEFINE r == 8 * t + m
           n == t * P + w
           x == f - 1
<1>1. Hidden \in Nat \ {0}
  BY FormatSizes
<1>2. r \in Nat \ {0} /\ r < MantTop /\ (r >= 8 * Hidden \/ f = 1)
  BY <1>1
<1>3. t * P \in Nat /\ n \in Nat
  OBVIOUS
<1>4. Guards(r, 2 * n, P)
  <2> SUFFICES ASSUME NEW k \in Nat PROVE Same(r, 4 * k, 2 * n, P * k)
    BY DEF Guards
  <2> DEFINE j == 2 * k - 4 * t
  <2>1. j \in Int /\ 2 * j = 4 * k - 8 * t
    OBVIOUS
  <2>2. Same(m, 2 * j, 8 * w, P * (2 * j))
    BY <2>1 DEF Halves
  <2>3. P * (2 * j) = 4 * (P * k) - 8 * (t * P) /\ P * k \in Nat
    OBVIOUS
  <2> HIDE DEF j
  <2>4. (r < 4 * k <=> m < 2 * j) /\ (r = 4 * k <=> m = 2 * j)
    BY <2>1
  <2>5. /\ 2 * n < P * k <=> 8 * w < P * (2 * j)
        /\ 2 * n = P * k <=> 8 * w = P * (2 * j)
    BY <1>3, <2>3
  <2> QED
    BY <2>2, <2>4, <2>5 DEF Same
<1>5. x \in Nat /\ 0 \in Nat /\ f - 1 = x - 0 /\ f \in Int
  OBVIOUS
<1>6. 2^x = P
  OBVIOUS
<1> HIDE DEF r, n, x
<1>7. StandsFor(f, r, n, 1, x, 0)
  <2>1. 2^0 * (2 * n) = 2 * n /\ 2^x * 1 = P
    BY <1>3, <1>6, PowerZero
  <2>2. Guards(r, 2^0 * (2 * n), 2^x * 1)
    BY <1>4, <2>1
  <2> QED
    BY <1>5, <2>2 DEF StandsFor
<1>8. pack_fp32(sign, f, r) = Rounded(sign, n, 1)
  <2> SUFFICES ASSUME NEW d \in Nat \ {0}, NEW y, StandsFor(f, r, n, d, x, y)
               PROVE  pack_fp32(sign, f, r) = Rounded(sign, n, d)
    BY <1>7
  <2> QED
    BY <1>2, <1>3, <1>5, PackRounds
<1> QED
  BY <1>8 DEF r, n

\* Two signs: the difference is normalized.
LEMMA OtherSigns ==
    ASSUME NEW f \in Nat \ {0}, NEW t \in Nat, t < 2 * Hidden, NEW m \in Nat,
           NEW P \in Nat \ {0}, P = 2^(f - 1), NEW w \in Nat,
           Halves(m, w, P),
           P * m = 8 * w \/ (t >= Hidden /\ m <= Hidden), NEW sign
    PROVE  /\ 8 * t > m <=> t * P > w
           /\ 8 * t = m <=> t * P = w
           /\ 8 * t > m => Normalized(sign, f, 8 * t - m) = Rounded(sign, t * P - w, 1)
           /\ m < MantTop /\ m > 8 * t =>
                 Normalized(sign, f, m - 8 * t) = Rounded(sign, w - t * P, 1)
<1>1. Hidden \in Nat \ {0} /\ MantTop = 16 * Hidden
  BY FormatSizes DEF MantTop
<1>2. t * P \in Nat /\ P * m \in Nat
  OBVIOUS
<1>3. Same(m, 8 * t, 8 * w, 8 * (t * P))
  <2>1. 4 * t \in Int /\ 2 * (4 * t) = 8 * t
    OBVIOUS
  <2>2. Same(m, 8 * t, 8 * w, P * (8 * t))
    BY <2>1 DEF Halves
  <2>3. P * (8 * t) = 8 * (t * P)
    OBVIOUS
  <2> QED
    BY <2>2, <2>3
<1>4. (8 * t > m <=> t * P > w) /\ (8 * t = m <=> t * P = w)
  BY <1>2, <1>3 DEF Same
<1>5. ASSUME 8 * t > m
      PROVE  Normalized(sign, f, 8 * t - m) = Rounded(sign, t * P - w, 1)
  <2> DEFINE r == 8 * t - m
             n == t * P - w
  <2>1. r \in Nat \ {0} /\ r < MantTop
    BY <1>1, <1>5
  <2>2. n \in Nat
    BY <1>2, <1>4, <1>5
  <2>3. Halves(r, n, P)
    <3> SUFFICES ASSUME NEW j \in Int PROVE Same(r, 2 * j, 8 * n, P * (2 * j))
      BY DEF Halves
    <3> DEFINE i == 4 * t - j
    <3>1. i \in Int /\ 2 * i = 8 * t - 2 * j
      OBVIOUS
    <3>2. Same(m, 2 * i, 8 * w, P * (2 * i))
      BY <3>1 DEF Halves
    <3>3. P * (2 * i) = 8 * (t * P) - 2 * (P * j) /\ P * (2 * j) = 2 * (P * j) /\ P * j \in Int
      OBVIOUS
    <3> HIDE DEF i
    <3>4. (r < 2 * j <=> m > 2 * i) /\ (r = 2 * j <=> m = 2 * i)
      BY <3>1
    <3>5. /\ 8 * n < P * (2 * j) <=> 8 * w > P * (2 * i)
          /\ 8 * n = P * (2 * j) <=> 8 * w = P * (2 * i)
      BY <1>2, <3>3
    <3>6. P * (2 * i) \in Int /\ 2 * i \in Int
      BY <1>2, <3>1, <3>3
    <3> QED
      BY <3>2, <3>4, <3>5, <3>6 DEF Same
  <2>4. r * P = 8 * n \/ r >= 4 * Hidden
    <3>1. r * P = 8 * (t * P) - P * m
      OBVIOUS
    <3>2. P * m = 8 * w => r * P = 8 * n
      BY <1>2, <3>1
    <3> QED
      BY <1>1, <3>2
  <2> HIDE DEF r, n
  <2>5. Normalized(sign, f, r) = Rounded(sign, n, 1)
    BY <2>1, <2>2, <2>3, <2>4, NormalizedSum
  <2> QED
    BY <2>5 DEF r, n
<1>6. ASSUME m < MantTop, m > 8 * t
      PROVE  Normalized(sign, f, m - 8 * t) = Rounded(sign, w - t * P, 1)
  <2> DEFINE r == m - 8 * t
             n == w - t * P
  <2>1. r \in Nat \ {0} /\ r < MantTop
    BY <1>1, <1>6
  <2>2. n \in Nat
    BY <1>2, <1>4, <1>6
  <2>3. Halves(r, n, P)
    <3> SUFFICES ASSUME NEW j \in Int PROVE Same(r, 2 * j, 8 * n, P * (2 * j))
      BY DEF Halves
    <3> DEFINE i == 4 * t + j
    <3>1. i \in Int /\ 2 * i = 8 * t + 2 * j
      OBVIOUS
    <3>2. Same(m, 2 * i, 8 * w, P * (2 * i))
      BY <3>1 DEF Halves
    <3>3. P * (2 * i) = 8 * (t * P) + 2 * (P * j) /\ P * (2 * j) = 2 * (P * j) /\ P * j \in Int
      OBVIOUS
    <3> HIDE DEF i
    <3>4. (r < 2 * j <=> m < 2 * i) /\ (r = 2 * j <=> m = 2 * i)
      BY <3>1
    <3>5. /\ 8 * n < P * (2 * j) <=> 8 * w < P * (2 * i)
          /\ 8 * n = P * (2 * j) <=> 8 * w = P * (2 * i)
      BY <1>2, <3>3
    <3> QED
      BY <3>2, <3>4, <3>5 DEF Same
  <2>4. r * P = 8 * n
    <3>1. r * P = P * m - 8 * (t * P)
      OBVIOUS
    <3>2. P * m = 8 * w
      BY <1>1, <1>6
    <3> QED
      BY <1>2, <3>1, <3>2
  <2> HIDE DEF r, n
  <2>5. Normalized(sign, f, r) = Rounded(sign, n, 1)
    BY <2>1, <2>2, <2>3, <2>4, NormalizedSum
  <2> QED
    BY <2>5 DEF r, n
<1> QED
  BY <1>4, <1>5, <1>6

\* The significands that an addition adds.
Augend(x, y) ==
    LET exp == IF Exponent(x) > Exponent(y) THEN Exponent(x) ELSE Exponent(y)
    IN  shift_right_sticky(8 * Significand(x), exp - Exponent(x))

LEMMA ShiftedByNone ==
    ASSUME NEW v, NEW n, n = 0
    PROVE  shift_right_sticky(v, n) = v
BY DEF shift_right_sticky

LEMMA OrderedSumRounds ==
    ASSUME NEW x \in Number, NEW y \in Number, IsFinite(x), IsFinite(y),
           ~IsZero(x), ~IsZero(y), Exponent(x) >= Exponent(y),
           x.sign = y.sign => Augend(x, y) + Augend(y, x) < MantTop
    PROVE  FiniteSum(x, y, y.sign) = RoundedSum(x, y)
<1> DEFINE f == Exponent(x)
           g == Exponent(y)
           s == f - g
           t == Significand(x)
           u == Significand(y)
           P == 2^(f - 1)
           Q == 2^(g - 1)
           w == u * Q
           m == shift_right_sticky(8 * u, s)
           k == 8 * t
           e == IF f > g THEN f ELSE g
           z == Zero(IF IsZero(x) /\ x.sign = y.sign THEN x.sign ELSE 0)
<1>1. Hidden \in Nat \ {0} /\ MantTop = 16 * Hidden
  BY FormatSizes DEF MantTop
<1>2. /\ x.sign \in {0, 1} /\ y.sign \in {0, 1}
      /\ f \in Nat \ {0} /\ g \in Nat \ {0}
      /\ t \in Nat /\ t < 2 * Hidden /\ (t >= Hidden \/ f = 1) /\ t # 0
      /\ u \in Nat /\ u < 2 * Hidden /\ (u >= Hidden \/ g = 1) /\ u # 0
  BY FiniteParts
<1>3. f >= g
  OBVIOUS
<1>4. Value(x) = t * P /\ Value(y) = w
  BY DEF Value
<1>5. /\ Augend(x, y) = shift_right_sticky(k, e - f)
      /\ Augend(y, x) = shift_right_sticky(8 * u, (IF g > f THEN g ELSE f) - g)
  BY DEF Augend
<1>6. FiniteSum(x, y, y.sign) =
        LET mx == shift_right_sticky(k, e - f)
            my == shift_right_sticky(8 * u, e - g)
            sum == mx + my
        IN  IF x.sign # y.sign
              THEN IF mx > my THEN Normalized(x.sign, e, mx - my)
                   ELSE IF my > mx THEN Normalized(y.sign, e, my - mx)
                   ELSE Exactly(Zero(0))
            ELSE IF sum >= MantTop
              THEN pack_fp32(x.sign, e + 1, shift_right_sticky(sum \div 2, 1))
            ELSE pack_fp32(x.sign, e, sum)
  BY Zenon DEF FiniteSum
<1>7. RoundedSum(x, y) =
        LET sum == Signed(x) + Signed(y)
        IN  IF sum > 0 THEN Rounded(0, sum, 1)
            ELSE IF sum < 0 THEN Rounded(1, -sum, 1)
            ELSE Exactly(z)
  BY Zenon DEF RoundedSum
<1>8. /\ P \in Nat \ {0} /\ Q \in Nat \ {0} /\ m \in Nat
      /\ Halves(m, w, P)
      /\ P * m = 8 * w \/ (t >= Hidden /\ m <= Hidden)
  <2>1. s \in Nat /\ f = g + s
    BY <1>2, <1>3
  <2> HIDE DEF f, g, s, t, u
  <2> QED
    BY <1>2, <2>1, AlignedSum
<1>9. z = Zero(0)
  OBVIOUS
<1> HIDE DEF z
<1>10. Signed(x) = (IF x.sign = 0 THEN t * P ELSE -(t * P))
       /\ Signed(y) = (IF y.sign = 0 THEN w ELSE -w)
  BY <1>4 DEF Signed
<1>11. P = 2^(f - 1)
  OBVIOUS
<1>12. x.sign = y.sign => Augend(x, y) + Augend(y, x) < MantTop
  OBVIOUS
<1> HIDE DEF f, g, t, u, P, Q, w
<1>13. e = f /\ e - f = 0 /\ e - g = s /\ (IF g > f THEN g ELSE f) = f
  BY <1>2, <1>3
<1> HIDE DEF e
<1>14. shift_right_sticky(k, e - f) = k
  BY <1>13, ShiftedByNone
<1>15. shift_right_sticky(8 * u, e - g) = m
  BY <1>13
<1>16. x.sign = y.sign => k + m < MantTop
  BY <1>5, <1>12, <1>13, <1>14
<1> HIDE DEF m, k
<1>17. /\ x.sign # y.sign /\ k > m =>
             FiniteSum(x, y, y.sign) = Normalized(x.sign, f, k - m)
       /\ x.sign # y.sign /\ ~(k > m) /\ m > k =>
             FiniteSum(x, y, y.sign) = Normalized(y.sign, f, m - k)
       /\ x.sign # y.sign /\ ~(k > m) /\ ~(m > k) =>
             FiniteSum(x, y, y.sign) = Exactly(Zero(0))
       /\ x.sign = y.sign /\ ~(k + m >= MantTop) =>
             FiniteSum(x, y, y.sign) = pack_fp32(x.sign, f, k + m)
  BY <1>6, <1>13, <1>14, <1>15
<1>18. k \in Nat /\ k = 8 * t /\ t * P \in Nat \ {0} /\ w \in Nat \ {0} /\ MantTop \in Nat
  <2>1. u * Q \in Nat \ {0}
    BY <1>2, <1>8
  <2> QED
    BY <1>1, <1>2, <1>8, <2>1 DEF k, w
<1>19. CASE x.sign = y.sign
  <2>1. k + m < MantTop /\ ~(k + m >= MantTop)
    BY <1>8, <1>16, <1>18, <1>19
  <2>2. pack_fp32(x.sign, f, 8 * t + m) = Rounded(x.sign, t * P + w, 1)
    BY <1>2, <1>8, <1>11, <1>18, <2>1, SameSigns
  <2>3. RoundedSum(x, y) = Rounded(x.sign, t * P + w, 1)
    <3>1. CASE x.sign = 0
      <4>1. Signed(x) + Signed(y) = t * P + w /\ t * P + w > 0
        BY <1>10, <1>18, <1>19, <3>1
      <4> QED
        BY <1>7, <3>1, <4>1
    <3>2. CASE x.sign = 1
      <4> DEFINE n == t * P + w
                 i == Signed(x) + Signed(y)
      <4>1. i < 0 /\ ~(i > 0) /\ -i = n
        BY <1>10, <1>18, <1>19, <3>2
      <4>2. RoundedSum(x, y) = Rounded(1, -i, 1)
        BY <1>7, <4>1
      <4> QED
        BY <3>2, <4>1, <4>2
    <3> QED
      BY <1>2, <3>1, <3>2
  <2> QED
    BY <1>17, <1>18, <1>19, <2>1, <2>2, <2>3
<1>20. CASE x.sign # y.sign
  <2>1. \A sign :
          /\ 8 * t > m <=> t * P > w
          /\ 8 * t = m <=> t * P = w
          /\ 8 * t > m => Normalized(sign, f, 8 * t - m) = Rounded(sign, t * P - w, 1)
          /\ m < MantTop /\ m > 8 * t =>
                Normalized(sign, f, m - 8 * t) = Rounded(sign, w - t * P, 1)
    <3> TAKE sign
    <3> QED
      BY <1>2, <1>8, <1>11, <1>18, OtherSigns
  <2>2. m < MantTop
    <3>1. 8 * Hidden \in Int /\ 2 * (8 * Hidden) = MantTop
      BY <1>1
    <3>2. Same(m, MantTop, 8 * w, P * MantTop)
      BY <1>8, <3>1 DEF Halves
    <3>3. 8 * w < P * MantTop
      <4>1. Q <= P
        <5>1. g - 1 \in Nat /\ f - 1 \in Nat /\ g - 1 <= f - 1
          BY <1>2, <1>3
        <5> QED
          BY <5>1, PowersOrdered DEF P, Q
      <4>2. u * Q < (2 * Hidden) * Q /\ (2 * Hidden) * Q <= (2 * Hidden) * P
        BY <1>1, <1>2, <1>8, <4>1
      <4>3. P * MantTop = 8 * ((2 * Hidden) * P) /\ (2 * Hidden) * P \in Nat
            /\ u * Q \in Nat /\ (2 * Hidden) * Q \in Nat
        BY <1>1, <1>2, <1>8
      <4> QED
        BY <4>2, <4>3 DEF w
    <3> QED
      BY <3>2, <3>3 DEF Same
  <2> DEFINE i == Signed(x) + Signed(y)
  <2>3. CASE k > m
    <3> DEFINE n == t * P - w
    <3>1. n > 0 /\ n \in Nat /\ ~(-n > 0)
      BY <1>18, <2>1, <2>3
    <3>2. FiniteSum(x, y, y.sign) = Rounded(x.sign, n, 1)
      BY <1>17, <1>18, <1>20, <2>1, <2>3
    <3>3. CASE x.sign = 0
      <4>1. i = n
        BY <1>2, <1>10, <1>18, <1>20, <3>3
      <4>2. RoundedSum(x, y) = Rounded(0, n, 1)
        BY <1>7, <3>1, <4>1
      <4> QED
        BY <3>2, <3>3, <4>2
    <3>4. CASE x.sign = 1
      <4>1. ~(i > 0) /\ i < 0 /\ -i = n
        BY <1>2, <1>10, <1>18, <1>20, <3>1, <3>4
      <4>2. RoundedSum(x, y) = Rounded(1, -i, 1)
        BY <1>7, <4>1
      <4> QED
        BY <3>2, <3>4, <4>1, <4>2
    <3> QED
      BY <1>2, <3>3, <3>4
  <2>4. CASE m > k
    <3> DEFINE n == w - t * P
    <3>1. n > 0 /\ n \in Nat
      <4>1. ~(8 * t > m) /\ 8 * t # m
        BY <1>8, <1>18, <2>4
      <4>2. ~(t * P > w) /\ t * P # w
        BY <2>1, <4>1
      <4> QED
        BY <1>18, <4>2
    <3>2. FiniteSum(x, y, y.sign) = Rounded(y.sign, n, 1)
      BY <1>8, <1>17, <1>18, <1>20, <2>1, <2>2, <2>4
    <3>3. CASE y.sign = 0
      <4>1. i = n
        BY <1>2, <1>10, <1>18, <1>20, <3>3
      <4>2. RoundedSum(x, y) = Rounded(0, n, 1)
        BY <1>7, <3>1, <4>1
      <4> QED
        BY <3>2, <3>3, <4>2
    <3>4. CASE y.sign = 1
      <4>1. ~(i > 0) /\ i < 0 /\ -i = n
        BY <1>2, <1>10, <1>18, <1>20, <3>1, <3>4
      <4>2. RoundedSum(x, y) = Rounded(1, -i, 1)
        BY <1>7, <4>1
      <4> QED
        BY <3>2, <3>4, <4>1, <4>2
    <3> QED
      BY <1>2, <3>3, <3>4
  <2>5. CASE k = m
    <3>1. t * P = w
      BY <1>18, <2>1, <2>5
    <3>2. ~(i > 0) /\ ~(i < 0)
      BY <1>2, <1>10, <1>18, <1>20, <3>1
    <3>3. RoundedSum(x, y) = Exactly(Zero(0))
      BY <1>7, <1>9, <3>2
    <3>4. FiniteSum(x, y, y.sign) = Exactly(Zero(0))
      BY <1>8, <1>17, <1>18, <1>20, <2>5
    <3> QED
      BY <3>3, <3>4
  <2> QED
    BY <1>8, <1>18, <2>3, <2>4, <2>5
<1> QED
  BY <1>19, <1>20

LEMMA LargestOfTwo ==
    ASSUME NEW p \in Int, NEW q \in Int
    PROVE  Largest({p, q}) = IF p > q THEN p ELSE q
<1> DEFINE S == {p, q}
           m == IF p > q THEN p ELSE q
<1>1. m \in S /\ \A k \in S : m >= k
  OBVIOUS
<1>2. \A n \in S : (\A k \in S : n >= k) => n = m
  OBVIOUS
<1> HIDE DEF m, S
<1>3. Largest(S) = m
  BY <1>1, <1>2 DEF Largest
<1> QED
  BY <1>3 DEF S, m

LEMMA SumsRounded ==
    ASSUME NEW x \in Number, NEW y \in Number, IsFinite(x), IsFinite(y)
    PROVE  /\ Value(x) \in Nat /\ (Value(x) = 0 <=> IsZero(x))
           /\ Value(y) \in Nat /\ (Value(y) = 0 <=> IsZero(y))
           /\ ~IsZero(x) /\ ~IsZero(y) => RoundedSum(x, y) = RoundedSum(y, x)
<1>1. ASSUME NEW n \in Number, IsFinite(n)
      PROVE  Value(n) \in Nat /\ (Value(n) = 0 <=> IsZero(n))
  <2> DEFINE P == 2^(Exponent(n) - 1)
             u == Significand(n)
  <2>1. Exponent(n) - 1 \in Nat /\ u \in Nat /\ (u = 0 <=> IsZero(n))
    BY <1>1, FiniteParts
  <2>2. P \in Nat \ {0}
    BY <2>1, PowerType
  <2>3. Value(n) = u * P
    BY DEF Value
  <2> HIDE DEF P, u
  <2> QED
    BY <2>1, <2>2, <2>3
<1>2. Signed(x) \in Int /\ Signed(y) \in Int
  BY <1>1 DEF Signed
<1>3. Signed(x) + Signed(y) = Signed(y) + Signed(x)
  BY <1>2
<1> QED
  BY <1>1, <1>3 DEF RoundedSum

LEMMA SignedZero ==
    ASSUME NEW x, Value(x) = 0
    PROVE  Signed(x) = 0
<1> DEFINE n == Value(x)
           i == -n
<1>1. n \in Int /\ n = 0
  OBVIOUS
<1>2. \A k \in Int : -k \in Int /\ (-k) + k = 0
  OBVIOUS
<1> HIDE DEF n
<1>3. i \in Int /\ i + n = 0
  BY <1>1, <1>2
<1>4. Signed(x) = IF x.sign = 0 THEN n ELSE i
  BY Zenon DEF Signed, n
<1> HIDE DEF i
<1> QED
  BY <1>1, <1>3, <1>4

LEMMA AddRounds ==
    ASSUME NEW x \in Number, NEW y \in Number, IsFinite(x), IsFinite(y),
           x.sign = y.sign => Augend(x, y) + Augend(y, x) < MantTop
    PROVE  Add(x, y) = RoundedSum(x, y)
<1>1. x.sign \in {0, 1} /\ y.sign \in {0, 1}
  BY NumberParts
<1>2. ~IsInfinity(x) /\ ~IsInfinity(y)
  BY NumberParts
<1>3. /\ Value(x) \in Nat /\ (Value(x) = 0 <=> IsZero(x))
      /\ Value(y) \in Nat /\ (Value(y) = 0 <=> IsZero(y))
  BY SumsRounded
<1>4. /\ Rounded(x.sign, Value(x), 1) = Exactly(x)
      /\ Rounded(y.sign, Value(y), 1) = Exactly(y)
  BY NumberRounds
<1>5. CASE IsZero(x) /\ IsZero(y)
  <2>1. Signed(x) = 0 /\ Signed(y) = 0
    BY <1>3, <1>5, SignedZero
  <2>2. RoundedSum(x, y) = Exactly(Zero(IF x.sign = y.sign THEN x.sign ELSE 0))
    BY <1>5, <2>1 DEF RoundedSum
  <2>3. x.sign * y.sign = IF x.sign = y.sign THEN x.sign ELSE 0
    BY <1>1
  <2> QED
    BY <1>2, <1>5, <2>2, <2>3 DEF Add
<1>6. ASSUME NEW p \in Number, NEW q \in Number, IsZero(p), ~IsZero(q),
             Value(p) = 0, Value(q) \in Nat \ {0},
             Rounded(q.sign, Value(q), 1) = Exactly(q)
      PROVE  RoundedSum(p, q) = Exactly(q) /\ RoundedSum(q, p) = Exactly(q)
  <2>1. q.sign \in {0, 1}
    BY NumberParts
  <2>2. Signed(p) = 0 /\ Signed(q) = IF q.sign = 0 THEN Value(q) ELSE -Value(q)
    BY <1>6, SignedZero DEF Signed
  <2> DEFINE n == Value(q)
             i == Signed(q)
  <2>3. Signed(p) + Signed(q) = i /\ Signed(q) + Signed(p) = i /\ i \in Int
    BY <1>6, <2>1, <2>2
  <2>4. CASE q.sign = 0
    <3>1. i > 0 /\ i = n
      BY <1>6, <2>2, <2>4
    <3> QED
      BY <1>6, <2>3, <2>4, <3>1 DEF RoundedSum
  <2>5. CASE q.sign = 1
    <3>1. ~(i > 0) /\ i < 0 /\ -i = n
      BY <1>6, <2>2, <2>5
    <3>2. RoundedSum(p, q) = Rounded(1, -i, 1) /\ RoundedSum(q, p) = Rounded(1, -i, 1)
      BY <2>3, <3>1 DEF RoundedSum
    <3> QED
      BY <1>6, <2>5, <3>1, <3>2
  <2> QED
    BY <2>1, <2>4, <2>5
<1>7. CASE IsZero(x) /\ ~IsZero(y)
  <2>1. RoundedSum(x, y) = Exactly(y)
    BY <1>3, <1>4, <1>6, <1>7
  <2> QED
    BY <1>2, <1>7, <2>1 DEF Add
<1>8. CASE ~IsZero(x) /\ IsZero(y)
  <2>1. RoundedSum(x, y) = Exactly(x)
    BY <1>3, <1>4, <1>6, <1>8
  <2> QED
    BY <1>2, <1>8, <2>1 DEF Add
<1>9. CASE ~IsZero(x) /\ ~IsZero(y)
  <2>1. Add(x, y) = FiniteSum(x, y, y.sign)
    BY <1>2, <1>9 DEF Add
  <2>2. Exponent(x) \in Int /\ Exponent(y) \in Int
    BY NumberParts
  <2>3. CASE Exponent(x) >= Exponent(y)
    BY <1>9, <2>1, <2>3, OrderedSumRounds
  <2>4. CASE ~(Exponent(x) >= Exponent(y))
    <3>1. Exponent(y) >= Exponent(x)
      BY <2>2, <2>4
    <3>2. y.sign = x.sign => Augend(y, x) + Augend(x, y) < MantTop
      <4>1. Augend(x, y) \in Int /\ Augend(y, x) \in Int
        <5>1. \A p, q \in Number : Augend(p, q) \in Int
          <6> TAKE p, q \in Number
          <6> DEFINE e == IF Exponent(p) > Exponent(q) THEN Exponent(p) ELSE Exponent(q)
                     v == 8 * Significand(p)
                     n == e - Exponent(p)
          <6>1. v \in Nat /\ n \in Int
            BY NumberParts
          <6>2. Augend(p, q) = shift_right_sticky(v, n)
            BY DEF Augend
          <6> HIDE DEF v, n
          <6> QED
            BY <6>1, <6>2, ShiftType
        <5> QED
          BY <5>1
      <4> QED
        BY <4>1
    <3>3. FiniteSum(y, x, x.sign) = RoundedSum(y, x)
      BY <1>9, <3>1, <3>2, OrderedSumRounds
    <3> QED
      BY <1>9, <2>1, <3>3, SumCommutes, SumsRounded
  <2> QED
    BY <2>3, <2>4
<1> QED
  BY <1>5, <1>7, <1>8, <1>9
-----------------------------------------------------------------------------
(* A sum does not underflow: whatever is left of it is exact.              *)

\* No bit of a whole number of least subnormals is lost among the subnormals.
LEMMA WholesAreExact ==
    ASSUME NEW n \in Nat, NEW sign
    PROVE  "underflow" \notin Rounded(sign, n, 1).status
<1> DEFINE S == {c \in 0 .. InfinityCode : CodeValue(c) * 1 <= n}
<1>1. Hidden \in Nat \ {0} /\ InfinityCode \in Nat /\ Hidden < InfinityCode
  <2>1. Hidden \in Nat \ {0} /\ ExpMax \in Nat /\ ExpMax >= 3
    BY FormatSizes
  <2> QED
    BY <2>1 DEF InfinityCode
<1>2. \A k \in 0 .. Hidden : CodeValue(k) = k
  <2> TAKE k \in 0 .. Hidden
  <2>1. 1 \in Nat \ {0} /\ k \in Nat /\ k <= 2 * Hidden
    BY <1>1
  <2>2. CodeValue(CodeAt(1, k)) = 2^(1 - 1) * k
    BY <2>1, CodeValueIs
  <2>3. CodeAt(1, k) = k /\ 2^(1 - 1) = 1
    BY <1>1, <2>1, PowerZero DEF CodeAt
  <2> QED
    BY <2>1, <2>2, <2>3
<1>3. CASE n < Hidden
  <2>1. n \in 0 .. InfinityCode /\ CodeValue(n) = n /\ CodeValue(n + 1) = n + 1
    BY <1>1, <1>2, <1>3
  <2>2. Largest(S) = n
    BY <2>1, LargestIs
  <2>3. n # InfinityCode /\ 2 * n < (CodeValue(n) + CodeValue(n + 1)) * 1
    BY <1>1, <1>3, <2>1
  <2>4. Nearest(n, 1) = n
    BY <2>2, <2>3 DEF Nearest
  <2>5. CodeValue(n) * 1 = n
    BY <2>1
  <2> QED
    BY <1>1, <1>3, <2>4, <2>5 DEF Rounded
<1>4. CASE n >= Hidden
  <2>1. Hidden \in S
    <3>1. CodeValue(Hidden) * 1 <= n /\ Hidden \in 0 .. InfinityCode
      BY <1>1, <1>2, <1>4
    <3> QED
      BY <3>1
  <2>2. S \in SUBSET (0 .. InfinityCode) /\ S # {}
    BY <2>1
  <2> HIDE DEF S
  <2>3. \E m \in S : \A k \in S : m >= k
    BY <1>1, <2>2, Greatest
  <2>4. Largest(S) \in S /\ \A k \in S : Largest(S) >= k
    BY <2>3 DEF Largest
  <2> DEFINE below == Largest(S)
  <2>5. below \in S /\ below >= Hidden
    BY <2>1, <2>4
  <2>6. Nearest(n, 1) = below \/ Nearest(n, 1) = below + 1
    BY DEF Nearest, S
  <2> HIDE DEF below
  <2>7. below \in Nat
    BY <1>1, <2>2, <2>5
  <2>8. ~(Nearest(n, 1) < Hidden)
    BY <1>1, <2>5, <2>6, <2>7
  <2> QED
    BY <2>8 DEF Rounded
<1> QED
  BY <1>1, <1>3, <1>4

\* Above the least exponent nothing is subnormal.
LEMMA PackedIsNormal ==
    ASSUME NEW sign, NEW exp \in Int, exp > 1, NEW mant
    PROVE  "underflow" \notin pack_fp32(sign, exp, mant).status
<1>1. CASE mant = 0
  BY <1>1 DEF pack_fp32, Exactly
<1>2. CASE mant # 0
  <2> DEFINE rounded == RoundSignificand(mant)
             e == exp + (IF rounded = 2 * Hidden THEN 1 ELSE 0)
  <2>1. e > 1
    OBVIOUS
  <2>2. \/ Encoded(sign, exp, mant).status = {"overflow"}
        \/ Encoded(sign, exp, mant).status = {}
    BY <2>1 DEF Encoded, Exactly
  <2> QED
    BY <1>2, <2>2 DEF pack_fp32
<1> QED
  BY <1>1, <1>2

LEMMA SumsDoNotUnderflow ==
    ASSUME NEW x \in Number, NEW y \in Number, ~IsNaN(x), ~IsNaN(y)
    PROVE  "underflow" \notin Add(x, y).status
<1>1. \A n : Exactly(n).status = {}
  BY DEF Exactly
<1>2. CASE IsInfinity(x) \/ IsInfinity(y)
  <2>1. Add(x, y) = InvalidNaN \/ Add(x, y) = Exactly(x) \/ Add(x, y) = Exactly(y)
    BY <1>2 DEF Add
  <2> QED
    BY <1>1, <2>1 DEF InvalidNaN
<1>3. CASE /\ ~IsInfinity(x) /\ ~IsInfinity(y)
           /\ x.sign = y.sign => Augend(x, y) + Augend(y, x) < MantTop
  <2>1. IsFinite(x) /\ IsFinite(y)
    BY <1>3, NumberParts
  <2>2. Add(x, y) = RoundedSum(x, y)
    BY <1>3, <2>1, AddRounds
  <2> DEFINE sum == Signed(x) + Signed(y)
  <2>3. sum \in Int
    <3>1. Value(x) \in Nat /\ Value(y) \in Nat
      BY <2>1, SumsRounded
    <3> QED
      BY <3>1 DEF Signed
  <2>4. RoundedSum(x, y) =
          IF sum > 0 THEN Rounded(0, sum, 1)
          ELSE IF sum < 0 THEN Rounded(1, -sum, 1)
          ELSE Exactly(Zero(IF IsZero(x) /\ x.sign = y.sign THEN x.sign ELSE 0))
    BY DEF RoundedSum
  <2> HIDE DEF sum
  <2>5. CASE sum > 0
    BY <2>2, <2>3, <2>4, <2>5, WholesAreExact
  <2>6. CASE sum < 0
    <3>1. -sum \in Nat /\ ~(sum > 0)
      BY <2>3, <2>6
    <3> QED
      BY <2>2, <2>4, <2>6, <3>1, WholesAreExact
  <2>7. CASE ~(sum > 0) /\ ~(sum < 0)
    BY <1>1, <2>2, <2>4, <2>7
  <2> QED
    BY <2>5, <2>6, <2>7
<1>4. CASE /\ ~IsInfinity(x) /\ ~IsInfinity(y)
           /\ x.sign = y.sign /\ ~(Augend(x, y) + Augend(y, x) < MantTop)
  <2> DEFINE exp == IF Exponent(x) > Exponent(y) THEN Exponent(x) ELSE Exponent(y)
             mx == shift_right_sticky(8 * Significand(x), exp - Exponent(x))
             my == shift_right_sticky(8 * Significand(y), exp - Exponent(y))
  <2>1. Exponent(x) \in Nat \ {0} /\ Exponent(y) \in Nat \ {0}
    BY <1>4, NumberParts, FiniteParts
  <2>2. exp \in Nat \ {0} /\ exp - Exponent(x) \in Int /\ exp - Exponent(y) \in Int
    BY <2>1
  <2>3. mx \in Int /\ my \in Int /\ MantTop \in Int
    <3>1. 8 * Significand(x) \in Nat /\ 8 * Significand(y) \in Nat
      BY NumberParts
    <3> HIDE DEF exp
    <3> QED
      BY <2>2, <3>1, ShiftType, FormatSizes DEF MantTop
  <2>4. Augend(x, y) = mx /\ Augend(y, x) = my
    <3>1. (IF Exponent(y) > Exponent(x) THEN Exponent(y) ELSE Exponent(x)) = exp
      BY <2>1
    <3> QED
      BY <3>1 DEF Augend
  <2>5. FiniteSum(x, y, y.sign) =
          IF x.sign # y.sign
            THEN IF mx > my THEN Normalized(x.sign, exp, mx - my)
                 ELSE IF my > mx THEN Normalized(y.sign, exp, my - mx)
                 ELSE Exactly(Zero(0))
          ELSE IF mx + my >= MantTop
            THEN pack_fp32(x.sign, exp + 1, shift_right_sticky((mx + my) \div 2, 1))
          ELSE pack_fp32(x.sign, exp, mx + my)
    BY Zenon DEF FiniteSum
  <2> HIDE DEF exp, mx, my
  <2>6. mx + my >= MantTop
    BY <1>4, <2>3, <2>4
  <2>7. exp + 1 \in Int /\ exp + 1 > 1
    BY <2>2
  <2>8. "underflow" \notin FiniteSum(x, y, y.sign).status
    BY <1>4, <2>5, <2>6, <2>7, PackedIsNormal
  <2>9. \/ Add(x, y) = Exactly(Zero(x.sign * y.sign))
        \/ Add(x, y) = Exactly(x) \/ Add(x, y) = Exactly(y)
        \/ Add(x, y) = FiniteSum(x, y, y.sign)
    BY <1>4 DEF Add
  <2> QED
    BY <1>1, <2>8, <2>9
<1> QED
  BY <1>2, <1>3, <1>4
-----------------------------------------------------------------------------
(* The theorems                                                            *)

IeeeTypeOK == a \in Number /\ b \in Number /\ op \in Operations

LEMMA IeeeTyped == IeeeSpec => []IeeeTypeOK
<1>1. IeeeInit => IeeeTypeOK
  BY DEF IeeeInit, IeeeTypeOK, Operations
<1>2. IeeeTypeOK /\ [IeeeNext]_ieeeVars => IeeeTypeOK'
  BY DEF IeeeTypeOK, IeeeNext, ieeeVars
<1> QED
  BY <1>1, <1>2, PTL DEF IeeeSpec

\* In every format a NaN is returned and flagged exactly when an operand is one
\* or the operation is undefined, an overflow exactly when finite operands give
\* an infinity without a division by zero, and that flag goes up for a divisor
\* of zero under a number or, beyond IEEE-754, an infinity.  No sum underflows,
\* and what does is subnormal or zero (design.sv:990).
THEOREM ExceptionsAreFlagged == IeeeSpec => []ExceptionsFlagged
<1>1. IeeeTypeOK => ExceptionsFlagged
  <2> SUFFICES ASSUME IeeeTypeOK PROVE ExceptionsFlagged
    OBVIOUS
  <2> DEFINE p == outcome
             c == Negate(b)
  <2>1. a \in Number /\ b \in Number /\ c \in Number
        /\ op \in {"ADD", "SUB", "MUL", "DIV"}
    BY Negated DEF IeeeTypeOK, Operations
  <2>2. /\ \A x \in Number : IsFinite(x) <=> ~IsNaN(x) /\ ~IsInfinity(x)
        /\ IsNaN(NaN) /\ InvalidNaN.number = NaN /\ InvalidNaN.status = {"invalid"}
        /\ ~IsInfinity(NaN)
    <3>1. /\ IsNaN(NaN) /\ InvalidNaN.number = NaN /\ InvalidNaN.status = {"invalid"}
          /\ ~IsInfinity(NaN)
      BY FormatSizes DEF IsNaN, IsInfinity, NaN, InvalidNaN
    <3> QED
      BY <3>1, NumberParts
  <2>3. IsNaN(c) <=> IsNaN(b)
    BY <2>1, Negated
  <2>4. CASE IsNaN(a) \/ IsNaN(b)
    <3>1. p = InvalidNaN
      BY <2>4 DEF outcome, fp_calculate
    <3>2. ~(IsFinite(a) /\ IsFinite(b))
      BY <2>1, <2>2, <2>4
    <3>3. IsZero(b) => ~IsFinite(a) /\ ~IsInfinity(a)
      <4>1. IsNaN(a) => ~IsInfinity(a)
        BY <2>1, <2>2 DEF IsNaN, IsInfinity
      <4> QED
        BY <2>1, <2>2, <2>4, <4>1, NumberParts
    <3> HIDE DEF p
    <3> QED
      BY <2>2, <2>4, <3>1, <3>2, <3>3 DEF ExceptionsFlagged, p
  <2>5. CASE ~IsNaN(a) /\ ~IsNaN(b) /\ op = "ADD"
    <3>1. p = Add(a, b) /\ Terms[1] = a /\ Terms[2] = b
      BY <2>5 DEF outcome, fp_calculate, Terms
    <3>2. AddExceptions(p, a, b)
      BY <2>1, <2>5, <3>1, AddFlags
    <3>3. Undefined(a, b) <=> (IsInfinity(a) /\ IsInfinity(b) /\ a.sign # b.sign)
      BY <2>1, <2>5, OppositeInfinities DEF Undefined
    <3>4. "underflow" \notin p.status
      BY <2>1, <2>5, <3>1, SumsDoNotUnderflow
    <3> HIDE DEF p
    <3> QED
      BY <2>5, <3>1, <3>2, <3>3, <3>4 DEF ExceptionsFlagged, AddExceptions, p
  <2>6. CASE ~IsNaN(a) /\ ~IsNaN(b) /\ op = "SUB"
    <3>1. p = Add(a, c) /\ Terms[1] = a /\ Terms[2] = c
      BY <2>1, <2>6, SubtractIsAdd DEF outcome, fp_calculate, Terms
    <3>2. AddExceptions(p, a, c)
      BY <2>1, <2>3, <2>6, <3>1, AddFlags
    <3>3. Undefined(a, c) <=> (IsInfinity(a) /\ IsInfinity(c) /\ a.sign # c.sign)
      BY <2>1, <2>6, OppositeInfinities DEF Undefined
    <3>4. IsFinite(c) <=> IsFinite(b)
      BY <2>1, Negated
    <3>5. "underflow" \notin p.status
      BY <2>1, <2>3, <2>6, <3>1, SumsDoNotUnderflow
    <3> HIDE DEF p, c
    <3> QED
      BY <2>6, <3>1, <3>2, <3>3, <3>4, <3>5 DEF ExceptionsFlagged, AddExceptions, p
  <2>7. CASE ~IsNaN(a) /\ ~IsNaN(b) /\ op = "MUL"
    <3>1. p = Multiply(a, b) /\ Terms[1] = a /\ Terms[2] = b
      BY <2>7 DEF outcome, fp_calculate, Terms
    <3>2. /\ IsZero(a) => ~IsInfinity(a)
          /\ IsZero(b) => ~IsInfinity(b)
      BY <2>1, NumberParts
    <3>3. Undefined(a, b) <=> \/ IsZero(a) /\ IsInfinity(b)
                              \/ IsInfinity(a) /\ IsZero(b)
      <4>1. Undefined(a, b) <=> /\ {a, b} \cap {Zero(0), Zero(1)} # {}
                                /\ {a, b} \cap {Infinity(0), Infinity(1)} # {}
        BY <2>7 DEF Undefined
      <4>2. {a, b} \cap {Zero(0), Zero(1)} # {} <=> IsZero(a) \/ IsZero(b)
        BY <2>1, Specials
      <4>3. {a, b} \cap {Infinity(0), Infinity(1)} # {} <=> IsInfinity(a) \/ IsInfinity(b)
        BY <2>1, Specials
      <4> QED
        BY <3>2, <4>1, <4>2, <4>3
    <3>4. ProductExceptions(p, a, b)
      BY <2>1, <2>7, <3>1, MultiplyFlags
    <3> HIDE DEF p
    <3>5. IsNaN(p.number) <=> Undefined(Terms[1], Terms[2])
      BY <3>1, <3>3, <3>4, Zenon DEF ProductExceptions
    <3>6. op # "DIV" /\ ~IsNaN(a) /\ ~IsNaN(b)
      BY <2>7
    <3>7. "underflow" \in p.status =>
            op \in {"MUL", "DIV"} /\ IsFinite(a) /\ IsFinite(b) /\ p.number.exp = 0
      BY <2>7, <3>4 DEF ProductExceptions, Underflows
    <3> QED
      BY <3>4, <3>5, <3>6, <3>7, Zenon DEF ExceptionsFlagged, ProductExceptions, p
  <2>8. CASE ~IsNaN(a) /\ ~IsNaN(b) /\ op = "DIV"
    <3>1. p = Divide(a, b) /\ Terms[1] = a /\ Terms[2] = b
      <4>1. op # "ADD" /\ op # "SUB" /\ op # "MUL"
        BY <2>8
      <4>2. outcome = CASE op = "ADD" -> Add(a, b)
                        [] op = "SUB" -> Subtract(a, b)
                        [] op = "MUL" -> Multiply(a, b)
                        [] op = "DIV" -> Divide(a, b)
        BY <2>8 DEF outcome, fp_calculate
      <4>3. outcome = Divide(a, b)
        BY <2>8, <4>1, <4>2
      <4> QED
        BY <4>1, <4>3 DEF Terms
    <3>2. Undefined(a, b) <=> \/ IsZero(a) /\ IsZero(b)
                              \/ IsInfinity(a) /\ IsInfinity(b)
      <4>1. op # "ADD" /\ op # "SUB" /\ op # "MUL"
        BY <2>8
      <4> QED
        BY <2>8, <4>1 DEF Undefined
    <3>3. QuotientExceptions(p, a, b)
      BY <2>1, <2>8, <3>1, DivideFlags
    <3> HIDE DEF p
    <3>5. IsNaN(p.number) <=> Undefined(Terms[1], Terms[2])
      BY <3>1, <3>2, <3>3, Zenon DEF QuotientExceptions
    <3>4. /\ IsZero(a) => IsFinite(a)
          /\ IsFinite(a) \/ IsInfinity(a)
          /\ ~(IsFinite(a) /\ IsInfinity(a))
      BY <2>1, <2>8, NumberParts
    <3>6. "overflow" \in p.status <=>
            /\ IsFinite(a) /\ IsFinite(b) /\ IsInfinity(p.number)
            /\ ~(op = "DIV" /\ IsFinite(a) /\ ~IsZero(a) /\ IsZero(b))
      BY <2>8, <3>3, Zenon DEF QuotientExceptions
    <3>7. "div_by_zero" \in p.status <=>
            \/ op = "DIV" /\ IsFinite(a) /\ ~IsZero(a) /\ IsZero(b)
            \/ op = "DIV" /\ IsInfinity(a) /\ IsZero(b)
      BY <2>8, <3>3, <3>4, Zenon DEF QuotientExceptions
    <3>8. "invalid" \in p.status <=> IsNaN(p.number)
      BY <3>3, Zenon DEF QuotientExceptions
    <3>9. "underflow" \in p.status =>
            op \in {"MUL", "DIV"} /\ IsFinite(a) /\ IsFinite(b) /\ p.number.exp = 0
      BY <2>8, <3>3 DEF QuotientExceptions, Underflows
    <3> QED
      BY <2>8, <3>5, <3>6, <3>7, <3>8, <3>9, Zenon DEF ExceptionsFlagged, p
  <2> QED
    BY <2>1, <2>4, <2>5, <2>6, <2>7, <2>8
<1> QED
  BY <1>1, IeeeTyped, PTL

\* In every format SUB is ADD of the negated operand, sums and products commute,
\* and a product or quotient changes sign with its operand (design.sv:990).
THEOREM SignsAgree == IeeeSpec => []SignLaws
<1>1. IeeeTypeOK => SignLaws
  <2> SUFFICES ASSUME IeeeTypeOK PROVE SignLaws
    OBVIOUS
  <2>1. a \in Number /\ b \in Number
    BY DEF IeeeTypeOK
  <2>2. (IsNaN(Negate(b)) <=> IsNaN(b)) /\ (IsNaN(Negate(a)) <=> IsNaN(a))
    BY <2>1, Negated
  <2>3. /\ Subtract(a, b) = Add(a, Negate(b))
        /\ Add(a, b) = Add(b, a)
        /\ Multiply(a, b) = Multiply(b, a)
    BY <2>1, SubtractIsAdd, AddCommutes, MultiplyCommutes
  <2>4. Flipped(InvalidNaN, InvalidNaN)
    BY SpecialsFlipped
  <2>5. Flipped(Multiply(a, b), Multiply(Negate(a), b))
        /\ Flipped(Divide(a, b), Divide(Negate(a), b))
    BY <2>1, MultiplyFlipped, DivideFlipped
  <2>6. ASSUME op = "SUB" PROVE outcome = fp_calculate(a, Negate(b), "ADD")
    BY <2>2, <2>3, <2>6 DEF outcome, fp_calculate
  <2>7. ASSUME op \in {"ADD", "MUL"} PROVE outcome = Swapped
    BY <2>3, <2>7 DEF outcome, Swapped, fp_calculate
  <2>8. ASSUME op \in {"MUL", "DIV"}
        PROVE  Flipped(outcome, fp_calculate(Negate(a), b, op))
    BY <2>2, <2>4, <2>5, <2>8 DEF outcome, fp_calculate
  <2> QED
    BY <2>6, <2>7, <2>8, Zenon DEF SignLaws, Flipped
<1> QED
  BY <1>1, IeeeTyped, PTL

\* In every format differences, sums that do not carry out of the significand,
\* and products and quotients of normal numbers are the nearest number, ties to
\* even, with the flags that go with it (design.sv:978).
THEOREM RoundsOnce == IeeeSpec => []RoundsToNearest
<1>1. IeeeTypeOK => RoundsToNearest
  <2> SUFFICES ASSUME IeeeTypeOK, IsFinite(a), IsFinite(b), ~Carries, ~Denormal
               PROVE  outcome = FiniteResult
    BY DEF RoundsToNearest
  <2>1. a \in Number /\ b \in Number /\ op \in {"ADD", "SUB", "MUL", "DIV"}
    BY DEF IeeeTypeOK, Operations
  <2>2. ~IsNaN(a) /\ ~IsNaN(b) /\ ~IsInfinity(a) /\ ~IsInfinity(b)
    BY <2>1, NumberParts
  <2>3. ASSUME NEW c \in Number, op \in {"ADD", "SUB"}, c = Terms[2],
               Exponent(c) = Exponent(b), Significand(c) = Significand(b),
               a.sign = c.sign
        PROVE  Augend(a, c) + Augend(c, a) < MantTop
    <3> DEFINE f == Exponent(a)
               g == Exponent(b)
               e == IF f > g THEN f ELSE g
               v == shift_right_sticky(8 * Significand(a), e - f)
               w == shift_right_sticky(8 * Significand(b), e - g)
    <3>1. f \in Int /\ g \in Int
      BY <2>1, NumberParts
    <3>2. Largest({f, g}) = e
      BY <3>1, LargestOfTwo
    <3>3. Augend(a, c) = v
      BY <2>3 DEF Augend
    <3>4. (IF g > f THEN g ELSE f) = e
      BY <3>1
    <3>5. Augend(c, a) = w
      BY <2>3, <3>4 DEF Augend
    <3>6. ~(v + w >= MantTop)
      BY <2>3, <3>2, Zenon DEF Carries
    <3>7. v \in Int /\ w \in Int
      <4>1. 8 * Significand(a) \in Nat /\ 8 * Significand(b) \in Nat
            /\ e - f \in Int /\ e - g \in Int
        BY <2>1, NumberParts
      <4> HIDE DEF e, f, g
      <4> QED
        BY <4>1, ShiftType
    <3>8. MantTop \in Int
      BY FormatSizes DEF MantTop
    <3> HIDE DEF v, w
    <3> QED
      BY <3>3, <3>5, <3>6, <3>7, <3>8
  <2>4. CASE op = "ADD"
    <3>1. Terms[2] = b
      BY <2>4 DEF Terms
    <3>2. a.sign = b.sign => Augend(a, b) + Augend(b, a) < MantTop
      BY <2>1, <2>3, <2>4, <3>1
    <3>3. Add(a, b) = RoundedSum(a, b)
      BY <2>1, <3>2, AddRounds
    <3> QED
      BY <2>2, <2>4, <3>3 DEF outcome, fp_calculate, FiniteResult
  <2>5. CASE op = "SUB"
    <3> DEFINE c == Negate(b)
    <3>1. Terms[2] = c
      BY <2>5 DEF Terms
    <3>2. /\ c \in Number /\ IsFinite(c)
          /\ Exponent(c) = Exponent(b) /\ Significand(c) = Significand(b)
      BY <2>1, Negated
    <3>3. Subtract(a, b) = Add(a, c)
      BY <2>1, SubtractIsAdd
    <3>4. outcome = Subtract(a, b) /\ FiniteResult = RoundedSum(a, c)
      BY <2>2, <2>5 DEF outcome, fp_calculate, FiniteResult
    <3> HIDE DEF c
    <3>5. a.sign = c.sign => Augend(a, c) + Augend(c, a) < MantTop
      BY <2>3, <2>5, <3>1, <3>2
    <3>6. Add(a, c) = RoundedSum(a, c)
      BY <2>1, <3>2, <3>5, AddRounds
    <3> QED
      BY <3>3, <3>4, <3>6
  <2>6. CASE op \in {"MUL", "DIV"}
    <3>1. Normal(a) /\ Normal(b)
      BY <2>6 DEF Denormal
    <3>2. ~IsZero(a) /\ ~IsZero(b)
      BY <2>1, <3>1, NormalParts
    <3>3. CASE op = "MUL"
      <4>1. outcome = Multiply(a, b)
            /\ FiniteResult = Rounded(Xor(a.sign, b.sign), Value(a) * Value(b), Unit)
        BY <2>2, <3>3 DEF outcome, fp_calculate, FiniteResult
      <4>2. Multiply(a, b) = FiniteProduct(a, b)
        BY <2>2, <3>2 DEF Multiply
      <4> QED
        BY <2>1, <3>1, <4>1, <4>2, ProductRounds
    <3>4. CASE op = "DIV"
      <4>1. op # "ADD" /\ op # "SUB" /\ op # "MUL"
        BY <3>4
      <4>2. outcome = Divide(a, b)
            /\ FiniteResult = Rounded(Xor(a.sign, b.sign), Value(a) * Unit, Value(b))
        BY <2>2, <3>4, <4>1 DEF outcome, fp_calculate, FiniteResult
      <4>3. Divide(a, b) = FiniteQuotient(a, b)
        BY <2>2, <3>2 DEF Divide
      <4> QED
        BY <2>1, <3>1, <4>2, <4>3, QuotientRounds
    <3> QED
      BY <2>6, <3>3, <3>4
  <2> QED
    BY <2>1, <2>4, <2>5, <2>6
<1> QED
  BY <1>1, IeeeTyped, PTL
=============================================================================
