--------------------------- MODULE LibraryProofs ----------------------------
(***************************************************************************)
(* Proofs about the 32-bit routines of the function library: for every     *)
(* word size, all arguments and whatever the carry latch holds when they   *)
(* are called, they compute on double words.                               *)
(***************************************************************************)
EXTENDS FunctionsLibrary, TLAPS

\* The routines run on design.sv, or on the emulator.
OnRtl ==
    \A op \in 1 .. 8, m \in BOOLEAN, x, y \in Words, c \in {0, 1} :
        Unit(op, m, x, y, c) = RtlAlu(op, m, x, y, c)

OnEmulator ==
    \A op \in 1 .. 8, m \in BOOLEAN, x, y \in Words, c \in {0, 1} :
        Unit(op, m, x, y, c) = EmuAlu(op, m, x, y, c)
-----------------------------------------------------------------------------
(* Words                                                                   *)

LEMMA Powers ==
    \/ WordBits = 2 /\ Modulus = 4 /\ SignBit = 2
    \/ WordBits = 4 /\ Modulus = 16 /\ SignBit = 8
    \/ WordBits = 8 /\ Modulus = 256 /\ SignBit = 128
    \/ WordBits = 16 /\ Modulus = 65536 /\ SignBit = 32768
<1>1. CASE WordBits = 2
  BY <1>1 DEF Modulus, SignBit
<1>2. CASE WordBits = 4
  BY <1>2 DEF Modulus, SignBit
<1>3. CASE WordBits = 8
  BY <1>3 DEF Modulus, SignBit
<1>4. CASE WordBits = 16
  BY <1>4 DEF Modulus, SignBit
<1> QED
  BY <1>1, <1>2, <1>3, <1>4, WordBitsAssumption, LongEnough

LEMMA ModulusType == Modulus \in Nat /\ Modulus >= 4
BY Powers

LEMMA WordType == \A n \in Int : n % Modulus \in Words
BY ModulusType DEF Words

LEMMA OneIsWord == 1 \in Words
BY ModulusType DEF Words

\* The bit that a shift by one moves out of a word.
LEMMA TopBit ==
    ASSUME NEW x \in Words
    PROVE  /\ Amount(1) = 1
           /\ ShiftLeft(x, 1) = (2 * x) % Modulus
           /\ BitOf(x, WordBits - 1) = (2 * x) \div Modulus
<1>1. WordBits \in Nat /\ Amount(1) = 1
  BY Powers DEF Amount
<1>2. ShiftLeft(x, 1) = (2 * x) % Modulus
  <2>1. x \in Int /\ 2^1 = 2
    BY ModulusType DEF Words
  <2> QED
    BY <2>1 DEF ShiftLeft
<1>3. BitOf(x, WordBits - 1) = (x \div SignBit) % 2
  BY DEF BitOf, SignBit
<1>4. (x \div SignBit) % 2 = (2 * x) \div Modulus
  BY Powers DEF Words
<1> QED
  BY <1>1, <1>2, <1>3, <1>4

\* The carry and the borrow out of a low word are 0 or 1.
LEMMA Carries ==
    ASSUME NEW x \in Words, NEW y \in Words
    PROVE  /\ (x + y) \div Modulus \in {0, 1}
           /\ (2 * x) \div Modulus \in {0, 1}
           /\ -((x - y) \div Modulus) \in {0, 1}
           /\ x - y < 0 => -((x - y) \div Modulus) = 1
           /\ x - y >= 0 => -((x - y) \div Modulus) = 0
BY Powers DEF Words
-----------------------------------------------------------------------------
(* The instructions                                                        *)

LEMMA UnitAdds ==
    ASSUME OnRtl \/ OnEmulator,
           NEW m \in BOOLEAN, ~m, NEW x \in Words, NEW y \in Words, NEW c \in {0, 1}
    PROVE  /\ Unit(1, m, x, y, c).val = (x + y) % Modulus
           /\ Unit(1, m, x, y, c).carry = (x + y) \div Modulus
<1>0. x \in Int /\ y \in Int /\ c \in Int
  BY ModulusType DEF Words
<1>1. CASE OnRtl
  <2>1. Unit(1, m, x, y, c) = RtlAlu(1, m, x, y, c)
    BY <1>1 DEF OnRtl
  <2> QED
    BY <1>0, <2>1 DEF RtlAlu, Result
<1>2. CASE OnEmulator
  <2>1. Unit(1, m, x, y, c) = EmuAlu(1, m, x, y, c)
    BY <1>2 DEF OnEmulator
  <2> QED
    BY <1>0, <2>1 DEF EmuAlu, Result
<1> QED
  BY <1>1, <1>2

LEMMA UnitAddsCarry ==
    ASSUME OnRtl \/ OnEmulator,
           NEW m \in BOOLEAN, NEW x \in Words, NEW y \in Words, NEW c \in {0, 1}
    PROVE  m => Unit(1, m, x, y, c).val = (x + y + c) % Modulus
<1>0. x \in Int /\ y \in Int /\ c \in Int
  BY ModulusType DEF Words
<1>1. CASE OnRtl
  <2>1. Unit(1, m, x, y, c) = RtlAlu(1, m, x, y, c)
    BY <1>1 DEF OnRtl
  <2>2. RtlAlu(1, m, x, y, c).val = (x + y + (IF m THEN c ELSE 0)) % Modulus
    BY DEF RtlAlu, Result
  <2> QED
    BY <2>1, <2>2
<1>2. CASE OnEmulator
  <2>1. Unit(1, m, x, y, c) = EmuAlu(1, m, x, y, c)
    BY <1>2 DEF OnEmulator
  <2>2. EmuAlu(1, m, x, y, c).val = (x + y + (IF m THEN c ELSE 0)) % Modulus
    BY DEF EmuAlu, Result
  <2> QED
    BY <2>1, <2>2
<1> QED
  BY <1>1, <1>2

\* On the emulator SUB leaves no borrow.
LEMMA UnitSubtracts ==
    ASSUME OnRtl,
           NEW m \in BOOLEAN, ~m, NEW x \in Words, NEW y \in Words, NEW c \in {0, 1}
    PROVE  /\ Unit(2, m, x, y, c).val = (x - y) % Modulus
           /\ Unit(2, m, x, y, c).carry = -((x - y) \div Modulus)
<1>0. x \in Int /\ y \in Int
  BY ModulusType DEF Words
<1>1. Unit(2, m, x, y, c) = RtlAlu(2, m, x, y, c)
  BY DEF OnRtl
<1>2. -((x - y) \div Modulus) = IF x - y < 0 THEN 1 ELSE 0
  BY <1>0, Carries
<1> QED
  BY <1>0, <1>1, <1>2 DEF RtlAlu, Result

LEMMA UnitSubtractsBorrow ==
    ASSUME OnRtl,
           NEW m \in BOOLEAN, NEW x \in Words, NEW y \in Words, NEW c \in {0, 1}
    PROVE  m => Unit(2, m, x, y, c).val = (x - y - c) % Modulus
<1>0. x \in Int /\ y \in Int /\ c \in Int
  BY ModulusType DEF Words
<1>1. Unit(2, m, x, y, c) = RtlAlu(2, m, x, y, c)
  BY DEF OnRtl
<1>2. RtlAlu(2, m, x, y, c).val = (x - y - (IF m THEN c ELSE 0)) % Modulus
  BY DEF RtlAlu, Result
<1> QED
  BY <1>1, <1>2

LEMMA UnitShifts ==
    ASSUME OnRtl \/ OnEmulator,
           NEW m \in BOOLEAN, ~m, NEW x \in Words, NEW c \in {0, 1}
    PROVE  /\ Unit(7, m, x, 1, c).val = (2 * x) % Modulus
           /\ Unit(7, m, x, 1, c).carry = (2 * x) \div Modulus
<1>0. ((2 * x) % Modulus) % Modulus = (2 * x) % Modulus
  BY ModulusType DEF Words
<1>1. CASE OnRtl
  <2>1. Unit(7, m, x, 1, c) = RtlAlu(7, m, x, 1, c)
    BY <1>1, OneIsWord DEF OnRtl
  <2>2. RtlAlu(7, m, x, 1, c) = Result(ShiftLeft(x, 1), BitOf(x, WordBits - 1))
    BY TopBit DEF RtlAlu
  <2> QED
    BY <1>0, <2>1, <2>2, TopBit DEF Result
<1>2. CASE OnEmulator
  <2>1. Unit(7, m, x, 1, c) = EmuAlu(7, m, x, 1, c)
    BY <1>2, OneIsWord DEF OnEmulator
  <2>2. EmuAlu(7, m, x, 1, c) = Result(ShiftLeft(x, 1), BitOf(x, WordBits - 1))
    BY TopBit DEF EmuAlu
  <2> QED
    BY <1>0, <2>1, <2>2, TopBit DEF Result
<1> QED
  BY <1>1, <1>2
-----------------------------------------------------------------------------
(* The instructions of the routines                                        *)

Typed == R \in [0 .. 3 -> Words] /\ carry \in {0, 1}

LEMMA AddLow ==
    ASSUME OnRtl \/ OnEmulator, ExecuteOne, Typed, routine = "AddI32", at = 1
    PROVE  /\ R' = [R EXCEPT ![0] = (R[0] + R[2]) % Modulus]
           /\ carry' = (R[0] + R[2]) \div Modulus
           /\ at' = 2
<1>1. PICK i : i = RegIns(OpAdd, FALSE, 0, 0, 2)
  OBVIOUS
<1>2. i = Code[routine][at]
  BY <1>1 DEF Code, AddI32
<1>3. i.op = 1 /\ i.d = 0 /\ i.x = 0 /\ i.y = 2 /\ ~i.imm
  BY <1>1 DEF RegIns, OpAdd
<1>m. i.m \in BOOLEAN /\ ~i.m
  BY <1>1 DEF RegIns, OpAdd
<1>4. /\ R' = [R EXCEPT ![0] = Unit(1, i.m, R[0], R[2], carry).val]
      /\ carry' = Unit(1, i.m, R[0], R[2], carry).carry
      /\ at' = 2
  BY <1>2, <1>3 DEF ExecuteOne, OpJeq
<1>5. R[0] \in Words /\ R[2] \in Words /\ carry \in {0, 1}
  BY DEF Typed
<1>6. /\ Unit(1, i.m, R[0], R[2], carry).val = (R[0] + R[2]) % Modulus
      /\ Unit(1, i.m, R[0], R[2], carry).carry = (R[0] + R[2]) \div Modulus
  BY <1>m, <1>5, UnitAdds
<1> QED
  BY <1>4, <1>6

LEMMA AddHigh ==
    ASSUME OnRtl \/ OnEmulator, ExecuteOne, Typed, routine = "AddI32", at = 2
    PROVE  R' = [R EXCEPT ![1] = (R[1] + R[3] + carry) % Modulus] /\ at' = 3
<1>1. PICK i : i = RegIns(OpAdd, TRUE, 1, 1, 3)
  OBVIOUS
<1>2. i = Code[routine][at]
  BY <1>1 DEF Code, AddI32
<1>3. i.op = 1 /\ i.d = 1 /\ i.x = 1 /\ i.y = 3 /\ ~i.imm
  BY <1>1 DEF RegIns, OpAdd
<1>m. i.m \in BOOLEAN /\ i.m
  BY <1>1 DEF RegIns, OpAdd
<1>4. /\ R' = [R EXCEPT ![1] = Unit(1, i.m, R[1], R[3], carry).val]
      /\ carry' = Unit(1, i.m, R[1], R[3], carry).carry
      /\ at' = 3
  BY <1>2, <1>3 DEF ExecuteOne, OpJeq
<1>5. R[1] \in Words /\ R[3] \in Words /\ carry \in {0, 1}
  BY DEF Typed
<1>6. Unit(1, i.m, R[1], R[3], carry).val = (R[1] + R[3] + carry) % Modulus
  BY <1>m, <1>5, UnitAddsCarry
<1> QED
  BY <1>4, <1>6

LEMMA SubLow ==
    ASSUME OnRtl, ExecuteOne, Typed, routine = "SubI32", at = 1
    PROVE  /\ R' = [R EXCEPT ![0] = (R[0] - R[2]) % Modulus]
           /\ carry' = -((R[0] - R[2]) \div Modulus)
           /\ at' = 2
<1>1. PICK i : i = RegIns(OpSub, FALSE, 0, 0, 2)
  OBVIOUS
<1>2. i = Code[routine][at]
  BY <1>1 DEF Code, SubI32
<1>3. i.op = 2 /\ i.d = 0 /\ i.x = 0 /\ i.y = 2 /\ ~i.imm
  BY <1>1 DEF RegIns, OpSub
<1>m. i.m \in BOOLEAN /\ ~i.m
  BY <1>1 DEF RegIns, OpSub
<1>4. /\ R' = [R EXCEPT ![0] = Unit(2, i.m, R[0], R[2], carry).val]
      /\ carry' = Unit(2, i.m, R[0], R[2], carry).carry
      /\ at' = 2
  BY <1>2, <1>3 DEF ExecuteOne, OpJeq
<1>5. R[0] \in Words /\ R[2] \in Words /\ carry \in {0, 1}
  BY DEF Typed
<1>6. /\ Unit(2, i.m, R[0], R[2], carry).val = (R[0] - R[2]) % Modulus
      /\ Unit(2, i.m, R[0], R[2], carry).carry = -((R[0] - R[2]) \div Modulus)
  BY <1>m, <1>5, UnitSubtracts
<1> QED
  BY <1>4, <1>6

LEMMA SubHigh ==
    ASSUME OnRtl, ExecuteOne, Typed, routine = "SubI32", at = 2
    PROVE  R' = [R EXCEPT ![1] = (R[1] - R[3] - carry) % Modulus] /\ at' = 3
<1>1. PICK i : i = RegIns(OpSub, TRUE, 1, 1, 3)
  OBVIOUS
<1>2. i = Code[routine][at]
  BY <1>1 DEF Code, SubI32
<1>3. i.op = 2 /\ i.d = 1 /\ i.x = 1 /\ i.y = 3 /\ ~i.imm
  BY <1>1 DEF RegIns, OpSub
<1>m. i.m \in BOOLEAN /\ i.m
  BY <1>1 DEF RegIns, OpSub
<1>4. /\ R' = [R EXCEPT ![1] = Unit(2, i.m, R[1], R[3], carry).val]
      /\ carry' = Unit(2, i.m, R[1], R[3], carry).carry
      /\ at' = 3
  BY <1>2, <1>3 DEF ExecuteOne, OpJeq
<1>5. R[1] \in Words /\ R[3] \in Words /\ carry \in {0, 1}
  BY DEF Typed
<1>6. Unit(2, i.m, R[1], R[3], carry).val = (R[1] - R[3] - carry) % Modulus
  BY <1>m, <1>5, UnitSubtractsBorrow
<1> QED
  BY <1>4, <1>6

LEMMA ShlLow ==
    ASSUME OnRtl \/ OnEmulator, ExecuteOne, Typed, routine = "ShlI32_1", at = 1
    PROVE  /\ R' = [R EXCEPT ![0] = (2 * R[0]) % Modulus]
           /\ carry' = (2 * R[0]) \div Modulus
           /\ at' = 2
<1>1. PICK i : i = ImmIns(OpShl, FALSE, 0, 0, 1)
  OBVIOUS
<1>2. i = Code[routine][at]
  BY <1>1 DEF Code, ShlI32_1
<1>3. i.op = 7 /\ i.d = 0 /\ i.x = 0 /\ i.y = 1 /\ i.imm
  BY <1>1 DEF ImmIns, OpShl
<1>m. i.m \in BOOLEAN /\ ~i.m
  BY <1>1 DEF ImmIns, OpShl
<1>4. /\ R' = [R EXCEPT ![0] = Unit(7, i.m, R[0], 1, carry).val]
      /\ carry' = Unit(7, i.m, R[0], 1, carry).carry
      /\ at' = 2
  BY <1>2, <1>3 DEF ExecuteOne, OpJeq
<1>5. R[0] \in Words /\ carry \in {0, 1}
  BY DEF Typed
<1>6. /\ Unit(7, i.m, R[0], 1, carry).val = (2 * R[0]) % Modulus
      /\ Unit(7, i.m, R[0], 1, carry).carry = (2 * R[0]) \div Modulus
  BY <1>m, <1>5, UnitShifts
<1> QED
  BY <1>4, <1>6

LEMMA ShlHigh ==
    ASSUME OnRtl \/ OnEmulator, ExecuteOne, Typed, routine = "ShlI32_1", at = 2
    PROVE  R' = [R EXCEPT ![1] = (R[1] + R[1] + carry) % Modulus] /\ at' = 3
<1>1. PICK i : i = RegIns(OpAdd, TRUE, 1, 1, 1)
  OBVIOUS
<1>2. i = Code[routine][at]
  BY <1>1 DEF Code, ShlI32_1
<1>3. i.op = 1 /\ i.d = 1 /\ i.x = 1 /\ i.y = 1 /\ ~i.imm
  BY <1>1 DEF RegIns, OpAdd
<1>m. i.m \in BOOLEAN /\ i.m
  BY <1>1 DEF RegIns, OpAdd
<1>4. /\ R' = [R EXCEPT ![1] = Unit(1, i.m, R[1], R[1], carry).val]
      /\ carry' = Unit(1, i.m, R[1], R[1], carry).carry
      /\ at' = 3
  BY <1>2, <1>3 DEF ExecuteOne, OpJeq
<1>5. R[1] \in Words /\ carry \in {0, 1}
  BY DEF Typed
<1>6. Unit(1, i.m, R[1], R[1], carry).val = (R[1] + R[1] + carry) % Modulus
  BY <1>m, <1>5, UnitAddsCarry
<1> QED
  BY <1>4, <1>6
-----------------------------------------------------------------------------
(* Double words                                                            *)

\* A carry out of the low word, counted in the high word, is all there is to
\* arithmetic on double words.
LEMMA HalvesAreLong ==
    ASSUME NEW lo \in Int, NEW hi \in Int
    PROVE  (lo % Modulus) + Modulus * ((hi + lo \div Modulus) % Modulus)
             = (lo + Modulus * hi) % LongModulus
<1>1. CASE Modulus = 4
  BY <1>1 DEF LongModulus
<1>2. CASE Modulus = 16
  BY <1>2 DEF LongModulus
<1>3. CASE Modulus = 256
  BY <1>3 DEF LongModulus
<1>4. CASE Modulus = 65536
  BY <1>4 DEF LongModulus
<1> QED
  BY <1>1, <1>2, <1>3, <1>4, Powers
-----------------------------------------------------------------------------
(* The inductive invariants: what is in the registers before, between and  *)
(* after the instructions for the low and for the high words.              *)

ArgsTyped == args \in [R : [0 .. 3 -> Words], carry : {0, 1}]

Called == R = args.R /\ carry = args.carry

\* The low word is in R0 and what leaves it in the carry latch.
HalfDone(low, out) ==
    R = [args.R EXCEPT ![0] = low % Modulus] /\ carry = out

Stages(low, out, answer) ==
    /\ at \in 1 .. 3
    /\ at = 1 => Called
    /\ at = 2 => HalfDone(low, out)
    /\ at = 3 => Ret = answer % LongModulus

LowSum == args.R[0] + args.R[2]
LowDifference == args.R[0] - args.R[2]
Borrow == -(LowDifference \div Modulus)
LowDouble == 2 * args.R[0]

AddInv ==
    ArgsTyped /\ (routine = "AddI32" => Stages(LowSum, LowSum \div Modulus, A + B))

SubInv ==
    ArgsTyped /\ (routine = "SubI32" =>
                    Stages(LowDifference, Borrow, A - B))

ShlInv ==
    ArgsTyped /\ (routine = "ShlI32_1" => Stages(LowDouble, LowDouble \div Modulus, 2 * A))

LEMMA LibInvInit == LibInit => AddInv /\ SubInv /\ ShlInv
BY DEF LibInit, AddInv, SubInv, ShlInv, ArgsTyped, Stages, Called

LEMMA ArgsKept == [LibNext]_libVars => UNCHANGED <<routine, args>> /\ (ArgsTyped => ArgsTyped')
BY DEF LibNext, ExecuteOne, Returned, libVars, ArgsTyped

LEMMA ArgWords == ArgsTyped => \A i \in 0 .. 3 : args.R[i] \in Words /\ args.R[i] \in Int
BY ModulusType DEF ArgsTyped, Words

LEMMA AddInvStep ==
    ASSUME OnRtl \/ OnEmulator, AddInv, [LibNext]_libVars
    PROVE  AddInv'
<1> SUFFICES ASSUME routine = "AddI32"
             PROVE  Stages(LowSum, LowSum \div Modulus, A + B)'
  BY ArgsKept DEF AddInv
<1>0. ArgsTyped /\ UNCHANGED <<routine, args>>
  BY ArgsKept DEF AddInv
<1>a. \A i \in 0 .. 3 : args.R[i] \in Words /\ args.R[i] \in Int
  BY <1>0, ArgWords
<1>1. Stages(LowSum, LowSum \div Modulus, A + B)
  BY DEF AddInv
<1>2. CASE UNCHANGED libVars
  BY <1>1, <1>2 DEF libVars, Stages, Called, HalfDone, Ret, LowSum, A, B
<1>3. CASE ExecuteOne /\ at = 1
  <2>1. Called /\ Typed
    BY <1>0, <1>1, <1>3 DEF Stages, Called, ArgsTyped, Typed
  <2>2. R' = [R EXCEPT ![0] = (R[0] + R[2]) % Modulus] /\ carry' = (R[0] + R[2]) \div Modulus /\ at' = 2
    BY <1>3, <2>1, AddLow
  <2>3. HalfDone(LowSum, LowSum \div Modulus)'
    BY <1>0, <2>1, <2>2 DEF HalfDone, Called, LowSum
  <2> QED
    BY <2>2, <2>3 DEF Stages
<1>4. CASE ExecuteOne /\ at = 2
  <2>1. HalfDone(LowSum, LowSum \div Modulus)
    BY <1>1, <1>4 DEF Stages
  <2>2. LowSum \in Int /\ LowSum \div Modulus \in {0, 1}
    BY <1>a, Carries DEF LowSum
  <2>3. Typed
    BY <1>0, <2>1, <2>2, WordType DEF HalfDone, ArgsTyped, Typed
  <2>4. R' = [R EXCEPT ![1] = (R[1] + R[3] + carry) % Modulus] /\ at' = 3
    BY <1>4, <2>3, AddHigh
  <2>5. /\ R'[0] = LowSum % Modulus
        /\ R'[1] = (args.R[1] + args.R[3] + LowSum \div Modulus) % Modulus
    BY <1>0, <2>1, <2>4 DEF HalfDone, ArgsTyped
  <2>6. args.R[1] + args.R[3] \in Int /\ LowSum + Modulus * (args.R[1] + args.R[3]) = A + B
    BY <1>a, ModulusType DEF LowSum, A, B
  <2>7. R'[1] = (args.R[1] + args.R[3] + LowSum \div Modulus) % Modulus
    BY <1>a, <2>5
  <2>9. Ret' = (A + B) % LongModulus
    BY <2>2, <2>5, <2>6, <2>7, HalvesAreLong DEF Ret
  <2> QED
    BY <1>0, <2>4, <2>9 DEF Stages, A, B, LongModulus
<1>5. CASE ExecuteOne /\ at = 3
  BY <1>5 DEF ExecuteOne, Finished, Code, AddI32
<1> QED
  BY <1>1, <1>2, <1>3, <1>4, <1>5 DEF LibNext, Returned, Stages

LEMMA SubInvStep ==
    ASSUME OnRtl, SubInv, [LibNext]_libVars
    PROVE  SubInv'
<1> SUFFICES ASSUME routine = "SubI32"
             PROVE  Stages(LowDifference, Borrow, A - B)'
  BY ArgsKept DEF SubInv
<1>0. ArgsTyped /\ UNCHANGED <<routine, args>>
  BY ArgsKept DEF SubInv
<1>a. \A i \in 0 .. 3 : args.R[i] \in Words /\ args.R[i] \in Int
  BY <1>0, ArgWords
<1>1. Stages(LowDifference, Borrow, A - B)
  BY DEF SubInv
<1>2. CASE UNCHANGED libVars
  BY <1>1, <1>2 DEF libVars, Stages, Called, HalfDone, Ret, LowDifference, Borrow, A, B
<1>3. CASE ExecuteOne /\ at = 1
  <2>1. Called /\ Typed
    BY <1>0, <1>1, <1>3 DEF Stages, Called, ArgsTyped, Typed
  <2>2. R' = [R EXCEPT ![0] = (R[0] - R[2]) % Modulus] /\ carry' = -((R[0] - R[2]) \div Modulus) /\ at' = 2
    BY <1>3, <2>1, SubLow
  <2>3. HalfDone(LowDifference, Borrow)'
    BY <1>0, <2>1, <2>2 DEF HalfDone, Called, LowDifference, Borrow
  <2> QED
    BY <2>2, <2>3 DEF Stages
<1>4. CASE ExecuteOne /\ at = 2
  <2>1. HalfDone(LowDifference, Borrow)
    BY <1>1, <1>4 DEF Stages
  <2>2. LowDifference \in Int /\ Borrow \in {0, 1}
    BY <1>a, Carries DEF LowDifference, Borrow
  <2>3. Typed
    BY <1>0, <2>1, <2>2, WordType DEF HalfDone, ArgsTyped, Typed
  <2>4. R' = [R EXCEPT ![1] = (R[1] - R[3] - carry) % Modulus] /\ at' = 3
    BY <1>4, <2>3, SubHigh
  <2>5. /\ R'[0] = LowDifference % Modulus
        /\ R'[1] = (args.R[1] - args.R[3] - Borrow) % Modulus
    BY <1>0, <2>1, <2>4 DEF HalfDone, ArgsTyped
  <2>6. args.R[1] - args.R[3] \in Int /\ LowDifference + Modulus * (args.R[1] - args.R[3]) = A - B
    BY <1>a, ModulusType DEF LowDifference, A, B
  <2>7. R'[1] = (args.R[1] - args.R[3] + LowDifference \div Modulus) % Modulus
    BY <1>a, <2>2, <2>5, ModulusType DEF Borrow
  <2>9. Ret' = (A - B) % LongModulus
    BY <2>2, <2>5, <2>6, <2>7, HalvesAreLong DEF Ret
  <2> QED
    BY <1>0, <2>4, <2>9 DEF Stages, A, B, LongModulus
<1>5. CASE ExecuteOne /\ at = 3
  BY <1>5 DEF ExecuteOne, Finished, Code, SubI32
<1> QED
  BY <1>1, <1>2, <1>3, <1>4, <1>5 DEF LibNext, Returned, Stages

LEMMA ShlInvStep ==
    ASSUME OnRtl \/ OnEmulator, ShlInv, [LibNext]_libVars
    PROVE  ShlInv'
<1> SUFFICES ASSUME routine = "ShlI32_1"
             PROVE  Stages(LowDouble, LowDouble \div Modulus, 2 * A)'
  BY ArgsKept DEF ShlInv
<1>0. ArgsTyped /\ UNCHANGED <<routine, args>>
  BY ArgsKept DEF ShlInv
<1>a. \A i \in 0 .. 3 : args.R[i] \in Words /\ args.R[i] \in Int
  BY <1>0, ArgWords
<1>1. Stages(LowDouble, LowDouble \div Modulus, 2 * A)
  BY DEF ShlInv
<1>2. CASE UNCHANGED libVars
  BY <1>1, <1>2 DEF libVars, Stages, Called, HalfDone, Ret, LowDouble, A, B
<1>3. CASE ExecuteOne /\ at = 1
  <2>1. Called /\ Typed
    BY <1>0, <1>1, <1>3 DEF Stages, Called, ArgsTyped, Typed
  <2>2. R' = [R EXCEPT ![0] = (2 * R[0]) % Modulus] /\ carry' = (2 * R[0]) \div Modulus /\ at' = 2
    BY <1>3, <2>1, ShlLow
  <2>3. HalfDone(LowDouble, LowDouble \div Modulus)'
    BY <1>0, <2>1, <2>2 DEF HalfDone, Called, LowDouble
  <2> QED
    BY <2>2, <2>3 DEF Stages
<1>4. CASE ExecuteOne /\ at = 2
  <2>1. HalfDone(LowDouble, LowDouble \div Modulus)
    BY <1>1, <1>4 DEF Stages
  <2>2. LowDouble \in Int /\ LowDouble \div Modulus \in {0, 1}
    BY <1>a, Carries DEF LowDouble
  <2>3. Typed
    BY <1>0, <2>1, <2>2, WordType DEF HalfDone, ArgsTyped, Typed
  <2>4. R' = [R EXCEPT ![1] = (R[1] + R[1] + carry) % Modulus] /\ at' = 3
    BY <1>4, <2>3, ShlHigh
  <2>5. /\ R'[0] = LowDouble % Modulus
        /\ R'[1] = (args.R[1] + args.R[1] + LowDouble \div Modulus) % Modulus
    BY <1>0, <2>1, <2>4 DEF HalfDone, ArgsTyped
  <2>6. 2 * args.R[1] \in Int /\ LowDouble + Modulus * (2 * args.R[1]) = 2 * A
    BY <1>a, ModulusType DEF LowDouble, A, B
  <2>7. R'[1] = (2 * args.R[1] + LowDouble \div Modulus) % Modulus
    BY <1>a, <2>5
  <2>9. Ret' = (2 * A) % LongModulus
    BY <2>2, <2>5, <2>6, <2>7, HalvesAreLong DEF Ret
  <2> QED
    BY <1>0, <2>4, <2>9 DEF Stages, A, B, LongModulus
<1>5. CASE ExecuteOne /\ at = 3
  BY <1>5 DEF ExecuteOne, Finished, Code, ShlI32_1
<1> QED
  BY <1>1, <1>2, <1>3, <1>4, <1>5 DEF LibNext, Returned, Stages

-----------------------------------------------------------------------------
(* The two arithmetic units                                                *)

\* Where CPU.cpp leaves another carry than design.sv: when only the carry in
\* makes ADD.C overflow, when SUB borrows, when SHL shifts by 0 with the carry
\* set, and when the last bit SHR shifts out is not bit 0.
CarryDiffers(op, m, x, y, c) ==
    \/ op = 1 /\ m /\ c = 1 /\ x + y = Modulus - 1
    \/ op = 2 /\ x - y - (IF m THEN c ELSE 0) < 0
    \/ op = 7 /\ ~m /\ Amount(y) = 0 /\ c = 1
    \/ op = 8 /\ ~m /\ (IF Amount(y) = 0 THEN c ELSE BitOf(x, Amount(y) - 1)) # x % 2

\* The results are always the same, and the carries but for these cases.
THEOREM UnitsCompared ==
    ASSUME NEW op \in 1 .. 8, NEW m \in BOOLEAN,
           NEW x \in Words, NEW y \in Words, NEW c \in {0, 1}
    PROVE  /\ RtlAlu(op, m, x, y, c).val = EmuAlu(op, m, x, y, c).val
           /\ RtlAlu(op, m, x, y, c).carry = EmuAlu(op, m, x, y, c).carry
                <=> ~CarryDiffers(op, m, x, y, c)
<1>0. x \in Int /\ y \in Int /\ Modulus \in Int
  BY ModulusType DEF Words
<1>1. CASE op = 1
  <2>1. CASE m
    <3>1. (c = 1 /\ x + y = Modulus - 1) \/ (x + y + c) \div Modulus = (x + y) \div Modulus
      BY Powers DEF Words
    <3>2. x + y = Modulus - 1 => (x + y + 1) \div Modulus = 1 /\ (x + y) \div Modulus = 0
      BY Powers DEF Words
    <3>3. /\ RtlAlu(op, m, x, y, c) = Result(x + y + c, (x + y + c) \div Modulus)
          /\ EmuAlu(op, m, x, y, c) = Result(x + y + c, (x + y) \div Modulus)
      BY <1>1, <2>1 DEF RtlAlu, EmuAlu
    <3>4. /\ RtlAlu(op, m, x, y, c).val = EmuAlu(op, m, x, y, c).val
          /\ RtlAlu(op, m, x, y, c).carry = (x + y + c) \div Modulus
          /\ EmuAlu(op, m, x, y, c).carry = (x + y) \div Modulus
      BY <3>3 DEF Result
    <3>5. CarryDiffers(op, m, x, y, c) <=> c = 1 /\ x + y = Modulus - 1
      BY <1>1, <2>1 DEF CarryDiffers
    <3>6. (x + y + c) \div Modulus = (x + y) \div Modulus
            <=> ~CarryDiffers(op, m, x, y, c)
      BY <3>1, <3>2, <3>5
    <3> QED
      BY <3>4, <3>6
  <2>2. CASE ~m
    BY <1>0, <1>1, <2>2 DEF RtlAlu, EmuAlu, Result, CarryDiffers
  <2> QED
    BY <2>1, <2>2
<1>2. CASE op = 2
  BY <1>2 DEF RtlAlu, EmuAlu, Result, CarryDiffers
<1>3. CASE op = 7
  BY <1>3 DEF RtlAlu, EmuAlu, Result, CarryDiffers
<1>4. CASE op = 8
  BY <1>4 DEF RtlAlu, EmuAlu, Result, CarryDiffers
<1>5. CASE op \in 3 .. 6
  BY <1>5 DEF RtlAlu, EmuAlu, CarryDiffers
<1> QED
  BY <1>1, <1>2, <1>3, <1>4, <1>5
-----------------------------------------------------------------------------
(* The theorems                                                            *)

\* On design.sv and on the emulator, AddI32 adds double words: for all
\* arguments, and whatever the carry latch holds when it is called, the carry
\* of the low word reaches the high word.
THEOREM AddsLongs ==
    ASSUME OnRtl \/ OnEmulator
    PROVE  LibSpec => []SumCorrect
<1>1. AddInv => SumCorrect
  BY DEF AddInv, Stages, SumCorrect, Finished, Code, AddI32
<1> QED
  BY <1>1, LibInvInit, AddInvStep, PTL DEF LibSpec

\* On design.sv SubI32 subtracts double words.  On the emulator, whose SUB
\* leaves no borrow, it does not.
THEOREM SubtractsLongs ==
    ASSUME OnRtl
    PROVE  LibSpec => []DifferenceCorrect
<1>1. SubInv => DifferenceCorrect
  BY DEF SubInv, Stages, DifferenceCorrect, Finished, Code, SubI32
<1> QED
  BY <1>1, LibInvInit, SubInvStep, PTL DEF LibSpec

\* On both, ShlI32_1 doubles a double word.
THEOREM DoublesLongs ==
    ASSUME OnRtl \/ OnEmulator
    PROVE  LibSpec => []DoubleCorrect
<1>1. ShlInv => DoubleCorrect
  BY DEF ShlInv, Stages, DoubleCorrect, Finished, Code, ShlI32_1
<1> QED
  BY <1>1, LibInvInit, ShlInvStep, PTL DEF LibSpec
=============================================================================
