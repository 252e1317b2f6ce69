---------------------------- MODULE Coprocessors ----------------------------
(***************************************************************************)
(* The coprocessors a program reaches through its bus: the FP32 unit, and  *)
(* beside it the multiplier (MDU) and the 32-bit integer unit, which both  *)
(* testbench.sv and the emulator have.  One program drives both systems,   *)
(* so that what its loads return can be compared.                          *)
(*                                                                         *)
(* In the RTL the integer results are combinational.  The emulator has     *)
(* them as state: Multiplier computes when an operand is stored,           *)
(* WideIntCoprocessor when the main loop ticks it, before an instruction   *)
(* is fetched.  Words have WordBits bits, 16 in the code.                  *)
(***************************************************************************)
EXTENDS Fp32Coprocessor, Bits

CONSTANTS
    WordBits,
    Commands,   \* what a program stores in the command register
    Programs    \* the sets of devices a program may use

ASSUME WordBitsAssumption == WordBits \in {1, 2, 4, 8, 16}

VARIABLES
    mdu,            \* mdu_param_a and mdu_param_b of testbench.sv
    multiplier,     \* a, b, outLow and outHigh of Multiplier
    int32,          \* int32_a, int32_b, int32_cmd of testbench.sv
    wide,           \* A, B, command, outLow and outHigh of WideIntCoprocessor
    last_stored,    \* the multiplier operand stored last (history)
    driven          \* the devices this program uses

intVars == <<mdu, multiplier, int32, wide, last_stored>>
copVars == <<fpVars, intVars, driven>>

Modulus == 2^WordBits
Words == 0 .. Modulus - 1

Pair(n) == [lo |-> n % Modulus, hi |-> (n \div Modulus) % Modulus]
Full(p) == p.lo + Modulus * p.hi

IntInit ==
    /\ mdu = [a |-> 0, b |-> 0]
    /\ multiplier = [a |-> 0, b |-> 0, out |-> Pair(0)]
    /\ int32 = [a |-> Pair(0), b |-> Pair(0), cmd |-> 7]
    /\ wide = [a |-> Pair(0), b |-> Pair(0), cmd |-> 0, out |-> Pair(0)]
    /\ last_stored = "none"

-----------------------------------------------------------------------------
(* The multiplier                                                          *)

mdu_product == Pair(mdu.a * mdu.b)

AsSigned(x) == IF x >= Modulus \div 2 THEN x - Modulus ELSE x

multiplySigned(x, y) == Pair(AsSigned(x) * AsSigned(y))
multiplyUnsigned(x, y) == Pair(x * y)

\* Faulty: both operands compute a signed product.
MultiplierStoreBSigned(d) ==
    multiplier' = [multiplier EXCEPT !.b = d, !.out = multiplySigned(multiplier.a, d)]

MultiplierStoreA(d) ==
    multiplier' = [multiplier EXCEPT !.a = d, !.out = multiplySigned(d, multiplier.b)]

MultiplierStoreB(d) ==
    multiplier' = [multiplier EXCEPT !.b = d, !.out = multiplyUnsigned(multiplier.a, d)]

StoreFactorA(d) ==
    /\ mdu' = [mdu EXCEPT !.a = d]
    /\ MultiplierStoreA(d)
    /\ last_stored' = "a"
    /\ UNCHANGED <<int32, wide>>

StoreFactorB(d) ==
    /\ mdu' = [mdu EXCEPT !.b = d]
    /\ MultiplierStoreB(d)
    /\ last_stored' = "b"
    /\ UNCHANGED <<int32, wide>>
-----------------------------------------------------------------------------
(* The 32-bit integer unit                                                 *)

ShiftAmount(n) == n % (2 * WordBits)

\* What both compute for a command they know.
Combine(cmd, a, b) ==
    CASE cmd = 0 -> Pair(a + b)
      [] cmd = 1 -> Pair(a - b)
      [] cmd = 2 -> Pair(a * 2^ShiftAmount(b))
      [] cmd = 3 -> Pair(a \div 2^ShiftAmount(b))
      [] cmd = 4 -> Pair(And(2 * WordBits, a, b))
      [] cmd = 5 -> Pair(Or(2 * WordBits, a, b))
      [] cmd = 6 -> Pair(ExclusiveOr(2 * WordBits, a, b))
      [] OTHER -> Pair(0)

int32_result == Combine(int32.cmd, Full(int32.a), Full(int32.b))

\* Faulty: the emulator misses the borrow out of the low word.
WideTickByHalves ==
    wide' = [wide EXCEPT !.out =
               IF wide.cmd = 1
                 THEN [lo |-> (wide.a.lo - wide.b.lo) % Modulus,
                       hi |-> (wide.a.hi - wide.b.hi) % Modulus]
                 ELSE Combine(wide.cmd, Full(wide.a), Full(wide.b))]

WideTick ==
    wide' = [wide EXCEPT !.out = Combine(wide.cmd, Full(wide.a), Full(wide.b))]

StoreLongA(half, d) ==
    /\ int32' = [int32 EXCEPT !.a[half] = d]
    /\ wide' = [wide EXCEPT !.a[half] = d]
    /\ UNCHANGED <<mdu, multiplier, last_stored>>

StoreLongB(half, d) ==
    /\ int32' = [int32 EXCEPT !.b[half] = d]
    /\ wide' = [wide EXCEPT !.b[half] = d]
    /\ UNCHANGED <<mdu, multiplier, last_stored>>

\* The RTL keeps three bits of the command.
StoreCommand(c) ==
    /\ int32' = [int32 EXCEPT !.cmd = c % 8]
    /\ wide' = [wide EXCEPT !.cmd = c]
    /\ UNCHANGED <<mdu, multiplier, last_stored>>
-----------------------------------------------------------------------------
FactorStore == \E d \in Words : StoreFactorA(d) \/ StoreFactorB(d)

LongStore ==
    \/ \E half \in {"lo", "hi"}, d \in Words : StoreLongA(half, d) \/ StoreLongB(half, d)
    \/ \E c \in Commands : StoreCommand(c)

\* A tick of the emulator's devices comes between two instructions; the
\* multiplier's does nothing.
EmuTick == WideTick /\ UNCHANGED <<mdu, multiplier, int32, last_stored>>

\* A clock without a store to the FP32 unit.
IntClock ==
    \/ phase = "ACCESS" /\ "MDU" \in driven /\ FactorStore
    \/ phase = "ACCESS" /\ "INT32" \in driven /\ LongStore
    \/ phase = "FETCH" /\ EmuTick
    \/ phase # "FETCH" /\ UNCHANGED intVars

CopInit == FpInit /\ IntInit /\ driven \in Programs

CopClock ==
    /\ Pace /\ Fsm
    /\ \/ "FP32" \in driven /\ FpStore /\ UNCHANGED intVars
       \/ NoStore /\ IntClock
    /\ UNCHANGED driven

CopSpec == CopInit /\ [][CopClock]_copVars

\* The clock never stops.
FairCopSpec == CopSpec /\ WF_copVars(CopClock)
-----------------------------------------------------------------------------
(* Properties                                                              *)

\* However stores and loads follow one another, a load from the emulator's
\* 32-bit integer unit returns what the emulator's own command makes of the
\* operands the RTL has at that moment, and that is what the RTL returns
\* whenever the commands are the same one.  They differ in two cases only:
\* until a command is stored the RTL has 7 and the emulator 0, and of a command
\* beyond 7 the RTL keeps three bits.
WideAgrees ==
    /\ int32.cmd = wide.cmd % 8 \/ (int32.cmd = 7 /\ wide.cmd = 0)
    /\ phase = "ACCESS" =>
         /\ wide.out = Combine(wide.cmd, Full(int32.a), Full(int32.b))
         /\ wide.cmd = int32.cmd => wide.out = int32_result

\* The low word of a product is the same in both systems at any time.  The
\* high word is the RTL's unsigned one if operand B was stored last: a store of
\* A makes the emulator's product signed, a store of B unsigned.  Before any
\* store, and of factors without a sign bit, it is the same too.
ProductAgrees ==
    /\ multiplier.out.lo = mdu_product.lo
    /\ last_stored # "a" \/ (mdu.a < Modulus \div 2 /\ mdu.b < Modulus \div 2)
         => multiplier.out.hi = mdu_product.hi
=============================================================================
