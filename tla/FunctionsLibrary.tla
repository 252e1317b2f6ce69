-------------------------- MODULE FunctionsLibrary --------------------------
(***************************************************************************)
(* The 32-bit integer routines of functions_library.asm, run instruction   *)
(* by instruction on one of the two arithmetic units of module Alu.  Words *)
(* have WordBits bits, so the constants 0x000F and 0x8000 of the source    *)
(* are written WordBits - 1 and SignBit.                                   *)
(*                                                                         *)
(* The loads of the arguments into R0 to R3 and the stores of the result   *)
(* from R0 (low) and R1 (high) are left out.                               *)
(***************************************************************************)
EXTENDS Alu, Sequences

CONSTANTS
    Unit(_,_,_,_,_),    \* RtlAlu or EmuAlu
    Routines            \* the routines to run

OpAdd == 1
OpSub == 2
OpAnd == 3
OpOr == 4
OpNot == 5
OpShl == 7
OpShr == 8
OpJeq == 12

\* The shift by 1 must fit in the amount of a shift.
ASSUME LongEnough == WordBits > 1

SignBit == 2^(WordBits - 1)

\* op d, x, y on registers (.C if m); the same with an immediate y; and a
\* jump to the n-th instruction if register x is 0.
RegIns(op, m, d, x, y) == [op |-> op, m |-> m, d |-> d, x |-> x, imm |-> FALSE, y |-> y]
ImmIns(op, m, d, x, k) == [op |-> op, m |-> m, d |-> d, x |-> x, imm |-> TRUE, y |-> k]
JumpIfZero(n, x) == ImmIns(OpJeq, FALSE, n, x, 0)

\* Faulty: the high words are added without the carry; the high words are
\* subtracted, and shifted, before the low ones.
AddI32Plain == <<RegIns(OpAdd, FALSE, 0, 0, 2), RegIns(OpAdd, FALSE, 1, 1, 3)>>
SubI32HighFirst == <<RegIns(OpSub, TRUE, 1, 1, 3), RegIns(OpSub, FALSE, 0, 0, 2)>>
ShlI32HighFirst == <<RegIns(OpAdd, TRUE, 1, 1, 1), ImmIns(OpShl, FALSE, 0, 0, 1)>>

AddI32 == <<RegIns(OpAdd, FALSE, 0, 0, 2), RegIns(OpAdd, TRUE, 1, 1, 3)>>

SubI32 == <<RegIns(OpSub, FALSE, 0, 0, 2), RegIns(OpSub, TRUE, 1, 1, 3)>>

NegI32 == <<ImmIns(OpNot, TRUE, 0, 0, 0), ImmIns(OpNot, TRUE, 1, 1, 0),
            ImmIns(OpAdd, FALSE, 0, 0, 1), ImmIns(OpAdd, TRUE, 1, 1, 0)>>

AbsI32 == <<ImmIns(OpAnd, FALSE, 2, 1, SignBit), JumpIfZero(7, 2)>> \o NegI32

ShlI32_1 == <<ImmIns(OpShl, FALSE, 0, 0, 1), RegIns(OpAdd, TRUE, 1, 1, 1)>>

\* The carry into the top bit of R2.
CarryToBit15 == <<RegIns(OpSub, FALSE, 2, 2, 2), RegIns(OpAdd, TRUE, 2, 2, 2),
                  ImmIns(OpShl, FALSE, 2, 2, WordBits - 1)>>

ShrI32_1 == <<ImmIns(OpShr, FALSE, 1, 1, 1)>> \o CarryToBit15
              \o <<ImmIns(OpShr, FALSE, 0, 0, 1), RegIns(OpOr, FALSE, 0, 0, 2)>>

Code == [AddI32 |-> AddI32, SubI32 |-> SubI32, NegI32 |-> NegI32,
         AbsI32 |-> AbsI32, ShlI32_1 |-> ShlI32_1, ShrI32_1 |-> ShrI32_1,
         CarryToBit15 |-> CarryToBit15]

ASSUME RoutineAssumption == Routines \subseteq DOMAIN Code

VARIABLES
    routine,    \* the routine that runs
    args,       \* R0 to R3 and the carry when it was called
    R, carry,   \* the registers it uses, and the carry latch
    at          \* the instruction it executes next

libVars == <<routine, args, R, carry, at>>

LibInit ==
    /\ routine \in Routines
    /\ R \in [0 .. 3 -> Words]
    /\ carry \in {0, 1}
    /\ args = [R |-> R, carry |-> carry]
    /\ at = 1

Finished == at > Len(Code[routine])

ExecuteOne ==
    LET i == Code[routine][at]
        y == IF i.imm THEN i.y ELSE R[i.y]
        out == Unit(i.op, i.m, R[i.x], y, carry)
    IN  /\ ~Finished
        /\ \/ /\ i.op = OpJeq
              /\ at' = IF R[i.x] = y THEN i.d ELSE at + 1
              /\ UNCHANGED <<R, carry>>
           \/ /\ i.op # OpJeq
              /\ R' = [R EXCEPT ![i.d] = out.val]
              /\ carry' = out.carry
              /\ at' = at + 1
        /\ UNCHANGED <<routine, args>>

\* RET: the caller has its result.
Returned == Finished /\ UNCHANGED libVars

LibNext == ExecuteOne \/ Returned

LibSpec == LibInit /\ [][LibNext]_libVars
-----------------------------------------------------------------------------
(* Properties                                                              *)

\* Arguments and result as double words.
LongModulus == Modulus * Modulus
A == args.R[0] + Modulus * args.R[1]
B == args.R[2] + Modulus * args.R[3]
Ret == R[0] + Modulus * R[1]

\* Whatever the carry latch holds when the routine is called, the carry of
\* the low word reaches the high word.
SumCorrect == Finished /\ routine = "AddI32" => Ret = (A + B) % LongModulus

\* The same for the borrow.
DifferenceCorrect == Finished /\ routine = "SubI32" => Ret = (A - B) % LongModulus

\* The bit that leaves the low word enters the high word.
DoubleCorrect == Finished /\ routine = "ShlI32_1" => Ret = (2 * A) % LongModulus
=============================================================================
