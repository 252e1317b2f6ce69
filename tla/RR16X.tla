------------------------------- MODULE RR16X -------------------------------
(***************************************************************************)
(* What every RR16X machine of this repository shares: words, banks and    *)
(* addresses, the fields an instruction word decodes into, its length, and *)
(* the condition a branch evaluates.  The RTL processor (GatewayCpu) and   *)
(* the atomic machine it implements (Isa) are both built on this module.   *)
(***************************************************************************)
EXTENDS Integers, Sequences

CONSTANTS
    WordSize,       \* number of values of a machine word (2^16 in the code)
    BankSize,       \* number of memory banks (2^11 in the code)
    StackSlots,     \* entries of the hardware call stack (256 in the code)
    Instructions,   \* the instruction words a program may contain, decoded
    PowerUp,        \* what the registers may hold after reset
    Alu(_,_,_,_,_)  \* result and carry of an arithmetic or logic instruction

Word == 0 .. WordSize - 1
Bank == 0 .. BankSize - 1
Reg  == 0 .. 7
Bit  == 0 .. 1

\* A 27-bit address: the bank in bits 26..16, the offset in bits 15..0.
Address == [bank : Bank, off : Word]

OpEam == 0
AluOps == 1 .. 8
OpLdm == 9
OpStm == 10
OpStj == 11
OpBranch == 12
OpCal == 13
OpRet == 14
OpHlt == 15

\* The fields of an instruction word, in the order of its bits.
Instruction ==
    [op : 0 .. 15, M : BOOLEAN, D : Reg,
     LX : BOOLEAN, X : Reg, LY : BOOLEAN, Y : Reg]

ASSUME SizeAssumption ==
    /\ WordSize \in Nat /\ WordSize >= 2
    /\ BankSize \in 1 .. WordSize
    /\ StackSlots \in Nat \ {0}

ASSUME ProgramAssumption ==
    /\ Instructions \subseteq Instruction
    /\ PowerUp \subseteq [Reg -> Word]

\* What Alu returns for operands x and y and the carry c before it: the value
\* for register D and the new carry.
ASSUME AluAssumption ==
    \A op \in AluOps, m \in BOOLEAN, x, y \in Word, c \in Bit :
        Alu(op, m, x, y, c) \in [val : Word, carry : Bit]

At(b, o) == [bank |-> b, off |-> o]

\* One word, and one for each immediate operand.
InstructionLength(i) ==
    1 + (IF i.LX THEN 1 ELSE 0) + (IF i.LY THEN 1 ELSE 0)

\* Faulty: the offset is wider than a word.
UnwrappedAdvance(pc, n) == pc + n

\* Offsets wrap within a bank: PC is a plain 16-bit register.
Advance(pc, n) == (pc + n) % WordSize

Signed(x) == IF 2 * x >= WordSize THEN x - WordSize ELSE x

\* The comparison a branch makes.  M is the high bit of the condition code:
\* 0-7 compare as signed numbers, 8-D as unsigned ones.  0 is NIL, 7 is JMP,
\* E and F are never taken.
ConditionMet(i, x, y) ==
    LET sx == Signed(x)
        sy == Signed(y)
    IN  IF i.M THEN \/ i.D = 0 /\ x < y
                    \/ i.D = 1 /\ x = y
                    \/ i.D = 2 /\ x <= y
                    \/ i.D = 3 /\ x > y
                    \/ i.D = 4 /\ x # y
                    \/ i.D = 5 /\ x >= y
               ELSE \/ i.D = 1 /\ sx < sy
                    \/ i.D = 2 /\ x = y
                    \/ i.D = 3 /\ sx <= sy
                    \/ i.D = 4 /\ sx > sy
                    \/ i.D = 5 /\ x # y
                    \/ i.D = 6 /\ sx >= sy
                    \/ i.D = 7
=============================================================================
