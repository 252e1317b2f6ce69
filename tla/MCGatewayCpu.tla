---------------------------- MODULE MCGatewayCpu ----------------------------
(***************************************************************************)
(* Instances of GatewayCpu for TLC: a tiny word, two banks, a call stack   *)
(* of two slots, and one or two instructions of each kind.                 *)
(***************************************************************************)
EXTENDS GatewayCpu

CONSTANT MCWordBits
MCWordSize == 2^MCWordBits

RtlArith == INSTANCE Alu WITH WordBits <- MCWordBits
MCAlu(op, m, x, y, c) == RtlArith!RtlAlu(op, m, x, y, c)

Ins(op, m, d, lx, x, ly, y) ==
    [op |-> op, M |-> m, D |-> d, LX |-> lx, X |-> x, LY |-> ly, Y |-> y]

\* One word, operands in registers 0 and 1, result in register 0.
Plain(op, m, d) == Ins(op, m, d, FALSE, 0, FALSE, 1)

\* Arithmetic, loads, stores, bank switches, jumps, calls, returns, halts.
ProgramInstructions ==
    {Plain(1, TRUE, 0), Plain(OpLdm, TRUE, 0), Plain(OpStm, TRUE, 0),
     Plain(OpEam, FALSE, 0),
     Plain(OpBranch, FALSE, 4), Ins(OpBranch, TRUE, 0, TRUE, 0, TRUE, 0),
     Plain(OpStj, FALSE, 0), Ins(OpStj, TRUE, 0, TRUE, 0, FALSE, 0),
     Ins(OpCal, TRUE, 0, TRUE, 0, FALSE, 0), Plain(OpCal, FALSE, 0),
     Plain(OpRet, FALSE, 0), Plain(OpRet, TRUE, 0), Plain(OpHlt, FALSE, 0)}

ZeroRegisters == {[r \in Reg |-> 0]}
=============================================================================
