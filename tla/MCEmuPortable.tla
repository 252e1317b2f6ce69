---------------------------- MODULE MCEmuPortable ----------------------------
(***************************************************************************)
(* Instances of EmuPortable for TLC: one or two instructions of each kind, *)
(* among them the ones on which the two processors differ.                 *)
(***************************************************************************)
EXTENDS EmuPortable

CONSTANT MCWordBits
MCWordSize == 2^MCWordBits

Arith == INSTANCE Alu WITH WordBits <- MCWordBits
MCEmuAlu(op, m, x, y, c) == Arith!EmuAlu(op, m, x, y, c)
MCRtlAlu(op, m, x, y, c) == Arith!RtlAlu(op, m, x, y, c)

Ins(op, m, d, lx, x, ly, y) ==
    [op |-> op, M |-> m, D |-> d, LX |-> lx, X |-> x, LY |-> ly, Y |-> y]

\* One word, operands in registers 0 and 1, result in register d.
Plain(op, m, d) == Ins(op, m, d, FALSE, 0, FALSE, 1)

PortableInstructions ==
    {Plain(1, FALSE, 0), Plain(1, TRUE, 0), Plain(2, FALSE, 0), Plain(8, FALSE, 0),
     Plain(OpLdm, TRUE, 0), Plain(OpLdm, TRUE, 1), Plain(OpStm, TRUE, 0),
     Plain(OpBranch, FALSE, 4), Plain(OpBranch, TRUE, 6),
     Plain(OpEam, FALSE, 0), Plain(OpStj, FALSE, 0), Plain(OpStj, TRUE, 0),
     Plain(OpCal, FALSE, 0), Ins(OpCal, TRUE, 0, TRUE, 0, FALSE, 0),
     Plain(OpRet, FALSE, 0), Plain(OpRet, TRUE, 0)}

ZeroRegisters == {[r \in Reg |-> 0]}
=============================================================================
