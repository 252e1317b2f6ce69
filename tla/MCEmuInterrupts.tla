--------------------------- MODULE MCEmuInterrupts ---------------------------
(***************************************************************************)
(* Instances of EmuInterrupts for TLC: with words of two values and one    *)
(* bank, bank 1 is a bank that does not exist.                             *)
(***************************************************************************)
EXTENDS EmuInterrupts

NoAlu(op, m, x, y, c) == [val |-> x, carry |-> c]

Ins(op, m, d, lx, x, ly, y) ==
    [op |-> op, M |-> m, D |-> d, LX |-> lx, X |-> x, LY |-> ly, Y |-> y]

\* Calls, returns, jumps, vectors and bank switches with immediate operands,
\* and a branch on a condition that does not exist.
FlowInstructions ==
    [op : {OpEam, OpCal}, M : BOOLEAN, D : {0}, LX : {TRUE}, X : {0},
     LY : {FALSE}, Y : {0}]
      \cup [op : {OpRet}, M : BOOLEAN, D : {0}, LX : {FALSE}, X : {0},
            LY : {FALSE}, Y : {0}]
      \cup {Ins(OpStj, FALSE, 0, TRUE, 0, FALSE, 0),
            Ins(OpBranch, FALSE, 7, FALSE, 0, FALSE, 0),
            Ins(OpBranch, TRUE, 6, FALSE, 0, FALSE, 0),
            Ins(OpHlt, FALSE, 0, FALSE, 0, FALSE, 0)}

ZeroRegisters == {[r \in Reg |-> 0]}
=============================================================================
