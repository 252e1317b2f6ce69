---------------------------- MODULE MCEmuSystem ----------------------------
(***************************************************************************)
(* Instances of EmuSystem for TLC: loads, stores, the end of a handler, a  *)
(* halt and a bank switch (to the only bank), on words of two values.      *)
(***************************************************************************)
EXTENDS EmuSystem

Plain(op, m) ==
    [op |-> op, M |-> m, D |-> 1, LX |-> FALSE, X |-> 1, LY |-> FALSE, Y |-> 1]

SystemInstructions ==
    {Plain(OpEam, FALSE), Plain(OpLdm, FALSE), Plain(OpStm, FALSE),
     Plain(OpCal, TRUE), Plain(OpRet, TRUE), Plain(OpHlt, FALSE)}

NoAlu(op, m, x, y, c) == [val |-> x, carry |-> c]
ZeroRegisters == {[r \in Reg |-> 0]}
=============================================================================
