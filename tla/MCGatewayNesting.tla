-------------------------- MODULE MCGatewayNesting --------------------------
(***************************************************************************)
(* Instances of GatewayCpuNesting for TLC: calls, both kinds of return and *)
(* halts on a two-word, one-bank machine.                                  *)
(***************************************************************************)
EXTENDS GatewayCpuNesting

NestInstructions ==
    {[op |-> op, M |-> m, D |-> 0, LX |-> FALSE, X |-> 0, LY |-> FALSE, Y |-> 0] :
        op \in {OpCal, OpRet, OpHlt}, m \in BOOLEAN}

NoAlu(op, m, x, y, c) == [val |-> x, carry |-> c]
ZeroRegisters == {[r \in Reg |-> 0]}
=============================================================================
