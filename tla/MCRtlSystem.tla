---------------------------- MODULE MCRtlSystem ----------------------------
(***************************************************************************)
(* Instances of RtlSystem for TLC.  Registers 0 to 3 hold 0 to 3 (modulo   *)
(* the word size) and serve as addresses and values, so that no immediate  *)
(* words are needed.                                                       *)
(***************************************************************************)
EXTENDS RtlSystem

NoAlu(op, m, x, y, c) == [val |-> x, carry |-> c]

CountingRegisters == {[r \in Reg |-> IF r < 4 THEN r % WordSize ELSE 0]}

Plain(op, m, d, x, y) ==
    [op |-> op, M |-> m, D |-> d, LX |-> FALSE, X |-> x, LY |-> FALSE, Y |-> y]

\* Bank switches, stores that reach RAM, the DMA's destination and its counter
\* (two words, over and over), a load into register 4, a store of what was
\* loaded, and a halt.
TransferInstructions ==
    {Plain(OpEam, FALSE, 0, 0, 0), Plain(OpEam, FALSE, 0, 1, 0),
     Plain(OpStm, FALSE, 0, 0, 4), Plain(OpStm, FALSE, 0, 1, 2),
     Plain(OpLdm, FALSE, 4, 0, 0), Plain(OpHlt, FALSE, 0, 0, 0)}

\* Bank 1 is the device bank.
TransferMap ==
    [a \in Address |->
        IF a = At(1, 0) THEN "DMA_DST_ADDR"
        ELSE IF a = At(1, 1) THEN "DMA_CNT_ADDR"
        ELSE "none"]
=============================================================================
