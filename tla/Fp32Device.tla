----------------------------- MODULE Fp32Device -----------------------------
(***************************************************************************)
(* The FP32 coprocessor as a program may think of it: a START stored in    *)
(* its control register computes the result at once, from the operands     *)
(* and the operation of that moment, and nothing else changes it.          *)
(***************************************************************************)
CONSTANTS
    Half,               \* what an operand register holds, half an operand
    ZeroHalf,
    Operations,         \* what the two low bits of the control register select
    NoOperation,        \* the one they select after reset
    Calculate(_, _, _), \* result and status for two operands and an operation
    NoResult            \* result and status after reset

VARIABLES operand_a, operand_b, operation, result

devVars == <<operand_a, operand_b, operation, result>>

Operand == [lo : Half, hi : Half]

DevInit ==
    /\ operand_a = [lo |-> ZeroHalf, hi |-> ZeroHalf]
    /\ operand_b = [lo |-> ZeroHalf, hi |-> ZeroHalf]
    /\ operation = NoOperation
    /\ result = NoResult

StoreOperand ==
    /\ operand_a' \in Operand /\ operand_b' \in Operand
    /\ UNCHANGED <<operation, result>>

Command(op, start) ==
    /\ operation' = op
    /\ result' = IF start THEN Calculate(operand_a, operand_b, op) ELSE result
    /\ UNCHANGED <<operand_a, operand_b>>

DevNext == StoreOperand \/ \E op \in Operations, start \in BOOLEAN : Command(op, start)

DevSpec == DevInit /\ [][DevNext]_devVars
=============================================================================
