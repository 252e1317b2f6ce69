-------------------------- MODULE Fp32Coprocessor ---------------------------
(***************************************************************************)
(* The FP32 coprocessor of design.sv on the bus of the processor: its      *)
(* write port and its three-state FSM, both clocked.  The arithmetic is    *)
(* the constant Calculate (module Fp32 has it); result and status register *)
(* are one pair, as they change together.                                  *)
(*                                                                         *)
(* A clock takes at most one store: the processor makes it in the ACCESS   *)
(* clock of module BusMaster, if the access is a store to this device.     *)
(***************************************************************************)
EXTENDS BusMaster

CONSTANTS Half, ZeroHalf, Operations, NoOperation, Calculate(_, _, _), NoResult

VARIABLES
    operand_a, operand_b,   \* [lo, hi], stored one half at a time
    operation, start,       \* control_reg, bits 1..0 and bit 2
    result,                 \* result and status_reg
    state, busy

fpVars == <<phase, operand_a, operand_b, operation, start, result, state, busy>>

ASSUME ResetAssumption == ZeroHalf \in Half /\ NoOperation \in Operations

Operand == [lo : Half, hi : Half]

FpTypeOK ==
    /\ phase \in Phases
    /\ operand_a \in Operand /\ operand_b \in Operand
    /\ operation \in Operations /\ start \in BOOLEAN
    /\ state \in {"IDLE", "EXEC", "DONE"} /\ busy \in BOOLEAN

FpInit ==
    /\ PaceInit
    /\ operand_a = [lo |-> ZeroHalf, hi |-> ZeroHalf]
    /\ operand_b = [lo |-> ZeroHalf, hi |-> ZeroHalf]
    /\ operation = NoOperation /\ start = FALSE
    /\ result = NoResult
    /\ state = "IDLE" /\ busy = FALSE
-----------------------------------------------------------------------------
(* The write port                                                          *)

StoreA ==
    /\ \E half \in {"lo", "hi"}, d \in Half : operand_a' = [operand_a EXCEPT ![half] = d]
    /\ UNCHANGED <<operand_b, operation, start>>

StoreB ==
    /\ \E half \in {"lo", "hi"}, d \in Half : operand_b' = [operand_b EXCEPT ![half] = d]
    /\ UNCHANGED <<operand_a, operation, start>>

StoreControl ==
    /\ operation' \in Operations /\ start' \in BOOLEAN
    /\ UNCHANGED <<operand_a, operand_b>>

\* The registers of the result cannot be written, and START is not cleared.
StoreReadOnly == UNCHANGED <<operand_a, operand_b, operation, start>>

\* Faulty: START stays up.
NoStoreKeepsStart == UNCHANGED <<operand_a, operand_b, operation, start>>

\* No store on this clock.  Only then does DONE clear START.
NoStore ==
    /\ start' = (start /\ state # "DONE")
    /\ UNCHANGED <<operand_a, operand_b, operation>>

\* A load changes nothing: for the write port it is a clock without a store.
FpStore == phase = "ACCESS" /\ (StoreA \/ StoreB \/ StoreControl \/ StoreReadOnly)
-----------------------------------------------------------------------------
(* The FSM                                                                 *)

Idle ==
    /\ state = "IDLE"
    /\ busy' = start
    /\ state' = IF start THEN "EXEC" ELSE "IDLE"
    /\ UNCHANGED result

\* Faulty: the operands are the wrong way round.
ExecuteSwapped ==
    /\ state = "EXEC"
    /\ result' = Calculate(operand_b, operand_a, operation)
    /\ state' = "DONE"
    /\ UNCHANGED busy

Execute ==
    /\ state = "EXEC"
    /\ result' = Calculate(operand_a, operand_b, operation)
    /\ state' = "DONE"
    /\ UNCHANGED busy

Done ==
    /\ state = "DONE"
    /\ busy' = FALSE
    /\ state' = "IDLE"
    /\ UNCHANGED result

Fsm == Idle \/ Execute \/ Done

FpClock == Pace /\ (FpStore \/ NoStore) /\ Fsm

FpSpec == FpInit /\ [][FpClock]_fpVars

\* The clock never stops.
FairFpSpec == FpSpec /\ WF_fpVars(FpClock)
-----------------------------------------------------------------------------
(* Properties                                                              *)

\* A clock on which the processor accesses the device never meets it at work:
\* the command before has been executed and START is down again.  Otherwise
\* the access would change the operands of a running operation, or a store in
\* DONE would keep START up and run it a second time.
SettledAtAccess == phase = "ACCESS" => state = "IDLE" /\ ~start /\ ~busy

\* Between a store of START and its execution the result counts as computed.
Pending == start /\ state # "DONE"
PromisedResult ==
    IF Pending THEN Calculate(operand_a, operand_b, operation) ELSE result

Device == INSTANCE Fp32Device WITH result <- PromisedResult

\* Every START is executed exactly once, on the operands and the operation
\* that were in place when it was stored; nothing else changes the result.
\* With SettledAtAccess, that result is the one the next load reads.
ImplementsDevice == Device!DevSpec

\* A command ends, whether or not the processor goes on.
CommandsEnd == start ~> ~start
=============================================================================
