-------------------------------- MODULE Isa --------------------------------
(***************************************************************************)
(* The RR16X as its programmer sees it: every instruction, and every       *)
(* interrupt entry, is one step on the architectural registers.  There is  *)
(* no clock, no fetch state and no bus.                                    *)
(*                                                                         *)
(* The program and the data memory are left open: a step may execute any   *)
(* instruction with any immediate words, and a load may return any word.   *)
(* What a step does is what the EXECUTE, LDM_READ, STM_WRITE and COMMIT    *)
(* clocks of design.sv do together.                                        *)
(***************************************************************************)
EXTENDS RR16X

VARIABLES
    PC, PROGRAM_EAM,    \* where the next instruction is
    DATA_EAM,           \* bank of loads, stores and CAL.M
    JR, IVR,            \* jump register and (unused by the RTL) vector register
    R, carry_latch,
    call_stack,         \* return addresses, the most recent one last
    interrupt_enable,
    halted

vars == <<PC, PROGRAM_EAM, DATA_EAM, JR, IVR, R, carry_latch, call_stack,
          interrupt_enable, halted>>

Init ==
    /\ PC = 0 /\ PROGRAM_EAM = 0 /\ DATA_EAM = 0
    /\ JR = At(0, 0) /\ IVR = At(0, 0)
    /\ R \in PowerUp
    /\ carry_latch = 0
    /\ call_stack = <<>>
    /\ interrupt_enable = TRUE
    /\ halted = FALSE

\* The operands: an immediate word or a register.
OpX(i, imm) == IF i.LX THEN imm ELSE R[i.X]
OpY(i, imm) == IF i.LY THEN imm ELSE R[i.Y]

GoOn(i) == PC' = Advance(PC, InstructionLength(i)) /\ UNCHANGED PROGRAM_EAM
JumpTo(a) == PC' = a.off /\ PROGRAM_EAM' = a.bank

\* A full stack drops the address silently (its last slot is never used).
Push(a) ==
    call_stack' = IF Len(call_stack) = StackSlots - 1
                    THEN call_stack ELSE Append(call_stack, a)

EamSet(i, x) ==
    /\ IF i.M THEN IVR' = At(DATA_EAM, x) /\ UNCHANGED DATA_EAM
              ELSE DATA_EAM' = x % BankSize /\ UNCHANGED IVR
    /\ GoOn(i)
    /\ UNCHANGED <<JR, R, carry_latch, call_stack, interrupt_enable, halted>>

Arith(i, x, y) ==
    LET out == Alu(i.op, i.M, x, y, carry_latch) IN
    /\ R' = [R EXCEPT ![i.D] = out.val]
    /\ carry_latch' = out.carry
    /\ GoOn(i)
    /\ UNCHANGED <<DATA_EAM, JR, IVR, call_stack, interrupt_enable, halted>>

\* The incremented address register wins over a load into the same register.
Load(i, data) ==
    /\ R' = [r \in Reg |-> IF i.M /\ ~i.LX /\ r = i.X THEN Advance(R[r], 1)
                           ELSE IF r = i.D THEN data ELSE R[r]]
    /\ GoOn(i)
    /\ UNCHANGED <<DATA_EAM, JR, IVR, carry_latch, call_stack,
                   interrupt_enable, halted>>

Store(i) ==
    /\ R' = [r \in Reg |-> IF i.M /\ ~i.LX /\ r = i.X THEN Advance(R[r], 1)
                           ELSE R[r]]
    /\ GoOn(i)
    /\ UNCHANGED <<DATA_EAM, JR, IVR, carry_latch, call_stack,
                   interrupt_enable, halted>>

SetJump(i, x) ==
    /\ JR' = At(IF i.M THEN JR.bank ELSE PROGRAM_EAM, x)
    /\ GoOn(i)
    /\ UNCHANGED <<DATA_EAM, IVR, R, carry_latch, call_stack,
                   interrupt_enable, halted>>

Branch(i, x, y) ==
    /\ IF ConditionMet(i, x, y) THEN JumpTo(JR) ELSE GoOn(i)
    /\ UNCHANGED <<DATA_EAM, JR, IVR, R, carry_latch, call_stack,
                   interrupt_enable, halted>>

Call(i, x) ==
    /\ Push(At(PROGRAM_EAM, Advance(PC, InstructionLength(i))))
    /\ JumpTo(At(IF i.M THEN DATA_EAM ELSE PROGRAM_EAM, x))
    /\ UNCHANGED <<DATA_EAM, JR, IVR, R, carry_latch, interrupt_enable, halted>>

\* RET enables interrupts and RET.C disables them.  On an empty stack the
\* processor stays at the RET.
Return(i) ==
    /\ IF call_stack = <<>>
         THEN UNCHANGED <<PC, PROGRAM_EAM, call_stack>>
         ELSE /\ JumpTo(call_stack[Len(call_stack)])
              /\ call_stack' = SubSeq(call_stack, 1, Len(call_stack) - 1)
    /\ interrupt_enable' = ~i.M
    /\ UNCHANGED <<DATA_EAM, JR, IVR, R, carry_latch, halted>>

\* The processor stops at the HLT: an interrupt will push HLT's own address.
Stop ==
    /\ halted' = TRUE
    /\ UNCHANGED <<PC, PROGRAM_EAM, DATA_EAM, JR, IVR, R, carry_latch,
                   call_stack, interrupt_enable>>

Execute(i, immx, immy, data) ==
    LET x == OpX(i, immx)
        y == OpY(i, immy)
    IN  /\ ~halted
        /\ \/ i.op = OpEam    /\ EamSet(i, x)
           \/ i.op \in AluOps /\ Arith(i, x, y)
           \/ i.op = OpLdm    /\ Load(i, data)
           \/ i.op = OpStm    /\ Store(i)
           \/ i.op = OpStj    /\ SetJump(i, x)
           \/ i.op = OpBranch /\ Branch(i, x, y)
           \/ i.op = OpCal    /\ Call(i, x)
           \/ i.op = OpRet    /\ Return(i)
           \/ i.op = OpHlt    /\ Stop

\* An accepted interrupt is a call of the vector, made between instructions,
\* that disables interrupts and ends a halt.
TakeInterrupt(vector) ==
    /\ interrupt_enable
    /\ Push(At(PROGRAM_EAM, PC))
    /\ JumpTo(vector)
    /\ interrupt_enable' = FALSE
    /\ halted' = FALSE
    /\ UNCHANGED <<DATA_EAM, JR, IVR, R, carry_latch>>

Next ==
    \/ \E i \in Instructions, immx, immy, data \in Word :
          Execute(i, immx, immy, data)
    \/ \E v \in Address : TakeInterrupt(v)

Spec == Init /\ [][Next]_vars
=============================================================================
