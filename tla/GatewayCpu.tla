----------------------------- MODULE GatewayCpu -----------------------------
(***************************************************************************)
(* The processor of design.sv (module gateway_drug_cpu), one step per      *)
(* clock edge on which it is not frozen by dma_active.  A frozen clock     *)
(* changes nothing: here it is a stuttering step, and module RtlSystem,    *)
(* which has the DMA engine, makes the freeze explicit.                    *)
(*                                                                         *)
(* The inputs of a clock are parameters of the actions: the interrupt      *)
(* request and its vector, and what the memory returns.  A fetched word    *)
(* is given as the instruction it decodes into.                            *)
(***************************************************************************)
EXTENDS RR16X

VARIABLES
    state,              \* the FSM state
    PC, PROGRAM_EAM, DATA_EAM, JR, IVR, R, carry_latch,
    IR,                 \* the instruction being executed, decoded
    immediate_x, immediate_y,
    instruction_pc,     \* where that instruction was fetched from
    effective_address,  \* of the load or store in progress
    call_stack,         \* the slots below stack_sp; the others are never read
    interrupt_enable, halted

cpuVars == <<state, PC, PROGRAM_EAM, DATA_EAM, JR, IVR, R, carry_latch, IR,
             immediate_x, immediate_y, instruction_pc, effective_address,
             call_stack, interrupt_enable, halted>>

States == {"FETCH", "DECODE", "IMM_X", "IMM_Y", "EXECUTE", "LDM_READ",
           "STM_WRITE", "COMMIT", "INTERRUPT", "HALT"}

\* Every register holds a value of its width, and the FSM is in one of its
\* ten states.
CpuTypeOK ==
    /\ state \in States
    /\ PC \in Word /\ PROGRAM_EAM \in Bank /\ DATA_EAM \in Bank
    /\ JR \in Address /\ IVR \in Address
    /\ R \in [Reg -> Word] /\ carry_latch \in Bit
    /\ IR \in Instruction
    /\ immediate_x \in Word /\ immediate_y \in Word
    /\ instruction_pc \in Word /\ effective_address \in Address
    /\ call_stack \in Seq(Address)
    /\ interrupt_enable \in BOOLEAN /\ halted \in BOOLEAN

\* The word 0x0000, which reset puts in IR.
ZeroWord == [op |-> 0, M |-> FALSE, D |-> 0, LX |-> FALSE, X |-> 0,
             LY |-> FALSE, Y |-> 0]

\* The registers R are not reset.
CpuInit ==
    /\ state = "FETCH"
    /\ PC = 0 /\ PROGRAM_EAM = 0 /\ DATA_EAM = 0
    /\ JR = At(0, 0) /\ IVR = At(0, 0)
    /\ R \in PowerUp
    /\ carry_latch = 0
    /\ IR = ZeroWord
    /\ immediate_x = 0 /\ immediate_y = 0
    /\ instruction_pc = 0 /\ effective_address = At(0, 0)
    /\ call_stack = <<>>
    /\ interrupt_enable = TRUE /\ halted = FALSE

operand_x == IF IR.LX THEN immediate_x ELSE R[IR.X]
operand_y == IF IR.LY THEN immediate_y ELSE R[IR.Y]
condition_met == ConditionMet(IR, operand_x, operand_y)
NextPc == Advance(PC, InstructionLength(IR))

stack_empty == call_stack = <<>>

stack_full == Len(call_stack) = StackSlots - 1

Push(a) ==
    call_stack' = IF stack_full THEN call_stack ELSE Append(call_stack, a)

\* Faulty: a store's write clock still addresses the instruction.
mem_addr_without_store ==
    IF state = "LDM_READ" THEN effective_address ELSE At(PROGRAM_EAM, PC)

\* The address on the memory bus.  The PC-relative offsets are 16-bit sums.
mem_addr ==
    IF state \in {"LDM_READ", "STM_WRITE"} THEN effective_address
    ELSE At(PROGRAM_EAM,
            IF state = "IMM_X" THEN Advance(instruction_pc, 1)
            ELSE IF state = "IMM_Y"
                   THEN Advance(instruction_pc, IF IR.LX THEN 2 ELSE 1)
                   ELSE PC)

\* An address register is incremented unless the address is an immediate.
PostIncrement == IR.M /\ ~IR.LX
-----------------------------------------------------------------------------
(* Fetching an instruction and its immediates                              *)

Fetch(ext_interrupt, instr) ==
    /\ state = "FETCH"
    /\ IF halted THEN state' = "HALT" /\ UNCHANGED <<IR, instruction_pc>>
       ELSE IF ext_interrupt /\ interrupt_enable
         THEN state' = "INTERRUPT" /\ UNCHANGED <<IR, instruction_pc>>
         ELSE state' = "DECODE" /\ IR' = instr /\ instruction_pc' = PC
    /\ UNCHANGED <<PC, PROGRAM_EAM, DATA_EAM, JR, IVR, R, carry_latch,
                   immediate_x, immediate_y, effective_address, call_stack,
                   interrupt_enable, halted>>

Decode ==
    /\ state = "DECODE"
    /\ state' = IF IR.LX THEN "IMM_X" ELSE IF IR.LY THEN "IMM_Y" ELSE "EXECUTE"
    /\ UNCHANGED <<PC, PROGRAM_EAM, DATA_EAM, JR, IVR, R, carry_latch, IR,
                   immediate_x, immediate_y, instruction_pc, effective_address,
                   call_stack, interrupt_enable, halted>>

\* Faulty: the immediate moves PC on, as in a processor that fetches with PC.
ImmXAdvancing(mem_read_data) ==
    /\ state = "IMM_X"
    /\ immediate_x' = mem_read_data
    /\ PC' = Advance(PC, 1)
    /\ state' = IF IR.LY THEN "IMM_Y" ELSE "EXECUTE"
    /\ UNCHANGED <<PROGRAM_EAM, DATA_EAM, JR, IVR, R, carry_latch, IR,
                   immediate_y, instruction_pc, effective_address, call_stack,
                   interrupt_enable, halted>>

ImmX(mem_read_data) ==
    /\ state = "IMM_X"
    /\ immediate_x' = mem_read_data
    /\ state' = IF IR.LY THEN "IMM_Y" ELSE "EXECUTE"
    /\ UNCHANGED <<PC, PROGRAM_EAM, DATA_EAM, JR, IVR, R, carry_latch, IR,
                   immediate_y, instruction_pc, effective_address, call_stack,
                   interrupt_enable, halted>>

ImmY(mem_read_data) ==
    /\ state = "IMM_Y"
    /\ immediate_y' = mem_read_data
    /\ state' = "EXECUTE"
    /\ UNCHANGED <<PC, PROGRAM_EAM, DATA_EAM, JR, IVR, R, carry_latch, IR,
                   immediate_x, instruction_pc, effective_address, call_stack,
                   interrupt_enable, halted>>
-----------------------------------------------------------------------------
(* EXECUTE, one action for each opcode                                     *)

Executing(ops) == state = "EXECUTE" /\ IR.op \in ops

ExecEam ==
    /\ Executing({OpEam})
    /\ IF IR.M THEN IVR' = At(DATA_EAM, operand_x) /\ UNCHANGED DATA_EAM
               ELSE DATA_EAM' = operand_x % BankSize /\ UNCHANGED IVR
    /\ state' = "COMMIT"
    /\ UNCHANGED <<PC, PROGRAM_EAM, JR, R, carry_latch, IR, immediate_x,
                   immediate_y, instruction_pc, effective_address, call_stack,
                   interrupt_enable, halted>>

ExecAlu ==
    LET out == Alu(IR.op, IR.M, operand_x, operand_y, carry_latch) IN
    /\ Executing(AluOps)
    /\ R' = [R EXCEPT ![IR.D] = out.val]
    /\ carry_latch' = out.carry
    /\ state' = "COMMIT"
    /\ UNCHANGED <<PC, PROGRAM_EAM, DATA_EAM, JR, IVR, IR, immediate_x,
                   immediate_y, instruction_pc, effective_address, call_stack,
                   interrupt_enable, halted>>

\* Faulty: the address register is incremented on the clock that uses it.
ExecMemoryIncrementing ==
    /\ Executing({OpLdm, OpStm})
    /\ effective_address' = At(DATA_EAM, operand_x)
    /\ R' = IF PostIncrement THEN [R EXCEPT ![IR.X] = Advance(@, 1)] ELSE R
    /\ state' = IF IR.op = OpLdm THEN "LDM_READ" ELSE "STM_WRITE"
    /\ UNCHANGED <<PC, PROGRAM_EAM, DATA_EAM, JR, IVR, carry_latch, IR,
                   immediate_x, immediate_y, instruction_pc, call_stack,
                   interrupt_enable, halted>>

\* The effective address is latched before any post-increment.
ExecMemory ==
    /\ Executing({OpLdm, OpStm})
    /\ effective_address' = At(DATA_EAM, operand_x)
    /\ state' = IF IR.op = OpLdm THEN "LDM_READ" ELSE "STM_WRITE"
    /\ UNCHANGED <<PC, PROGRAM_EAM, DATA_EAM, JR, IVR, R, carry_latch, IR,
                   immediate_x, immediate_y, instruction_pc, call_stack,
                   interrupt_enable, halted>>

ExecStj ==
    /\ Executing({OpStj})
    /\ JR' = At(IF IR.M THEN JR.bank ELSE PROGRAM_EAM, operand_x)
    /\ state' = "COMMIT"
    /\ UNCHANGED <<PC, PROGRAM_EAM, DATA_EAM, IVR, R, carry_latch, IR,
                   immediate_x, immediate_y, instruction_pc, effective_address,
                   call_stack, interrupt_enable, halted>>

\* Faulty: a jump stays in its bank.
ExecBranchInBank ==
    /\ Executing({OpBranch})
    /\ PC' = IF condition_met THEN JR.off ELSE PC
    /\ state' = "COMMIT"
    /\ UNCHANGED <<PROGRAM_EAM, DATA_EAM, JR, IVR, R, carry_latch, IR,
                   immediate_x, immediate_y, instruction_pc, effective_address,
                   call_stack, interrupt_enable, halted>>

\* A taken branch writes PC here; one not taken advances it in COMMIT.
ExecBranch ==
    /\ Executing({OpBranch})
    /\ IF condition_met THEN PC' = JR.off /\ PROGRAM_EAM' = JR.bank
                        ELSE UNCHANGED <<PC, PROGRAM_EAM>>
    /\ state' = "COMMIT"
    /\ UNCHANGED <<DATA_EAM, JR, IVR, R, carry_latch, IR, immediate_x,
                   immediate_y, instruction_pc, effective_address, call_stack,
                   interrupt_enable, halted>>

ExecCal ==
    /\ Executing({OpCal})
    /\ Push(At(PROGRAM_EAM, NextPc))
    /\ PC' = operand_x
    /\ PROGRAM_EAM' = IF IR.M THEN DATA_EAM ELSE PROGRAM_EAM
    /\ state' = "COMMIT"
    /\ UNCHANGED <<DATA_EAM, JR, IVR, R, carry_latch, IR, immediate_x,
                   immediate_y, instruction_pc, effective_address,
                   interrupt_enable, halted>>

ExecRet ==
    /\ Executing({OpRet})
    /\ IF stack_empty
         THEN UNCHANGED <<PC, PROGRAM_EAM, call_stack>>
         ELSE LET top == call_stack[Len(call_stack)] IN
              /\ PC' = top.off /\ PROGRAM_EAM' = top.bank
              /\ call_stack' = SubSeq(call_stack, 1, Len(call_stack) - 1)
    /\ interrupt_enable' = ~IR.M
    /\ state' = "COMMIT"
    /\ UNCHANGED <<DATA_EAM, JR, IVR, R, carry_latch, IR, immediate_x,
                   immediate_y, instruction_pc, effective_address, halted>>

ExecHlt ==
    /\ Executing({OpHlt})
    /\ halted' = TRUE
    /\ state' = "HALT"
    /\ UNCHANGED <<PC, PROGRAM_EAM, DATA_EAM, JR, IVR, R, carry_latch, IR,
                   immediate_x, immediate_y, instruction_pc, effective_address,
                   call_stack, interrupt_enable>>
-----------------------------------------------------------------------------
(* The clocks after EXECUTE, interrupt entry and halt                      *)

\* The increment is the later of two assignments: it wins over a load into
\* the address register.
LdmRead(mem_read_data) ==
    /\ state = "LDM_READ"
    /\ R' = [r \in Reg |-> IF PostIncrement /\ r = IR.X THEN Advance(R[r], 1)
                           ELSE IF r = IR.D THEN mem_read_data ELSE R[r]]
    /\ state' = "COMMIT"
    /\ UNCHANGED <<PC, PROGRAM_EAM, DATA_EAM, JR, IVR, carry_latch, IR,
                   immediate_x, immediate_y, instruction_pc, effective_address,
                   call_stack, interrupt_enable, halted>>

\* Faulty: a store is over when it is written, with no COMMIT after it.
StmWriteWithoutCommit ==
    /\ state = "STM_WRITE"
    /\ state' = "FETCH"
    /\ UNCHANGED <<PC, PROGRAM_EAM, DATA_EAM, JR, IVR, R, carry_latch, IR,
                   immediate_x, immediate_y, instruction_pc, effective_address,
                   call_stack, interrupt_enable, halted>>

\* On this clock mem_write_en is up: the memory at effective_address takes
\* operand_y.
StmWrite ==
    /\ state = "STM_WRITE"
    /\ state' = "COMMIT"
    /\ UNCHANGED <<PC, PROGRAM_EAM, DATA_EAM, JR, IVR, R, carry_latch, IR,
                   immediate_x, immediate_y, instruction_pc, effective_address,
                   call_stack, interrupt_enable, halted>>

\* Faulty: a taken branch is followed by an increment.
CommitAlwaysAdvances == IR.op \notin {OpCal, OpRet}

\* COMMIT evaluates the branch condition again to tell a taken branch, whose
\* PC is already written.
CommitAdvances ==
    \/ IR.op = OpBranch /\ ~condition_met
    \/ IR.op \notin {OpBranch, OpCal, OpRet}

Commit ==
    /\ state = "COMMIT"
    /\ PC' = IF CommitAdvances THEN NextPc ELSE PC
    /\ R' = IF IR.op = OpStm /\ PostIncrement
              THEN [R EXCEPT ![IR.X] = Advance(@, 1)] ELSE R
    /\ state' = "FETCH"
    /\ UNCHANGED <<PROGRAM_EAM, DATA_EAM, JR, IVR, carry_latch, IR, immediate_x,
                   immediate_y, instruction_pc, effective_address, call_stack,
                   interrupt_enable, halted>>

\* Faulty: a handler starts with interrupts enabled.
InterruptUnmasked(ext_interrupt_vector) ==
    /\ state = "INTERRUPT"
    /\ Push(At(PROGRAM_EAM, PC))
    /\ PC' = ext_interrupt_vector.off
    /\ PROGRAM_EAM' = ext_interrupt_vector.bank
    /\ state' = "FETCH"
    /\ UNCHANGED <<DATA_EAM, JR, IVR, R, carry_latch, IR, immediate_x,
                   immediate_y, instruction_pc, effective_address,
                   interrupt_enable, halted>>

\* The vector is the one present on this clock, the one after the request was
\* seen.
Interrupt(ext_interrupt_vector) ==
    /\ state = "INTERRUPT"
    /\ Push(At(PROGRAM_EAM, PC))
    /\ PC' = ext_interrupt_vector.off
    /\ PROGRAM_EAM' = ext_interrupt_vector.bank
    /\ interrupt_enable' = FALSE
    /\ state' = "FETCH"
    /\ UNCHANGED <<DATA_EAM, JR, IVR, R, carry_latch, IR, immediate_x,
                   immediate_y, instruction_pc, effective_address, halted>>

\* Faulty: a masked request ends a halt.
HaltUnmasked(ext_interrupt) ==
    /\ state = "HALT"
    /\ IF ext_interrupt
         THEN halted' = FALSE /\ state' = "INTERRUPT"
         ELSE UNCHANGED <<halted, state>>
    /\ UNCHANGED <<PC, PROGRAM_EAM, DATA_EAM, JR, IVR, R, carry_latch, IR,
                   immediate_x, immediate_y, instruction_pc, effective_address,
                   call_stack, interrupt_enable>>

Halt(ext_interrupt) ==
    /\ state = "HALT"
    /\ IF ext_interrupt /\ interrupt_enable
         THEN halted' = FALSE /\ state' = "INTERRUPT"
         ELSE UNCHANGED <<halted, state>>
    /\ UNCHANGED <<PC, PROGRAM_EAM, DATA_EAM, JR, IVR, R, carry_latch, IR,
                   immediate_x, immediate_y, instruction_pc, effective_address,
                   call_stack, interrupt_enable>>

Exec ==
    \/ ExecEam \/ ExecAlu \/ ExecMemory \/ ExecStj \/ ExecBranch
    \/ ExecCal \/ ExecRet \/ ExecHlt

Next ==
    \/ \E irq \in BOOLEAN, i \in Instructions : Fetch(irq, i)
    \/ Decode
    \/ \E w \in Word : ImmX(w)
    \/ \E w \in Word : ImmY(w)
    \/ Exec
    \/ \E w \in Word : LdmRead(w)
    \/ StmWrite
    \/ Commit
    \/ \E v \in Address : Interrupt(v)
    \/ \E irq \in BOOLEAN : Halt(irq)

Spec == CpuInit /\ [][Next]_cpuVars
-----------------------------------------------------------------------------
(* Properties                                                              *)

\* From the fetch of an instruction to the clock that executes it, PC stays
\* at the instruction: immediates are read at instruction_pc + 1 and + 2 while
\* CAL computes its return address, and COMMIT the next address, from PC.
\* The two addresses must agree whatever the DMA and the interrupts do.
PcHeld ==
    state \in {"DECODE", "IMM_X", "IMM_Y", "EXECUTE", "LDM_READ", "STM_WRITE",
               "HALT"}
      => PC = instruction_pc

\* COMMIT evaluates the branch condition a second time.  Its verdict is the
\* one EXECUTE acted on: a branch it takes for taken has PC at JR, and one it
\* takes for not taken still has PC at the branch.
BranchVerdictStable ==
    state = "COMMIT" /\ IR.op = OpBranch
      => IF condition_met THEN At(PROGRAM_EAM, PC) = JR ELSE PC = instruction_pc

\* A memory access is made at the address its operand and bank name at that
\* moment: neither the post-increment nor a bank switch comes between.
AccessAddressCurrent ==
    state \in {"LDM_READ", "STM_WRITE"}
      => /\ IR.op = IF state = "LDM_READ" THEN OpLdm ELSE OpStm
         /\ effective_address = At(DATA_EAM, operand_x)

\* The processor is in HALT exactly when it is halted, on an HLT, and enters
\* an interrupt only with interrupts enabled.  An HLT is still in IR
\* at a fetch only after the interrupt that ended it, with interrupts off, so
\* an interrupt taken with HLT in IR is always the one that ends a halt.
HaltAndInterruptOK ==
    /\ halted <=> state = "HALT"
    /\ halted => IR.op = OpHlt
    /\ state = "INTERRUPT" => interrupt_enable
    /\ state = "FETCH" /\ IR.op = OpHlt => ~interrupt_enable
    /\ IR.op = OpHlt => state \notin {"COMMIT", "LDM_READ", "STM_WRITE"}

\* The stack pointer never reaches the number of slots, so that the 8-bit slot
\* index that CAL cuts out of the 9-bit pointer never drops a bit.
StackIndexInRange == Len(call_stack) <= StackSlots - 1
-----------------------------------------------------------------------------
(* The processor as its devices see it                                     *)

MasterPhase ==
    CASE state \in {"LDM_READ", "STM_WRITE"} -> "ACCESS"
      [] state = "COMMIT" -> "COMMIT"
      [] state \in {"FETCH", "INTERRUPT", "HALT"} -> "FETCH"
      [] state \in {"DECODE", "IMM_X", "IMM_Y"} -> "DECODE"
      [] state = "EXECUTE" -> "EXECUTE"

Master == INSTANCE BusMaster WITH phase <- MasterPhase

\* Loads and stores last one clock and come at least five clocks apart.  The
\* FP32 coprocessor, which never says wait, depends on it (Fp32Coprocessor).
PacesAccesses == Master!PaceSpec
-----------------------------------------------------------------------------
(* The processor implements the atomic machine.                            *)
(*                                                                         *)
(* An instruction happens on the clock that enters COMMIT (HALT for HLT):  *)
(* while the FSM is in COMMIT, PC and R count as what COMMIT makes them.   *)
(* An interrupt entry happens on the clock that leaves INTERRUPT; until    *)
(* then, a processor it wakes up still counts as halted.                   *)

ArchPC == IF state = "COMMIT" /\ CommitAdvances THEN NextPc ELSE PC
ArchR == IF state = "COMMIT" /\ IR.op = OpStm /\ PostIncrement
           THEN [R EXCEPT ![IR.X] = Advance(@, 1)] ELSE R
ArchHalted == halted \/ (state = "INTERRUPT" /\ IR.op = OpHlt)

Atomic == INSTANCE Isa WITH PC <- ArchPC, R <- ArchR, halted <- ArchHalted

\* Seen from outside, the ten-state FSM executes each instruction, with the
\* operands and immediates that belong to it, exactly once and completely, and
\* enters interrupts only between instructions.
ImplementsIsa == Atomic!Spec
=============================================================================
