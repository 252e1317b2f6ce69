-------------------------- MODULE GatewayCpuProofs --------------------------
(***************************************************************************)
(* Proofs about the processor of design.sv, for every word size, number of *)
(* banks, stack size, program and arithmetic unit.                         *)
(***************************************************************************)
EXTENDS GatewayCpuNesting, TLAPS, SequenceTheorems

\* Offsets stay in a word, instructions are one to three words long.
LEMMA AdvanceType ==
    ASSUME NEW pc \in Word, NEW n \in Nat
    PROVE  Advance(pc, n) \in Word
BY SizeAssumption DEF Advance, Word

LEMMA LengthType ==
    ASSUME NEW i \in Instruction
    PROVE  InstructionLength(i) \in Nat
BY DEF InstructionLength, Instruction

\* The constants of reset.
LEMMA ZeroTypes ==
    /\ 0 \in Word /\ 0 \in Bank /\ At(0, 0) \in Address
    /\ ZeroWord \in Instruction
BY SizeAssumption DEF Word, Bank, At, Address, ZeroWord, Instruction, Reg

LEMMA AtType ==
    ASSUME NEW b \in Bank, NEW o \in Word
    PROVE  At(b, o) \in Address /\ At(b, o).bank = b /\ At(b, o).off = o
BY DEF At, Address

\* The combinational signals of a well-typed processor.
LEMMA SignalTypes ==
    ASSUME CpuTypeOK
    PROVE  operand_x \in Word /\ operand_y \in Word /\ NextPc \in Word
<1>1. IR \in Instruction /\ IR.X \in Reg /\ IR.Y \in Reg
  BY DEF CpuTypeOK, Instruction
<1>2. operand_x \in Word /\ operand_y \in Word
  BY <1>1 DEF CpuTypeOK, operand_x, operand_y
<1>3. NextPc \in Word
  BY <1>1, LengthType, AdvanceType DEF CpuTypeOK, NextPc
<1> QED BY <1>2, <1>3

\* Pushing keeps the stack a sequence of addresses below its last slot.
LEMMA PushStack ==
    ASSUME NEW a \in Address, call_stack \in Seq(Address), Push(a)
    PROVE  /\ call_stack' \in Seq(Address)
           /\ StackIndexInRange => StackIndexInRange'
BY SizeAssumption DEF Push, stack_full, StackIndexInRange

LEMMA PopStack ==
    ASSUME call_stack \in Seq(Address), call_stack # <<>>
    PROVE  LET rest == SubSeq(call_stack, 1, Len(call_stack) - 1) IN
           /\ call_stack[Len(call_stack)] \in Address
           /\ rest \in Seq(Address)
           /\ Len(rest) = Len(call_stack) - 1
<1>1. Len(call_stack) \in Nat /\ Len(call_stack) # 0
  BY EmptySeq, LenProperties
<1>2. Len(call_stack) \in 1 .. Len(call_stack)
  BY <1>1
<1>3. call_stack[Len(call_stack)] \in Address
  BY <1>2, ElementOfSeq
<1> DEFINE n == Len(call_stack) - 1
<1>4. n \in Int /\ 1 \in Int /\ \A j \in 1 .. n : call_stack[j] \in Address
  BY <1>1, ElementOfSeq
<1>5. /\ SubSeq(call_stack, 1, n) \in Seq(Address)
      /\ Len(SubSeq(call_stack, 1, n)) = IF 1 <= n THEN n - 1 + 1 ELSE 0
  BY <1>4, SubSeqProperties
<1>6. \A k \in Nat \ {0} : (IF 1 <= k - 1 THEN (k - 1) - 1 + 1 ELSE 0) = k - 1
  OBVIOUS
<1>7. Len(SubSeq(call_stack, 1, n)) = n
  <2>1. Len(call_stack) \in Nat \ {0}
    BY <1>1
  <2> QED BY <2>1, <1>5, <1>6, Zenon
<1> QED BY <1>3, <1>5, <1>7

\* The register types hold initially and every clock keeps them.
LEMMA TypeInit == CpuInit => CpuTypeOK
<1> SUFFICES ASSUME CpuInit PROVE CpuTypeOK
  OBVIOUS
<1>1. call_stack \in Seq(Address)
  BY EmptySeq DEF CpuInit
<1>2. R \in [Reg -> Word]
  BY ProgramAssumption DEF CpuInit
<1>3. interrupt_enable \in BOOLEAN /\ halted \in BOOLEAN
  BY DEF CpuInit
<1>4. carry_latch \in Bit
  BY DEF CpuInit, Bit
<1> QED BY <1>1, <1>2, <1>3, <1>4, ZeroTypes DEF CpuInit, CpuTypeOK, States

LEMMA TypeStep ==
    ASSUME CpuTypeOK, [Next]_cpuVars
    PROVE  CpuTypeOK'
<1> USE DEF CpuTypeOK, States
<1> USE SignalTypes
<1>1. ASSUME NEW irq \in BOOLEAN, NEW i \in Instructions, Fetch(irq, i)
      PROVE  CpuTypeOK'
  BY <1>1, ProgramAssumption DEF Fetch
<1>2. CASE Decode
  BY <1>2 DEF Decode
<1>3. ASSUME NEW w \in Word, ImmX(w)
      PROVE  CpuTypeOK'
  BY <1>3 DEF ImmX
<1>4. ASSUME NEW w \in Word, ImmY(w)
      PROVE  CpuTypeOK'
  BY <1>4 DEF ImmY
<1>5. CASE ExecEam
  <2>1. operand_x % BankSize \in Bank
    BY SizeAssumption DEF Bank, Word
  <2>2. At(DATA_EAM, operand_x) \in Address
    BY AtType
  <2> QED BY <1>5, <2>1, <2>2 DEF ExecEam
<1>6. CASE ExecAlu
  <2> DEFINE out == Alu(IR.op, IR.M, operand_x, operand_y, carry_latch)
  <2>1. IR.op \in AluOps /\ IR.M \in BOOLEAN /\ IR.D \in Reg
    BY <1>6 DEF ExecAlu, Executing, Instruction
  <2>2. out \in [val : Word, carry : Bit]
    BY <2>1, AluAssumption
  <2>3. out.val \in Word /\ out.carry \in Bit
    BY <2>2
  <2>4. R' = [R EXCEPT ![IR.D] = out.val] /\ carry_latch' = out.carry
    BY <1>6 DEF ExecAlu
  <2> HIDE DEF out
  <2>5. R' \in [Reg -> Word]
    BY <2>1, <2>3, <2>4
  <2> QED BY <1>6, <2>3, <2>4, <2>5 DEF ExecAlu
<1>7. CASE ExecMemory
  BY <1>7, AtType DEF ExecMemory
<1>8. CASE ExecStj
  <2>1. JR.bank \in Bank
    BY DEF Address
  <2> QED BY <1>8, <2>1, AtType DEF ExecStj
<1>9. CASE ExecBranch
  BY <1>9 DEF ExecBranch, Address
<1>10. CASE ExecCal
  <2>1. At(PROGRAM_EAM, NextPc) \in Address
    BY AtType
  <2>2. call_stack' \in Seq(Address)
    BY <1>10, <2>1, PushStack DEF ExecCal
  <2> QED BY <1>10, <2>2 DEF ExecCal
<1>11. CASE ExecRet
  <2>1. call_stack # <<>> => /\ call_stack[Len(call_stack)] \in Address
                             /\ SubSeq(call_stack, 1, Len(call_stack) - 1)
                                  \in Seq(Address)
    BY PopStack
  <2>2. call_stack' \in Seq(Address) /\ PC' \in Word /\ PROGRAM_EAM' \in Bank
    BY <1>11, <2>1 DEF ExecRet, stack_empty, Address
  <2> QED BY <1>11, <2>2 DEF ExecRet
<1>12. CASE ExecHlt
  BY <1>12 DEF ExecHlt
<1>13. ASSUME NEW w \in Word, LdmRead(w)
       PROVE  CpuTypeOK'
  <2>1. \A r \in Reg : Advance(R[r], 1) \in Word
    BY AdvanceType
  <2>2. R' \in [Reg -> Word]
    BY <1>13, <2>1 DEF LdmRead
  <2> QED BY <1>13, <2>2 DEF LdmRead
<1>14. CASE StmWrite
  BY <1>14 DEF StmWrite
<1>15. CASE Commit
  <2>1. IR.X \in Reg /\ Advance(R[IR.X], 1) \in Word
    BY AdvanceType DEF Instruction
  <2>2. R' \in [Reg -> Word]
    BY <1>15, <2>1 DEF Commit
  <2> QED BY <1>15, <2>2 DEF Commit
<1>16. ASSUME NEW v \in Address, Interrupt(v)
       PROVE  CpuTypeOK'
  <2>1. At(PROGRAM_EAM, PC) \in Address
    BY AtType
  <2>2. call_stack' \in Seq(Address)
    BY <1>16, <2>1, PushStack DEF Interrupt
  <2> QED BY <1>16, <2>2 DEF Interrupt, Address
<1>17. ASSUME NEW irq \in BOOLEAN, Halt(irq)
       PROVE  CpuTypeOK'
  BY <1>17 DEF Halt
<1>18. CASE UNCHANGED cpuVars
  BY <1>18 DEF cpuVars
<1> QED
  BY <1>1, <1>2, <1>3, <1>4, <1>5, <1>6, <1>7, <1>8, <1>9, <1>10, <1>11, <1>12,
     <1>13, <1>14, <1>15, <1>16, <1>17, <1>18 DEF Next, Exec

\* Every register keeps a value of its width, whatever the program, the
\* interrupts and the memory do.
THEOREM TypeCorrect == Spec => []CpuTypeOK
BY TypeInit, TypeStep, PTL DEF Spec
-----------------------------------------------------------------------------
(* The inductive invariant.  PcHeld needs to know that HALT and COMMIT are *)
(* told apart by the opcode, the verdict of a branch that nothing it reads *)
(* changes between EXECUTE and COMMIT, and the stack bound only the types. *)

CpuInv ==
    /\ CpuTypeOK
    /\ PcHeld
    /\ BranchVerdictStable
    /\ AccessAddressCurrent
    /\ HaltAndInterruptOK
    /\ StackIndexInRange

LEMMA InvInit == CpuInit => CpuInv
<1> SUFFICES ASSUME CpuInit PROVE CpuInv
  OBVIOUS
<1>1. CpuTypeOK
  BY TypeInit
<1>2. PcHeld /\ BranchVerdictStable /\ AccessAddressCurrent
  BY DEF CpuInit, PcHeld, BranchVerdictStable, AccessAddressCurrent
<1>3. HaltAndInterruptOK
  BY DEF CpuInit, HaltAndInterruptOK, ZeroWord, OpHlt
<1>4. StackIndexInRange
  <2>1. Len(call_stack) = 0
    BY DEF CpuInit
  <2> QED BY <2>1, SizeAssumption DEF StackIndexInRange
<1> QED BY <1>1, <1>2, <1>3, <1>4 DEF CpuInv

\* Only CAL, RET and the interrupt entry change the stack.
LEMMA StackStep ==
    ASSUME CpuTypeOK, StackIndexInRange, [Next]_cpuVars
    PROVE  StackIndexInRange'
<1>1. CASE UNCHANGED call_stack
  BY <1>1 DEF StackIndexInRange
<1>2. CASE ExecCal
  <2>1. At(PROGRAM_EAM, NextPc) \in Address
    BY AtType, SignalTypes DEF CpuTypeOK
  <2> QED BY <1>2, <2>1, PushStack DEF ExecCal, CpuTypeOK
<1>3. ASSUME NEW v \in Address, Interrupt(v)
      PROVE  StackIndexInRange'
  <2>1. At(PROGRAM_EAM, PC) \in Address
    BY AtType DEF CpuTypeOK
  <2> QED BY <1>3, <2>1, PushStack DEF Interrupt, CpuTypeOK
<1>4. CASE ExecRet
  <2>1. CASE stack_empty
    BY <1>4, <2>1, <1>1 DEF ExecRet
  <2>2. CASE ~stack_empty
    <3>1. Len(call_stack') = Len(call_stack) - 1
      BY <1>4, <2>2, PopStack DEF ExecRet, stack_empty, CpuTypeOK
    <3>2. Len(call_stack) \in Nat
      BY LenProperties DEF CpuTypeOK
    <3> QED BY <3>1, <3>2, SizeAssumption DEF StackIndexInRange
  <2> QED BY <2>1, <2>2
<1> QED
  BY <1>1, <1>2, <1>3, <1>4
     DEF Next, Exec, Fetch, Decode, ImmX, ImmY, ExecEam, ExecAlu, ExecMemory,
         ExecStj, ExecBranch, ExecHlt, LdmRead, StmWrite, Commit, Halt, cpuVars

\* What the FSM state says of PC, IR, the operands and the address latches.
LEMMA ControlStep ==
    ASSUME CpuInv, [Next]_cpuVars
    PROVE  /\ PcHeld' /\ BranchVerdictStable'
           /\ AccessAddressCurrent' /\ HaltAndInterruptOK'
<1> USE DEF CpuInv, PcHeld, BranchVerdictStable, AccessAddressCurrent,
            HaltAndInterruptOK, Executing,
            OpEam, AluOps, OpLdm, OpStm, OpStj, OpBranch, OpCal, OpRet, OpHlt
<1>1. ASSUME NEW irq \in BOOLEAN, NEW i \in Instructions, Fetch(irq, i)
      PROVE  /\ PcHeld' /\ BranchVerdictStable'
             /\ AccessAddressCurrent' /\ HaltAndInterruptOK'
  BY <1>1 DEF Fetch
<1>2. CASE Decode
  BY <1>2 DEF Decode
<1>3. ASSUME NEW w \in Word, ImmX(w)
      PROVE  /\ PcHeld' /\ BranchVerdictStable'
             /\ AccessAddressCurrent' /\ HaltAndInterruptOK'
  BY <1>3 DEF ImmX
<1>4. ASSUME NEW w \in Word, ImmY(w)
      PROVE  /\ PcHeld' /\ BranchVerdictStable'
             /\ AccessAddressCurrent' /\ HaltAndInterruptOK'
  BY <1>4 DEF ImmY
<1>5. CASE ExecEam
  BY <1>5 DEF ExecEam
<1>6. CASE ExecAlu
  BY <1>6 DEF ExecAlu
<1>7. CASE ExecMemory
  BY <1>7 DEF ExecMemory, operand_x
<1>8. CASE ExecStj
  BY <1>8 DEF ExecStj
<1>9. CASE ExecBranch
  <2>1. operand_x' = operand_x /\ operand_y' = operand_y
    BY <1>9 DEF ExecBranch, operand_x, operand_y
  <2>2. condition_met' <=> condition_met
    BY <1>9, <2>1 DEF ExecBranch, condition_met
  <2>3. JR \in Address
    BY DEF CpuTypeOK
  <2>4. At(JR.bank, JR.off) = JR
    BY <2>3 DEF At, Address
  <2> QED BY <1>9, <2>2, <2>4 DEF ExecBranch
<1>10. CASE ExecCal
  BY <1>10 DEF ExecCal
<1>11. CASE ExecRet
  BY <1>11 DEF ExecRet
<1>12. CASE ExecHlt
  BY <1>12 DEF ExecHlt
<1>13. ASSUME NEW w \in Word, LdmRead(w)
       PROVE  /\ PcHeld' /\ BranchVerdictStable'
              /\ AccessAddressCurrent' /\ HaltAndInterruptOK'
  BY <1>13 DEF LdmRead
<1>14. CASE StmWrite
  BY <1>14 DEF StmWrite
<1>15. CASE Commit
  BY <1>15 DEF Commit
<1>16. ASSUME NEW v \in Address, Interrupt(v)
       PROVE  /\ PcHeld' /\ BranchVerdictStable'
              /\ AccessAddressCurrent' /\ HaltAndInterruptOK'
  BY <1>16 DEF Interrupt
<1>17. ASSUME NEW irq \in BOOLEAN, Halt(irq)
       PROVE  /\ PcHeld' /\ BranchVerdictStable'
              /\ AccessAddressCurrent' /\ HaltAndInterruptOK'
  BY <1>17 DEF Halt
<1>18. CASE UNCHANGED cpuVars
  BY <1>18 DEF cpuVars, operand_x, operand_y, condition_met
<1> QED
  BY <1>1, <1>2, <1>3, <1>4, <1>5, <1>6, <1>7, <1>8, <1>9, <1>10, <1>11, <1>12,
     <1>13, <1>14, <1>15, <1>16, <1>17, <1>18 DEF Next, Exec

LEMMA InvStep == CpuInv /\ [Next]_cpuVars => CpuInv'
BY TypeStep, StackStep, ControlStep DEF CpuInv

\* The strengthened invariant of the processor.
THEOREM Invariance == Spec => []CpuInv
BY InvInit, InvStep, PTL DEF Spec

\* Immediates, return addresses and next addresses all refer to one PC.
THEOREM PcIsHeld == Spec => []PcHeld
BY Invariance, PTL DEF CpuInv

\* COMMIT never disagrees with EXECUTE about a branch.
THEOREM BranchVerdictIsStable == Spec => []BranchVerdictStable
BY Invariance, PTL DEF CpuInv

\* Loads and stores use the address their operand names.
THEOREM AccessAddressIsCurrent == Spec => []AccessAddressCurrent
BY Invariance, PTL DEF CpuInv

\* Halting and interrupt entry are told apart and respect interrupt_enable.
THEOREM HaltAndInterruptAreOK == Spec => []HaltAndInterruptOK
BY Invariance, PTL DEF CpuInv

\* The 9-bit stack pointer never leaves the range of its 8-bit slot index.
THEOREM StackIndexIsInRange == Spec => []StackIndexInRange
BY Invariance, PTL DEF CpuInv

\* What devices may rely on: an access lasts one clock, and COMMIT, FETCH,
\* DECODE and EXECUTE come before the next one.
THEOREM PacesTheBus == Spec => PacesAccesses
<1>1. CpuInit => Master!PaceInit
  BY DEF CpuInit, Master!PaceInit, MasterPhase
<1>2. CpuTypeOK /\ [Next]_cpuVars => [Master!Pace]_MasterPhase
  <2> SUFFICES ASSUME CpuTypeOK, [Next]_cpuVars PROVE [Master!Pace]_MasterPhase
    OBVIOUS
  <2> USE DEF Master!Pace, MasterPhase
  <2>1. ASSUME NEW irq \in BOOLEAN, NEW i \in Instructions, Fetch(irq, i)
        PROVE  [Master!Pace]_MasterPhase
    BY <2>1 DEF Fetch
  <2>2. CASE Decode
    BY <2>2 DEF Decode
  <2>3. ASSUME NEW w \in Word, ImmX(w) \/ ImmY(w)
        PROVE  [Master!Pace]_MasterPhase
    BY <2>3 DEF ImmX, ImmY
  <2>4. CASE Exec
    BY <2>4 DEF Exec, ExecEam, ExecAlu, ExecMemory, ExecStj, ExecBranch, ExecCal,
                ExecRet, ExecHlt, Executing
  <2>5. ASSUME NEW w \in Word, LdmRead(w)
        PROVE  [Master!Pace]_MasterPhase
    BY <2>5 DEF LdmRead
  <2>6. CASE StmWrite
    BY <2>6 DEF StmWrite
  <2>7. CASE Commit
    BY <2>7 DEF Commit
  <2>8. ASSUME NEW v \in Address, Interrupt(v)
        PROVE  [Master!Pace]_MasterPhase
    BY <2>8 DEF Interrupt
  <2>9. ASSUME NEW irq \in BOOLEAN, Halt(irq)
        PROVE  [Master!Pace]_MasterPhase
    BY <2>9 DEF Halt
  <2>10. CASE UNCHANGED cpuVars
    BY <2>10 DEF cpuVars
  <2> QED
    BY <2>1, <2>2, <2>3, <2>4, <2>5, <2>6, <2>7, <2>8, <2>9, <2>10 DEF Next
<1> QED
  BY <1>1, <1>2, TypeCorrect, PTL DEF Spec, PacesAccesses, Master!PaceSpec

-----------------------------------------------------------------------------
(* Refinement: the processor implements the atomic machine Isa.  Each      *)
(* clock is matched by one instruction, one interrupt entry or a           *)
(* stuttering step of Isa.                                                 *)

\* What the refinement needs beyond CpuInv: the instruction being executed is
\* one of the program.
FetchedFromProgram ==
    state \in {"DECODE", "IMM_X", "IMM_Y", "EXECUTE", "LDM_READ", "STM_WRITE",
               "COMMIT"}
      => IR \in Instructions

LEMMA FetchedStep ==
    ASSUME FetchedFromProgram, [Next]_cpuVars
    PROVE  FetchedFromProgram'
BY DEF FetchedFromProgram, Next, Exec, Fetch, Decode, ImmX, ImmY, ExecEam,
       ExecAlu, ExecMemory, ExecStj, ExecBranch, ExecCal, ExecRet, ExecHlt,
       LdmRead, StmWrite, Commit, Interrupt, Halt, Executing, cpuVars

\* No architectural register changes.
Same == /\ ArchPC' = ArchPC /\ ArchR' = ArchR /\ ArchHalted' = ArchHalted
        /\ UNCHANGED <<PROGRAM_EAM, DATA_EAM, JR, IVR, carry_latch, call_stack,
                       interrupt_enable>>

LEMMA SameIsStutter == Same => UNCHANGED Atomic!vars
BY DEF Same, Atomic!vars

\* Outside COMMIT and INTERRUPT the architectural registers are the real ones.
LEMMA ArchPlain ==
    ASSUME CpuTypeOK
    PROVE  /\ state # "COMMIT" => ArchPC = PC /\ ArchR = R
           /\ state # "INTERRUPT" => ArchHalted = halted
BY DEF ArchPC, ArchR, ArchHalted, CpuTypeOK

LEMMA ArchPlainPrime ==
    ASSUME CpuTypeOK'
    PROVE  /\ state' # "COMMIT" => ArchPC' = PC' /\ ArchR' = R'
           /\ state' # "INTERRUPT" => ArchHalted' = halted'
BY DEF ArchPC, ArchR, ArchHalted, CpuTypeOK

\* The instance has its own copies of the constant operators of RR16X: they
\* are the same operators.
LEMMA SameNumbers ==
    /\ Atomic!Word = Word /\ Atomic!Bank = Bank /\ Atomic!Reg = Reg
    /\ Atomic!OpEam = OpEam /\ Atomic!AluOps = AluOps /\ Atomic!OpLdm = OpLdm
    /\ Atomic!OpStm = OpStm /\ Atomic!OpStj = OpStj
    /\ Atomic!OpBranch = OpBranch /\ Atomic!OpCal = OpCal
    /\ Atomic!OpRet = OpRet /\ Atomic!OpHlt = OpHlt
    /\ Atomic!Address = Address
BY DEF Atomic!Word, Word, Atomic!Bank, Bank, Atomic!Reg, Reg, Atomic!OpEam,
       OpEam, Atomic!AluOps, AluOps, Atomic!OpLdm, OpLdm, Atomic!OpStm, OpStm,
       Atomic!OpStj, OpStj, Atomic!OpBranch, OpBranch, Atomic!OpCal, OpCal,
       Atomic!OpRet, OpRet, Atomic!OpHlt, OpHlt, Atomic!Address, Address

LEMMA SameAt == ASSUME NEW b, NEW o PROVE Atomic!At(b, o) = At(b, o)
BY DEF Atomic!At, At

LEMMA SameAdvance == ASSUME NEW p, NEW n PROVE Atomic!Advance(p, n) = Advance(p, n)
BY DEF Atomic!Advance, Advance

LEMMA SameLength ==
    ASSUME NEW i PROVE Atomic!InstructionLength(i) = InstructionLength(i)
BY DEF Atomic!InstructionLength, InstructionLength

LEMMA SameCondition ==
    ASSUME NEW i, NEW x, NEW y
    PROVE  Atomic!ConditionMet(i, x, y) <=> ConditionMet(i, x, y)
BY DEF Atomic!ConditionMet, ConditionMet, Atomic!Signed, Signed

\* In COMMIT after an instruction that leaves PC to COMMIT, the architectural
\* PC is the next instruction.
LEMMA EnterCommit ==
    ASSUME state' = "COMMIT", UNCHANGED <<IR, PC>>,
           IR.op \notin {OpBranch, OpCal, OpRet}
    PROVE  ArchPC' = Advance(PC, InstructionLength(IR))
BY DEF ArchPC, CommitAdvances, NextPc
-----------------------------------------------------------------------------
(* Clocks that the atomic machine does not see                             *)

LEMMA FetchStutters ==
    ASSUME CpuInv, CpuTypeOK', NEW irq \in BOOLEAN, NEW i \in Instructions, Fetch(irq, i)
    PROVE  Same
<1>1. state = "FETCH" /\ state' \in {"HALT", "INTERRUPT", "DECODE"}
      /\ UNCHANGED <<PC, R, halted>>
  BY DEF Fetch
<1>2. ArchPC' = ArchPC /\ ArchR' = ArchR
  BY <1>1, ArchPlain, ArchPlainPrime DEF CpuInv
<1>3. ArchHalted' = ArchHalted
  BY <1>1 DEF Fetch, ArchHalted, CpuInv, HaltAndInterruptOK
<1> QED BY <1>2, <1>3 DEF Same, Fetch

LEMMA QuietClocksStutter ==
    ASSUME CpuInv, CpuTypeOK',
           \/ Decode
           \/ \E w \in Word : ImmX(w)
           \/ \E w \in Word : ImmY(w)
           \/ ExecMemory
    PROVE  Same
<1>1. /\ state \notin {"COMMIT", "INTERRUPT"}
      /\ state' \notin {"COMMIT", "INTERRUPT"}
      /\ UNCHANGED <<PC, R, halted>>
  BY DEF Decode, ImmX, ImmY, ExecMemory, Executing
<1>2. ArchPC' = ArchPC /\ ArchR' = ArchR /\ ArchHalted' = ArchHalted
  BY <1>1, ArchPlain, ArchPlainPrime DEF CpuInv
<1> QED BY <1>2 DEF Same, Decode, ImmX, ImmY, ExecMemory

LEMMA CommitStutters ==
    ASSUME CpuInv, CpuTypeOK', Commit
    PROVE  Same
<1>1. state = "COMMIT" /\ state' = "FETCH" /\ UNCHANGED halted
  BY DEF Commit
<1>2. ArchPC' = ArchPC /\ ArchR' = ArchR
  BY <1>1, ArchPlainPrime DEF Commit, ArchPC, ArchR
<1>3. ArchHalted' = ArchHalted
  BY <1>1, ArchPlain, ArchPlainPrime DEF CpuInv
<1> QED BY <1>2, <1>3 DEF Same, Commit

\* An HLT that wakes up still counts as halted until the interrupt is entered.
LEMMA HaltStutters ==
    ASSUME CpuInv, CpuTypeOK', NEW irq \in BOOLEAN, Halt(irq)
    PROVE  Same
<1>1. state = "HALT" /\ state' \in {"HALT", "INTERRUPT"} /\ UNCHANGED <<PC, R>>
  BY DEF Halt
<1>2. ArchPC' = ArchPC /\ ArchR' = ArchR
  BY <1>1, ArchPlain, ArchPlainPrime DEF CpuInv
<1>3. ArchHalted' = ArchHalted
  BY <1>1 DEF Halt, ArchHalted, CpuInv, HaltAndInterruptOK
<1> QED BY <1>2, <1>3 DEF Same, Halt
-----------------------------------------------------------------------------
(* Clocks that are an instruction of the atomic machine                    *)

\* Before the clock that executes it, the instruction's operands are those the
\* atomic machine takes from the immediates or the registers.
LEMMA AtomicOperands ==
    ASSUME CpuInv, state \in {"EXECUTE", "LDM_READ", "STM_WRITE"}
    PROVE  /\ ArchPC = PC /\ ArchR = R /\ ~ArchHalted
           /\ Atomic!OpX(IR, immediate_x) = operand_x
           /\ Atomic!OpY(IR, immediate_y) = operand_y
<1>1. ArchPC = PC /\ ArchR = R
  BY ArchPlain DEF CpuInv
<1>2. ~ArchHalted
  BY DEF ArchHalted, CpuInv, HaltAndInterruptOK
<1>3. /\ Atomic!OpX(IR, immediate_x) = operand_x
      /\ Atomic!OpY(IR, immediate_y) = operand_y
  BY <1>1 DEF Atomic!OpX, Atomic!OpY, operand_x, operand_y
<1> QED BY <1>1, <1>2, <1>3

LEMMA PushIsPush ==
    ASSUME NEW a
    PROVE  Push(a) <=> Atomic!Push(a)
BY DEF Push, stack_full, Atomic!Push

LEMMA ExecIsExecute ==
    ASSUME CpuInv, CpuTypeOK', Exec, ~ExecMemory
    PROVE  Atomic!Execute(IR, immediate_x, immediate_y, 0)
<1> USE SameNumbers, SameAt, SameAdvance, SameLength, SameCondition
<1> USE DEF Executing, OpEam, AluOps, OpLdm, OpStm, OpStj, OpBranch, OpCal,
            OpRet, OpHlt
<1>0. state = "EXECUTE"
  BY DEF Exec, ExecEam, ExecAlu, ExecStj, ExecBranch, ExecCal, ExecRet, ExecHlt
<1>a. /\ ArchPC = PC /\ ArchR = R /\ ~ArchHalted /\ ArchHalted = halted
      /\ Atomic!OpX(IR, immediate_x) = operand_x
      /\ Atomic!OpY(IR, immediate_y) = operand_y
  BY <1>0, AtomicOperands, ArchPlain DEF CpuInv
<1>b. state' # "INTERRUPT"
  BY DEF Exec, ExecEam, ExecAlu, ExecStj, ExecBranch, ExecCal, ExecRet, ExecHlt
<1>c. ArchHalted' = halted'
  BY <1>b, ArchPlainPrime
<1>d. IR.op # OpStm => ArchR' = R'
  BY DEF ArchR, Exec, ExecEam, ExecAlu, ExecStj, ExecBranch, ExecCal, ExecRet,
         ExecHlt
<1>1. CASE ExecEam
  <2>1. ArchPC' = Advance(PC, InstructionLength(IR))
    BY <1>1, EnterCommit DEF ExecEam
  <2>2. Atomic!EamSet(IR, operand_x)
    BY <1>1, <1>a, <1>c, <1>d, <2>1 DEF ExecEam, Atomic!EamSet, Atomic!GoOn
  <2> QED BY <1>1, <1>a, <2>2 DEF ExecEam, Atomic!Execute
<1>2. CASE ExecAlu
  <2>1. ArchPC' = Advance(PC, InstructionLength(IR))
    BY <1>2, EnterCommit DEF ExecAlu
  <2>2. Atomic!Arith(IR, operand_x, operand_y)
    BY <1>2, <1>a, <1>c, <1>d, <2>1 DEF ExecAlu, Atomic!Arith, Atomic!GoOn
  <2> QED BY <1>2, <1>a, <2>2 DEF ExecAlu, Atomic!Execute
<1>3. CASE ExecStj
  <2>1. ArchPC' = Advance(PC, InstructionLength(IR))
    BY <1>3, EnterCommit DEF ExecStj
  <2>2. Atomic!SetJump(IR, operand_x)
    BY <1>3, <1>a, <1>c, <1>d, <2>1 DEF ExecStj, Atomic!SetJump, Atomic!GoOn
  <2> QED BY <1>3, <1>a, <2>2 DEF ExecStj, Atomic!Execute
<1>4. CASE ExecBranch
  <2>1. condition_met' <=> condition_met
    BY <1>4 DEF ExecBranch, condition_met, operand_x, operand_y
  <2>2. condition_met <=> ConditionMet(IR, operand_x, operand_y)
    BY DEF condition_met
  <2>3. ArchPC' = IF condition_met THEN JR.off
                                   ELSE Advance(PC, InstructionLength(IR))
    BY <1>4, <2>1 DEF ExecBranch, ArchPC, CommitAdvances, NextPc
  <2>4. Atomic!Branch(IR, operand_x, operand_y)
    BY <1>4, <1>a, <1>c, <1>d, <2>2, <2>3
       DEF ExecBranch, Atomic!Branch, Atomic!GoOn, Atomic!JumpTo
  <2> QED BY <1>4, <1>a, <2>4 DEF ExecBranch, Atomic!Execute
<1>5. CASE ExecCal
  <2>1. ArchPC' = PC'
    BY <1>5 DEF ExecCal, ArchPC, CommitAdvances
  <2>2. Atomic!Push(At(PROGRAM_EAM, Advance(PC, InstructionLength(IR))))
    BY <1>5, PushIsPush DEF ExecCal, NextPc
  <2>3. Atomic!JumpTo(At(IF IR.M THEN DATA_EAM ELSE PROGRAM_EAM, operand_x))
    BY <1>5, <2>1 DEF ExecCal, Atomic!JumpTo, At
  <2>4. Atomic!Call(IR, operand_x)
    BY <1>5, <1>a, <1>c, <1>d, <2>2, <2>3 DEF ExecCal, Atomic!Call
  <2> QED BY <1>5, <1>a, <2>4 DEF ExecCal, Atomic!Execute
<1>6. CASE ExecRet
  <2>1. ArchPC' = PC'
    BY <1>6 DEF ExecRet, ArchPC, CommitAdvances
  <2>2. Atomic!Return(IR)
    BY <1>6, <1>a, <1>c, <1>d, <2>1
       DEF ExecRet, Atomic!Return, Atomic!JumpTo, stack_empty
  <2> QED BY <1>6, <1>a, <2>2 DEF ExecRet, Atomic!Execute
<1>7. CASE ExecHlt
  <2>1. ArchPC' = PC'
    BY <1>7 DEF ExecHlt, ArchPC
  <2>2. Atomic!Stop
    BY <1>7, <1>a, <1>c, <1>d, <2>1 DEF ExecHlt, Atomic!Stop
  <2> QED BY <1>7, <1>a, <2>2 DEF ExecHlt, Atomic!Execute
<1> QED BY <1>1, <1>2, <1>3, <1>4, <1>5, <1>6, <1>7 DEF Exec

LEMMA LdmReadIsExecute ==
    ASSUME CpuInv, CpuTypeOK', NEW w \in Word, LdmRead(w)
    PROVE  Atomic!Execute(IR, immediate_x, immediate_y, w)
<1> USE SameNumbers, SameAt, SameAdvance, SameLength, SameCondition
<1>1. state = "LDM_READ" /\ state' = "COMMIT" /\ IR.op = OpLdm
  BY DEF LdmRead, CpuInv, AccessAddressCurrent
<1>2. /\ ArchPC = PC /\ ArchR = R /\ ~ArchHalted /\ ArchHalted = halted
      /\ ArchHalted' = halted'
  BY <1>1, AtomicOperands, ArchPlain, ArchPlainPrime DEF CpuInv
<1>3. ArchPC' = Advance(PC, InstructionLength(IR))
  BY <1>1, EnterCommit DEF LdmRead, OpLdm, OpBranch, OpCal, OpRet
<1>4. ArchR' = R'
  BY <1>1 DEF LdmRead, ArchR, OpLdm, OpStm
<1>5. Atomic!Load(IR, w)
  BY <1>2, <1>3, <1>4 DEF LdmRead, Atomic!Load, Atomic!GoOn, PostIncrement
<1> QED BY <1>1, <1>2, <1>5 DEF Atomic!Execute

LEMMA StmWriteIsExecute ==
    ASSUME CpuInv, CpuTypeOK', StmWrite
    PROVE  Atomic!Execute(IR, immediate_x, immediate_y, 0)
<1> USE SameNumbers, SameAt, SameAdvance, SameLength, SameCondition
<1>1. state = "STM_WRITE" /\ state' = "COMMIT" /\ IR.op = OpStm
  BY DEF StmWrite, CpuInv, AccessAddressCurrent
<1>2. /\ ArchPC = PC /\ ArchR = R /\ ~ArchHalted /\ ArchHalted = halted
      /\ ArchHalted' = halted'
  BY <1>1, AtomicOperands, ArchPlain, ArchPlainPrime DEF CpuInv
<1>3. ArchPC' = Advance(PC, InstructionLength(IR))
  BY <1>1, EnterCommit DEF StmWrite, OpStm, OpBranch, OpCal, OpRet
<1>4. ArchR' = [r \in Reg |-> IF IR.M /\ ~IR.LX /\ r = IR.X
                                THEN Advance(R[r], 1) ELSE R[r]]
  <2>1. R \in [Reg -> Word] /\ IR.X \in Reg
    BY DEF CpuInv, CpuTypeOK, Instruction
  <2>2. ArchR' = IF PostIncrement THEN [R EXCEPT ![IR.X] = Advance(@, 1)] ELSE R
    BY <1>1 DEF StmWrite, ArchR, PostIncrement
  <2> QED BY <2>1, <2>2 DEF PostIncrement
<1>5. Atomic!Store(IR)
  BY <1>2, <1>3, <1>4 DEF StmWrite, Atomic!Store, Atomic!GoOn
<1> QED BY <1>1, <1>2, <1>5 DEF Atomic!Execute

LEMMA InterruptIsTaken ==
    ASSUME CpuInv, CpuTypeOK', NEW v \in Address, Interrupt(v)
    PROVE  Atomic!TakeInterrupt(v)
<1> USE SameNumbers, SameAt, SameAdvance, SameLength, SameCondition
<1>1. state = "INTERRUPT" /\ state' = "FETCH" /\ interrupt_enable
  BY DEF Interrupt, CpuInv, HaltAndInterruptOK
<1>2. ArchPC = PC /\ ArchR = R /\ ArchPC' = PC' /\ ArchR' = R'
  BY <1>1, ArchPlain, ArchPlainPrime DEF CpuInv
<1>3. ArchHalted' = FALSE
  BY <1>1, ArchPlainPrime DEF Interrupt, CpuInv, CpuTypeOK, HaltAndInterruptOK
<1>4. Atomic!Push(At(PROGRAM_EAM, ArchPC))
  BY <1>2, PushIsPush DEF Interrupt
<1> QED BY <1>1, <1>2, <1>3, <1>4 DEF Interrupt, Atomic!TakeInterrupt, Atomic!JumpTo
-----------------------------------------------------------------------------
LEMMA RefinementInit == CpuInit => Atomic!Init
BY SameAt DEF CpuInit, Atomic!Init, ArchPC, ArchR, ArchHalted

LEMMA RefinementStep ==
    ASSUME CpuInv, FetchedFromProgram, [Next]_cpuVars
    PROVE  [Atomic!Next]_(Atomic!vars)
<1> USE SameNumbers, SameAt, SameAdvance, SameLength, SameCondition
<1>0. 0 \in Word /\ immediate_x \in Word /\ immediate_y \in Word
  BY ZeroTypes DEF CpuInv, CpuTypeOK
<1>t. CpuTypeOK'
  BY TypeStep DEF CpuInv
<1>1. ASSUME Same
      PROVE  [Atomic!Next]_(Atomic!vars)
  BY <1>1, SameIsStutter
<1>2. ASSUME NEW d \in Word, IR \in Instructions,
             Atomic!Execute(IR, immediate_x, immediate_y, d)
      PROVE  [Atomic!Next]_(Atomic!vars)
  BY <1>0, <1>2 DEF Atomic!Next
<1>3. ASSUME NEW irq \in BOOLEAN, NEW i \in Instructions, Fetch(irq, i)
      PROVE  [Atomic!Next]_(Atomic!vars)
  BY <1>1, <1>3, <1>t, FetchStutters
<1>4. CASE \/ Decode
           \/ \E w \in Word : ImmX(w)
           \/ \E w \in Word : ImmY(w)
           \/ ExecMemory
  BY <1>1, <1>4, <1>t, QuietClocksStutter
<1>5. CASE Exec /\ ~ExecMemory
  <2>1. IR \in Instructions
    BY <1>5 DEF FetchedFromProgram, Exec, ExecEam, ExecAlu, ExecStj, ExecBranch,
                ExecCal, ExecRet, ExecHlt, Executing
  <2> QED BY <1>0, <1>2, <1>5, <2>1, <1>t, ExecIsExecute
<1>6. ASSUME NEW w \in Word, LdmRead(w)
      PROVE  [Atomic!Next]_(Atomic!vars)
  <2>1. IR \in Instructions
    BY <1>6 DEF FetchedFromProgram, LdmRead
  <2> QED BY <1>2, <1>6, <2>1, <1>t, LdmReadIsExecute
<1>7. CASE StmWrite
  <2>1. IR \in Instructions
    BY <1>7 DEF FetchedFromProgram, StmWrite
  <2> QED BY <1>0, <1>2, <1>7, <2>1, <1>t, StmWriteIsExecute
<1>8. CASE Commit
  BY <1>1, <1>8, <1>t, CommitStutters
<1>9. ASSUME NEW v \in Address, Interrupt(v)
      PROVE  [Atomic!Next]_(Atomic!vars)
  BY <1>9, <1>t, InterruptIsTaken DEF Atomic!Next
<1>10. ASSUME NEW irq \in BOOLEAN, Halt(irq)
       PROVE  [Atomic!Next]_(Atomic!vars)
  BY <1>1, <1>10, <1>t, HaltStutters
<1>11. CASE UNCHANGED cpuVars
  <2>1. Same
    BY <1>11 DEF cpuVars, Same, ArchPC, ArchR, ArchHalted, CommitAdvances,
                 condition_met, operand_x, operand_y, NextPc, PostIncrement
  <2> QED BY <1>1, <2>1
<1>12. CASE Exec
  BY <1>4, <1>5, <1>12
<1>13. CASE Decode \/ (\E w \in Word : ImmX(w)) \/ (\E w \in Word : ImmY(w))
  BY <1>4, <1>13
<1> QED
  <2> HIDE SameNumbers, SameAt, SameAdvance, SameLength, SameCondition
  <2> QED BY <1>3, <1>6, <1>7, <1>8, <1>9, <1>10, <1>11, <1>12, <1>13, Zenon
             DEF Next

\* The multi-cycle processor implements the atomic instruction set machine,
\* whatever program it runs and whenever interrupts arrive.
THEOREM Refinement == Spec => ImplementsIsa
<1>1. CpuInit => FetchedFromProgram
  BY DEF CpuInit, FetchedFromProgram
<1>2. FetchedFromProgram /\ [Next]_cpuVars => FetchedFromProgram'
  BY FetchedStep
<1>3. CpuInv /\ FetchedFromProgram /\ [Next]_cpuVars
        => [Atomic!Next]_(Atomic!vars)
  BY RefinementStep
<1> QED
  BY <1>1, <1>2, <1>3, Invariance, RefinementInit, PTL
     DEF Spec, ImplementsIsa, Atomic!Spec

-----------------------------------------------------------------------------
(***************************************************************************)
(* Interrupts of design.sv do not nest in a program that obeys the         *)
(* discipline of ReturnsMasked, for every word size, stack and program.    *)
(***************************************************************************)
Kinds == {"call", "interrupt"}

\* A RET on its way to EXECUTE is still the one the program was allowed to
\* fetch.
ReturnStaysMasked ==
    state \in {"DECODE", "IMM_X", "IMM_Y", "EXECUTE"} /\ IR.op = OpRet /\ Handlers # {}
      => IR.M \/ frames[Len(frames)] = "interrupt"

FramesOK == frames \in Seq(Kinds) /\ Len(frames) = Len(call_stack)

NestInv ==
    /\ CpuInv
    /\ FramesOK
    /\ InterruptsDoNotNest
    /\ HandlerRunsMasked
    /\ ReturnStaysMasked

LEMMA StackLength ==
    ASSUME CpuTypeOK
    PROVE  Len(call_stack) \in Nat
<1>1. call_stack \in Seq(Address)
  BY DEF CpuTypeOK
<1> QED BY <1>1, LenProperties, Zenon

LEMMA KeptStack ==
    ASSUME CpuTypeOK, Record, call_stack' = call_stack
    PROVE  frames' = frames /\ Handlers' = Handlers
<1>1. frames' = frames
  BY StackLength DEF Record
<1> QED BY <1>1 DEF Handlers

\* What a push of one kind of frame, or a dropped push, does to the handlers.
LEMMA PushFrame ==
    ASSUME CpuTypeOK, FramesOK, Record, NEW a \in Address, Push(a)
    PROVE  /\ FramesOK'
           /\ Handlers' \subseteq Handlers \cup {Len(frames) + 1}
           /\ state # "INTERRUPT" => Handlers' \subseteq Handlers
           /\ \A k \in Handlers' : k # Len(frames) + 1 => k \in Handlers
<1> DEFINE kind == IF state = "INTERRUPT" THEN "interrupt" ELSE "call"
<1>1. /\ Len(call_stack) \in Nat /\ Len(frames) \in Nat
      /\ frames \in Seq(Kinds) /\ Len(frames) = Len(call_stack)
      /\ call_stack \in Seq(Address)
  BY StackLength DEF FramesOK, CpuTypeOK
<1>2. CASE stack_full
  <2>1. call_stack' = call_stack
    BY <1>2 DEF Push
  <2>2. frames' = frames /\ Handlers' = Handlers
    BY <2>1, KeptStack
  <2> QED BY <2>1, <2>2, <1>1 DEF FramesOK
<1>3. CASE ~stack_full
  <2>1. call_stack' = Append(call_stack, a)
    BY <1>3 DEF Push
  <2>2. Len(call_stack') = Len(call_stack) + 1
    BY <1>1, <2>1, AppendProperties
  <2>3. frames' = Append(frames, kind)
    BY <1>1, <2>2 DEF Record
  <2>4. kind \in Kinds
    BY DEF Kinds
  <2> HIDE DEF kind
  <2>5. /\ frames' \in Seq(Kinds) /\ Len(frames') = Len(frames) + 1
        /\ \A k \in 1 .. Len(frames) : frames'[k] = frames[k]
        /\ frames'[Len(frames) + 1] = kind
    BY <1>1, <2>3, <2>4, AppendProperties
  <2>6. FramesOK'
    BY <1>1, <2>2, <2>5 DEF FramesOK
  <2>7. \A k \in Handlers' : k # Len(frames) + 1 => k \in Handlers
    BY <1>1, <2>5 DEF Handlers
  <2>8. state # "INTERRUPT" => Len(frames) + 1 \notin Handlers'
    BY <2>5 DEF Handlers, kind
  <2> QED BY <2>6, <2>7, <2>8
<1> QED BY <1>2, <1>3

\* A return takes the last frame away.
LEMMA PopFrame ==
    ASSUME CpuTypeOK, FramesOK, Record, call_stack # <<>>,
           call_stack' = SubSeq(call_stack, 1, Len(call_stack) - 1)
    PROVE  FramesOK' /\ Handlers' \subseteq Handlers \ {Len(frames)}
<1>1. /\ Len(call_stack) \in Nat /\ Len(frames) \in Nat
      /\ frames \in Seq(Kinds) /\ Len(frames) = Len(call_stack)
      /\ call_stack \in Seq(Address)
  BY StackLength DEF FramesOK, CpuTypeOK
<1>2. Len(call_stack') = Len(call_stack) - 1 /\ Len(call_stack) >= 1
  <2>1. Len(call_stack') = Len(call_stack) - 1
    BY <1>1, PopStack
  <2>2. Len(call_stack) # 0
    BY <1>1, EmptySeq, LenProperties
  <2> QED BY <1>1, <2>1, <2>2
<1> DEFINE n == Len(frames) - 1
<1>3. frames' = SubSeq(frames, 1, n) /\ n \in Nat
  BY <1>1, <1>2 DEF Record
<1>4. \A j \in 1 .. n : frames[j] \in Kinds
  BY <1>1, ElementOfSeq
<1>5. /\ frames' \in Seq(Kinds)
      /\ Len(frames') = IF 1 <= n THEN n - 1 + 1 ELSE 0
      /\ \A j \in 1 .. n - 1 + 1 : frames'[j] = frames[1 + j - 1]
  BY <1>3, <1>4, SubSeqProperties
<1>6. Len(frames') = n /\ \A j \in 1 .. n : frames'[j] = frames[j]
  <2> HIDE DEF n
  <2> QED BY <1>3, <1>5
<1>7. FramesOK'
  BY <1>1, <1>2, <1>5, <1>6 DEF FramesOK
<1>8. Handlers' \subseteq Handlers \ {Len(frames)}
  BY <1>1, <1>6 DEF Handlers
<1> QED BY <1>7, <1>8
-----------------------------------------------------------------------------
LEMMA NestInvInit == NestInit => NestInv
<1> SUFFICES ASSUME NestInit PROVE NestInv
  OBVIOUS
<1>1. CpuInv
  BY InvInit DEF NestInit
<1>2. frames = <<>> /\ Len(frames) = 0 /\ Len(call_stack) = 0
  BY DEF NestInit, CpuInit
<1>3. FramesOK
  BY <1>2, EmptySeq DEF FramesOK
<1>4. Handlers = {}
  BY <1>2 DEF Handlers
<1> QED BY <1>1, <1>3, <1>4 DEF NestInv, InterruptsDoNotNest, HandlerRunsMasked,
                                ReturnStaysMasked

\* A clock that leaves the stack alone, does not enable interrupts, and neither
\* fetches nor enters an interrupt.
LEMMA PlainStep ==
    ASSUME NestInv, Record, call_stack' = call_stack,
           interrupt_enable' = interrupt_enable,
           state' # "INTERRUPT",
           \/ state' \notin {"DECODE", "IMM_X", "IMM_Y", "EXECUTE"}
           \/ state \in {"DECODE", "IMM_X", "IMM_Y", "EXECUTE"} /\ IR' = IR
    PROVE  /\ FramesOK' /\ InterruptsDoNotNest' /\ HandlerRunsMasked'
           /\ ReturnStaysMasked'
<1>1. frames' = frames /\ Handlers' = Handlers
  BY KeptStack DEF NestInv, CpuInv
<1>2. FramesOK' /\ InterruptsDoNotNest'
  BY <1>1 DEF NestInv, FramesOK, InterruptsDoNotNest
<1>3. HandlerRunsMasked'
  BY <1>1 DEF NestInv, HandlerRunsMasked
<1>4. ReturnStaysMasked'
  BY <1>1 DEF NestInv, ReturnStaysMasked, OpRet
<1> QED BY <1>2, <1>3, <1>4

LEMMA NestStep ==
    ASSUME NestInv, [NestNext /\ ReturnsMasked']_nestVars
    PROVE  /\ FramesOK' /\ InterruptsDoNotNest' /\ HandlerRunsMasked'
           /\ ReturnStaysMasked'
<1> DEFINE Goal == /\ FramesOK' /\ InterruptsDoNotNest' /\ HandlerRunsMasked'
                   /\ ReturnStaysMasked'
<1>0. CpuInv /\ CpuTypeOK /\ FramesOK /\ Len(frames) \in Nat
  BY StackLength DEF NestInv, CpuInv, FramesOK
<1>1. ASSUME NEW irq \in BOOLEAN, NEW i \in Instructions, Fetch(irq, i),
             Record, ReturnsMasked'
      PROVE  Goal
  <2>1. /\ call_stack' = call_stack /\ interrupt_enable' = interrupt_enable
        /\ state' = "INTERRUPT" => interrupt_enable
        /\ state' \in {"HALT", "INTERRUPT", "DECODE"}
    BY <1>1 DEF Fetch
  <2>2. frames' = frames /\ Handlers' = Handlers
    BY <1>0, <1>1, <2>1, KeptStack
  <2>3. FramesOK' /\ InterruptsDoNotNest'
    BY <2>1, <2>2 DEF NestInv, FramesOK, InterruptsDoNotNest
  <2>4. HandlerRunsMasked'
    BY <2>1, <2>2 DEF NestInv, HandlerRunsMasked
  <2>5. ReturnStaysMasked'
    BY <1>1, <2>1 DEF ReturnsMasked, ReturnStaysMasked
  <2> QED BY <2>3, <2>4, <2>5
<1>2. ASSUME NEW irq \in BOOLEAN, Halt(irq), Record
      PROVE  Goal
  <2>1. /\ call_stack' = call_stack /\ interrupt_enable' = interrupt_enable
        /\ state' = "INTERRUPT" => interrupt_enable
        /\ state' \in {"HALT", "INTERRUPT"}
    BY <1>2 DEF Halt
  <2>2. frames' = frames /\ Handlers' = Handlers
    BY <1>0, <1>2, <2>1, KeptStack
  <2>3. FramesOK' /\ InterruptsDoNotNest'
    BY <2>1, <2>2 DEF NestInv, FramesOK, InterruptsDoNotNest
  <2>4. HandlerRunsMasked'
    BY <2>1, <2>2 DEF NestInv, HandlerRunsMasked
  <2>5. ReturnStaysMasked'
    BY <2>1 DEF ReturnStaysMasked
  <2> QED BY <2>3, <2>4, <2>5
<1>3. ASSUME NEW v \in Address, Interrupt(v), Record
      PROVE  Goal
  <2>1. Handlers = {} /\ state = "INTERRUPT"
    BY <1>3 DEF Interrupt, NestInv, HandlerRunsMasked
  <2>2. /\ At(PROGRAM_EAM, PC) \in Address /\ Push(At(PROGRAM_EAM, PC))
        /\ state' = "FETCH" /\ interrupt_enable' = FALSE
    BY <1>0, <1>3, AtType DEF Interrupt, CpuTypeOK
  <2>3. FramesOK' /\ Handlers' \subseteq {Len(frames) + 1}
    BY <1>0, <1>3, <2>1, <2>2, PushFrame
  <2> QED BY <2>2, <2>3 DEF InterruptsDoNotNest, HandlerRunsMasked, ReturnStaysMasked
<1>4. ASSUME ExecCal, Record
      PROVE  Goal
  <2>1. /\ At(PROGRAM_EAM, NextPc) \in Address /\ Push(At(PROGRAM_EAM, NextPc))
        /\ state = "EXECUTE" /\ state' = "COMMIT"
        /\ interrupt_enable' = interrupt_enable
    BY <1>0, <1>4, AtType, SignalTypes DEF ExecCal, Executing, CpuTypeOK
  <2>2. FramesOK' /\ Handlers' \subseteq Handlers
    BY <1>0, <1>4, <2>1, PushFrame
  <2> QED BY <2>1, <2>2 DEF NestInv, InterruptsDoNotNest, HandlerRunsMasked,
                            ReturnStaysMasked
<1>5. ASSUME ExecRet, Record
      PROVE  Goal
  <2>1. /\ state = "EXECUTE" /\ IR.op = OpRet /\ state' = "COMMIT"
        /\ interrupt_enable' = ~IR.M
    BY <1>5 DEF ExecRet, Executing
  <2>2. Handlers # {} => IR.M \/ frames[Len(frames)] = "interrupt"
    BY <2>1 DEF NestInv, ReturnStaysMasked
  <2>3. CASE stack_empty
    <3>1. call_stack' = call_stack /\ Len(call_stack) = 0
      BY <1>5, <2>3 DEF ExecRet, stack_empty
    <3>2. frames' = frames /\ Handlers' = Handlers
      BY <1>0, <1>5, <3>1, KeptStack
    <3>3. Handlers = {}
      BY <1>0, <3>1 DEF FramesOK, Handlers
    <3> QED BY <1>0, <2>1, <3>1, <3>2, <3>3
               DEF FramesOK, InterruptsDoNotNest, HandlerRunsMasked, ReturnStaysMasked
  <2>4. CASE ~stack_empty
    <3>1. call_stack # <<>>
          /\ call_stack' = SubSeq(call_stack, 1, Len(call_stack) - 1)
      BY <1>5, <2>4 DEF ExecRet, stack_empty
    <3>2. FramesOK' /\ Handlers' \subseteq Handlers \ {Len(frames)}
      BY <1>0, <1>5, <3>1, PopFrame
    <3>3. Len(frames) \in 1 .. Len(frames)
      <4>1. Len(call_stack) # 0
        BY <1>0, <3>1, EmptySeq, LenProperties DEF CpuTypeOK
      <4> QED BY <1>0, <4>1 DEF FramesOK
    <3>4. ~IR.M => Handlers' = {}
      <4> SUFFICES ASSUME ~IR.M, NEW k \in Handlers' PROVE FALSE
        OBVIOUS
      <4>1. k \in Handlers /\ k # Len(frames)
        BY <3>2
      <4>2. frames[Len(frames)] = "interrupt"
        BY <2>2, <4>1
      <4>3. Len(frames) \in Handlers
        BY <3>3, <4>2 DEF Handlers
      <4> QED BY <4>1, <4>3 DEF NestInv, InterruptsDoNotNest
    <3>5. HandlerRunsMasked'
      BY <2>1, <3>4 DEF HandlerRunsMasked
    <3> QED BY <2>1, <3>2, <3>5 DEF NestInv, InterruptsDoNotNest, ReturnStaysMasked
  <2> QED BY <2>3, <2>4
<1>6. ASSUME \/ Decode \/ (\E w \in Word : ImmX(w)) \/ (\E w \in Word : ImmY(w))
             \/ ExecEam \/ ExecAlu \/ ExecMemory \/ ExecStj \/ ExecBranch \/ ExecHlt
             \/ (\E w \in Word : LdmRead(w)) \/ StmWrite \/ Commit,
             Record
      PROVE  Goal
  <2>1. call_stack' = call_stack /\ interrupt_enable' = interrupt_enable
    BY <1>6 DEF Decode, ImmX, ImmY, ExecEam, ExecAlu, ExecMemory, ExecStj, ExecBranch,
                ExecHlt, LdmRead, StmWrite, Commit
  <2>2. /\ state' # "INTERRUPT"
        /\ \/ state' \notin {"DECODE", "IMM_X", "IMM_Y", "EXECUTE"}
           \/ state \in {"DECODE", "IMM_X", "IMM_Y", "EXECUTE"} /\ IR' = IR
    BY <1>6 DEF Decode, ImmX, ImmY, ExecEam, ExecAlu, ExecMemory, ExecStj, ExecBranch,
                ExecHlt, LdmRead, StmWrite, Commit
  <2> QED BY <1>6, <2>1, <2>2, PlainStep
<1>7. ASSUME UNCHANGED nestVars
      PROVE  Goal
  <2>1. UNCHANGED <<call_stack, frames, state, IR, interrupt_enable>>
    BY <1>7 DEF nestVars, cpuVars
  <2>2. Handlers' = Handlers
    BY <2>1 DEF Handlers
  <2> QED BY <2>1, <2>2 DEF NestInv, FramesOK, InterruptsDoNotNest, HandlerRunsMasked,
                            ReturnStaysMasked, OpRet
<1> HIDE DEF Goal
<1>8. ASSUME NestNext, ReturnsMasked'
      PROVE  Goal
  <2>1. Next /\ Record /\ ReturnsMasked'
    BY <1>8 DEF NestNext
  <2> QED BY <2>1, <1>1, <1>2, <1>3, <1>4, <1>5, <1>6, Zenon DEF Next, Exec
<1>9. Goal
  BY <1>7, <1>8 DEF Goal
<1> QED BY <1>9 DEF Goal

LEMMA NestInvStep ==
    NestInv /\ [NestNext /\ ReturnsMasked']_nestVars => NestInv'
<1> SUFFICES ASSUME NestInv, [NestNext /\ ReturnsMasked']_nestVars PROVE NestInv'
  OBVIOUS
<1>1. [Next]_cpuVars
  BY DEF NestNext, nestVars
<1>2. CpuInv'
  BY <1>1, InvStep DEF NestInv
<1> QED BY <1>2, NestStep DEF NestInv

THEOREM NestInvariance == DisciplinedSpec => []NestInv
BY NestInvInit, NestInvStep, PTL DEF DisciplinedSpec

\* In a program that returns with RET.C from every subroutine called inside a
\* handler, at most one interrupted program is on the stack.
THEOREM NoNesting == DisciplinedSpec => []InterruptsDoNotNest
BY NestInvariance, PTL DEF NestInv

\* In such a program interrupts stay off while a handler runs.
THEOREM HandlersRunMasked == DisciplinedSpec => []HandlerRunsMasked
BY NestInvariance, PTL DEF NestInv
=============================================================================
