----------------------------- MODULE EmuProofs ------------------------------
(***************************************************************************)
(* Proofs about the emulator.                                              *)
(*                                                                         *)
(* First lemmas about one call of CPU::step: the widths of its registers,  *)
(* the bound of its stack and the banks it can reach.  Then a proof that   *)
(* the emulator does what the hardware does on every portable program: for *)
(* every word size, memory and stack size, and every pair of arithmetic    *)
(* units.                                                                  *)
(*                                                                         *)
(* Last the main loop, for every word size, number of banks, stack size,   *)
(* program, timer and count width, and whatever the bus accesses of the    *)
(* processor and the DMA engine reach.                                     *)
(***************************************************************************)
EXTENDS EmuSystem, EmuPortable, TLAPS, SequenceTheorems

LEMMA ModType ==
    ASSUME NEW n \in Nat \ {0}, NEW x \in Int
    PROVE  x % n \in 0 .. n - 1
OBVIOUS

LEMMA WordMod ==
    ASSUME NEW x \in Int
    PROVE  x % WordSize \in Word
BY SizeAssumption, ModType DEF Word

LEMMA BankMod ==
    ASSUME NEW x \in Int
    PROVE  x % BankSize \in Bank
BY SizeAssumption, ModType DEF Bank

LEMMA LengthType ==
    ASSUME NEW i \in Instruction
    PROVE  InstructionLength(i) \in Nat
BY DEF InstructionLength, Instruction

LEMMA ZeroTypes ==
    /\ 0 \in Word /\ 0 \in Bank
    /\ At(0, 0) \in Address /\ At(0, 0) \in WideAddress
BY SizeAssumption DEF Word, Bank, At, Address, WideAddress

LEMMA BankIsWord == Bank \subseteq Word
BY SizeAssumption DEF Bank, Word

LEMMA AtTypes ==
    ASSUME NEW b, NEW o \in Word
    PROVE  /\ b \in Bank => At(b, o) \in Address
           /\ b \in Word => At(b, o) \in WideAddress
           /\ At(b, o).bank = b /\ At(b, o).off = o
BY DEF At, Address, WideAddress

\* An address of an existing bank is one that registers can hold.
LEMMA Widen == Address \subseteq WideAddress
BY BankIsWord DEF Address, WideAddress

LEMMA PopStack ==
    ASSUME NEW s \in Seq(WideAddress), s # <<>>
    PROVE  LET rest == SubSeq(s, 1, Len(s) - 1) IN
           /\ s[Len(s)] \in WideAddress
           /\ rest \in Seq(WideAddress)
           /\ Len(s) \in Nat /\ Len(rest) \in Nat
           /\ Len(rest) = Len(s) - 1
<1>1. Len(s) \in Nat /\ Len(s) # 0
  BY EmptySeq, LenProperties
<1>2. Len(s) \in 1 .. Len(s)
  BY <1>1
<1>3. s[Len(s)] \in WideAddress
  BY <1>2, ElementOfSeq
<1> DEFINE n == Len(s) - 1
<1>4. n \in Int /\ 1 \in Int /\ \A j \in 1 .. n : s[j] \in WideAddress
  BY <1>1, ElementOfSeq
<1>5. /\ SubSeq(s, 1, n) \in Seq(WideAddress)
      /\ Len(SubSeq(s, 1, n)) = IF 1 <= n THEN n - 1 + 1 ELSE 0
  BY <1>4, SubSeqProperties
<1>6. \A k \in Nat \ {0} : (IF 1 <= k - 1 THEN (k - 1) - 1 + 1 ELSE 0) = k - 1
  OBVIOUS
<1>7. Len(SubSeq(s, 1, n)) = n
  <2>1. Len(s) \in Nat \ {0}
    BY <1>1
  <2> QED BY <2>1, <1>5, <1>6, Zenon
<1>8. n \in Nat
  BY <1>1
<1> QED BY <1>1, <1>3, <1>5, <1>7, <1>8
-----------------------------------------------------------------------------
(* One call of CPU::step keeps the types and the stack's bound             *)

\* What PC and the bank become, wherever the instruction lies.
LEMMA AdvancesType ==
    ASSUME NEW a \in WideAddress, NEW i \in Instruction, Advances(a, i)
    PROVE  PC' \in Word /\ programEAM' \in Word
<1>1. a.off \in Int /\ a.bank \in Word /\ a.bank \in Int
  BY DEF WideAddress, Word
<1>2. InstructionLength(i) \in Int
  BY LengthType
<1>3. a.off + InstructionLength(i) \in Int /\ a.bank + 1 \in Int
  BY <1>1, <1>2
<1> QED BY <1>1, <1>3, WordMod DEF Advances

LEMMA GoesType ==
    ASSUME NEW a \in WideAddress, Goes(a)
    PROVE  PC' \in Word /\ programEAM' \in Word
BY DEF Goes, WideAddress

\* The OR of the return address stays in 16 bits because their number is even.
LEMMA ReturnAddressType ==
    ASSUME NEW a \in WideAddress, NEW i \in Instruction
    PROVE  ReturnAddress(a, i) \in WideAddress
<1>1. a.off \in Int /\ a.bank \in Word
  BY DEF WideAddress, Word
<1>2. InstructionLength(i) \in Int
  BY LengthType
<1>3. (a.off + InstructionLength(i)) % WordSize \in Word
  BY <1>1, <1>2, WordMod
<1>4. ASSUME a.bank % 2 = 0
      PROVE  a.bank + 1 \in Word
  <2>1. a.bank \in Int /\ 0 <= a.bank /\ a.bank <= WordSize - 1 /\ WordSize \in Int
    BY <1>1, SizeAssumption DEF Word
  <2>2. a.bank # WordSize - 1
    BY <1>4, <2>1, EvenAssumption
  <2> QED BY <2>1, <2>2 DEF Word
<1> QED BY <1>1, <1>3, <1>4, AtTypes DEF ReturnAddress

LEMMA OperandTypes ==
    ASSUME EmuTypeOK, NEW a, NEW i \in Instruction,
           NEW immx \in ImmediatesX(a, i), NEW immy \in ImmediatesY(a, i),
           NEW data \in LoadedWords(i)
    PROVE  EmuX(i, immx) \in Word /\ EmuY(i, immy) \in Word /\ data \in Word
<1>1. immx \in Word /\ immy \in Word /\ data \in Word
  BY ZeroTypes DEF ImmediatesX, ImmediatesY, LoadedWords, WordsAt
<1>2. i.X \in Reg /\ i.Y \in Reg
  BY DEF Instruction
<1> QED BY <1>1, <1>2 DEF EmuX, EmuY, EmuTypeOK

LEMMA IncrementedType ==
    ASSUME EmuTypeOK, NEW i \in Instruction, NEW x \in Word
    PROVE  Incremented(i, x) \in [Reg -> Word]
<1>1. Advance(x, 1) \in Word
  <2>1. x + 1 \in Int
    BY DEF Word
  <2> QED BY <2>1, WordMod DEF Advance
<1>2. i.X \in Reg
  BY DEF Instruction
<1> QED BY <1>1, <1>2 DEF Incremented, EmuTypeOK

\* What every register holds after an instruction, wherever it was fetched.
Executed ==
    /\ PC' \in Word /\ programEAM' \in Word /\ dataEAM' \in Bank
    /\ JR' \in Address /\ IVR' \in Address
    /\ registers' \in [Reg -> Word] /\ carry' \in Bit
    /\ stack' \in Seq(WideAddress) /\ StackInRange'

LEMMA ExecuteTypes ==
    ASSUME EmuTypeOK, StackInRange,
           NEW a \in WideAddress, NEW i \in Instruction,
           NEW x \in Word, NEW y \in Word, NEW data \in Word,
           NEW ivr \in Address, NEW saved \in WideAddress,
           EmuExecute(a, i, x, y, data, ivr, saved)
    PROVE  Executed
<1> USE DEF EmuTypeOK, Executed, StackInRange
<1> USE AdvancesType, GoesType, BankIsWord
<1>0. /\ i.op \in 0 .. 15 /\ i.M \in BOOLEAN /\ i.D \in Reg
      /\ Len(stack) \in Nat
  <2>1. stack \in Seq(WideAddress)
    OBVIOUS
  <2>2. Len(stack) \in Nat
    BY <2>1, LenProperties, Zenon
  <2> QED BY <2>2 DEF Instruction
<1>1. CASE i.op = OpEam /\ EmuEam(a, i, x, ivr)
  <2>1. x % BankSize \in Bank
    BY BankMod DEF Word
  <2>2. At(dataEAM, x) \in Address
    BY AtTypes
  <2> QED BY <1>1, <2>1, <2>2 DEF EmuEam
<1>2. CASE i.op \in AluOps /\ EmuAlu(a, i, x, y) /\ IVR' = ivr
  <2> DEFINE out == Alu(i.op, i.M, x, y, carry)
  <2>1. out \in [val : Word, carry : Bit]
    BY <1>0, <1>2, AluAssumption
  <2>2. out.val \in Word /\ out.carry \in Bit
    BY <2>1
  <2>3. /\ registers' = [registers EXCEPT ![i.D] = out.val]
        /\ carry' = out.carry /\ Advances(a, i)
        /\ UNCHANGED <<dataEAM, JR, stack>>
    BY <1>2 DEF EmuAlu
  <2> HIDE DEF out
  <2>4. registers' \in [Reg -> Word]
    BY <1>0, <2>2, <2>3
  <2> QED BY <1>2, <2>2, <2>3, <2>4
<1>3. CASE EmuLoad(a, i, x, data) /\ IVR' = ivr
  <2>1. registers' \in [Reg -> Word]
    BY <1>3, IncrementedType, <1>0 DEF EmuLoad
  <2> QED BY <1>3, <2>1 DEF EmuLoad
<1>4. CASE EmuStore(a, i, x) /\ IVR' = ivr
  BY <1>4, IncrementedType DEF EmuStore
<1>5. CASE EmuSetJump(a, i, x) /\ IVR' = ivr
  <2>1. JR.bank \in Bank
    BY DEF Address
  <2>2. JR' \in Address
    BY <1>5, <2>1, AtTypes DEF EmuSetJump
  <2> QED BY <1>5, <2>2 DEF EmuSetJump
<1>6. CASE EmuBranch(a, i, x, y) /\ IVR' = ivr
  <2>1. JR \in WideAddress
    BY Widen
  <2> QED BY <1>6, <2>1 DEF EmuBranch
<1>7. CASE EmuCall(a, i, x) /\ IVR' = ivr
  <2>1. CASE Len(stack) > StackSlots - 1
    BY <1>7, <2>1 DEF EmuCall
  <2>2. CASE ~(Len(stack) > StackSlots - 1)
    <3>1. At(IF i.M THEN a.bank ELSE dataEAM, x) \in WideAddress
      <4>1. a.bank \in Word
        BY DEF WideAddress
      <4> QED BY <4>1, AtTypes
    <3>2. PC' \in Word /\ programEAM' \in Word
      BY <1>7, <2>2, <3>1 DEF EmuCall
    <3>3. stack' = Append(stack, ReturnAddress(a, i))
      BY <1>7, <2>2 DEF EmuCall
    <3>4. stack' \in Seq(WideAddress) /\ Len(stack') = Len(stack) + 1
      BY <3>3, ReturnAddressType, AppendProperties
    <3>5. StackInRange'
      BY <2>2, <3>4, <1>0, SizeAssumption
    <3> QED BY <1>7, <3>2, <3>4, <3>5 DEF EmuCall
  <2> QED BY <2>1, <2>2
<1>8. CASE EmuReturn(a, i, saved) /\ IVR' = ivr
  <2>1. CASE stack = <<>>
    <3>1. a.off + InstructionLength(i) \in Int
      BY LengthType DEF WideAddress, Word
    <3>2. Advance(a.off, InstructionLength(i)) \in Word /\ a.bank \in Word
      BY <3>1, WordMod DEF Advance, WideAddress
    <3> QED BY <1>8, <2>1, <3>2 DEF EmuReturn
  <2>2. CASE stack # <<>>
    <3> DEFINE to == IF i.M THEN saved ELSE stack[Len(stack)]
    <3>1. to \in WideAddress
      BY <2>2, PopStack
    <3>2. to.bank % BankSize \in Bank /\ to.off \in Word
      <4> HIDE DEF to
      <4>1. to.bank \in Int /\ to.off \in Word
        BY <3>1 DEF WideAddress, Word
      <4> QED BY <4>1, BankMod
    <3>3. Goes(At(to.bank % BankSize, to.off))
          /\ stack' = SubSeq(stack, 1, Len(stack) - 1)
      BY <1>8, <2>2 DEF EmuReturn
    <3>4. At(to.bank % BankSize, to.off) \in WideAddress
      BY <3>2, AtTypes
    <3>5. stack' \in Seq(WideAddress) /\ Len(stack') = Len(stack) - 1
      BY <2>2, <3>3, PopStack
    <3>6. StackInRange'
      BY <3>5, <1>0, SizeAssumption
    <3> HIDE DEF to
    <3> QED BY <1>8, <3>3, <3>4, <3>5, <3>6 DEF EmuReturn
  <2> QED BY <2>1, <2>2
<1>9. CASE EmuUnhandled(a) /\ IVR' = ivr
  BY <1>9 DEF EmuUnhandled
<1> QED
  BY <1>1, <1>2, <1>3, <1>4, <1>5, <1>6, <1>7, <1>8, <1>9
     DEF EmuExecute, OpEam, AluOps, OpLdm, OpStm, OpStj, OpBranch, OpCal,
         OpRet, OpHlt

\* A step that accepts an interrupt executes at the vector, any other one at PC.
LEMMA StepExecutes ==
    ASSUME EmuTypeOK, NEW interrupt \in BOOLEAN, NEW ivr \in Address,
           NEW i, NEW immx, NEW immy, NEW data,
           Step(interrupt, ivr, i, immx, immy, data)
    PROVE  \E saved \in WideAddress :
             LET a == StepAddress(interrupt, ivr) IN
             /\ a \in WideAddress
             /\ a.bank \in Bank \/ a.bank = programEAM
             /\ EmuExecute(a, i, EmuX(i, immx), EmuY(i, immy), data, ivr, saved)
             /\ IVR_Saved' = saved
             /\ ~Taken(interrupt) => saved = IVR_Saved
<1> DEFINE a == StepAddress(interrupt, ivr)
           saved == IF Taken(interrupt) THEN At(programEAM, PC) ELSE IVR_Saved
<1>1. At(programEAM, PC) \in WideAddress /\ At(programEAM, PC).bank = programEAM
  BY AtTypes DEF EmuTypeOK
<1>2. saved \in WideAddress /\ (~Taken(interrupt) => saved = IVR_Saved)
  BY <1>1 DEF EmuTypeOK
<1>3. ivr \in WideAddress /\ ivr.bank \in Bank
  BY Widen DEF Address
<1>4. a \in WideAddress /\ (a.bank \in Bank \/ a.bank = programEAM)
  BY <1>1, <1>3 DEF StepAddress
<1>5. /\ EmuExecute(a, i, EmuX(i, immx), EmuY(i, immy), data, ivr, saved)
      /\ IVR_Saved' = saved
  BY DEF Step
<1> HIDE DEF a, saved
<1> QED BY <1>2, <1>4, <1>5 DEF a

LEMMA StepTypes ==
    ASSUME EmuTypeOK, StackInRange, NEW interrupt \in BOOLEAN,
           NEW ivr \in Address, NEW i \in Instruction,
           NEW immx \in ImmediatesX(StepAddress(interrupt, ivr), i),
           NEW immy \in ImmediatesY(StepAddress(interrupt, ivr), i),
           NEW data \in LoadedWords(i),
           Step(interrupt, ivr, i, immx, immy, data)
    PROVE  EmuTypeOK' /\ StackInRange'
<1>1. EmuX(i, immx) \in Word /\ EmuY(i, immy) \in Word /\ data \in Word
  BY OperandTypes
<1>2. PICK saved \in WideAddress :
         LET a == StepAddress(interrupt, ivr) IN
         /\ a \in WideAddress
         /\ a.bank \in Bank \/ a.bank = programEAM
         /\ EmuExecute(a, i, EmuX(i, immx), EmuY(i, immy), data, ivr, saved)
         /\ IVR_Saved' = saved
         /\ ~Taken(interrupt) => saved = IVR_Saved
  BY StepExecutes
<1>3. Executed
  BY <1>1, <1>2, ExecuteTypes
<1>4. interruptMask' \in BOOLEAN /\ interruptValid' \in BOOLEAN
  BY DEF Step
<1> QED BY <1>2, <1>3, <1>4 DEF Executed, EmuTypeOK

\* Only PC's carry makes a bank that is neither the instruction's nor in memory.
LEMMA ExecuteBank ==
    ASSUME EmuTypeOK, NEW a \in WideAddress, NEW i \in Instruction,
           NEW x, NEW y, NEW data, NEW ivr, NEW saved \in WideAddress,
           EmuExecute(a, i, x, y, data, ivr, saved)
    PROVE  \/ programEAM' \in Bank
           \/ programEAM' = a.bank
           \/ programEAM' = a.bank + 1
<1> DEFINE Moved == \/ programEAM' \in Bank \/ programEAM' = a.bank
                    \/ programEAM' = a.bank + 1
<1>1. ASSUME Advances(a, i) PROVE Moved
  <2>1. CASE programEAM' = a.bank
    BY <2>1
  <2>2. CASE programEAM' = (a.bank + 1) % WordSize
    <3>1. a.bank \in 0 .. WordSize - 1 /\ WordSize \in Nat /\ 0 \in Bank
      BY SizeAssumption, ZeroTypes DEF WideAddress, Word
    <3>2. a.bank + 1 = WordSize \/ a.bank + 1 \in 0 .. WordSize - 1
      BY <3>1
    <3>3. (a.bank + 1) % WordSize = 0 \/ (a.bank + 1) % WordSize = a.bank + 1
      BY <3>1, <3>2
    <3> QED BY <2>2, <3>1, <3>3
  <2> QED BY <1>1, <2>1, <2>2 DEF Advances
<1>2. JR.bank \in Bank /\ dataEAM \in Bank
  BY DEF EmuTypeOK, Address
<1>3. CASE EmuReturn(a, i, saved)
  <2>1. CASE stack = <<>>
    BY <1>3, <2>1 DEF EmuReturn
  <2>2. CASE stack # <<>>
    <3> DEFINE to == IF i.M THEN saved ELSE stack[Len(stack)]
    <3>1. to \in WideAddress
      BY <2>2, PopStack DEF EmuTypeOK
    <3>2. Goes(At(to.bank % BankSize, to.off))
      BY <1>3, <2>2 DEF EmuReturn
    <3> HIDE DEF to
    <3>3. to.bank % BankSize \in Bank
      BY <3>1, BankMod DEF WideAddress, Word
    <3> QED BY <3>2, <3>3 DEF Goes, At
  <2> QED BY <2>1, <2>2
<1>4. CASE EmuBranch(a, i, x, y)
  BY <1>1, <1>2, <1>4 DEF EmuBranch, Goes
<1>5. CASE EmuCall(a, i, x)
  BY <1>2, <1>5 DEF EmuCall, Goes, At
<1>6. CASE EmuUnhandled(a)
  BY <1>6 DEF EmuUnhandled, Goes
<1>7. CASE \/ EmuEam(a, i, x, ivr) \/ EmuAlu(a, i, x, y) \/ EmuLoad(a, i, x, data)
           \/ EmuStore(a, i, x) \/ EmuSetJump(a, i, x)
  <2>1. Advances(a, i)
    BY <1>7 DEF EmuEam, EmuAlu, EmuLoad, EmuStore, EmuSetJump
  <2> QED BY <1>1, <2>1
<1> QED BY <1>3, <1>4, <1>5, <1>6, <1>7, Zenon DEF EmuExecute
-----------------------------------------------------------------------------
(* Portable programs                                                       *)

PortableInv == EmuTypeOK /\ StackInRange /\ PortableStaysInBank

\* The instance has its own copies of the constant operators of RR16X.
LEMMA SameNumbers ==
    /\ Hardware!Word = Word /\ Hardware!Reg = Reg
    /\ Hardware!OpEam = OpEam /\ Hardware!AluOps = AluOps /\ Hardware!OpLdm = OpLdm
    /\ Hardware!OpStm = OpStm /\ Hardware!OpStj = OpStj
    /\ Hardware!OpBranch = OpBranch /\ Hardware!OpCal = OpCal
    /\ Hardware!OpRet = OpRet /\ Hardware!OpHlt = OpHlt
BY DEF Hardware!Word, Word, Hardware!Reg, Reg, Hardware!OpEam, OpEam,
       Hardware!AluOps, AluOps, Hardware!OpLdm, OpLdm, Hardware!OpStm, OpStm,
       Hardware!OpStj, OpStj, Hardware!OpBranch, OpBranch, Hardware!OpCal, OpCal,
       Hardware!OpRet, OpRet, Hardware!OpHlt, OpHlt

LEMMA SameAt == ASSUME NEW b, NEW o PROVE Hardware!At(b, o) = At(b, o)
BY DEF Hardware!At, At

LEMMA SameAdvance ==
    ASSUME NEW p, NEW n PROVE Hardware!Advance(p, n) = Advance(p, n)
BY DEF Hardware!Advance, Advance

LEMMA SameLength ==
    ASSUME NEW i PROVE Hardware!InstructionLength(i) = InstructionLength(i)
BY DEF Hardware!InstructionLength, InstructionLength

LEMMA SameCondition ==
    ASSUME NEW i, NEW x, NEW y
    PROVE  Hardware!ConditionMet(i, x, y) <=> ConditionMet(i, x, y)
BY DEF Hardware!ConditionMet, ConditionMet, Hardware!Signed, Signed

LEMMA SameOperands ==
    ASSUME NEW i, NEW imm
    PROVE  Hardware!OpX(i, imm) = EmuX(i, imm) /\ Hardware!OpY(i, imm) = EmuY(i, imm)
BY DEF Hardware!OpX, Hardware!OpY, EmuX, EmuY

\* Where a portable instruction is and where it goes on.
LEMMA InsideAdvances ==
    ASSUME PortableInv, NEW i \in Instruction, InsideBank(i)
    PROVE  LET a == At(programEAM, PC)
               next == Advance(PC, InstructionLength(i)) IN
           /\ a.bank = programEAM /\ a.off = PC
           /\ Advances(a, i) => PC' = next /\ programEAM' = programEAM
           /\ ReturnAddress(a, i) = At(programEAM, next)
<1> DEFINE a == At(programEAM, PC)
<1>1. a.bank = programEAM /\ a.off = PC
  BY DEF At
<1>2. PC + InstructionLength(i) \in Int /\ WordSize \in Int
  BY LengthType, SizeAssumption DEF PortableInv, EmuTypeOK, Word
<1>3. ~(a.off + InstructionLength(i) >= WordSize)
  BY <1>1, <1>2 DEF InsideBank
<1>4. Advances(a, i) => /\ PC' = Advance(PC, InstructionLength(i))
                        /\ programEAM' = programEAM
  BY <1>1, <1>3 DEF Advances, Advance
<1>5. ReturnAddress(a, i) = At(programEAM, Advance(PC, InstructionLength(i)))
  BY <1>1, <1>3 DEF ReturnAddress, Advance
<1> QED BY <1>1, <1>4, <1>5

\* The return addresses of a portable program are in bank 0.
LEMMA PortablePop ==
    ASSUME PortableInv, stack # <<>>
    PROVE  LET to == stack[Len(stack)] IN
           to.bank = 0 /\ At(to.bank % BankSize, to.off) = to
<1> DEFINE to == stack[Len(stack)]
<1>1. Len(stack) \in 1 .. Len(stack)
  BY EmptySeq, LenProperties DEF PortableInv, EmuTypeOK
<1>2. to.bank = 0 /\ to \in WideAddress
  BY <1>1, ElementOfSeq DEF PortableInv, PortableStaysInBank, EmuTypeOK
<1>3. to.bank % BankSize = to.bank
  BY <1>2, SizeAssumption
<1>4. At(to.bank, to.off) = to
  BY <1>2 DEF At, WideAddress
<1> QED BY <1>2, <1>3, <1>4
-----------------------------------------------------------------------------
(* One portable instruction keeps everything in bank 0                     *)

LEMMA StaysStep ==
    ASSUME PortableInv, NEW i \in Instruction, NEW x \in Word, NEW y \in Word, NEW data,
           Portable(i, x, y),
           EmuExecute(At(programEAM, PC), i, x, y, data, IVR, IVR_Saved)
    PROVE  PortableStaysInBank'
<1> DEFINE a == At(programEAM, PC)
<1>1. /\ programEAM = 0 /\ JR.bank = 0 /\ i.M \in BOOLEAN
      /\ \A k \in 1 .. Len(stack) : stack[k].bank = 0
      /\ Len(stack) <= StackSlots - 1 /\ Len(stack) \in Nat
      /\ stack \in Seq(WideAddress)
  <2>1. stack \in Seq(WideAddress)
    BY DEF PortableInv, EmuTypeOK
  <2>2. Len(stack) \in Nat
    BY <2>1, LenProperties, Zenon
  <2> QED BY <2>1, <2>2 DEF PortableInv, PortableStaysInBank, Instruction
<1>2. a.bank = 0 /\ (Advances(a, i) => programEAM' = 0)
  BY <1>1, InsideAdvances DEF Portable
<1>3. CASE \/ EmuEam(a, i, x, IVR) \/ EmuAlu(a, i, x, y) \/ EmuLoad(a, i, x, data)
           \/ EmuStore(a, i, x)
  <2>1. programEAM' = 0 /\ UNCHANGED <<JR, stack>>
    BY <1>2, <1>3 DEF EmuEam, EmuAlu, EmuLoad, EmuStore
  <2> QED BY <1>1, <2>1 DEF PortableStaysInBank
<1>4. CASE i.op = OpStj /\ EmuSetJump(a, i, x)
  <2>1. i.M \/ dataEAM = 0
    BY <1>1, <1>4 DEF Portable, PortableSetJump
  <2>2. JR' = At(0, x) /\ programEAM' = 0 /\ stack' = stack
    BY <1>1, <1>2, <1>4, <2>1 DEF EmuSetJump
  <2> QED BY <1>1, <2>2 DEF PortableStaysInBank, At
<1>5. CASE EmuBranch(a, i, x, y)
  <2>1. programEAM' = 0 /\ UNCHANGED <<JR, stack>>
    BY <1>1, <1>2, <1>5 DEF EmuBranch, Goes
  <2> QED BY <1>1, <2>1 DEF PortableStaysInBank
<1>6. CASE i.op = OpCal /\ EmuCall(a, i, x)
  <2>1. dataEAM = 0 /\ Len(stack) < StackSlots - 1 /\ StackSlots \in Int
    BY <1>1, <1>6, SizeAssumption DEF Portable, PortableCall
  <2> DEFINE back == At(programEAM, Advance(PC, InstructionLength(i)))
  <2>2. ReturnAddress(a, i) = back /\ back.bank = 0
    BY <1>1, InsideAdvances DEF Portable, At
  <2>3. a \in WideAddress
    BY AtTypes DEF PortableInv, EmuTypeOK
  <2>4. back \in WideAddress
    BY <2>2, <2>3, ReturnAddressType
  <2>5. /\ stack' = Append(stack, back)
        /\ programEAM' = 0 /\ JR' = JR
    BY <1>2, <1>6, <2>1, <2>2 DEF EmuCall, Goes, At
  <2> HIDE DEF back
  <2>6. /\ Len(stack') = Len(stack) + 1
        /\ \A k \in 1 .. Len(stack) : stack'[k] = stack[k]
        /\ stack'[Len(stack) + 1] = back
    BY <1>1, <2>4, <2>5, AppendProperties
  <2>7. \A k \in 1 .. Len(stack') : stack'[k].bank = 0
    BY <1>1, <2>2, <2>6
  <2>8. Len(stack') <= StackSlots - 1
    BY <1>1, <2>1, <2>6
  <2> QED BY <1>1, <2>5, <2>7, <2>8 DEF PortableStaysInBank
<1>7. CASE i.op = OpRet /\ EmuReturn(a, i, IVR_Saved)
  <2>1. ~i.M /\ stack # <<>>
    BY <1>7 DEF Portable, PortableReturn
  <2> DEFINE n == Len(stack) - 1
  <2>2. /\ programEAM' = 0 /\ JR' = JR
        /\ stack' = SubSeq(stack, 1, n)
    BY <1>7, <2>1, PortablePop DEF EmuReturn, Goes
  <2>3. n \in Nat /\ \A j \in 1 .. n : stack[j] \in WideAddress
    BY <1>1, <2>1, PopStack, ElementOfSeq
  <2>4. Len(stack') = n
    BY <1>1, <2>1, <2>2, PopStack
  <2>5. \A j \in 1 .. n - 1 + 1 : stack'[j] = stack[1 + j - 1]
    BY <2>2, <2>3, SubSeqProperties
  <2>6. \A j \in 1 .. n : stack'[j].bank = 0
    <3> SUFFICES ASSUME NEW j \in 1 .. n PROVE stack'[j].bank = 0
      OBVIOUS
    <3>1. j \in 1 .. Len(stack) /\ j \in 1 .. n - 1 + 1 /\ 1 + j - 1 = j
      BY <1>1, <2>3
    <3>2. stack[j].bank = 0
      BY <1>1, <3>1
    <3>3. stack'[j] = stack[j]
      BY <2>5, <3>1
    <3> QED BY <3>2, <3>3
  <2>7. n <= StackSlots - 1
    BY <1>1, SizeAssumption
  <2> QED BY <1>1, <2>2, <2>4, <2>6, <2>7 DEF PortableStaysInBank
<1> QED
  BY <1>3, <1>4, <1>5, <1>6, <1>7 DEF EmuExecute, Portable

-----------------------------------------------------------------------------
(* One portable instruction is an instruction of the hardware              *)

\* The registers after the post-increment, register by register.
LEMMA IncrementedRegisters ==
    ASSUME NEW i \in Instruction, registers \in [Reg -> Word], NEW imm
    PROVE  Incremented(i, EmuX(i, imm))
             = [r \in Reg |-> IF i.M /\ ~i.LX /\ r = i.X
                                THEN Advance(registers[r], 1) ELSE registers[r]]
<1>1. i.M \in BOOLEAN /\ i.LX \in BOOLEAN /\ i.X \in Reg
  BY DEF Instruction
<1>2. CASE i.M /\ ~i.LX
  <2>1. Incremented(i, EmuX(i, imm))
          = [registers EXCEPT ![i.X] = Advance(registers[i.X], 1)]
    BY <1>2 DEF Incremented, EmuX
  <2> QED BY <1>1, <1>2, <2>1
<1>3. CASE ~(i.M /\ ~i.LX)
  <2>1. Incremented(i, EmuX(i, imm)) = registers
    BY <1>3 DEF Incremented
  <2> QED BY <1>3, <2>1
<1> QED BY <1>2, <1>3

\* The same with a loaded word, when the two registers differ.
LEMMA LoadedRegisters ==
    ASSUME NEW i \in Instruction, registers \in [Reg -> Word], NEW imm, NEW data,
           PortableLoad(i)
    PROVE  [Incremented(i, EmuX(i, imm)) EXCEPT ![i.D] = data]
             = [r \in Reg |-> IF i.M /\ ~i.LX /\ r = i.X
                                THEN Advance(registers[r], 1)
                              ELSE IF r = i.D THEN data ELSE registers[r]]
<1> DEFINE f == [r \in Reg |-> IF i.M /\ ~i.LX /\ r = i.X
                                 THEN Advance(registers[r], 1) ELSE registers[r]]
<1>1. Incremented(i, EmuX(i, imm)) = f
  BY IncrementedRegisters
<1>2. [f EXCEPT ![i.D] = data] = [r \in Reg |-> IF r = i.D THEN data ELSE f[r]]
  OBVIOUS
<1>3. \A r \in Reg : (IF r = i.D THEN data ELSE f[r])
                      = (IF i.M /\ ~i.LX /\ r = i.X
                           THEN Advance(registers[r], 1)
                         ELSE IF r = i.D THEN data ELSE registers[r])
  BY DEF PortableLoad
<1> HIDE DEF f
<1> QED BY <1>1, <1>2, <1>3

LEMMA ExecuteIsHardware ==
    ASSUME PortableInv, NEW i \in Instruction,
           NEW immx, NEW immy, NEW data,
           Portable(i, EmuX(i, immx), EmuY(i, immy)),
           EmuExecute(At(programEAM, PC), i, EmuX(i, immx), EmuY(i, immy), data,
                      IVR, IVR_Saved)
    PROVE  Hardware!Execute(i, immx, immy, data)
<1> DEFINE a == At(programEAM, PC)
           x == EmuX(i, immx)
           y == EmuY(i, immy)
<1> USE SameNumbers, SameAt, SameAdvance, SameLength
<1>0. Hardware!OpX(i, immx) = x /\ Hardware!OpY(i, immy) = y
  BY SameOperands
<1>1. /\ a.bank = programEAM /\ a.off = PC
      /\ Advances(a, i) => Hardware!GoOn(i)
      /\ ReturnAddress(a, i) = At(programEAM, Advance(PC, InstructionLength(i)))
  BY InsideAdvances DEF Portable, Hardware!GoOn
<1>t. i.M \in BOOLEAN /\ i.X \in Reg /\ i.D \in Reg /\ registers \in [Reg -> Word]
  BY DEF Instruction, PortableInv, EmuTypeOK
<1> HIDE DEF a, x, y
<1>p. Portable(i, x, y)
  BY DEF x, y
<1>2. CASE i.op = OpEam /\ EmuEam(a, i, x, IVR)
  <2>1. Hardware!EamSet(i, x)
    BY <1>1, <1>2 DEF EmuEam, Hardware!EamSet
  <2> QED BY <1>0, <1>2, <2>1 DEF Hardware!Execute
<1>3. CASE i.op \in AluOps /\ EmuAlu(a, i, x, y) /\ IVR' = IVR
  <2>1. Alu(i.op, i.M, x, y, carry) = HardwareAlu(i.op, i.M, x, y, carry)
    BY <1>3, <1>p DEF Portable, PortableAlu
  <2>2. Hardware!Arith(i, x, y)
    BY <1>1, <1>3, <2>1 DEF EmuAlu, Hardware!Arith
  <2> QED BY <1>0, <1>3, <2>2 DEF Hardware!Execute
<1>4. CASE i.op = OpLdm /\ EmuLoad(a, i, x, data) /\ IVR' = IVR
  <2>1. PortableLoad(i)
    BY <1>4, <1>p DEF Portable
  <2>2. registers' = [Incremented(i, x) EXCEPT ![i.D] = data]
    BY <1>4 DEF EmuLoad
  <2>3. registers' = [r \in Reg |-> IF i.M /\ ~i.LX /\ r = i.X
                                      THEN Advance(registers[r], 1)
                                    ELSE IF r = i.D THEN data ELSE registers[r]]
    <3> HIDE SameNumbers, SameAt, SameAdvance, SameLength
    <3>1. [Incremented(i, EmuX(i, immx)) EXCEPT ![i.D] = data]
            = [r \in Reg |-> IF i.M /\ ~i.LX /\ r = i.X
                               THEN Advance(registers[r], 1)
                             ELSE IF r = i.D THEN data ELSE registers[r]]
      BY <1>t, <2>1, LoadedRegisters
    <3> QED BY <2>2, <3>1, Zenon DEF x
  <2>4. Hardware!Load(i, data)
    BY <1>1, <1>4, <2>3 DEF EmuLoad, Hardware!Load
  <2> QED BY <1>0, <1>4, <2>4 DEF Hardware!Execute
<1>5. CASE i.op = OpStm /\ EmuStore(a, i, x) /\ IVR' = IVR
  <2>1. registers' = Incremented(i, x)
    BY <1>5 DEF EmuStore
  <2>2. registers' = [r \in Reg |-> IF i.M /\ ~i.LX /\ r = i.X
                                      THEN Advance(registers[r], 1)
                                      ELSE registers[r]]
    BY <1>t, <2>1, IncrementedRegisters DEF x
  <2>3. Hardware!Store(i)
    BY <1>1, <1>5, <2>2 DEF EmuStore, Hardware!Store
  <2> QED BY <1>0, <1>5, <2>3 DEF Hardware!Execute
<1>6. CASE i.op = OpStj /\ EmuSetJump(a, i, x) /\ IVR' = IVR
  <2>1. i.M \/ dataEAM = programEAM
    BY <1>6, <1>p DEF Portable, PortableSetJump
  <2>2. Hardware!SetJump(i, x)
    BY <1>1, <1>6, <2>1 DEF EmuSetJump, Hardware!SetJump
  <2> QED BY <1>0, <1>6, <2>2 DEF Hardware!Execute
<1>7. CASE i.op = OpBranch /\ EmuBranch(a, i, x, y) /\ IVR' = IVR
  <2>1. ~(i.M /\ i.D \in {6, 7})
    BY <1>7, <1>p DEF Portable, PortableBranch
  <2>2. Hardware!ConditionMet(i, x, y) <=> ConditionMet(i, x, y)
    BY SameCondition
  <2>3. IF Hardware!ConditionMet(i, x, y) THEN Hardware!JumpTo(JR) ELSE Hardware!GoOn(i)
    BY <1>1, <1>7, <2>1, <2>2 DEF EmuBranch, Goes, Hardware!JumpTo
  <2>4. Hardware!Branch(i, x, y)
    BY <1>7, <2>3 DEF EmuBranch, Hardware!Branch
  <2> QED BY <1>0, <1>7, <2>4 DEF Hardware!Execute
<1>8. CASE i.op = OpCal /\ EmuCall(a, i, x) /\ IVR' = IVR
  <2>1. dataEAM = programEAM /\ Len(stack) < StackSlots - 1
    BY <1>8, <1>p DEF Portable, PortableCall
  <2>2. Len(stack) \in Int /\ StackSlots \in Int
    <3>1. stack \in Seq(WideAddress)
      BY DEF PortableInv, EmuTypeOK
    <3>2. Len(stack) \in Nat
      BY <3>1, LenProperties, Zenon
    <3> QED BY <3>2, SizeAssumption
  <2>3. /\ stack' = Append(stack, At(programEAM, Advance(PC, InstructionLength(i))))
        /\ Goes(At(programEAM, x))
    BY <1>1, <1>8, <2>1, <2>2 DEF EmuCall
  <2>4. Hardware!Push(At(programEAM, Advance(PC, InstructionLength(i))))
    BY <2>1, <2>2, <2>3 DEF Hardware!Push
  <2>5. Hardware!JumpTo(At(IF i.M THEN dataEAM ELSE programEAM, x))
    BY <2>1, <2>3 DEF Hardware!JumpTo, Goes
  <2>6. Hardware!Call(i, x)
    BY <1>8, <2>4, <2>5 DEF EmuCall, Hardware!Call
  <2> QED BY <1>0, <1>8, <2>6 DEF Hardware!Execute
<1>9. CASE i.op = OpRet /\ EmuReturn(a, i, IVR_Saved) /\ IVR' = IVR
  <2>1. ~i.M /\ stack # <<>>
    BY <1>9, <1>p DEF Portable, PortableReturn
  <2>2. /\ Goes(stack[Len(stack)])
        /\ stack' = SubSeq(stack, 1, Len(stack) - 1)
    BY <1>9, <2>1, PortablePop DEF EmuReturn
  <2>3. Hardware!JumpTo(stack[Len(stack)])
    BY <2>2 DEF Goes, Hardware!JumpTo
  <2>4. Hardware!Return(i)
    BY <1>9, <2>1, <2>2, <2>3 DEF EmuReturn, Hardware!Return
  <2> QED BY <1>0, <1>9, <2>4 DEF Hardware!Execute
<1> QED
  <2>1. EmuExecute(a, i, x, y, data, IVR, IVR_Saved) /\ i.op # OpHlt
    BY <1>p DEF a, x, y, Portable
  <2> QED
    BY <1>2, <1>3, <1>4, <1>5, <1>6, <1>7, <1>8, <1>9, <2>1
       DEF EmuExecute, OpEam, AluOps, OpLdm, OpStm, OpStj, OpBranch, OpCal, OpRet

-----------------------------------------------------------------------------
LEMMA PortableInvInit == EmuInit => PortableInv
<1> SUFFICES ASSUME EmuInit PROVE PortableInv
  OBVIOUS
<1>1. EmuTypeOK
  <2>1. stack \in Seq(WideAddress)
    BY EmptySeq DEF EmuInit
  <2>2. registers \in [Reg -> Word] /\ carry \in Bit
    BY ProgramAssumption DEF EmuInit, Bit
  <2> QED BY <2>1, <2>2, ZeroTypes DEF EmuInit, EmuTypeOK
<1>2. Len(stack) = 0
  BY DEF EmuInit
<1>3. StackInRange /\ PortableStaysInBank
  BY <1>2, SizeAssumption DEF EmuInit, StackInRange, PortableStaysInBank, At
<1> QED BY <1>1, <1>3 DEF PortableInv

LEMMA PortableStep ==
    ASSUME PortableInv, PortableNext
    PROVE  PortableInv' /\ Hardware!Next
<1>1. PICK i \in Instructions :
        \E immx \in ImmediatesX(At(programEAM, PC), i),
           immy \in ImmediatesY(At(programEAM, PC), i),
           data \in LoadedWords(i) :
             /\ Portable(i, EmuX(i, immx), EmuY(i, immy))
             /\ Step(FALSE, IVR, i, immx, immy, data)
  BY DEF PortableNext
<1>2. PICK immx \in ImmediatesX(At(programEAM, PC), i),
           immy \in ImmediatesY(At(programEAM, PC), i),
           data \in LoadedWords(i) :
             /\ Portable(i, EmuX(i, immx), EmuY(i, immy))
             /\ Step(FALSE, IVR, i, immx, immy, data)
  BY <1>1
<1>3. /\ EmuTypeOK /\ StackInRange /\ i \in Instruction /\ IVR \in Address
      /\ StepAddress(FALSE, IVR) = At(programEAM, PC)
  BY ProgramAssumption DEF PortableInv, EmuTypeOK, StepAddress, Taken
<1>4. EmuTypeOK' /\ StackInRange'
  BY <1>2, <1>3, StepTypes
<1>5. EmuExecute(At(programEAM, PC), i, EmuX(i, immx), EmuY(i, immy), data,
                 IVR, IVR_Saved)
  BY <1>2 DEF Step, StepAddress, Taken
<1>6. /\ EmuX(i, immx) \in Word /\ EmuY(i, immy) \in Word
      /\ immx \in Word /\ immy \in Word /\ data \in Word
  BY <1>3, OperandTypes, ZeroTypes DEF ImmediatesX, ImmediatesY, WordsAt
<1>7. PortableStaysInBank'
  BY <1>2, <1>3, <1>5, <1>6, StaysStep
<1>8. Hardware!Execute(i, immx, immy, data)
  BY <1>2, <1>3, <1>5, ExecuteIsHardware
<1>9. Hardware!Next
  BY <1>6, <1>8, SameNumbers DEF Hardware!Next
<1> QED BY <1>4, <1>7, <1>9 DEF PortableInv

THEOREM PortableInvariance == PortableSpec => []PortableInv
<1>1. PortableInv /\ UNCHANGED emuVars => PortableInv'
  BY DEF PortableInv, emuVars, EmuTypeOK, StackInRange, PortableStaysInBank
<1> QED BY <1>1, PortableInvInit, PortableStep, PTL DEF PortableSpec

\* A portable program never leaves bank 0 and never fills the hardware's stack.
THEOREM PortableProgramsStay == PortableSpec => []PortableStaysInBank
BY PortableInvariance, PTL DEF PortableInv

\* The list of differences between the emulator and the RTL is complete: on
\* programs that avoid them the emulator implements the instruction set that
\* the RTL implements (Refinement in GatewayCpuProofs).
THEOREM EmulatorIsPortable == PortableSpec => EmulatesHardware
<1>1. EmuInit => Hardware!Init
  BY SameAt DEF EmuInit, Hardware!Init
<1>2. PortableInv /\ [PortableNext]_emuVars => [Hardware!Next]_(Hardware!vars)
  <2>1. UNCHANGED emuVars => UNCHANGED Hardware!vars
    BY DEF emuVars, Hardware!vars
  <2> QED BY <2>1, PortableStep
<1> QED
  BY <1>1, <1>2, PortableInvariance, PTL
     DEF PortableSpec, EmulatesHardware, Hardware!Spec

-----------------------------------------------------------------------------
(* The inductive invariant.  The flag of the DMA engine and its line are   *)
(* current only from its tick to the end of the iteration: the processor   *)
(* can write the count afterwards.                                         *)

DmaFlagCurrent == phase \in {"uart", "step"} => (isRunning <=> count # 0)

CompletionIsFresh ==
    phase \in {"uart", "step"} /\ DmaLine \in pending => count = 0

SysInv ==
    /\ SysTypeOK
    /\ StackInRange
    /\ RxReadyMirrorsBuffer
    /\ DmaFlagCurrent
    /\ CompletionIsFresh
    /\ KeyInterruptHasKey

LEMMA SysInvInit == SysInit => SysInv
<1> SUFFICES ASSUME SysInit PROVE SysInv
  OBVIOUS
<1>1. EmuTypeOK
  <2>1. stack \in Seq(WideAddress)
    BY EmptySeq DEF SysInit, EmuInit
  <2>2. registers \in [Reg -> Word]
    BY ProgramAssumption DEF SysInit, EmuInit
  <2>3. carry \in Bit
    BY DEF SysInit, EmuInit, Bit
  <2> QED BY <2>1, <2>2, <2>3, ZeroTypes DEF SysInit, EmuInit, EmuTypeOK
<1>2. StackInRange
  <2>1. Len(stack) = 0
    BY DEF SysInit, EmuInit
  <2> QED BY <2>1, SizeAssumption DEF StackInRange
<1>3. SysTypeOK
  <2>1. time \in 0 .. TimeValues - 1 /\ count \in Count /\ rx_buffer \in 0 .. RxBound
    BY DeviceAssumption DEF SysInit, Count
  <2> QED BY <1>1, <2>1 DEF SysInit, SysTypeOK
<1> QED
  BY <1>2, <1>3 DEF SysInit, SysInv, RxReadyMirrorsBuffer, DmaFlagCurrent,
                    CompletionIsFresh, KeyInterruptHasKey

LEMMA VectorTypes ==
    ASSUME EmuTypeOK, NEW ivr \in Vectors(has_active_interrupt)
    PROVE  ivr \in Address
BY AtTypes, ZeroTypes DEF Vectors, EmuTypeOK

LEMMA FetchedTypes ==
    ASSUME NEW a, NEW i \in Fetched(a)
    PROVE  i \in Instruction
<1>1. ZeroWord \in Instruction
  BY DEF ZeroWord, Instruction, Reg
<1>2. Instructions \subseteq Instruction
  BY ProgramAssumption
<1> QED BY <1>1, <1>2 DEF Fetched

\* A read keeps the RX bit and the buffer together.
LEMMA BusReadKeeps ==
    ASSUME SysTypeOK, RxReadyMirrorsBuffer, NEW source, BusRead(source)
    PROVE  /\ rx_buffer' \in 0 .. RxBound /\ rx_ready' \in BOOLEAN
           /\ RxReadyMirrorsBuffer'
<1>1. rx_buffer \in Int /\ rx_buffer >= 0 /\ rx_buffer <= RxBound /\ RxBound \in Int
      /\ rx_ready \in BOOLEAN
  BY DeviceAssumption DEF SysTypeOK
<1>2. CASE source = "uart_data" /\ rx_buffer > 0
  <2>1. /\ rx_buffer' = rx_buffer - 1
        /\ rx_ready' = (rx_ready /\ rx_buffer > 1)
    BY <1>2 DEF BusRead
  <2>2. rx_buffer' \in 0 .. RxBound /\ (rx_buffer' > 0 <=> rx_buffer > 1)
    BY <1>1, <1>2, <2>1
  <2>3. rx_ready
    BY <1>2 DEF RxReadyMirrorsBuffer
  <2>4. rx_ready' <=> rx_buffer' > 0
    BY <2>1, <2>2, <2>3
  <2> QED BY <2>1, <2>2, <2>4 DEF RxReadyMirrorsBuffer
<1>3. CASE ~(source = "uart_data" /\ rx_buffer > 0)
  <2>1. UNCHANGED <<rx_buffer, rx_ready>>
    BY <1>3 DEF BusRead
  <2> QED BY <1>1, <2>1 DEF RxReadyMirrorsBuffer
<1> QED BY <1>2, <1>3

LEMMA BusWriteTypes ==
    ASSUME SysTypeOK, NEW target, BusWrite(target)
    PROVE  mask_register' \subseteq Lines /\ control_register' \in BOOLEAN
<1>1. mask_register' \subseteq Lines
  BY DEF SysTypeOK, BusWrite
<1>2. control_register' \in BOOLEAN
  BY DEF SysTypeOK, BusWrite
<1> QED BY <1>1, <1>2

LEMMA CountTypes ==
    ASSUME SysTypeOK, NEW target, NEW c \in CountsAfter(target)
    PROVE  c \in Count /\ (c - 1) % CountValues \in Count
<1>1. c \in Count
  BY DEF SysTypeOK, CountsAfter
<1>2. c - 1 \in Int
  BY <1>1 DEF Count
<1> QED BY <1>1, <1>2, DeviceAssumption, ModType DEF Count

LEMMA DmaTickStep ==
    ASSUME SysInv, DmaTick
    PROVE  SysInv'
<1> USE DEF SysInv, SysTypeOK
<1>1. /\ phase = "dma" /\ phase' = "uart"
      /\ UNCHANGED <<emuVars, time>>
  BY DEF DmaTick, DmaTickWith
<1>2. EmuTypeOK' /\ StackInRange' /\ time' \in 0 .. TimeValues - 1
  BY <1>1 DEF emuVars, EmuTypeOK, StackInRange
<1>3. CASE count = 0
  <2>1. /\ pending' = pending \ {DmaLine} /\ isRunning' = FALSE
        /\ UNCHANGED <<count, mask_register, uartVars>>
    BY <1>3 DEF DmaTick, DmaTickWith, Clear
  <2> QED
    BY <1>1, <1>2, <1>3, <2>1
       DEF uartVars, RxReadyMirrorsBuffer, DmaFlagCurrent, CompletionIsFresh,
           KeyInterruptHasKey
<1>4. CASE count # 0
  <2>1. PICK source \in ReadTargets, target \in WriteTargets :
          /\ BusRead(source)
          /\ BusWrite(target)
          /\ \E c \in CountsAfter(target) : count' = (c - 1) % CountValues
          /\ isRunning' = (count' # 0)
          /\ IF count' = 0 THEN Raise(DmaLine) ELSE Clear(DmaLine)
    BY <1>4 DEF DmaTick, DmaTickWith
  <2>2. rx_buffer' \in 0 .. RxBound /\ rx_ready' \in BOOLEAN /\ RxReadyMirrorsBuffer'
    BY <2>1, BusReadKeeps
  <2>3. mask_register' \subseteq Lines /\ control_register' \in BOOLEAN
    BY <2>1, BusWriteTypes
  <2>4. count' \in Count
    BY <2>1, CountTypes
  <2>5. pending' \subseteq Lines /\ (DmaLine \in pending' => count' = 0)
    BY <2>1 DEF Raise, Clear, Lines
  <2>6. isRunning' \in BOOLEAN /\ (isRunning' <=> count' # 0)
    BY <2>1
  <2> QED
    BY <1>1, <1>2, <2>2, <2>3, <2>4, <2>5, <2>6
       DEF DmaFlagCurrent, CompletionIsFresh, KeyInterruptHasKey
<1> QED BY <1>3, <1>4

LEMMA UartTickStep ==
    ASSUME SysInv, UartTick
    PROVE  SysInv'
<1> USE DEF SysInv, SysTypeOK
<1>1. /\ phase = "uart" /\ phase' = "step"
      /\ UNCHANGED <<emuVars, time, mask_register, dmaVars, control_register>>
  BY DEF UartTick
<1>2. EmuTypeOK' /\ StackInRange'
  BY <1>1 DEF emuVars, EmuTypeOK, StackInRange
<1>3. /\ rx_buffer' \in 0 .. RxBound /\ rx_ready' \in BOOLEAN
      /\ RxReadyMirrorsBuffer' /\ KeyInterruptHasKey'
  <2>1. rx_buffer \in Int /\ rx_buffer >= 0 /\ RxBound \in Int
    BY DeviceAssumption
  <2>2. CASE /\ rx_buffer < RxBound
             /\ rx_buffer' = rx_buffer + 1
             /\ rx_ready' = TRUE
    BY <2>1, <2>2 DEF RxReadyMirrorsBuffer, KeyInterruptHasKey
  <2>3. CASE Clear(UartLine) /\ UNCHANGED <<rx_buffer, rx_ready>>
    BY <2>1, <2>3 DEF Clear, RxReadyMirrorsBuffer, KeyInterruptHasKey
  <2> QED BY <2>2, <2>3 DEF UartTick
<1>4. pending' \subseteq Lines /\ (DmaLine \in pending' => DmaLine \in pending)
  BY DEF UartTick, Raise, Clear, Lines, UartLine, DmaLine
<1>5. DmaFlagCurrent' /\ CompletionIsFresh'
  BY <1>1, <1>4 DEF DmaFlagCurrent, CompletionIsFresh, dmaVars
<1> QED BY <1>1, <1>2, <1>3, <1>4, <1>5 DEF dmaVars

LEMMA CpuStepStep ==
    ASSUME SysInv, CpuStep
    PROVE  SysInv'
<1> USE DEF SysInv, SysTypeOK
<1>1. phase' = "check" /\ UNCHANGED <<time, pending, isRunning>>
  BY DEF CpuStep
<1>2. PICK ivr \in Vectors(has_active_interrupt) :
        LET a == StepAddress(has_active_interrupt, ivr) IN
        \E i \in Fetched(a) :
          \E immx \in ImmediatesX(a, i), immy \in ImmediatesY(a, i),
             data \in LoadedWords(i) :
               /\ Step(has_active_interrupt, ivr, i, immx, immy, data)
               /\ StepAccess(i)
  BY DEF CpuStep
<1> DEFINE a == StepAddress(has_active_interrupt, ivr)
<1>3. PICK i \in Fetched(a) :
        \E immx \in ImmediatesX(a, i), immy \in ImmediatesY(a, i),
           data \in LoadedWords(i) :
             /\ Step(has_active_interrupt, ivr, i, immx, immy, data)
             /\ StepAccess(i)
  BY <1>2
<1>4. PICK immx \in ImmediatesX(a, i), immy \in ImmediatesY(a, i),
           data \in LoadedWords(i) :
             /\ Step(has_active_interrupt, ivr, i, immx, immy, data)
             /\ StepAccess(i)
  BY <1>3
<1>5. ivr \in Address /\ i \in Instruction /\ has_active_interrupt \in BOOLEAN
  BY VectorTypes, FetchedTypes DEF has_active_interrupt
<1>6. EmuTypeOK' /\ StackInRange'
  BY <1>4, <1>5, StepTypes
<1>7. /\ rx_buffer' \in 0 .. RxBound /\ rx_ready' \in BOOLEAN
      /\ RxReadyMirrorsBuffer'
      /\ mask_register' \subseteq Lines /\ control_register' \in BOOLEAN
      /\ count' \in Count
  <2>1. CASE i.op = OpLdm
    <3>1. PICK source \in ReadTargets : BusRead(source)
      BY <1>4, <2>1 DEF StepAccess, OpLdm, OpStm
    <3>2. UNCHANGED <<mask_register, control_register, count>>
      BY <1>4, <2>1 DEF StepAccess, OpLdm, OpStm
    <3> QED BY <3>1, <3>2, BusReadKeeps
  <2>2. CASE i.op = OpStm
    <3>1. PICK target \in WriteTargets :
             BusWrite(target) /\ count' \in CountsAfter(target)
      BY <1>4, <2>2 DEF StepAccess, OpLdm, OpStm
    <3>2. UNCHANGED <<rx_buffer, rx_ready>>
      BY <1>4, <2>2 DEF StepAccess, OpLdm, OpStm
    <3>3. mask_register' \subseteq Lines /\ control_register' \in BOOLEAN
      BY <3>1, BusWriteTypes
    <3>4. count' \in Count
      BY <3>1, CountTypes
    <3> QED BY <3>2, <3>3, <3>4 DEF RxReadyMirrorsBuffer
  <2>3. CASE i.op \notin {OpLdm, OpStm}
    BY <1>4, <2>3 DEF StepAccess, uartVars, RxReadyMirrorsBuffer
  <2> QED BY <2>1, <2>2, <2>3
<1> QED
  BY <1>1, <1>6, <1>7 DEF DmaFlagCurrent, CompletionIsFresh, KeyInterruptHasKey

LEMMA SysInvStep == SysInv /\ [SysNext]_sysVars => SysInv'
<1> SUFFICES ASSUME SysInv, [SysNext]_sysVars PROVE SysInv'
  OBVIOUS
<1> USE DEF SysInv, SysTypeOK
<1>1. CASE CheckHalt
  <2>1. phase' \in {"exit", "timer"} /\ UNCHANGED <<emuVars, deviceVars>>
    BY <1>1 DEF CheckHalt
  <2>2. EmuTypeOK' /\ StackInRange'
    BY <2>1 DEF emuVars, EmuTypeOK, StackInRange
  <2> QED
    BY <2>1, <2>2 DEF deviceVars, ieVars, dmaVars, uartVars, RxReadyMirrorsBuffer,
       DmaFlagCurrent, CompletionIsFresh, KeyInterruptHasKey
<1>2. CASE TimerTick
  <2>1. /\ phase' = "dma"
        /\ UNCHANGED <<emuVars, mask_register, dmaVars, uartVars>>
    BY <1>2 DEF TimerTick
  <2>2. EmuTypeOK' /\ StackInRange'
    BY <2>1 DEF emuVars, EmuTypeOK, StackInRange
  <2>3. time' \in 0 .. TimeValues - 1
    BY <1>2, DeviceAssumption, ModType DEF TimerTick
  <2>4. pending' \subseteq Lines
    BY <1>2 DEF TimerTick, Raise, Clear, Lines
  <2> QED
    BY <2>1, <2>2, <2>3, <2>4 DEF dmaVars, uartVars, RxReadyMirrorsBuffer,
       DmaFlagCurrent, CompletionIsFresh, KeyInterruptHasKey
<1>3. CASE Frozen
  <2>1. /\ phase' = "check"
        /\ UNCHANGED <<PC, programEAM, dataEAM, JR, registers, carry, stack,
                       IVR_Saved, interruptMask, interruptValid, deviceVars>>
    BY <1>3 DEF Frozen
  <2>2. IVR' \in Address
    BY <1>3, VectorTypes DEF Frozen
  <2>3. EmuTypeOK' /\ StackInRange'
    BY <2>1, <2>2 DEF EmuTypeOK, StackInRange
  <2> QED
    BY <2>1, <2>3 DEF deviceVars, ieVars, dmaVars, uartVars, RxReadyMirrorsBuffer,
       DmaFlagCurrent, CompletionIsFresh, KeyInterruptHasKey
<1>4. CASE UNCHANGED sysVars
  <2>1. UNCHANGED <<emuVars, phase, deviceVars>>
    BY <1>4 DEF sysVars
  <2>2. EmuTypeOK' /\ StackInRange'
    BY <2>1 DEF emuVars, EmuTypeOK, StackInRange
  <2> QED
    BY <2>1, <2>2 DEF deviceVars, ieVars, dmaVars, uartVars, RxReadyMirrorsBuffer,
       DmaFlagCurrent, CompletionIsFresh, KeyInterruptHasKey
<1>5. CASE Exited
  BY <1>4, <1>5 DEF Exited
<1> HIDE DEF SysInv, SysTypeOK
<1> QED
  BY <1>1, <1>2, <1>3, <1>4, <1>5, DmaTickStep, UartTickStep, CpuStepStep
     DEF SysNext

\* The strengthened invariant of the emulator.
THEOREM SysInvariance == SysSpec => []SysInv
BY SysInvInit, SysInvStep, PTL DEF SysSpec

\* The emulator's variables keep the width of their C++ types, although its
\* bank registers are wider than the banks that exist.
THEOREM SysTypeCorrect == SysSpec => []SysTypeOK
BY SysInvariance, PTL DEF SysInv

\* The stack never holds more than its 256 entries.
THEOREM StackIsInRange == SysSpec => []StackInRange
BY SysInvariance, PTL DEF SysInv

\* The RX bit is on exactly while a key waits, whoever takes the keys.
THEOREM RxReadyIsCurrent == SysSpec => []RxReadyMirrorsBuffer
BY SysInvariance, PTL DEF SysInv

\* The processor is running again when the completion interrupt is up.
THEOREM CompletionIsVisible == SysSpec => []CompletionVisible
<1>1. SysInv => CompletionVisible
  BY DEF SysInv, DmaFlagCurrent, CompletionIsFresh, CompletionVisible
<1> QED BY <1>1, SysInvariance, PTL

\* The processor never samples a key interrupt without a key.
THEOREM KeyInterruptsHaveKeys == SysSpec => []KeyInterruptHasKey
BY SysInvariance, PTL DEF SysInv
-----------------------------------------------------------------------------
(* What a step may never do                                                *)

LEMMA StallStep ==
    ASSUME SysInv, [SysNext]_sysVars, phase = "step", count # 0
    PROVE  UNCHANGED <<PC, programEAM, dataEAM, JR, registers, carry, stack,
                       interruptMask, count>>
<1>1. isRunning
  BY DEF SysInv, DmaFlagCurrent
<1>2. CASE Frozen
  BY <1>2 DEF Frozen, deviceVars, dmaVars
<1>3. CASE Exited \/ UNCHANGED sysVars
  BY <1>3 DEF Exited, sysVars, emuVars, deviceVars, dmaVars
<1> QED
  BY <1>1, <1>2, <1>3
     DEF SysNext, CheckHalt, TimerTick, DmaTick, DmaTickWith, UartTick, CpuStep

\* No instruction executes while words are left to transfer.
THEOREM DmaStalls == SysSpec => DmaStallsCpu
<1>1. SysInv /\ [SysNext]_sysVars
        => [phase = "step" /\ count # 0
              => UNCHANGED <<PC, programEAM, dataEAM, JR, registers, carry,
                             stack, interruptMask, count>>]_sysVars
  BY StallStep
<1> QED BY <1>1, SysInvariance, PTL DEF SysSpec, DmaStallsCpu

\* A call of CPU::step is the only step of the loop that changes the
\* processor's registers other than the vector.
LEMMA OnlyStepMoves ==
    ASSUME [SysNext]_sysVars, ~CpuStep
    PROVE  UNCHANGED <<programEAM, IVR_Saved>>
BY DEF SysNext, CheckHalt, TimerTick, DmaTick, DmaTickWith, UartTick, Frozen,
       Exited, sysVars, emuVars

LEMMA SavedStep ==
    ASSUME SysInv, [SysNext]_sysVars, interruptMask
    PROVE  IVR_Saved' = IVR_Saved
<1>1. CASE CpuStep
  <2>1. \E ivr, i, immx, immy, data :
           Step(has_active_interrupt, ivr, i, immx, immy, data)
    BY <1>1 DEF CpuStep
  <2> QED BY <2>1 DEF Step, Taken
<1>2. CASE ~CpuStep
  BY <1>2, OnlyStepMoves
<1> QED BY <1>1, <1>2

\* The interrupted address survives everything a handler does.
THEOREM SavedAddressIsKept == SysSpec => SavedAddressKept
<1>1. SysInv /\ [SysNext]_sysVars
        => [interruptMask /\ interruptMask' => IVR_Saved' = IVR_Saved]_emuVars
  BY SavedStep
<1> QED BY <1>1, SysInvariance, PTL DEF SysSpec, SavedAddressKept

LEMMA LeavingStep ==
    ASSUME SysInv, [SysNext]_sysVars, programEAM' \notin Bank,
           programEAM' # programEAM
    PROVE  programEAM' \in {BankSize, programEAM + 1}
<1>1. EmuTypeOK /\ CpuStep
  BY OnlyStepMoves DEF SysInv, SysTypeOK
<1>2. PICK ivr \in Vectors(has_active_interrupt) :
        LET a == StepAddress(has_active_interrupt, ivr) IN
        \E i \in Fetched(a) : \E immx, immy, data :
           Step(has_active_interrupt, ivr, i, immx, immy, data)
  BY <1>1 DEF CpuStep
<1> DEFINE a == StepAddress(has_active_interrupt, ivr)
<1>3. PICK i \in Fetched(a) : \E immx, immy, data :
         Step(has_active_interrupt, ivr, i, immx, immy, data)
  BY <1>2
<1>m. PICK immx, immy, data : Step(has_active_interrupt, ivr, i, immx, immy, data)
  BY <1>3
<1>4. ivr \in Address /\ i \in Instruction /\ has_active_interrupt \in BOOLEAN
  BY <1>1, VectorTypes, FetchedTypes DEF has_active_interrupt
<1>5. PICK saved \in WideAddress :
         /\ a \in WideAddress
         /\ a.bank \in Bank \/ a.bank = programEAM
         /\ EmuExecute(a, i, EmuX(i, immx), EmuY(i, immy), data, ivr, saved)
  BY <1>1, <1>m, <1>4, StepExecutes
<1>6. programEAM' = a.bank \/ programEAM' = a.bank + 1
  BY <1>1, <1>4, <1>5, ExecuteBank
<1>7. programEAM' = a.bank + 1
  BY <1>5, <1>6
<1>8. a.bank \in Int /\ BankSize \in Int /\ (a.bank \in Bank => a.bank + 1 = BankSize)
  BY <1>5, <1>7, SizeAssumption DEF WideAddress, Word, Bank
<1> HIDE DEF a
<1> QED BY <1>5, <1>7, <1>8

\* The processor leaves the memory only by running off its end.
THEOREM LeavesOnlyAtTheEnd == SysSpec => LeavesMemoryAtItsEnd
<1>1. SysInv /\ [SysNext]_sysVars
        => [programEAM' \notin Bank /\ programEAM' # programEAM
              => programEAM' \in {BankSize, programEAM + 1}]_emuVars
  BY LeavingStep
<1> QED BY <1>1, SysInvariance, PTL DEF SysSpec, LeavesMemoryAtItsEnd
=============================================================================
