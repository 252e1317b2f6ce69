-------------------------- MODULE RtlSystemProofs --------------------------
(***************************************************************************)
(* Proofs about the machine of testbench.sv, for every memory map, RAM     *)
(* size and program.  The processor inside it behaves as GatewayCpu does   *)
(* alone, so that all that GatewayCpuProofs proves carries over.           *)
(***************************************************************************)
EXTENDS RtlSystem, GatewayCpuProofs, WellFoundedInduction

LEMMA WordModBank ==
    ASSUME NEW w \in Word
    PROVE  w % BankSize \in Bank
BY SizeAssumption DEF Word, Bank

LEMMA NextAddressType ==
    ASSUME NEW a \in Address
    PROVE  NextAddress(a) \in Address
<1>1. a.bank \in Bank /\ a.off \in Word
  BY DEF Address
<1>2. CASE a.off = WordSize - 1
  <2>1. (a.bank + 1) % BankSize \in Bank
    BY <1>1, SizeAssumption DEF Bank
  <2> QED BY <1>2, <2>1, ZeroTypes, AtType DEF NextAddress
<1>3. CASE a.off # WordSize - 1
  <2>1. a.off + 1 \in Word
    BY <1>1, <1>3, SizeAssumption DEF Word
  <2> QED BY <1>1, <1>3, <2>1, AtType DEF NextAddress
<1> QED BY <1>2, <1>3

LEMMA RamOffset ==
    ASSUME NEW a \in Address, InRam(a)
    PROVE  a.off \in Ram
BY MemoryMapAssumption, SizeAssumption DEF InRam, Ram, Address, Word

\* One word of a transfer.
LEMMA DmaStepType ==
    ASSUME NEW m \in MemoryState, m.cnt # 0
    PROVE  DmaStep(m) \in MemoryState
<1>1. /\ m.ram \in [Ram -> Word] /\ m.src \in Address /\ m.dst \in Address
      /\ m.cnt \in Word /\ m.enabled \in Word
  BY DEF MemoryState
<1> DEFINE ram == IF InRam(m.src) /\ InRam(m.dst)
                    THEN [m.ram EXCEPT ![m.dst.off] = m.ram[m.src.off]] ELSE m.ram
<1>2. ram \in [Ram -> Word]
  BY <1>1, RamOffset
<1>3. NextAddress(m.src) \in Address /\ NextAddress(m.dst) \in Address
  BY <1>1, NextAddressType
<1>4. m.cnt - 1 \in Word
  <2>1. m.cnt \in 0 .. WordSize - 1 /\ WordSize \in Nat
    BY <1>1, SizeAssumption DEF Word
  <2> QED BY <2>1 DEF Word
<1>5. DmaStep(m) = [m EXCEPT !.ram = ram, !.src = NextAddress(m.src),
                             !.dst = NextAddress(m.dst), !.cnt = m.cnt - 1]
  BY DEF DmaStep, MemoryState
<1> HIDE DEF ram
<1> QED BY <1>1, <1>2, <1>3, <1>4, <1>5 DEF MemoryState

LEMMA StoredType ==
    ASSUME NEW m \in MemoryState, NEW a \in Address, NEW w \in Word
    PROVE  Stored(m, a, w) \in MemoryState
<1>1. /\ m.ram \in [Ram -> Word] /\ m.src \in Address /\ m.dst \in Address
      /\ m.cnt \in Word /\ m.enabled \in Word /\ w % BankSize \in Bank
  BY WordModBank DEF MemoryState
<1>2. [m EXCEPT !.src.off = w] \in MemoryState
  BY <1>1 DEF MemoryState, Address
<1>3. [m EXCEPT !.dst.off = w] \in MemoryState
  BY <1>1 DEF MemoryState, Address
<1>4. [m EXCEPT !.cnt = w] \in MemoryState
  BY <1>1 DEF MemoryState
<1>5. [m EXCEPT !.src.bank = w % BankSize] \in MemoryState
  BY <1>1 DEF MemoryState, Address
<1>6. [m EXCEPT !.dst.bank = w % BankSize] \in MemoryState
  BY <1>1 DEF MemoryState, Address
<1>7. [m EXCEPT !.enabled = w] \in MemoryState
  BY <1>1 DEF MemoryState
<1>8. InRam(a) => [m EXCEPT !.ram[a.off] = w] \in MemoryState
  BY <1>1, RamOffset DEF MemoryState
<1> QED
  BY <1>2, <1>3, <1>4, <1>5, <1>6, <1>7, <1>8 DEF Stored

LEMMA LoadedType ==
    ASSUME NEW m \in MemoryState, NEW a \in Address
    PROVE  Loaded(m, a) \subseteq Word
<1>1. /\ m.ram \in [Ram -> Word] /\ m.src.off \in Word /\ m.dst.off \in Word
      /\ m.cnt \in Word /\ m.enabled \in Word
  BY DEF MemoryState, Address
<1>2. InRam(a) => m.ram[a.off] \in Word
  BY <1>1, RamOffset
<1>3. 0 \in Word /\ m.enabled % 2 \in Word
  BY <1>1, ZeroTypes, SizeAssumption DEF Word
<1> QED BY <1>1, <1>2, <1>3 DEF Loaded
-----------------------------------------------------------------------------
(* Transfers as a whole                                                    *)

LEMMA NatWellFounded ==
    IsWellFoundedOn({ss \in Nat \X Nat : ss[1] < ss[2]}, Nat)
BY NatLessThanWellFounded DEF OpToRel

LEMMA Least ==
    ASSUME NEW S \in SUBSET Nat, S # {}
    PROVE  \E k \in S : \A j \in S : ~(j < k)
<1> DEFINE L == {ss \in Nat \X Nat : ss[1] < ss[2]}
<1>1. IsWellFoundedOn(L, Nat)
  BY NatWellFounded
<1>2. \E k \in S : \A j \in S : ~(<<j, k>> \in L)
  <2> HIDE DEF L
  <2> QED
    BY <1>1, WFMin
<1> QED
  BY <1>2

\* g is the memory after each of the first n words of a transfer from m.
Transfer(m, n, g) ==
    g = [i \in 0 .. n |-> IF i = 0 THEN m ELSE DmaStep(g[i - 1])]

LEMMA TransferExists ==
    ASSUME NEW m, NEW n \in Nat
    PROVE  \E g : Transfer(m, n, g)
<1> DEFINE Bad == {k \in Nat : ~\E g : Transfer(m, k, g)}
<1>1. ASSUME Bad # {} PROVE FALSE
  <2>1. PICK k \in Bad : \A j \in Bad : ~(j < k)
    BY <1>1, Least
  <2>2. CASE k = 0
    <3> DEFINE g == [i \in 0 .. 0 |-> m]
    <3>1. \A i \in 0 .. 0 : i = 0
      OBVIOUS
    <3>2. g = [i \in 0 .. 0 |-> IF i = 0 THEN m ELSE DmaStep(g[i - 1])]
      BY <3>1
    <3> QED
      BY <2>1, <2>2, <3>2 DEF Transfer
  <2>3. CASE k # 0
    <3>1. k - 1 \in Nat /\ k - 1 < k
      BY <2>1, <2>3
    <3>2. PICK g : Transfer(m, k - 1, g)
      BY <2>1, <3>1
    <3> DEFINE h == [i \in 0 .. k |-> IF i = 0 THEN m ELSE DmaStep(g[i - 1])]
    <3>3. ASSUME NEW i \in 0 .. k, i # 0
          PROVE  h[i - 1] = g[i - 1]
      <4>1. i - 1 \in 0 .. k - 1 /\ i - 1 \in 0 .. k
        BY <2>1, <3>3
      <4>2. g[i - 1] = IF i - 1 = 0 THEN m ELSE DmaStep(g[i - 1 - 1])
        BY <3>2, <4>1 DEF Transfer
      <4>3. h[i - 1] = IF i - 1 = 0 THEN m ELSE DmaStep(g[i - 1 - 1])
        BY <4>1
      <4> QED
        BY <4>2, <4>3
    <3>4. h = [i \in 0 .. k |-> IF i = 0 THEN m ELSE DmaStep(h[i - 1])]
      BY <3>3
    <3>5. Transfer(m, k, h)
      BY <3>4 DEF Transfer
    <3> QED
      BY <2>1, <3>5
  <2> QED
    BY <2>2, <2>3
<1> QED
  BY <1>1

\* A transfer goes on from where its first word has left it.
LEMMA TransferGoesOn ==
    ASSUME NEW m, NEW n \in Nat, NEW g, NEW h,
           Transfer(m, n + 1, g), Transfer(DmaStep(m), n, h)
    PROVE  g[n + 1] = h[n]
<1> DEFINE Bad == {k \in 0 .. n : g[k + 1] # h[k]}
<1>1. \A k \in 0 .. n : g[k + 1] = DmaStep(g[k]) /\ g[0] = m
  BY DEF Transfer
<1>2. \A k \in 0 .. n : h[k] = IF k = 0 THEN DmaStep(m) ELSE DmaStep(h[k - 1])
  BY DEF Transfer
<1>3. ASSUME Bad # {} PROVE FALSE
  <2>1. Bad \in SUBSET Nat
    OBVIOUS
  <2>2. PICK k \in Bad : \A j \in Bad : ~(j < k)
    <3> HIDE DEF Bad
    <3> QED
      BY <1>3, <2>1, Least
  <2>3. CASE k = 0
    BY <1>1, <1>2, <2>2, <2>3
  <2>4. CASE k # 0
    <3>1. k - 1 \in 0 .. n /\ k - 1 < k /\ k - 1 + 1 = k
      BY <2>2, <2>4
    <3>2. g[k] = h[k - 1]
      BY <2>2, <3>1
    <3> QED
      BY <1>1, <1>2, <2>2, <2>4, <3>2
  <2> QED
    BY <2>3, <2>4
<1> QED
  BY <1>3

LEMMA DmaDoneIs ==
    ASSUME NEW m, m.cnt \in Nat
    PROVE  \E g : Transfer(m, m.cnt, g) /\ DmaDone(m) = g[m.cnt]
<1> DEFINE g == CHOOSE f : Transfer(m, m.cnt, f)
<1>1. DmaDone(m) = g[m.cnt]
  BY Zenon DEF DmaDone, Transfer
<1>2. Transfer(m, m.cnt, g)
  BY TransferExists, Zenon
<1> QED
  BY <1>1, <1>2, Zenon

\* A transfer is over when its counter is 0, and until then its first word and
\* the rest make the whole of it.
LEMMA DmaDoneSteps ==
    ASSUME NEW m \in MemoryState
    PROVE  /\ m.cnt = 0 => DmaDone(m) = m
           /\ m.cnt # 0 => DmaDone(m) = DmaDone(DmaStep(m))
<1>1. m.cnt \in Nat
  BY SizeAssumption DEF MemoryState, Word
<1>2. PICK g : Transfer(m, m.cnt, g) /\ DmaDone(m) = g[m.cnt]
  BY <1>1, DmaDoneIs
<1>3. CASE m.cnt = 0
  BY <1>2, <1>3 DEF Transfer
<1>4. CASE m.cnt # 0
  <2>1. m.cnt - 1 \in Nat /\ m.cnt - 1 + 1 = m.cnt
    BY <1>1, <1>4
  <2>2. DmaStep(m).cnt = m.cnt - 1
    BY DEF DmaStep, MemoryState
  <2>3. PICK h : Transfer(DmaStep(m), m.cnt - 1, h)
                 /\ DmaDone(DmaStep(m)) = h[m.cnt - 1]
    BY <2>1, <2>2, DmaDoneIs
  <2>4. g[m.cnt - 1 + 1] = h[m.cnt - 1]
    BY <1>2, <2>1, <2>3, TransferGoesOn
  <2> QED
    BY <1>2, <1>4, <2>1, <2>3, <2>4
<1> QED
  BY <1>3, <1>4
-----------------------------------------------------------------------------
(* The operators of the atomic machine with its memory                     *)

LEMMA SystemNumbers ==
    /\ AtomicSystem!Word = Word /\ AtomicSystem!Address = Address
    /\ AtomicSystem!OpEam = OpEam /\ AtomicSystem!AluOps = AluOps
    /\ AtomicSystem!OpLdm = OpLdm /\ AtomicSystem!OpStm = OpStm
    /\ AtomicSystem!OpStj = OpStj /\ AtomicSystem!OpBranch = OpBranch
    /\ AtomicSystem!OpCal = OpCal /\ AtomicSystem!OpRet = OpRet
    /\ AtomicSystem!OpHlt = OpHlt
BY Zenon DEF AtomicSystem!Word, Word, AtomicSystem!Address, Address,
       AtomicSystem!Bank, Bank, AtomicSystem!OpEam, OpEam,
       AtomicSystem!AluOps, AluOps, AtomicSystem!OpLdm, OpLdm,
       AtomicSystem!OpStm, OpStm, AtomicSystem!OpStj, OpStj,
       AtomicSystem!OpBranch, OpBranch, AtomicSystem!OpCal, OpCal,
       AtomicSystem!OpRet, OpRet, AtomicSystem!OpHlt, OpHlt

LEMMA SystemMemory ==
    /\ AtomicSystem!MemoryAtReset = MemoryAtReset
    /\ \A m, a, w : AtomicSystem!Stored(m, a, w) = Stored(m, a, w)
    /\ \A m, a : AtomicSystem!Loaded(m, a) = Loaded(m, a)
    /\ \A m : AtomicSystem!DmaDone(m) = DmaDone(m)
<1>1. AtomicSystem!MemoryAtReset = MemoryAtReset
  BY Zenon DEF AtomicSystem!MemoryAtReset, MemoryAtReset, AtomicSystem!Ram, Ram,
         AtomicSystem!Word, Word, AtomicSystem!At, At
<1>2. \A m, a, w : AtomicSystem!Stored(m, a, w) = Stored(m, a, w)
  BY Zenon DEF AtomicSystem!Stored, Stored, AtomicSystem!InRam, InRam
<1>3. \A m, a : AtomicSystem!Loaded(m, a) = Loaded(m, a)
  BY Zenon DEF AtomicSystem!Loaded, Loaded, AtomicSystem!InRam, InRam,
         AtomicSystem!Word, Word
<1>4. \A m : AtomicSystem!DmaDone(m) = DmaDone(m)
  BY Zenon DEF AtomicSystem!DmaDone, DmaDone, AtomicSystem!DmaStep, DmaStep,
         AtomicSystem!InRam, InRam, AtomicSystem!NextAddress, NextAddress,
         AtomicSystem!At, At
<1> QED
  BY <1>1, <1>2, <1>3, <1>4

\* What an instruction and an interrupt do to the registers is the same in
\* both atomic machines.
LEMMA SystemSteps ==
    /\ \A i, x, y, d : AtomicSystem!Execute(i, x, y, d) <=> Atomic!Execute(i, x, y, d)
    /\ \A v : AtomicSystem!TakeInterrupt(v) <=> Atomic!TakeInterrupt(v)
<1>1. \A b, o : AtomicSystem!At(b, o) = Atomic!At(b, o)
  BY Zenon
     DEF AtomicSystem!At, Atomic!At
<1>2. \A p, n : AtomicSystem!Advance(p, n) = Atomic!Advance(p, n)
  BY Zenon
     DEF AtomicSystem!Advance, Atomic!Advance
<1>3. \A i : AtomicSystem!GoOn(i) <=> Atomic!GoOn(i)
  BY <1>2, Zenon
     DEF AtomicSystem!GoOn, Atomic!GoOn,
         AtomicSystem!InstructionLength, Atomic!InstructionLength
<1>4. \A a : AtomicSystem!JumpTo(a) <=> Atomic!JumpTo(a)
  BY Zenon
     DEF AtomicSystem!JumpTo, Atomic!JumpTo
<1>5. \A a : AtomicSystem!Push(a) <=> Atomic!Push(a)
  BY Zenon
     DEF AtomicSystem!Push, Atomic!Push
<1>6. \A i, x : AtomicSystem!EamSet(i, x) <=> Atomic!EamSet(i, x)
  BY <1>1, <1>3, Zenon
     DEF AtomicSystem!EamSet, Atomic!EamSet
<1>7. \A i, x, y : AtomicSystem!Arith(i, x, y) <=> Atomic!Arith(i, x, y)
  BY <1>3, Zenon
     DEF AtomicSystem!Arith, Atomic!Arith
<1>8. \A i, d : AtomicSystem!Load(i, d) <=> Atomic!Load(i, d)
  BY <1>3, Zenon
     DEF AtomicSystem!Load, Atomic!Load,
         AtomicSystem!Reg, Atomic!Reg,
         AtomicSystem!Advance, Atomic!Advance
<1>9. \A i : AtomicSystem!Store(i) <=> Atomic!Store(i)
  BY <1>3, Zenon
     DEF AtomicSystem!Store, Atomic!Store,
         AtomicSystem!Reg, Atomic!Reg,
         AtomicSystem!Advance, Atomic!Advance
<1>10. \A i, x : AtomicSystem!SetJump(i, x) <=> Atomic!SetJump(i, x)
  BY <1>1, <1>3, Zenon
     DEF AtomicSystem!SetJump, Atomic!SetJump
<1>11. \A i, x, y : AtomicSystem!Branch(i, x, y) <=> Atomic!Branch(i, x, y)
  <2>1. ASSUME NEW i, NEW x, NEW y
        PROVE  AtomicSystem!ConditionMet(i, x, y) <=> Atomic!ConditionMet(i, x, y)
    BY DEF AtomicSystem!ConditionMet, Atomic!ConditionMet, AtomicSystem!Signed, Atomic!Signed
  <2> QED
    BY <1>3, <1>4, <2>1 DEF AtomicSystem!Branch, Atomic!Branch
<1>12. \A i, x : AtomicSystem!Call(i, x) <=> Atomic!Call(i, x)
  BY <1>1, <1>2, <1>4, <1>5, Zenon
     DEF AtomicSystem!Call, Atomic!Call,
         AtomicSystem!InstructionLength, Atomic!InstructionLength
<1>13. \A i : AtomicSystem!Return(i) <=> Atomic!Return(i)
  BY <1>4, Zenon
     DEF AtomicSystem!Return, Atomic!Return
<1>14. AtomicSystem!Stop <=> Atomic!Stop
  BY Zenon
     DEF AtomicSystem!Stop, Atomic!Stop
<1>15. \A i, x : AtomicSystem!OpX(i, x) = Atomic!OpX(i, x)
  BY Zenon
     DEF AtomicSystem!OpX, Atomic!OpX
<1>16. \A i, y : AtomicSystem!OpY(i, y) = Atomic!OpY(i, y)
  BY Zenon
     DEF AtomicSystem!OpY, Atomic!OpY
<1>17. ASSUME NEW i, NEW x, NEW y, NEW d
       PROVE  AtomicSystem!Execute(i, x, y, d) <=> Atomic!Execute(i, x, y, d)
  BY SystemNumbers, SameNumbers, <1>6, <1>7, <1>8, <1>9, <1>10, <1>11, <1>12, <1>13,
     <1>14, <1>15, <1>16
     DEF AtomicSystem!Execute, Atomic!Execute
<1>18. \A v : AtomicSystem!TakeInterrupt(v) <=> Atomic!TakeInterrupt(v)
  BY <1>1, <1>4, <1>5, Zenon DEF AtomicSystem!TakeInterrupt, Atomic!TakeInterrupt
<1> QED
  BY <1>17, <1>18

\* An immediate that the instruction does not have makes no difference.
LEMMA OwnImmediates ==
    ASSUME NEW i, NEW x, NEW y, NEW d, NEW ix, NEW iy,
           Atomic!Execute(i, x, y, d),
           i.LX => ix = x, i.LY => iy = y
    PROVE  Atomic!Execute(i, ix, iy, d)
<1>1. Atomic!OpX(i, ix) = Atomic!OpX(i, x) /\ Atomic!OpY(i, iy) = Atomic!OpY(i, y)
  BY DEF Atomic!OpX, Atomic!OpY
<1> QED
  BY <1>1, Zenon DEF Atomic!Execute
-----------------------------------------------------------------------------
(* The processor in the machine                                            *)

RtlInv == CpuInv /\ RtlTypeOK /\ DmaOnlyInCommit

\* Whatever memory and the DMA engine do, the processor takes one of its own
\* steps or waits.
LEMMA ProcessorStep ==
    ASSUME RtlInv, [RtlNext]_rtlVars
    PROVE  [Next]_cpuVars
<1>1. CASE DmaClock
  BY <1>1 DEF DmaClock
<1>2. CASE QuietClock
  BY <1>2 DEF QuietClock, Next
<1>3. CASE LoadClock
  <2>1. mem_addr \in Address
    BY <1>3 DEF LoadClock, LdmRead, mem_addr, RtlInv, CpuInv, CpuTypeOK
  <2>2. Loaded(mem, mem_addr) \subseteq Word
    BY <2>1, LoadedType DEF RtlInv, RtlTypeOK
  <2> QED BY <1>3, <2>2 DEF LoadClock, Next
<1>4. CASE StoreClock
  BY <1>4 DEF StoreClock, Next
<1>5. CASE UNCHANGED rtlVars
  BY <1>5 DEF rtlVars
<1> QED BY <1>1, <1>2, <1>3, <1>4, <1>5 DEF RtlNext

LEMMA MemoryStep ==
    ASSUME RtlInv, [RtlNext]_rtlVars
    PROVE  mem' \in MemoryState /\ DmaOnlyInCommit'
<1>0. mem \in MemoryState /\ CpuTypeOK
  BY DEF RtlInv, RtlTypeOK
<1>1. CASE DmaClock
  <2>1. mem' = DmaStep(mem) /\ mem.cnt # 0 /\ UNCHANGED <<state, IR>>
    BY <1>1 DEF DmaClock, dma_active, cpuVars
  <2>2. mem' \in MemoryState
    BY <1>0, <2>1, DmaStepType
  <2> QED BY <2>1, <2>2 DEF RtlInv, DmaOnlyInCommit, dma_active
<1>2. CASE QuietClock \/ LoadClock
  <2>1. mem' = mem /\ ~dma_active
    BY <1>2 DEF QuietClock, LoadClock
  <2> QED BY <1>0, <2>1 DEF DmaOnlyInCommit, dma_active
<1>3. CASE StoreClock
  <2>1. /\ state = "STM_WRITE" /\ state' = "COMMIT" /\ IR' = IR
        /\ mem' = Stored(mem, mem_addr, operand_y)
    BY <1>3 DEF StoreClock, StmWrite
  <2>2. IR.op = OpStm
    BY <2>1 DEF RtlInv, CpuInv, AccessAddressCurrent
  <2>3. mem_addr \in Address /\ operand_y \in Word
    BY <1>0, <2>1, SignalTypes DEF mem_addr, CpuTypeOK
  <2>4. mem' \in MemoryState
    BY <1>0, <2>1, <2>3, StoredType
  <2> QED BY <2>1, <2>2, <2>4 DEF DmaOnlyInCommit
<1>4. CASE UNCHANGED rtlVars
  BY <1>0, <1>4 DEF rtlVars, cpuVars, RtlInv, DmaOnlyInCommit, dma_active
<1> QED BY <1>1, <1>2, <1>3, <1>4 DEF RtlNext

LEMMA RtlInvInit == RtlInit => RtlInv
<1> SUFFICES ASSUME RtlInit PROVE RtlInv
  OBVIOUS
<1>1. CpuInv
  BY InvInit DEF RtlInit
<1>2. mem \in MemoryState /\ mem.cnt = 0
  <2>1. PICK r \in [Ram -> Word] :
           mem = [ram |-> r, src |-> At(0, 0), dst |-> At(0, 0), cnt |-> 0, enabled |-> 0]
    BY DEF RtlInit, MemoryAtReset
  <2> QED BY <2>1, ZeroTypes DEF MemoryState
<1> QED BY <1>1, <1>2 DEF RtlInv, RtlTypeOK, CpuInv, DmaOnlyInCommit, dma_active

LEMMA RtlInvStep == RtlInv /\ [RtlNext]_rtlVars => RtlInv'
<1> SUFFICES ASSUME RtlInv, [RtlNext]_rtlVars PROVE RtlInv'
  OBVIOUS
<1>1. CpuInv'
  BY ProcessorStep, InvStep DEF RtlInv
<1> QED BY <1>1, MemoryStep DEF RtlInv, RtlTypeOK, CpuInv

THEOREM RtlInvariance == RtlSpec => []RtlInv
BY RtlInvInit, RtlInvStep, PTL DEF RtlSpec

\* Registers, RAM and the DMA pointers and counter keep values of their widths.
THEOREM RtlTypeCorrect == RtlSpec => []RtlTypeOK
BY RtlInvariance, PTL DEF RtlInv

\* A transfer never stops the processor in the middle of a fetch, an immediate,
\* a load or an interrupt entry.
THEOREM TransfersOnlyInCommit == RtlSpec => []DmaOnlyInCommit
BY RtlInvariance, PTL DEF RtlInv

\* Memory, devices and transfers only delay the processor: its registers go
\* through a behaviour of GatewayCpu.
THEOREM RunsTheProcessor == RtlSpec => Spec
<1>1. RtlInit => CpuInit
  BY DEF RtlInit
<1>2. RtlInv /\ [RtlNext]_rtlVars => [Next]_cpuVars
  BY ProcessorStep
<1> QED BY <1>1, <1>2, RtlInvariance, PTL DEF RtlSpec, Spec

\* So the processor of the whole machine implements the atomic one.
THEOREM SystemImplementsIsa == RtlSpec => ImplementsIsa
BY RunsTheProcessor, Refinement, PTL
-----------------------------------------------------------------------------
(* Refinement: the machine implements the atomic one with its memory       *)

LEMMA SameSystem ==
    ASSUME Same, ArchMem' = ArchMem
    PROVE  UNCHANGED AtomicSystem!sysVars
BY Zenon DEF Same, AtomicSystem!sysVars, AtomicSystem!vars

\* Outside a transfer the memory is the real one, and at its end too.
LEMMA ArchMemIs ==
    ASSUME mem \in MemoryState
    PROVE  /\ ~dma_active => ArchMem = mem
           /\ ArchMem = DmaDone(mem)
BY DmaDoneSteps DEF ArchMem, dma_active

LEMMA ArchMemIsPrime ==
    ASSUME mem' \in MemoryState
    PROVE  ArchMem' = DmaDone(mem')
BY DmaDoneSteps DEF ArchMem, dma_active

\* The step of the atomic machine that executes the instruction in IR.
LEMMA ExecutesSystem ==
    ASSUME RtlInv, IR \in Instructions, NEW d,
           Atomic!Execute(IR, immediate_x, immediate_y, d),
           state \in {"EXECUTE", "LDM_READ", "STM_WRITE"},
           \/ IR.op = OpLdm /\ d \in Loaded(ArchMem, At(DATA_EAM, operand_x))
                /\ ArchMem' = ArchMem
           \/ IR.op = OpStm /\ d = 0
                /\ ArchMem' = DmaDone(Stored(ArchMem, At(DATA_EAM, operand_x), operand_y))
           \/ IR.op \notin {OpLdm, OpStm} /\ d = 0 /\ ArchMem' = ArchMem
    PROVE  AtomicSystem!SysNext
<1> DEFINE ix == IF IR.LX THEN immediate_x ELSE 0
           iy == IF IR.LY THEN immediate_y ELSE 0
<1>1. /\ ix \in AtomicSystem!Immediates(IR.LX)
      /\ iy \in AtomicSystem!Immediates(IR.LY)
  BY SystemNumbers DEF RtlInv, CpuInv, CpuTypeOK, AtomicSystem!Immediates
<1>2. AtomicSystem!Execute(IR, ix, iy, d)
  <2>1. (IR.LX => ix = immediate_x) /\ (IR.LY => iy = immediate_y)
    OBVIOUS
  <2> HIDE DEF ix, iy
  <2> QED
    BY <2>1, OwnImmediates, SystemSteps
<1>3. /\ AtomicSystem!AccessAddress(IR, ix) = At(DATA_EAM, operand_x)
      /\ AtomicSystem!OpY(IR, iy) = operand_y
  <2>1. ArchR = R
    BY AtomicOperands DEF RtlInv
  <2> QED
    BY <2>1 DEF AtomicSystem!AccessAddress, AtomicSystem!OpX, AtomicSystem!OpY,
                AtomicSystem!At, At, operand_x, operand_y
<1> HIDE DEF ix, iy
<1>4. AtomicSystem!SysExecute(IR, ix, iy)
  BY <1>2, <1>3, SystemNumbers, SystemMemory DEF AtomicSystem!SysExecute
<1> QED
  BY <1>1, <1>4 DEF AtomicSystem!SysNext

LEMMA SystemStep ==
    ASSUME RtlInv, RtlInv', FetchedFromProgram, [RtlNext]_rtlVars
    PROVE  [AtomicSystem!SysNext]_(AtomicSystem!sysVars)
<1>0. /\ CpuInv /\ CpuTypeOK' /\ mem \in MemoryState /\ mem' \in MemoryState
      /\ 0 \in Word /\ SameNumbers
  BY ZeroTypes, SameNumbers DEF RtlInv, RtlTypeOK, CpuInv
<1>m. ArchMem' = DmaDone(mem') /\ ArchMem = DmaDone(mem)
      /\ (~dma_active => ArchMem = mem)
  BY <1>0, ArchMemIs, ArchMemIsPrime
<1>k. UNCHANGED mem => ArchMem' = ArchMem
  BY <1>m
<1>u. UNCHANGED cpuVars => Same
  BY DEF cpuVars, Same, ArchPC, ArchR, ArchHalted, CommitAdvances,
         condition_met, operand_x, operand_y, NextPc, PostIncrement
<1>1. CASE DmaClock
  <2>1. mem' = DmaStep(mem) /\ mem.cnt # 0 /\ UNCHANGED cpuVars
    BY <1>1 DEF DmaClock, dma_active
  <2>2. ArchMem' = ArchMem
    BY <1>0, <1>m, <2>1, DmaDoneSteps
  <2> QED
    BY <1>u, <2>1, <2>2, SameSystem
<1>2. CASE QuietClock
  <2>1. UNCHANGED mem /\ ArchMem' = ArchMem
    BY <1>2, <1>k DEF QuietClock
  <2>2. ASSUME Same PROVE [AtomicSystem!SysNext]_(AtomicSystem!sysVars)
    BY <2>1, <2>2, SameSystem
  <2>3. ASSUME NEW irq \in BOOLEAN, NEW i \in Instructions, Fetch(irq, i)
        PROVE  Same
    BY <1>0, <2>3, FetchStutters
  <2>4. CASE \/ Decode
             \/ \E w \in Word : ImmX(w)
             \/ \E w \in Word : ImmY(w)
             \/ ExecMemory
    BY <1>0, <2>4, <2>2, QuietClocksStutter
  <2>5. CASE Exec /\ ~ExecMemory
    <3>1. /\ IR \in Instructions /\ state = "EXECUTE"
          /\ IR.op \notin {OpLdm, OpStm}
      BY <2>5 DEF FetchedFromProgram, Exec, ExecEam, ExecAlu, ExecStj, ExecBranch,
                  ExecCal, ExecRet, ExecHlt, Executing, OpEam, AluOps, OpStj,
                  OpBranch, OpCal, OpRet, OpHlt, OpLdm, OpStm
    <3>2. Atomic!Execute(IR, immediate_x, immediate_y, 0)
      BY <1>0, <2>5, ExecIsExecute
    <3> QED
      BY <2>1, <3>1, <3>2, ExecutesSystem
  <2>6. CASE Commit
    BY <1>0, <2>2, <2>6, CommitStutters
  <2>7. ASSUME NEW v \in Address, Interrupt(v)
        PROVE  [AtomicSystem!SysNext]_(AtomicSystem!sysVars)
    <3>1. AtomicSystem!TakeInterrupt(v)
      BY <1>0, <2>7, InterruptIsTaken, SystemSteps
    <3> QED
      BY <2>1, <3>1, SystemNumbers DEF AtomicSystem!SysNext
  <2>8. ASSUME NEW irq \in BOOLEAN, Halt(irq)
        PROVE  Same
    BY <1>0, <2>8, HaltStutters
  <2> QED
    BY <1>2, <2>2, <2>3, <2>4, <2>5, <2>6, <2>7, <2>8 DEF QuietClock
<1>3. CASE LoadClock
  <2>1. PICK w \in Loaded(mem, mem_addr) : LdmRead(w)
    BY <1>3 DEF LoadClock
  <2>2. UNCHANGED mem /\ ~dma_active /\ ArchMem = mem /\ ArchMem' = ArchMem
    BY <1>3, <1>k, <1>m DEF LoadClock
  <2>3. /\ state = "LDM_READ" /\ IR \in Instructions /\ IR.op = OpLdm
        /\ mem_addr = At(DATA_EAM, operand_x)
    BY <1>0, <2>1 DEF LdmRead, FetchedFromProgram, CpuInv, AccessAddressCurrent, mem_addr
  <2>4. mem_addr \in Address
    BY <2>3, <1>0 DEF mem_addr, CpuInv, CpuTypeOK
  <2>5. w \in Word
    BY <1>0, <2>1, <2>4, LoadedType
  <2>6. Atomic!Execute(IR, immediate_x, immediate_y, w)
    BY <1>0, <2>1, <2>5, LdmReadIsExecute
  <2> QED
    BY <2>1, <2>2, <2>3, <2>6, ExecutesSystem
<1>4. CASE StoreClock
  <2>1. /\ StmWrite /\ ~dma_active /\ ArchMem = mem
        /\ mem' = Stored(mem, mem_addr, operand_y)
    BY <1>4, <1>m DEF StoreClock
  <2>2. /\ state = "STM_WRITE" /\ IR \in Instructions /\ IR.op = OpStm
        /\ mem_addr = At(DATA_EAM, operand_x)
    BY <1>0, <2>1 DEF StmWrite, FetchedFromProgram, CpuInv, AccessAddressCurrent, mem_addr
  <2>3. Atomic!Execute(IR, immediate_x, immediate_y, 0)
    BY <1>0, <2>1, StmWriteIsExecute
  <2>4. ArchMem' = DmaDone(Stored(ArchMem, At(DATA_EAM, operand_x), operand_y))
    BY <1>m, <2>1, <2>2
  <2> QED
    BY <2>2, <2>3, <2>4, ExecutesSystem
<1>5. CASE UNCHANGED rtlVars
  <2>1. UNCHANGED cpuVars /\ UNCHANGED mem
    BY <1>5 DEF rtlVars
  <2> QED
    BY <1>k, <1>u, <2>1, SameSystem
<1> QED
  BY <1>1, <1>2, <1>3, <1>4, <1>5 DEF RtlNext

LEMMA SystemInit == RtlInit => AtomicSystem!Init /\ ArchMem \in AtomicSystem!MemoryAtReset
<1> SUFFICES ASSUME RtlInit
             PROVE  AtomicSystem!Init /\ ArchMem \in AtomicSystem!MemoryAtReset
  OBVIOUS
<1>1. Atomic!Init
  BY RefinementInit DEF RtlInit
<1>2. AtomicSystem!Init
  BY <1>1, Zenon DEF AtomicSystem!Init, Atomic!Init, AtomicSystem!At, Atomic!At
<1>3. mem \in MemoryAtReset /\ mem.cnt = 0
  BY DEF RtlInit, MemoryAtReset
<1> QED
  BY <1>2, <1>3, SystemMemory DEF ArchMem, dma_active

\* The clocked machine with its DMA engine implements the atomic one, in which
\* the store that starts a transfer moves the whole block: no instruction, load
\* or interrupt handler sees a transfer half done (testbench.sv:315).
THEOREM SystemRefinement == RtlSpec => ImplementsIsaSystem
<1>1. RtlInit => AtomicSystem!Init /\ ArchMem \in AtomicSystem!MemoryAtReset
  BY SystemInit
<1>2. RtlInit => FetchedFromProgram
  BY DEF RtlInit, CpuInit, FetchedFromProgram
<1>3. RtlInv /\ FetchedFromProgram /\ [RtlNext]_rtlVars => FetchedFromProgram'
  BY ProcessorStep, FetchedStep
<1>4. RtlInv /\ RtlInv' /\ FetchedFromProgram /\ [RtlNext]_rtlVars
        => [AtomicSystem!SysNext]_(AtomicSystem!sysVars)
  BY SystemStep
<1> QED
  BY <1>1, <1>2, <1>3, <1>4, RtlInvariance, PTL
     DEF RtlSpec, ImplementsIsaSystem, AtomicSystem!SysSpec

-----------------------------------------------------------------------------
(* An instruction takes a bounded number of clocks                         *)

AtBoundary == state \in {"FETCH", "HALT"}

\* How many clocks of its own the processor is at most from its next boundary.
ClocksLeft ==
    CASE state = "DECODE" -> 6
      [] state = "IMM_X" -> 5
      [] state = "IMM_Y" -> 4
      [] state = "EXECUTE" -> 3
      [] state \in {"LDM_READ", "STM_WRITE"} -> 2
      [] state \in {"COMMIT", "INTERRUPT"} -> 1
      [] OTHER -> 0

\* Every clock inside an instruction brings its end nearer, or the end of the
\* transfer that freezes it.
ClocksRunOut ==
    [][~AtBoundary =>
          \/ ClocksLeft' \in Nat /\ ClocksLeft' < ClocksLeft
          \/ ClocksLeft' = ClocksLeft /\ mem'.cnt \in Nat /\ mem'.cnt < mem.cnt]_rtlVars

LEMMA ClocksLeftType == ClocksLeft \in 0 .. 6 /\ ClocksLeft' \in 0 .. 6
BY DEF ClocksLeft

LEMMA ProcessorClock ==
    ASSUME ~AtBoundary, QuietClock \/ LoadClock \/ StoreClock
    PROVE  ClocksLeft' < ClocksLeft
<1>1. CASE QuietClock
  <2>1. \/ Decode \/ Exec \/ Commit
        \/ \E w \in Word : ImmX(w) \/ ImmY(w)
        \/ \E v \in Address : Interrupt(v)
    BY <1>1 DEF QuietClock, AtBoundary, Fetch, Halt
  <2>2. CASE Decode
    BY <2>2 DEF Decode, ClocksLeft
  <2>3. CASE Exec
    <3>1. state = "EXECUTE" /\ state' \in {"COMMIT", "LDM_READ", "STM_WRITE", "HALT"}
      BY <2>3 DEF Exec, Executing, ExecEam, ExecAlu, ExecMemory, ExecStj, ExecBranch,
                  ExecCal, ExecRet, ExecHlt
    <3> QED
      BY <3>1 DEF ClocksLeft
  <2>4. CASE Commit
    BY <2>4 DEF Commit, ClocksLeft
  <2>5. CASE \E w \in Word : ImmX(w) \/ ImmY(w)
    BY <2>5 DEF ImmX, ImmY, ClocksLeft
  <2>6. CASE \E v \in Address : Interrupt(v)
    BY <2>6 DEF Interrupt, ClocksLeft
  <2> QED
    BY <2>1, <2>2, <2>3, <2>4, <2>5, <2>6
<1>2. CASE LoadClock
  BY <1>2 DEF LoadClock, LdmRead, ClocksLeft
<1>3. CASE StoreClock
  BY <1>3 DEF StoreClock, StmWrite, ClocksLeft
<1> QED
  BY <1>1, <1>2, <1>3

LEMMA TransferClock ==
    ASSUME RtlTypeOK, DmaClock
    PROVE  ClocksLeft' = ClocksLeft /\ mem'.cnt \in Nat /\ mem'.cnt < mem.cnt
<1>1. mem \in MemoryState /\ mem.cnt # 0 /\ mem' = DmaStep(mem) /\ state' = state
  BY DEF RtlTypeOK, DmaClock, dma_active, cpuVars
<1>2. mem.cnt \in Nat
  BY <1>1, SizeAssumption DEF MemoryState, Word
<1>3. mem'.cnt = mem.cnt - 1
  BY <1>1 DEF DmaStep, MemoryState
<1>4. ClocksLeft' = ClocksLeft
  BY <1>1 DEF ClocksLeft
<1> QED
  BY <1>1, <1>2, <1>3, <1>4

\* For every program, memory and transfer: between two boundaries the clocks run
\* out.  At most six are the processor's own, the others move a word each.
THEOREM InstructionsRunOut == RtlSpec => ClocksRunOut
<1>1. RtlInv /\ [RtlNext]_rtlVars
        => [~AtBoundary =>
              \/ ClocksLeft' \in Nat /\ ClocksLeft' < ClocksLeft
              \/ ClocksLeft' = ClocksLeft /\ mem'.cnt \in Nat /\ mem'.cnt < mem.cnt]_rtlVars
  BY ClocksLeftType, ProcessorClock, TransferClock DEF RtlInv, RtlNext
<1> QED
  BY <1>1, RtlInvariance, PTL DEF RtlSpec, ClocksRunOut
=============================================================================
