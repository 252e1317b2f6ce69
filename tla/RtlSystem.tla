----------------------------- MODULE RtlSystem -----------------------------
(***************************************************************************)
(* The machine of testbench.sv, clock by clock: the processor, RAM, the    *)
(* DMA engine and the VIC.  On every clock either the DMA engine moves one *)
(* word and the processor is frozen, or the processor takes one step and a *)
(* store, if it is in STM_WRITE, reaches RAM or a device register.         *)
(***************************************************************************)
EXTENDS GatewayCpu, Memory

VARIABLE mem

rtlVars == <<cpuVars, mem>>

\* The processor's registers, RAM and the DMA registers hold values of their
\* widths.
RtlTypeOK == CpuTypeOK /\ mem \in MemoryState

dma_active == mem.cnt # 0

RtlInit == CpuInit /\ mem \in MemoryAtReset

DmaClock ==
    /\ dma_active
    /\ mem' = DmaStep(mem)
    /\ UNCHANGED cpuVars

\* Faulty: the processor is not frozen during a transfer.
QuietClockUnfrozen ==
    /\ \/ \E irq \in BOOLEAN, i \in Instructions : Fetch(irq, i)
       \/ Decode
       \/ \E w \in Word : ImmX(w)
       \/ \E w \in Word : ImmY(w)
       \/ Exec
       \/ Commit
       \/ \E v \in Address : Interrupt(v)
       \/ \E irq \in BOOLEAN : Halt(irq)
    /\ UNCHANGED mem

\* A clock of the running processor that is not the write clock of a store.
QuietClock ==
    /\ ~dma_active
    /\ \/ \E irq \in BOOLEAN, i \in Instructions : Fetch(irq, i)
       \/ Decode
       \/ \E w \in Word : ImmX(w)
       \/ \E w \in Word : ImmY(w)
       \/ Exec
       \/ Commit
       \/ \E v \in Address : Interrupt(v)
       \/ \E irq \in BOOLEAN : Halt(irq)
    /\ UNCHANGED mem

LoadClock ==
    /\ ~dma_active
    /\ \E w \in Loaded(mem, mem_addr) : LdmRead(w)
    /\ UNCHANGED mem

StoreClock ==
    /\ ~dma_active
    /\ StmWrite
    /\ mem' = Stored(mem, mem_addr, operand_y)

RtlNext == DmaClock \/ QuietClock \/ LoadClock \/ StoreClock

RtlSpec == RtlInit /\ [][RtlNext]_rtlVars

\* The clock never stops.
FairRtlSpec == RtlSpec /\ WF_rtlVars(RtlNext)
-----------------------------------------------------------------------------
(* Properties                                                              *)

\* A transfer freezes the processor in the COMMIT of the store that started it
\* and nowhere else: never with a fetch, an immediate, a load or an interrupt
\* entry half done (DMA_Test.asm relies on it: the DMA freezes the processor
\* before it fetches the next instruction).
DmaOnlyInCommit == dma_active => state = "COMMIT" /\ IR.op = OpStm

\* The clocked machine implements the atomic one: no instruction and no
\* interrupt handler ever sees a transfer half done.
ArchMem == IF dma_active THEN DmaDone(mem) ELSE mem

AtomicSystem == INSTANCE IsaSystem
    WITH PC <- ArchPC, R <- ArchR, halted <- ArchHalted, mem <- ArchMem

ImplementsIsaSystem == AtomicSystem!SysSpec

\* Every instruction completes: whatever transfers it starts, the processor is
\* again and again at an instruction boundary.
KeepsFetching == []<>(state \in {"FETCH", "HALT"})

=============================================================================
