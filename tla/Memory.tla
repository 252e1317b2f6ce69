------------------------------- MODULE Memory -------------------------------
(***************************************************************************)
(* The memory side of testbench.sv as the processor's loads and stores     *)
(* meet it: RAM, the registers of the DMA engine and those of the          *)
(* interrupt controller (VIC).  Pure operators, used by the clocked system *)
(* (RtlSystem) and by the atomic one it implements (IsaSystem).            *)
(*                                                                         *)
(* The timer, the multiplier and the two arithmetic coprocessors answer a  *)
(* load too; what they return is left open.                                *)
(***************************************************************************)
EXTENDS RR16X

CONSTANTS
    RamWords,       \* size of the RAM, which is at the bottom of bank 0
    DeviceAt        \* the device register at each address, if any

DeviceRegisters ==
    {"DMA_SRC_ADDR", "DMA_DST_ADDR", "DMA_CNT_ADDR", "DMA_SRC_BANK",
     "DMA_DST_BANK", "VIC_ENABLE_ADDR", "VIC_PENDING_ADDR", "other", "none"}

ASSUME MemoryMapAssumption ==
    /\ RamWords \in 1 .. WordSize
    /\ DeviceAt \in [Address -> DeviceRegisters]
    /\ \A o \in 0 .. RamWords - 1 : DeviceAt[At(0, o)] = "none"

InRam(a) == a.bank = 0 /\ a.off < RamWords
Ram == 0 .. RamWords - 1

\* A DMA pointer is one 27-bit register: its offset carries into its bank.
NextAddress(a) ==
    IF a.off = WordSize - 1 THEN At((a.bank + 1) % BankSize, 0)
                            ELSE At(a.bank, a.off + 1)

\* The registers a store can change: RAM, DMA and the VIC enable mask.
MemoryState ==
    [ram : [Ram -> Word], src : Address, dst : Address, cnt : Word,
     enabled : Word]

\* After reset RAM holds whatever was loaded into it and no transfer runs.
MemoryAtReset ==
    {[ram |-> r, src |-> At(0, 0), dst |-> At(0, 0), cnt |-> 0, enabled |-> 0] :
        r \in [Ram -> Word]}

\* Faulty: the counter stands still.
DmaStepUncounted(m) ==
    [m EXCEPT !.ram = IF InRam(m.src) /\ InRam(m.dst)
                        THEN [@ EXCEPT ![m.dst.off] = m.ram[m.src.off]] ELSE @,
              !.src = NextAddress(@),
              !.dst = NextAddress(@)]

\* One word moved.  Only transfers from RAM to RAM move anything; the pointers
\* and the counter move on in any case.
DmaStep(m) ==
    [m EXCEPT !.ram = IF InRam(m.src) /\ InRam(m.dst)
                        THEN [@ EXCEPT ![m.dst.off] = m.ram[m.src.off]] ELSE @,
              !.src = NextAddress(@),
              !.dst = NextAddress(@),
              !.cnt = @ - 1]

\* A store of word w at address a.
Stored(m, a, w) ==
    CASE DeviceAt[a] = "DMA_SRC_ADDR" -> [m EXCEPT !.src.off = w]
      [] DeviceAt[a] = "DMA_DST_ADDR" -> [m EXCEPT !.dst.off = w]
      [] DeviceAt[a] = "DMA_CNT_ADDR" -> [m EXCEPT !.cnt = w]
      [] DeviceAt[a] = "DMA_SRC_BANK" -> [m EXCEPT !.src.bank = w % BankSize]
      [] DeviceAt[a] = "DMA_DST_BANK" -> [m EXCEPT !.dst.bank = w % BankSize]
      [] DeviceAt[a] = "VIC_ENABLE_ADDR" -> [m EXCEPT !.enabled = w]
      [] InRam(a) -> [m EXCEPT !.ram[a.off] = w]
      [] OTHER -> m

\* What a load at address a can return.  The pending register shows the request
\* line only where channel 0 is enabled; an address nothing answers reads 0.
Loaded(m, a) ==
    CASE DeviceAt[a] = "DMA_SRC_ADDR" -> {m.src.off}
      [] DeviceAt[a] = "DMA_DST_ADDR" -> {m.dst.off}
      [] DeviceAt[a] = "DMA_CNT_ADDR" -> {m.cnt}
      [] DeviceAt[a] = "VIC_PENDING_ADDR" -> {0, m.enabled % 2}
      [] DeviceAt[a] = "other" -> Word
      [] InRam(a) -> {m.ram[a.off]}
      [] OTHER -> {0}

\* The memory after the DMA engine has finished what m.cnt asks for.
DmaDone(m) ==
    LET after[n \in 0 .. m.cnt] == IF n = 0 THEN m ELSE DmaStep(after[n - 1])
    IN  after[m.cnt]
=============================================================================
