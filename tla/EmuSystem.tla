----------------------------- MODULE EmuSystem -----------------------------
(***************************************************************************)
(* The main loop of the emulator (RR16X_EMULATOR.cpp): look whether the    *)
(* next word is HLT, tick the timer, the DMA engine and the UART in this   *)
(* order, sample the InterruptEnhancer, and call CPU::step unless DMA      *)
(* runs.                                                                   *)
(*                                                                         *)
(* Addresses and data on the bus are left open: a load, a store or a DMA   *)
(* transfer may reach memory or any device register, with any value.       *)
(***************************************************************************)
EXTENDS EmuCpu

CONSTANTS
    TimeValues,     \* values of the timer register (2^16 in the code)
    CountValues,    \* values of the DMA count register (2^16 in the code)
    RxBound         \* bound on the keys waiting (none in the code)

ReadTargets == {"memory", "uart_data"}
WriteTargets == {"memory", "ie_mask", "uart_control", "dma_count"}

\* Interrupt lines.
TimerLine == 0
UartLine == 1
DmaLine == 2
Lines == {TimerLine, UartLine, DmaLine}

Count == 0 .. CountValues - 1

ASSUME DeviceAssumption ==
    /\ TimeValues \in Nat \ {0}
    /\ CountValues \in Nat \ {0}
    /\ RxBound \in Nat

VARIABLES
    phase,              \* what the main loop does next
    time,               \* the timer
    pending,            \* raised lines (is_pending and the status register)
    mask_register,      \* enabled lines
    count, isRunning,   \* the DMA engine
    rx_buffer,          \* number of keys waiting in the UART
    rx_ready,           \* bit 0 of its status register
    control_register    \* bit 0: raise an interrupt for each key

ieVars == <<pending, mask_register>>
dmaVars == <<count, isRunning>>
uartVars == <<rx_buffer, rx_ready, control_register>>
deviceVars == <<time, ieVars, dmaVars, uartVars>>
sysVars == <<emuVars, phase, deviceVars>>

\* The processor and the devices hold values of their types.
SysTypeOK ==
    /\ EmuTypeOK
    /\ phase \in {"check", "timer", "dma", "uart", "step", "exit"}
    /\ time \in 0 .. TimeValues - 1
    /\ pending \subseteq Lines /\ mask_register \subseteq Lines
    /\ count \in Count /\ isRunning \in BOOLEAN
    /\ rx_buffer \in 0 .. RxBound
    /\ rx_ready \in BOOLEAN /\ control_register \in BOOLEAN

SysInit ==
    /\ EmuInit
    /\ phase = "check"
    /\ time = 0
    /\ pending = {} /\ mask_register = {}
    /\ count = 0 /\ isRunning = FALSE
    /\ rx_buffer = 0 /\ rx_ready = FALSE /\ control_register = FALSE
-----------------------------------------------------------------------------
(* What an access on the bus does to the devices                           *)

\* Faulty: the RX bit stays on when the last key is taken.
BusReadReady(target) ==
    IF target = "uart_data" /\ rx_buffer > 0
      THEN rx_buffer' = rx_buffer - 1 /\ UNCHANGED rx_ready
      ELSE UNCHANGED <<rx_buffer, rx_ready>>

\* Reading the UART's data register takes a key out of its buffer.
BusRead(target) ==
    IF target = "uart_data" /\ rx_buffer > 0
      THEN /\ rx_buffer' = rx_buffer - 1
           /\ rx_ready' = (rx_ready /\ rx_buffer > 1)
      ELSE UNCHANGED <<rx_buffer, rx_ready>>

\* Everything but the DMA count.
BusWrite(target) ==
    /\ IF target = "ie_mask" THEN mask_register' \in SUBSET Lines
                             ELSE UNCHANGED mask_register
    /\ IF target = "uart_control" THEN control_register' \in BOOLEAN
                                  ELSE UNCHANGED control_register

\* The values the count can have after a write to target.
CountsAfter(target) == IF target = "dma_count" THEN Count ELSE {count}

Raise(line) == pending' = pending \cup {line}
Clear(line) == pending' = pending \ {line}
-----------------------------------------------------------------------------
(* The parts of one iteration                                              *)

CheckHalt ==
    /\ phase = "check"
    /\ \E i \in Fetched(At(programEAM, PC)) :
          phase' = IF i.op = OpHlt THEN "exit" ELSE "timer"
    /\ UNCHANGED <<emuVars, deviceVars>>

TimerTick ==
    /\ phase = "timer"
    /\ phase' = "dma"
    /\ time' = (time + 1) % TimeValues
    /\ IF time' = 0 THEN Raise(TimerLine) ELSE Clear(TimerLine)
    /\ UNCHANGED <<emuVars, mask_register, dmaVars, uartVars>>

\* The tick with the count after it and the flag left to the caller.
DmaTickWith(Decremented(_), Running(_)) ==
    /\ phase = "dma"
    /\ phase' = "uart"
    /\ IF count = 0
         THEN /\ Clear(DmaLine)
              /\ isRunning' = FALSE
              /\ UNCHANGED <<count, mask_register, uartVars>>
         ELSE \E source \in ReadTargets, target \in WriteTargets :
              /\ BusRead(source)
              /\ BusWrite(target)
              /\ \E c \in CountsAfter(target) : count' = Decremented(c)
              /\ isRunning' = Running(count')
              /\ IF count' = 0 THEN Raise(DmaLine) ELSE Clear(DmaLine)
    /\ UNCHANGED <<emuVars, time>>

\* Faulty: the count is wider than its register.
DmaTickUnwrapped == DmaTickWith(LAMBDA c : c - 1, LAMBDA c : c # 0)

\* Faulty: the flag is lowered one tick after the last word.
DmaTickLate == DmaTickWith(LAMBDA c : (c - 1) % CountValues, LAMBDA c : TRUE)

\* One word per tick.  A transfer may write the count register itself, which
\* is decremented afterwards.
DmaTick == DmaTickWith(LAMBDA c : (c - 1) % CountValues, LAMBDA c : c # 0)

\* Faulty: the line stays up until somebody else clears it.
UartTickLatching ==
    /\ phase = "uart"
    /\ phase' = "step"
    /\ \/ /\ rx_buffer < RxBound
          /\ rx_buffer' = rx_buffer + 1
          /\ rx_ready' = TRUE
          /\ IF control_register THEN Raise(UartLine) ELSE UNCHANGED pending
       \/ UNCHANGED <<pending, rx_buffer, rx_ready>>
    /\ UNCHANGED <<emuVars, time, mask_register, dmaVars, control_register>>

UartTick ==
    /\ phase = "uart"
    /\ phase' = "step"
    /\ \/ /\ rx_buffer < RxBound
          /\ rx_buffer' = rx_buffer + 1
          /\ rx_ready' = TRUE
          /\ IF control_register THEN Raise(UartLine) ELSE UNCHANGED pending
       \/ Clear(UartLine) /\ UNCHANGED <<rx_buffer, rx_ready>>
    /\ UNCHANGED <<emuVars, time, mask_register, dmaVars, control_register>>

has_active_interrupt == pending \cap mask_register # {}

\* The bus accesses of instruction i's execution.
StepAccess(i) ==
    \/ /\ i.op = OpLdm
       /\ \E source \in ReadTargets : BusRead(source)
       /\ UNCHANGED <<mask_register, control_register, count>>
    \/ /\ i.op = OpStm
       /\ \E target \in WriteTargets :
             BusWrite(target) /\ count' \in CountsAfter(target)
       /\ UNCHANGED <<rx_buffer, rx_ready>>
    \/ /\ i.op \notin {OpLdm, OpStm}
       /\ UNCHANGED <<mask_register, uartVars, count>>

\* The vector is loaded into IVR even when the processor will not look at it.
Frozen ==
    /\ phase = "step" /\ isRunning
    /\ phase' = "check"
    /\ IVR' \in Vectors(has_active_interrupt)
    /\ UNCHANGED <<PC, programEAM, dataEAM, JR, registers, carry, stack,
                   IVR_Saved, interruptMask, interruptValid, deviceVars>>

\* Faulty: the flag of the DMA engine is not looked at.
CpuStepUnfrozen ==
    /\ phase = "step"
    /\ phase' = "check"
    /\ \E ivr \in Vectors(has_active_interrupt) :
         LET a == StepAddress(has_active_interrupt, ivr) IN
         \E i \in Fetched(a) :
           \E immx \in ImmediatesX(a, i), immy \in ImmediatesY(a, i),
              data \in LoadedWords(i) :
                /\ Step(has_active_interrupt, ivr, i, immx, immy, data)
                /\ StepAccess(i)
    /\ UNCHANGED <<time, pending, isRunning>>

CpuStep ==
    /\ phase = "step" /\ ~isRunning
    /\ phase' = "check"
    /\ \E ivr \in Vectors(has_active_interrupt) :
         LET a == StepAddress(has_active_interrupt, ivr) IN
         \E i \in Fetched(a) :
           \E immx \in ImmediatesX(a, i), immy \in ImmediatesY(a, i),
              data \in LoadedWords(i) :
                /\ Step(has_active_interrupt, ivr, i, immx, immy, data)
                /\ StepAccess(i)
    /\ UNCHANGED <<time, pending, isRunning>>

\* The emulator has returned from main.
Exited == phase = "exit" /\ UNCHANGED sysVars

SysNext ==
    CheckHalt \/ TimerTick \/ DmaTick \/ UartTick \/ Frozen \/ CpuStep \/ Exited

SysSpec == SysInit /\ [][SysNext]_sysVars

-----------------------------------------------------------------------------
(* Properties                                                              *)

\* Software polls the RX bit: it is on exactly while a key waits, although the
\* tick, the processor and the DMA engine all change the buffer.
RxReadyMirrorsBuffer == rx_ready <=> rx_buffer > 0

\* No instruction executes from the tick that starts a transfer to the one
\* that ends it: the flag CPU::step is guarded by is never behind the count.
DmaStallsCpu ==
    [][phase = "step" /\ count # 0
         => UNCHANGED <<PC, programEAM, dataEAM, JR, registers, carry, stack,
                        interruptMask, count>>]_sysVars

\* The completion interrupt is up for one iteration only.  In that iteration
\* the processor is no longer frozen, so that it can see it.
CompletionVisible == phase = "step" /\ DmaLine \in pending => ~isRunning

\* A key interrupt is up when the processor samples only if a key waits: no
\* handler is started for a key that somebody has already taken.
KeyInterruptHasKey == phase = "step" /\ UartLine \in pending => rx_buffer > 0
=============================================================================
