----------------------------- MODULE EmuPortable -----------------------------
(***************************************************************************)
(* The programs on which the emulator and the RTL agree.                   *)
(*                                                                         *)
(* The two processors were written apart and differ in many details.       *)
(* Portable names every one of them, as a condition on the instruction *)
(* that avoids it.  An emulator that runs only such instructions, without  *)
(* interrupts, implements Isa, the atomic machine that GatewayCpu          *)
(* implements too.                                                         *)
(***************************************************************************)
EXTENDS EmuCpu

CONSTANT HardwareAlu(_,_,_,_,_)     \* the arithmetic unit of design.sv

PortableAlu(i, x, y) ==
    Alu(i.op, i.M, x, y, carry) = HardwareAlu(i.op, i.M, x, y, carry)

\* A load with increment into its own address register: the emulator keeps the
\* loaded word, the RTL the incremented address.
PortableLoad(i) == ~(i.M /\ ~i.LX /\ i.D = i.X)

\* STJ takes the bank from dataEAM in the emulator, from PROGRAM_EAM in the RTL.
PortableSetJump(i) == i.M \/ dataEAM = programEAM

\* The RTL passes over the two undefined conditions, the emulator stays.
PortableBranch(i) == ~(i.M /\ i.D \in {6, 7})

\* M means "same bank" to the emulator and "bank DATA_EAM" to the RTL, and the
\* RTL has one slot less.
PortableCall == dataEAM = programEAM /\ Len(stack) < StackSlots - 1

\* RET.C is another instruction on each machine.  On an empty stack the
\* emulator goes on and the RTL stays.
PortableReturn(i) == ~i.M /\ stack # <<>>

\* The emulator's PC carries into the bank, the RTL's wraps.
InsideBank(i) == PC + InstructionLength(i) < WordSize

Portable(i, x, y) ==
    /\ InsideBank(i)
    /\ i.op \in AluOps => PortableAlu(i, x, y)
    /\ i.op = OpLdm => PortableLoad(i)
    /\ i.op = OpStj => PortableSetJump(i)
    /\ i.op = OpBranch => PortableBranch(i)
    /\ i.op = OpCal => PortableCall
    /\ i.op = OpRet => PortableReturn(i)
    /\ i.op # OpHlt

PortableNext ==
    \E i \in Instructions :
      \E immx \in ImmediatesX(At(programEAM, PC), i),
         immy \in ImmediatesY(At(programEAM, PC), i),
         data \in LoadedWords(i) :
           /\ Portable(i, EmuX(i, immx), EmuY(i, immy))
           /\ Step(FALSE, IVR, i, immx, immy, data)

PortableSpec == EmuInit /\ [][PortableNext]_emuVars

\* No RET.C is executed, so interrupts stay enabled; HLT ends the emulation.
Hardware == INSTANCE Isa
    WITH Alu <- HardwareAlu,
         PROGRAM_EAM <- programEAM, DATA_EAM <- dataEAM,
         R <- registers, carry_latch <- carry, call_stack <- stack,
         interrupt_enable <- TRUE, halted <- FALSE

\* On portable programs the emulator does what the hardware does, instruction
\* by instruction and in every register: the list of differences is complete.
EmulatesHardware == Hardware!Spec

\* There is no portable far jump: STJ, CAL and CAL.M each name the target bank
\* in two ways on the two machines.  A portable program never leaves the bank it
\* starts in, nor do the addresses it saves, and its calls fit the hardware's
\* stack.
PortableStaysInBank ==
    /\ programEAM = 0 /\ JR.bank = 0
    /\ \A k \in 1 .. Len(stack) : stack[k].bank = 0
    /\ Len(stack) <= StackSlots - 1
=============================================================================
