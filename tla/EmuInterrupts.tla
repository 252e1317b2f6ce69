--------------------------- MODULE EmuInterrupts ---------------------------
(***************************************************************************)
(* Calls, returns and interrupts of the emulator's processor alone, under  *)
(* any program and any interrupt requests.  History variables remember the *)
(* instruction that the last call of CPU::step executed, whether that call *)
(* accepted an interrupt, and how deep the call stack was when the last    *)
(* interrupt was accepted.                                                 *)
(***************************************************************************)
EXTENDS EmuCpu

VARIABLES
    ran,        \* the instruction
    accepted,   \* whether an interrupt was accepted before it
    level       \* depth of the call stack at the last interrupt entry

history == <<ran, accepted, level>>
histVars == <<emuVars, history>>

HistInit == EmuInit /\ ran = ZeroWord /\ accepted = FALSE /\ level = 0

HistNext ==
    \E interrupt \in BOOLEAN :
      \E ivr \in Vectors(interrupt) :
        LET a == StepAddress(interrupt, ivr) IN
        \E i \in Fetched(a) :
          \E immx \in ImmediatesX(a, i), immy \in ImmediatesY(a, i),
             data \in LoadedWords(i) :
               /\ Step(interrupt, ivr, i, immx, immy, data)
               /\ ran' = i
               /\ accepted' = Taken(interrupt)
               /\ level' = IF Taken(interrupt) THEN Len(stack) ELSE level

HistSpec == HistInit /\ [][HistNext]_histVars

\* The step executes an instruction of this kind and accepts no interrupt.
Runs(op, m) == ~accepted' /\ ran'.op = op /\ ran'.M = m
-----------------------------------------------------------------------------
(* What the documents say and the code does not do                         *)

\* ABI.md: an interrupt returns to the interrupted instruction.  A handler that
\* has returned from all its own calls and executes RET.C would continue there.
HandlerReturnsToInterrupted ==
    [][Runs(OpRet, TRUE) /\ interruptValid /\ Len(stack) = level
         => At(programEAM', PC') = At(IVR_Saved.bank % BankSize, IVR_Saved.off)]_histVars
=============================================================================
