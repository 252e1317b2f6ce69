------------------------------- MODULE EmuCpu -------------------------------
(***************************************************************************)
(* The processor of the C++ emulator: one call of CPU::step (CPU.cpp) is   *)
(* one step.  If an interrupt is accepted, the same call executes the      *)
(* first instruction of its handler.                                       *)
(*                                                                         *)
(* Program and data memory are left open, except that the bus answers 0    *)
(* beyond its last bank.  The bank registers programEAM, IVR_Saved and the *)
(* stack entries are 16 bits wide, so they can name banks that do not      *)
(* exist.                                                                  *)
(***************************************************************************)
EXTENDS RR16X

VARIABLES
    PC, programEAM, dataEAM, JR, IVR, registers, carry,
    stack,          \* the return addresses, the most recent one last
    IVR_Saved,      \* where the interrupted program goes on
    interruptMask, interruptValid

emuVars == <<PC, programEAM, dataEAM, JR, IVR, registers, carry, stack,
             IVR_Saved, interruptMask, interruptValid>>

\* Words have a whole number of bits (CAL sets the lowest bit of a bank).
ASSUME EvenAssumption == WordSize % 2 = 0

WideAddress == [bank : Word, off : Word]

\* Registers have the width of their C++ type; dataEAM, JR and IVR name only
\* banks that exist.
EmuTypeOK ==
    /\ PC \in Word /\ programEAM \in Word /\ dataEAM \in Bank
    /\ JR \in Address /\ IVR \in Address /\ IVR_Saved \in WideAddress
    /\ registers \in [Reg -> Word] /\ carry \in Bit
    /\ stack \in Seq(WideAddress)
    /\ interruptMask \in BOOLEAN /\ interruptValid \in BOOLEAN

EmuInit ==
    /\ PC = 0 /\ programEAM = 0 /\ dataEAM = 0
    /\ JR = At(0, 0) /\ IVR = At(0, 0) /\ IVR_Saved = At(0, 0)
    /\ registers \in PowerUp
    /\ carry = 0
    /\ stack = <<>>
    /\ interruptMask = FALSE /\ interruptValid = FALSE
-----------------------------------------------------------------------------
(* One instruction at address a (the handler's, after an interrupt)        *)

ZeroWord == [op |-> 0, M |-> FALSE, D |-> 0, LX |-> FALSE, X |-> 0,
             LY |-> FALSE, Y |-> 0]

\* What the bus can return for the n-th word from address a.
Exists(a, n) ==
    (WordSize * a.bank + a.off + n) % (WordSize * WordSize) < WordSize * BankSize
Fetched(a) == IF Exists(a, 0) THEN Instructions ELSE {ZeroWord}
WordsAt(a, n, used) == IF used /\ Exists(a, n) THEN Word ELSE {0}
ImmediatesX(a, i) == WordsAt(a, 1, i.LX)
ImmediatesY(a, i) == WordsAt(a, IF i.LX THEN 2 ELSE 1, i.LY)

EmuX(i, imm) == IF i.LX THEN imm ELSE registers[i.X]
EmuY(i, imm) == IF i.LY THEN imm ELSE registers[i.Y]

\* Faulty: the bank changes one word too early.
AdvancesEarly(a, i) ==
    LET next == a.off + InstructionLength(i) IN
    /\ PC' = next % WordSize
    /\ programEAM' = IF next >= WordSize - 1 THEN (a.bank + 1) % WordSize
                                             ELSE a.bank

\* PC is incremented after the execution and carries into the bank.
Advances(a, i) ==
    LET next == a.off + InstructionLength(i) IN
    /\ PC' = next % WordSize
    /\ programEAM' = IF next >= WordSize THEN (a.bank + 1) % WordSize ELSE a.bank

Goes(a) == PC' = a.off /\ programEAM' = a.bank

\* Faulty: the return address is the CAL's own.
ReturnAddressOwn(a, i) == a

\* CAL makes its return address with an OR: past the end of a bank the carry
\* goes into the lowest bit of the bank, if that is clear.
ReturnAddress(a, i) ==
    LET next == a.off + InstructionLength(i) IN
    At(IF next >= WordSize /\ a.bank % 2 = 0 THEN a.bank + 1 ELSE a.bank,
       next % WordSize)

EmuEam(a, i, x, ivr) ==
    /\ IF i.M THEN IVR' = At(dataEAM, x) /\ UNCHANGED dataEAM
              ELSE dataEAM' = x % BankSize /\ IVR' = ivr
    /\ Advances(a, i)
    /\ UNCHANGED <<JR, registers, carry, stack>>

EmuAlu(a, i, x, y) ==
    LET out == Alu(i.op, i.M, x, y, carry) IN
    /\ registers' = [registers EXCEPT ![i.D] = out.val]
    /\ carry' = out.carry
    /\ Advances(a, i)
    /\ UNCHANGED <<dataEAM, JR, stack>>

Incremented(i, x) ==
    IF i.M /\ ~i.LX THEN [registers EXCEPT ![i.X] = Advance(x, 1)] ELSE registers

\* The loaded word is written last: it wins over the incremented address.
EmuLoad(a, i, x, data) ==
    /\ registers' = [Incremented(i, x) EXCEPT ![i.D] = data]
    /\ Advances(a, i)
    /\ UNCHANGED <<dataEAM, JR, carry, stack>>

EmuStore(a, i, x) ==
    /\ registers' = Incremented(i, x)
    /\ Advances(a, i)
    /\ UNCHANGED <<dataEAM, JR, carry, stack>>

EmuSetJump(a, i, x) ==
    /\ JR' = At(IF i.M THEN JR.bank ELSE dataEAM, x)
    /\ Advances(a, i)
    /\ UNCHANGED <<dataEAM, registers, carry, stack>>

\* The two unused conditions return from step without moving PC.
EmuBranch(a, i, x, y) ==
    /\ IF i.M /\ i.D \in {6, 7} THEN Goes(a)
       ELSE IF ConditionMet(i, x, y) THEN Goes(JR) ELSE Advances(a, i)
    /\ UNCHANGED <<dataEAM, JR, registers, carry, stack>>

\* Faulty: one entry too many.
EmuCallLate(a, i, x) ==
    /\ IF Len(stack) > StackSlots
         THEN Goes(a) /\ UNCHANGED stack
         ELSE /\ stack' = Append(stack, ReturnAddress(a, i))
              /\ Goes(At(IF i.M THEN a.bank ELSE dataEAM, x))
    /\ UNCHANGED <<dataEAM, JR, registers, carry>>

\* A full stack is reported and the CAL stays where it is.
EmuCall(a, i, x) ==
    /\ IF Len(stack) > StackSlots - 1
         THEN Goes(a) /\ UNCHANGED stack
         ELSE /\ stack' = Append(stack, ReturnAddress(a, i))
              /\ Goes(At(IF i.M THEN a.bank ELSE dataEAM, x))
    /\ UNCHANGED <<dataEAM, JR, registers, carry>>

\* RET.C pops an entry too, and then goes where the interrupt came from.
EmuReturn(a, i, saved) ==
    /\ IF stack = <<>>
         THEN /\ PC' = Advance(a.off, InstructionLength(i))
              /\ programEAM' = a.bank
              /\ UNCHANGED stack
         ELSE LET to == IF i.M THEN saved ELSE stack[Len(stack)] IN
              /\ Goes(At(to.bank % BankSize, to.off))
              /\ stack' = SubSeq(stack, 1, Len(stack) - 1)
    /\ UNCHANGED <<dataEAM, JR, registers, carry>>

\* The main loop stops at an HLT: step meets one only as the first word of a
\* handler, or when DMA wrote it after the main loop looked.
EmuUnhandled(a) == Goes(a) /\ UNCHANGED <<dataEAM, JR, registers, carry, stack>>

EmuExecute(a, i, x, y, data, ivr, saved) ==
    /\ \/ i.op = OpEam    /\ EmuEam(a, i, x, ivr)
       \/ i.op \in AluOps /\ EmuAlu(a, i, x, y)
       \/ i.op = OpLdm    /\ EmuLoad(a, i, x, data)
       \/ i.op = OpStm    /\ EmuStore(a, i, x)
       \/ i.op = OpStj    /\ EmuSetJump(a, i, x)
       \/ i.op = OpBranch /\ EmuBranch(a, i, x, y)
       \/ i.op = OpCal    /\ EmuCall(a, i, x)
       \/ i.op = OpRet    /\ EmuReturn(a, i, saved)
       \/ i.op = OpHlt    /\ EmuUnhandled(a)
    /\ i.op # OpEam => IVR' = ivr
-----------------------------------------------------------------------------
(* CPU::step: accept an interrupt, fetch, execute                          *)

\* Faulty: a handler can be interrupted.
TakenAlways(interrupt) == interrupt

Taken(interrupt) == interrupt /\ ~interruptMask

\* Where step fetches from, given the interrupt line and the vector.
StepAddress(interrupt, ivr) ==
    IF Taken(interrupt) THEN ivr ELSE At(programEAM, PC)

\* RET.C ends the handler, but not if it finds the stack empty.
EndsHandler(i) == i.op = OpRet /\ i.M /\ stack # <<>>

Step(interrupt, ivr, i, immx, immy, data) ==
    LET a == StepAddress(interrupt, ivr)
        saved == IF Taken(interrupt) THEN At(programEAM, PC) ELSE IVR_Saved
    IN  /\ EmuExecute(a, i, EmuX(i, immx), EmuY(i, immy), data, ivr, saved)
        /\ IVR_Saved' = saved
        /\ interruptMask' = (~EndsHandler(i) /\ (interruptMask \/ Taken(interrupt)))
        /\ interruptValid' = (~EndsHandler(i) /\ (interruptValid \/ Taken(interrupt)))

\* With an interrupt pending the main loop loads IVR before the call, from a
\* table of one-word entries: the vector is always in bank 0.
Vectors(interrupt) == IF interrupt THEN {At(0, v) : v \in Word} ELSE {IVR}

\* A load reads any word; nothing else uses the data input.
LoadedWords(i) == IF i.op = OpLdm THEN Word ELSE {0}

-----------------------------------------------------------------------------
(* Properties                                                              *)

\* There is one register for the interrupted address, and a handler may run
\* any code: until its RET.C nothing overwrites that register.
SavedAddressKept ==
    [][interruptMask /\ interruptMask' => IVR_Saved' = IVR_Saved]_emuVars

\* CAL never makes more than StackSlots entries: its test stops it in time.
StackInRange == Len(stack) <= StackSlots

\* programEAM can hold a bank that does not exist, and JR, IVR, the stack and
\* IVR_Saved all carry banks; still the processor leaves the memory only by
\* running off its end, never by a jump, call, return or interrupt.
LeavesMemoryAtItsEnd ==
    [][programEAM' \notin Bank /\ programEAM' # programEAM
         => programEAM' \in {BankSize, programEAM + 1}]_emuVars
=============================================================================
