# RR16X Mk.8: models, checks and proofs

TLA+ modules for the RR16X Mk.8, a 16-bit computer that this repository holds
twice: as SystemVerilog (`design.sv`, `testbench.sv`) and as a C++ emulator
(`RR16X_EMULATOR/`), with an ABI document, an assembler and programs. The
modules follow the code; where a document or a comment says something else, that
is a finding.

## 1. The system

| Component | Where | State | Operations |
|---|---|---|---|
| Processor (RTL) | `design.sv` 1-949 | registers, bank registers PROGRAM_EAM and DATA_EAM, JR, IVR, carry latch, call stack, interrupt_enable, halted, FSM state and latches | ten FSM states, sixteen opcodes, interrupt entry, halt |
| System (RTL) | `testbench.sv` 40-423 | RAM, DMA pointers and counter, VIC mask, MDU, INT32, timer | bus reads and writes, one DMA word per clock |
| FP32 coprocessor (RTL) | `design.sv` 950-2412 | operands, control, FSM, result and status | add, sub, mul, div; busy and done |
| Processor (emulator) | `CPU.cpp`, `CPU.h` | the same registers, `IVR_Saved`, `interruptMask`, `interruptValid`, a `std::vector` as stack | `step`: interrupt entry, one instruction |
| Main loop and devices (emulator) | `RR16X_EMULATOR.cpp`, `Timer`, `DMA`, `UART`, `InterruptEnhancer`, `bus` | timer, DMA count and flag, key buffer and status, pending lines and mask | tick of each device, interrupt sampling, step |
| Emulator coprocessors | `Multiplier`, `WideIntCoprocessor`, `FP32Coprocessor` | operands, command, result | compute on write or on tick |
| Function library | `functions_library.asm` | R0-R7, carry latch, argument bank | 32-bit integer and float routines |
| Assembler | `hybrid_assembler.c` | array of open files, temporary file, tables of labels and constants, addresses, pending jump target, output | include expansion, two passes over the expanded lines |
| BASIC interpreter | `BASIC_PROTOTYPE.c` | tokens, place in them, error flag, tables of variables and functions, C stack | lexing, one statement, blocks, loops, calls, recovery |
| BASIC in assembly | two `.asm` | a program for the machine | unfinished, compiles another language |

How they interact. The RTL processor and the DMA engine share the bus: while the
DMA counter is not 0 the processor is frozen, clock by clock. Interrupt requests
enter the processor directly. In the emulator one loop ticks the timer, the DMA
engine, the UART and the coprocessors, asks the InterruptEnhancer whether an
enabled line is up, loads the vector into the processor, and calls `CPU::step`
unless the DMA engine runs. Loads, stores and DMA words go over the bus to
memory or to a device; a read of the UART's data register changes the UART. The
RTL's FP32 coprocessor is a second clocked machine on the bus: it takes three
clocks for a command and nothing waits for it; what makes that safe is how
seldom the processor can access it.

What is hard. An instruction takes four to seven clocks and keeps part of its
state in latches while DMA freezes and interrupts arrive; calls and interrupts
share one stack that has a limit; the devices signal by levels that are up for
one iteration; a status bit is kept beside the buffer it describes; two
processors are meant to be one; the FP32 unit reads its operands after the
command; carries travel between instructions in a latch that almost everything
writes. The assembler decides the size of an instruction in three places, with
tables that grow in between, and one word more or less moves every label behind
it. The BASIC interpreter has no syntax tree: it executes while it reads, comes
back to loops and functions by saved token positions, skips blocks by counting
braces and carries on behind errors. The `hazards` of `PROJECT.json` list these
places one by one, with the properties that watch them, or why none does yet.

What makes each component correct: the RTL processor executes each instruction
completely and once, with its own operands, and takes interrupts only between
instructions; the RTL system hides the freeze from every program; the emulator
keeps the interrupted address, the stall and the UART's status true whatever
ticks; the emulator does what the RTL does; the FP32 unit rounds once and to
nearest, and runs each command once, on the operands it was stored for; a
library routine computes the function its comment names; an assembled program is
what its source says, label for label; a BASIC program has the effect its
structure says, and ends.

## 2. The modules

```
 RR16X ──┬── Isa ────────────── IsaSystem          atomic machines (abstract)
         │     ▲ implements         ▲ implements
         ├── GatewayCpu ─────── RtlSystem          clocked machines (detailed)
         │     └── GatewayCpuNesting      └─ Memory (RAM, DMA, VIC; pure)
         └── EmuCpu ──┬── EmuInterrupts
                      ├── EmuSystem
                      └── EmuPortable ── implements Isa
 GatewayCpuProofs ──── RtlSystemProofs              proofs (also of GatewayCpuNesting)
 EmuProofs                                          proofs (of EmuCpu, EmuSystem, EmuPortable)

 Bits ──┬── Alu ─── FunctionsLibrary ─── LibraryProofs     arithmetic, routines
        └── Coprocessors                                   (with MDU, INT32, both twice)
 BusMaster ─── Fp32Coprocessor ── implements Fp32Device
     ▲ implements       └── Coprocessors ─── CoprocessorProofs
 GatewayCpu
 Fp32 ─── Ieee754 ─── Fp32Proofs                   its arithmetic, its reference

 Includes ──┬── Assembler ─── AssemblerMeaning ─── AssemblerProofs
 Encoding ──┘                 passes, and what they should do
 Includes ───── AssemblerText ────────────────────── AssemblerProofs
                what the expansion should be
 BasicLexer ─── Basic ─── BasicMeaning             interpreter, syntax trees
 Bits ────────────┘ └── BasicProofs                (the lexer: what a text's words are)
```

* **RR16X**: words, banks, addresses, decoded instructions, instruction length
  and branch conditions. An instruction word is the record of the fields the
  decoder cuts out of it; nothing else in the code looks at its bits (the `C000`
  test of `design.sv` tests a bit of the opcode and is never true, and the path
  it would take does the same).
* **GatewayCpu**: `design.sv`, one action for each FSM state and, in EXECUTE,
  for each opcode. The interrupt request, its vector and the word the memory
  returns are parameters, chosen freely by `Next`. `call_stack` holds the slots
  below `stack_sp`. The latches `next_pc` (never read) and `mem_write_en` (a
  function of the state) are left out.
* **Isa**: the atomic machine. One step is one instruction or one interrupt
  entry. `GatewayCpu!ImplementsIsa` maps the clocked machine to it: an
  instruction happens on the clock that enters COMMIT, where the PC and the
  register that COMMIT is about to write count as written; an interrupt happens
  on the clock that leaves INTERRUPT.
* **Memory**, **RtlSystem**, **IsaSystem**: RAM, DMA engine and VIC of
  `testbench.sv` with the processor, clocked and atomic. In the atomic system a
  store to the counter performs the whole transfer. `ArchMem` maps a transfer in
  progress to its result. A fetched word and its immediates stay free (any
  program, also a program that changes itself).
* **GatewayCpuNesting**: a history variable that says which stack entries are
  interrupted programs.
* **EmuCpu**: `CPU::step` as one operator `Step`, with the emulator's wider bank
  registers, its bank carry, its OR in CAL and its two returns.
* **EmuInterrupts**: `Step` in a loop with arbitrary requests.
* **EmuSystem**: the main loop, one action for each part of an iteration. What a
  bus access reaches is abstracted to the four targets that change a device and
  "memory"; a processor that fetches instructions from device registers is
  outside the model.
* **EmuPortable**: the list of all differences between the two processors, as
  conditions on an instruction, and the claim that nothing is missing from it.
* **Bits**: AND, OR and XOR of words as sums over their bits. The community
  modules' operators for them are recursive, and no module that proofs are about
  can use those.
* **Alu**: opcodes 1 to 8 of both machines as functions of the operands and the
  latch.
* **FunctionsLibrary**: the integer routines as sequences of instructions, run
  on one of the two units.
* **Fp32**: `pack_fp32` and `fp_calculate` for any number of exponent and fraction
  bits; 8 and 23 in the code. Bit vectors are the numbers they encode, slices
  are `\div` and `%`, and the 27-step normalisation loop is one shift, the
  largest that leaves the leading bit in place (`Shifts`).
* **Ieee754**: the same operations stated without the algorithm. The exact
  result is a fraction n/d in units of the least subnormal number; the code
  nearest to it, the even one of a tie, is searched among all. Its behaviours
  only enumerate operands and operations.
* **BusMaster**: the processor as its devices see it, an ACCESS of one clock and
  four other phases between two. `GatewayCpu!PacesAccesses` maps the processor's
  states to the phases, so the coprocessor is composed with what the processor
  does and not with an assumption about it. A DMA freeze lasts in COMMIT
  (`DmaOnlyInCommit`) and is there a phase that lasts.
* **Fp32Coprocessor**, **Fp32Device**: write port and FSM, clocked, with any
  calculation; and the device that calculates at once. From the store of START
  to DONE the result counts as the one promised.
* **Coprocessors**: the FP32 unit, and MDU and INT32 of `testbench.sv` side by side
  with `Multiplier` and `WideIntCoprocessor` of the emulator, driven by the same
  stores. The emulator's tick comes before each fetch.
* **Includes**: `expand_includes`. Its recursion is a sequence of frames, a file
  and the line read next; `include_stack` is the array of the same name, which
  only grows.
* **Encoding**: the opcode table, operand resolution, layout and encoder of one
  instruction, as functions. A number is a bank and an offset.
* **Assembler**: `main`, one line in a step in each pass. A line is a record of the
  branch that `main` takes for it; cutting a line into these parts is left out.
  The passes do not take the same branches: pass 2 knows no define and looks for
  an `=` before it looks for print, so what an `=` makes of a line (`IsAssignment`)
  is a part of every call, define, print and assignment. The first word of such a
  line is taken for no mnemonic. `MCAssembler` has lines of each of these kinds
  with an `=` (`HiddenAssignments`).
  `starts` and `addresses` are history variables: what was written before each
  line in pass 2, and the address that pass 1 gave it.
* **AssemblerMeaning**: a disassembler that reads words as the processor does,
  and the list of lines to which the two passes may give different sizes
  (`Settled`).
* **AssemblerText**: the text that a tree of includes stands for. The files in the
  tree are the least set that has the main file and what its members include; the
  text is defined level by level, without a stack.
* **BasicLexer**: `parse_line`, one character in a step, alone on any text
  (`LexSpec`) or as the first part of the interpreter; and, without its modes and
  buffers, the words of a text and the tokens they stand for (`IsWord`, `TokenOf`).
* **Basic**: the recursive descent as a stack `control` of the blocks, loops and calls in progress, one
  turn of a C loop in a step. Expressions, conditions and skipped blocks are
  functions of the place in the tokens; `evaluate_expression` is a recursive
  function of it. AND and OR work on the `LongBits` bits of a `long`.
* **BasicMeaning**: programs as syntax trees, their tokens, and their meaning by
  recursion over the tree. `Unsettled` marks the programs to which the tree gives
  no meaning, such as one that reads a variable that it never set or declares a
  function that finds no room. A statement that lacks its `;` (`Unended`) keeps
  what it had done before the error: an assignment has set its variable, a PRINT
  has printed. What stands behind it is skipped outside of blocks and executed in
  one, so the meaning carries along whether it is in a block.

An operator commented "Faulty" beside a definition is a mistake that the
definition could contain; it is used only to show that a property notices it.

## 3. The runs

| Run | Shows | Bounds |
|---|---|---|
| gateway_cpu | the FSM's latches agree, halt and interrupts are entered properly, the FSM implements the atomic machine, and its accesses are paced as BusMaster says | 1-bit words, 2 banks, 2 stack slots, 13 instructions |
| gateway_nesting | interrupts do not nest if subroutines of handlers return with RET.C | 5 slots, so that a handler, its caller and calls on both sides fit |
| rtl_system | a freeze falls only in the COMMIT of a store, programs and handlers never see half a transfer, and the processor comes back to its next fetch for ever | words of 3 values, 2 RAM words, transfers of up to 2 words, pointers that leave RAM and wrap into the next bank |
| emu_system | RX bit, completion line, key line, stall, saved address, stack bound | 3 timer values, counts up to 2, 2 waiting keys, 1 stack slot |
| emu_portable | the list of differences is complete, and leaves no portable jump to another bank | 2-bit words, 2 banks, 3 slots, 16 instructions |
| library | AddI32, SubI32 and ShlI32_1 are right whatever the latch holds at the call | all arguments of two 4-bit words |
| fp32_arithmetic | one rounding, to nearest, and its flags, where the code does it; ADD and SUB are one operation; NaN, infinity and zero cases and their flags | all pairs of numbers with 3 exponent and 3 fraction bits |
| coprocessors | every FP32 command is executed once and before the next access; 32-bit results agree but for the command after reset and its width; products agree if B was stored last | 2-bit words, FP32 operands of two 1-bit halves, one device per program |
| assembler | includes are expanded completely and end; layout and encoder agree; pass 1 warns at the right lines; labels are where they point; words are what the source says | banks of 4 words; all programs of 3 lines out of 34, those of 4 out of 8; four files of up to 3 lines that include each other in all ways, at most 3 opened |
| basic | texts are cut into their longest words; programs mean what their tree says, statements in error included; everything ends | all texts of up to 5 characters and one longer than the token array; 1854 programs, with blocks in blocks and 243 of them with statements that lack their `;`, and 875 that break off or lack a token; 2 variables, 1 function |
| handler_return, fp32_sum | the two findings | as the run they are derived from |

Why the bounds are enough. Nothing in the processors depends on the number of
values of a word beyond "next", "wraps" and comparison, which two to four values
show; two banks tell a bank carry and a wrong bank register apart; stacks of one
to five slots are empty, filling and full within a few steps. Registers start at
0 (`ZeroRegisters`) or at fixed values and reach all others through
instructions. A carry chain is uniform in the word, and 4-bit words have every
position relevant to it (first, inner, last). The FP32 algorithm is uniform in
the format too: with three fraction bits, alignment shifts run from nothing to
past the sticky bit, and products and quotients have bits in all positions
around the guard bits; with three exponent bits both ranges' ends are reached
from the middle. Larger formats exceed the integers of TLC (32 bits). The
coprocessors share nothing but the bus, so a program that uses one at a time
loses no interleaving between processor and device. In the assembler a bank of
four words puts a label into another bank behind one HEX line, and three lines
are a definition, something that moves and a use; each shape of operand and of
statement is among them. In BASIC a block in a block behind or before a
statement is every way to come back to a wrong token; with two variables and one
function their tables are full in some programs. The proofs of section 4
remove these bounds for the processors, the RTL's memory and freeze, the
emulator's loop, the coprocessors, the library's routines, the FP32
arithmetic, the include expansion and the two passes of the assembler, and
BASIC's lexer.

Bounds that the code does not have: `RxBound` keys waiting in the UART (a
`std::queue` in the code), the lines of a program (`MaxLines`) and the characters
of a text (`MaxText`). Everything else is bounded by a width or a size that the
code has too: `WordSize`, `BankSize`, `StackSlots`, `TimeValues`, `CountValues`,
`MaxIncludeDepth`, `MaxTokens`, `MaxVars`, `MaxFuncs`, `LongBits`.

Deadlock is checked in all runs but `emu_portable`, where a program may have no
portable way on, for example at the last word of a bank. Stopped machines (the
exited emulator, a finished routine, assembler or interpreter) stutter
explicitly.

Fairness. `rtl_system` assumes `WF_rtlVars(RtlNext)`, that the clock goes on: the
machine is a synchronous circuit, and which of its steps a clock makes is
determined by its state. No property relies on an interrupt that arrives or a
program that ends. `coprocessors` assumes the same of `CopClock`. `basic` assumes
`WF(Next)`: the interpreter is one sequential loop, which runs until it is done.
Its programs count in their while loops; that the interpreter stops is otherwise
the program's own affair.

What `RoundsToNearest` leaves out. `Carries` are the sums of finding 2.
`Denormal` are products and quotients of subnormal operands, whose low (or, of a
quotient, high) bits the code drops before it normalises (`design.sv` 1986-2012,
2162-2184); `SignLaws` and `ExceptionsFlagged` hold of them too.

What `ExceptionsFlagged` says. NaNs, invalid and overflow are exact. Division by
zero is flagged for a zero divisor under a nonzero number, as in IEEE-754, and
under an infinity, which IEEE-754 does not flag: that is the code's own rule and
stated as such (`infinityOverZero`). Of underflow it says that sums never do and
that a product or quotient that does is subnormal or zero; which ones do, exactly,
is in `RoundsToNearest`, so of normal operands only. The finite parts of ADD and
SUB, two copies in the code (1512-1650 and 1752-1890), are one `FiniteSum` in the
model; they were compared by eye, and what `SignLaws` would notice is a slip in the
special cases.

What `LabelsWhereTheyPoint` and `CodeMeansSource` leave out. Lines that are not
`Settled` have two sizes, without a message: a HEX line with stray commas, a call
of a label that does not exist (2 words counted, none written) or that lies in
another bank (5 words written), a malformed print or assignment, a copy to
something that is no register, an unknown mnemonic (one word counted, none
written), and an operand that is still unknown in pass 1 and lies in another
bank. So has a define whose text has an `=`: `define X = 5` binds X and counts
nothing in pass 1 (`hybrid_assembler.c:1344-1355`), while pass 2 has no branch for
define and compiles it as an assignment to something called define (1542-1549),
six words. An unquoted print and a call of an undefined label become assignments
in the same way. "Success!" is printed all the same.

Layout and encoder have a copy each of the code that finds the immediates and
their banks (641-704, 1150-1195); in the model `Immediates` and `BanksNeeded` are
one definition for both, so a drift between these two copies is not covered.

What `ProgramMeaning` says of errors, and leaves out. Errors are given to the
programs on purpose. A statement that is in error before it does anything
(`Junk`) has no effect. One that lacks its `;` has done its work by then:
`a = 1 + 2 + 3;` has set a to 3 (`BASIC_PROTOTYPE.c:472-475`), `print a b;` has
printed a (437-447). Outside of blocks the text up to the next `;` is then skipped;
in a block nothing is (514-518), so that of `print 1 a = 2;` the assignment is
executed. The meaning says all of this (`Unended`). Not in the programs are a
statement that lacks its `;` right before `}`, which swallows the brace (517) and
may even draw a call into the function it calls, errors in the headers of blocks,
and a quote behind a word, which does not end it (198). The first two are
among the token sequences that `Terminates` runs, as far as they end.

### Findings

1. **An interrupt handler on the emulator cannot return if no call is in
   progress**, and steals the interrupted program's return address if one is
   (`CPU.cpp:386-394`); `ABI.md:66` and `119` say that an interrupt is a call
   and returns to the interrupted instruction.
2. **An FP32 sum that carries is halved twice** (`design.sv:1605`, and `1846` for
   SUB), its exponent is raised once, and `pack_fp32` then supplies a hidden bit
   that the sum no longer has (1227-1233). A sum whose significand should be s,
   between 1 and 2, comes out with 1 + s/2: 1 + 1 gives 0x40400000, which is 3,
   where the header promises IEEE-754.

Disagreements met in modelling that no run states:

* RTL: a call on a full stack drops its return address and still jumps
  (`design.sv:655`), a RET on an empty one stays where it is (697), where
  `ABI.md:74` and `117` let the stack wrap. The PC wraps in its bank (840), where
  `ABI.md:91` lets instructions cross the end. The processor is wired to the raw
  request line (`testbench.sv:246`), so the VIC mask of `ABI.md:80-82` has no
  effect. An interrupt does not save the carry latch (`design.sv:25`). Products and
  quotients of subnormal operands lose bits before they are normalised (2162).
  CAL and STJ without M stay in the program's bank whatever EAM is (683), so that
  the bank handling of `ABI.md:19` around a `CAL` does not reach another bank.
* Emulator: a transfer started just before HLT is lost (`RR16X_EMULATOR.cpp:81`;
  `DMA_Test.asm:18-20` counts on it). Timer and DMA lines are up for one iteration
  (`DMA.cpp:56`), and a second tick without a new key lowers the UART's although
  keys wait (`UART.cpp:122`); `ABI.md:61`, `85` and `116` call them level triggered
  and kept. CAL makes its return address with an OR (`CPU.cpp:363`), which loses
  the carry at the end of an odd bank.
* Both: no stored command starts the FP32 unit on RTL and emulator.
* Library: NegI32, and AbsI32 with it, adds one too many
  (`functions_library.asm:258-267`); CarryToBit15 clears the carry it saves (386),
  and ShrI32_1 with it.
* Assembler: a file included twice, one after the other, is reported as
  recursion (`hybrid_assembler.c:1032`; 1053 only counts up). print stores 0xFFFF, not the
  character. An instruction with an operand in another bank leaves EAM at 0.
* BASIC: the header shows `for` with parentheses (`BASIC_PROTOTYPE.c:10`), which the
  parser does not take; expressions have one operator; a symbol that is no
  operator adds. After an error in the header of an `if` or loop its body can run
  all the same, and an error left from the body makes a while condition 0
  (549-578). The comment at 146 leaves the `}` to `execute_block`, but only
  `parse_program` recovers. Declaring a function again takes another slot.

## 4. The proofs

TLAPS checks eight modules of proofs. What they assume of the constants are the
named assumptions of the modules, and TLC evaluates them in every run of a module
that has them: of the processors that `WordSize >= 2`, that banks are no larger,
and that stack, program, power-up state and arithmetic unit have their types
(`SizeAssumption`, `ProgramAssumption`, `AluAssumption`); that RAM and device
registers do not overlap (`MemoryMapAssumption`, `DeviceAssumption`) and that words
have a whole number of bits (`EvenAssumption`), which is a power of two where
bits are looked at (`WordBitsAssumption`, and `LongEnough` for the library: more
than one); that a number format has two bits of each kind (`FormatAssumption`);
that the main file exists (`IncludeAssumption`) and that a line has the shape of
one of the branches of `main` (`SourceAssumption`); that a character of a BASIC
text is of one kind (`LexAssumption`) and that a `long` has bits (`BasicAssumption`).

**The RTL processor** (`GatewayCpuProofs`).

* `TypeCorrect`: `Spec => []CpuTypeOK`.
* `Invariance`: `Spec => []CpuInv`. None of the safety invariants is inductive
  alone. That COMMIT's second look at a branch agrees with EXECUTE's, for
  example, needs that PC is still at the instruction when EXECUTE runs; that an
  interrupt never finds a stale HLT in IR needs to know in which states IR can
  hold one. `CpuInv` is the conjunction of the type invariant and the five
  safety invariants, which together are inductive.
* `PcIsHeld`, `BranchVerdictIsStable`, `AccessAddressIsCurrent`,
  `HaltAndInterruptAreOK`, `StackIndexIsInRange` follow from it.
* `PacesTheBus`: `Spec => PacesAccesses`.
* `Refinement`: `Spec => ImplementsIsa`. Under `CpuInv`, the clocks FETCH,
  DECODE, IMM_X, IMM_Y, the EXECUTE of loads and stores and COMMIT are
  stutterings of `Isa`; the other EXECUTE clocks, LDM_READ, STM_WRITE and
  INTERRUPT are each one step of it.

**Nesting** (`GatewayCpuProofs`). `NoNesting` and `HandlersRunMasked` hold of
`DisciplinedSpec`. The strengthening says that the frames are as many as the
stack entries, and that a RET between DECODE and EXECUTE is still one that the
discipline allows (`ReturnStaysMasked`): the discipline is a condition on the
fetch, the damage would be done clocks later. Both theorems speak of handlers
that are on the stack: one entered with the stack full, whose return address is
dropped, is not.

**The RTL system** (`RtlSystemProofs`). `RunsTheProcessor`: `RtlSpec => Spec`.
Memory, devices and DMA only delay the processor, so all of the above holds of
it inside the machine (`SystemImplementsIsa`). Its invariant adds
`TransfersOnlyInCommit`, which follows from `AccessAddressCurrent`: the state
STM_WRITE belongs to a store.

`SystemRefinement`: `RtlSpec => ImplementsIsaSystem`. The machine with its RAM, DMA
engine and VIC implements the atomic one, in which a store to the counter copies
everything at once. A transfer in progress is mapped to its result, so the clock
of the store is the step and every DMA clock behind it a stuttering
(`DmaDoneSteps`); no load or store comes between, by `TransfersOnlyInCommit`. The
result of a transfer is defined by recursion over the words left. That the
definition has a solution, and that a step does not change it, is proved from
the least count for which it would not hold (`TransferExists`, `Least`).

`InstructionsRunOut` is the part of `KeepsFetching` that is a safety property:
between two fetches the processor has at most six clocks of its own, and every
other one moves a word of a transfer, whose counter bounds them.

**The emulator** (`EmuProofs`). The lemmas about one call of `CPU::step` come
first. `SysInv` strengthens the invariants with
two facts about an iteration: from the DMA tick to the end of the iteration the
stall flag says whether words are left (`DmaFlagCurrent`), and the completion
line is up only if none are (`CompletionIsFresh`). Neither holds at other times,
because the processor writes the count after the tick. From it follow the seven
properties of the run `emu_system`, and `LeavesOnlyAtTheEnd`, an action property
that no run checks: with the two-valued bank registers of that run there is only
one bank outside the memory.

**The comparison** (`EmuProofs`). `EmulatorIsPortable`: an emulator that
avoids the listed differences implements `Isa`, for *any* two arithmetic units:
where they differ the instruction is not portable. With `Refinement`, emulator
and RTL implement one machine on portable programs. The invariant it needs is
`PortableStaysInBank`: a return masks the bank in the emulator only, which makes
no difference because portable programs never leave bank 0.

**The FP32 coprocessor** (`CoprocessorProofs`), for every operand width, every
set of operations and every calculation. `FpInv` says how far the FSM can be in
each phase of the processor: a command is taken in COMMIT and is over when
DECODE ends. From it follow `DeviceIsSettled` (no access finds the device at
work) and `CoprocessorIsDevice` (it implements the atomic device). They speak of
any bus master that implements `BusMaster`, which `PacesTheBus` proves of the
processor. The same holds of the coprocessor beside the other devices of the bus
(`SettledOnTheBus`), whose steps are steps of `FpSpec`. `CommandIsShort`: a command
is over after three clocks, whatever the processor does meanwhile.

**The integer coprocessors** (`CoprocessorProofs`), for words of 1, 2, 4, 8 or 16
bits.
`WideIsExact`: whatever a program stores and in whatever order, the 32-bit result
that it loads from the emulator is what the emulator's command makes of the
operands that the RTL has at that moment, although it is computed once per tick
only. The commands are the same but in two cases, which the theorem lists: before
a command is stored (7 in the RTL, 0 in the emulator), and beyond 7, of which the
RTL keeps three bits; while they are the same the result is the RTL's. The
invariant (`WideInv`) says that the operands are the same and that from the tick
before a fetch to the next store the emulator's result is the one of its command.
`ProductIsExact`: the low word of a product is the RTL's for all factors, because
the sign of a factor shows in the high word only (`SignIsHigh`), and the high word
is if factor B was stored last or no factor has its sign bit set: after a store of
A the emulator's product is a signed one (`Multiplier.cpp:43-47`).

**The library** (`LibraryProofs`), for words of 2 to 16 bits. The two halves of a routine have a lemma each about what they
leave in the registers and the latch (`AddLow` to `ShlHigh`), and the invariant of
a routine says, for every place in it, what the instructions so far have done. `UnitsCompared` is about `Alu` alone: the two units
give the same result for all operands, and different carries exactly in the cases
that `CarryDiffers` lists. One of them, the borrow of SUB, is why `SubtractsLongs`
is about the RTL's unit only.

**The FP32 arithmetic** (`Fp32Proofs`), for every number of exponent and fraction
bits from two on. `ExceptionsAreFlagged`: NaNs come from where the operands explain
them; invalid, overflow and division by zero are up exactly where
`ExceptionsFlagged` says, infinity over zero included; sums do not underflow,
because a sum is a whole number of least subnormals, of which the subnormal range
loses no bit (`WholesAreExact`), or, if it carries, lies above that range
(`PackedIsNormal`); and what does underflow is no normal number (`Underflows`). `SignsAgree`: ADD and SUB are one operation, sums and products commute,
and signs go through. The lemmas follow a number through the stages of the code
(shift, normalise, pack, encode). That a power of two is a natural number, and
twice the one before, are facts that the provers do not have; they come from the
number of subsets of a finite set (`PowerType`, `PowerDoubles`), and what follows
for sums of exponents from the least one that fails (`PowerAdds`).

`RoundsOnce` proves `RoundsToNearest`: the algorithm, which keeps three guard bits
and one sticky bit, returns the number that a search through all of them finds
nearest to the exact result. The argument is about comparisons, never about the
bits lost. A significand m with its guard bits and an exponent *stands for* the
exact n/d if m is to every multiple of 4 (to every number and every middle of two
numbers) as n/d is to the value of that multiple: less, equal or greater
(`Guards`, `StandsFor`). A sticky bit preserves that to all even numbers
(`StickyCompares`), which is why the shifts of a sum or of a subnormal may lose
bits, and a product or quotient all but one of its lower half; a multiple of 4 is
even after a division by two, so the one place that normalizing may shift behind a
sticky bit is harmless too (`NormalizedSum`). Codes are ordered as their values
(`CodesOrdered`), so rounding m is choosing the code (`EncodedRounds`), at the
least exponent, across a carry into the exponent and at infinity included; packing
shifts first (`PackRounds`). The four operations deliver such an m (`SameSigns`,
`OtherSigns`, `ProductRounds`, `QuotientRounds`). The hypotheses of the property
are those of the code: a sum that carries is halved twice and is no longer what `Guards`
needs (finding 2), a subnormal factor leaves too few bits.

**The assembler** (`AssemblerProofs`), for every source, every file system, any
tables and any size of bank. `ExpandsToText`: expansion succeeds exactly when the
includes form a tree that is not too large, and leaves the text of that tree. The
code has a stack of frames and a list of the files opened, the reference has
neither. The invariant says that the files opened are reachable, each by the one
include line that names it (`TreeSoFar`), that the frames are a path in the tree
(`StackSoFar`), and that what has been written is the text of the lines that the
frames have behind them (`TextSoFar`); when the stack is empty, the files opened
are closed under inclusion, hence all that are reachable. That the reference's
two recursions have solutions comes from the least number that fails
(`JoinedExists`, `NestedExists`). `AssemblerEnds`: every step of the assembler makes
less what is left to do, compared in this order: the passes, the files that may
still be opened, the lines not read in the open files, and those of the pass.

`FilesOpenedOnce` needs that frames are files that
exist (`IncTypeOK`). `LayoutAgreed` rests on `EncodedLength`, a lemma without any
assumption: with the same tables the encoder's words are as many as the layout
counts. `WarningsAreExact` needs that
the flag of pass 1 says what all the lines before say (`WarnInv`), line by line
(`PendingNext`, `WarnedNext`).

`LabelsPoint` and `CodeMeans` are about both passes together: pass 1 writes
addresses down, pass 2 relies on them with tables that have grown since. `LayInv`
says that the tables hold the lines read so far and nothing else, each label at
the address behind the line above it; `WriteInv` that the words of a line stand
behind those of the line above; `ClashInv` that no line written has an operand
with the bank of another one. For lines that are `Settled`, the counts of pass 1
are the words of pass 2, so that the two chains of addresses are one. A define, print
or call that pass 2 compiles for its `=` is not settled, and neither theorem says
anything of the labels behind it or of its program's code
(`LabelsPoint`), and reading the words back as the processor does gives the
instruction of the line (`CodeMeans`).

**BASIC's lexer** (`BasicProofs`), for every text, every choice of letters
and symbols and every number of token slots. `CutsIntoWords`: when `parse_line`
ends, the tokens are the longest words of the text in their order, or as many as
there are slots. `LexInv` says in which word the place is, by the mode, and that
its buffer holds the characters since the word's start (`Lexed`), and that the
tokens are those of the words that end before (`Cut`). Its lemmas are about the
words alone: a word ends where another kind of character follows, two words do
not end at one place, and nothing ends inside a string. `TextsEnd`: the loop takes
at most two turns for a character. `CutsIntoWords` is about `LexSpec`, the lexer
alone; `InterpretsWords` is the same about the whole program (`BasicSpec`), which
never comes back to the lexer.

**BASIC's interpreter** (`BasicProofs`), on every text and, as `BasicSpec` begins
with any tokens too, on programs that break off, lack a token or are none.

* `InterpreterInv`: the frames of the C stack. The code comes back to loops, calls
  and functions by token positions, and nothing tests them. `RunInv` says what they
  are: a `for` loop's is a `{`, a call's is a `;`, and a `while` loop's condition and
  a function's body are places of the program. A block or a turn is always taken
  by the frame it belongs to, and the counter of a `for` loop is past its end
  only before the turn that ends the loop (`StackOK`), which the measure below
  needs. What each statement does is said once and without its syntax
  (`StatementDone`): it returns where it began or further on, enters a block
  further on, or begins a loop or a call that comes back further on.
* `ProgramsRunOut`: every step lowers a measure, except the one from the body of a
  while loop to its condition. The measure is a sequence: for every loop and call
  in progress, from the outermost to the innermost, the tokens behind the place it
  comes back to and the turns a `for` loop still has; then the tokens behind the
  current one, the depth of blocks, and how far the statement is from its end
  (`WorkLeft`), all natural numbers, compared from the left. Such sequences fall
  for ever only if they grow longer without bound. So whatever errors are in it and
  whatever brace is missing, a program that does not end is in a while loop or in
  a recursion of its functions: no error recovery, skipped block or `for` loop
  keeps it. It is proved from lemmas that each part of the parser goes further on
  or stays (`Moves`); for an expression, by the least distance to the end of the
  tokens for which it would not (`ExpressionMoves`).
* `TablesAreBounded`, `DeclarationsStay`: the tables stay within their ends and lose
  nothing, so that a call always finds the first declaration.

Only model-checked. `ProgramMeaning` compares the interpreter with a recursion over
syntax trees, and its proof would be an induction over them. The library's
induction theorems take an operator as a parameter, which no installed prover can
instantiate; where a recursion is over numbers and written as a function, as in
`DmaDone` or `evaluate_expression`, the least number that fails takes their place,
but a tree has no number until its height is defined, by recursion again. The
operators of `BasicMeaning` are declared `RECURSIVE` too, and the prover gives up
its arithmetic in a module that reaches one. Liveness under fairness (`KeepsFetching`,
`CommandsEnd`, `Terminates`) is beyond the prover; `ClocksRunOut`, `CommandsRunOut`,
`WorkRunsOut`, `TurnsRunOut` and `StepsRunOut` are what is proved towards it: a
measure of the steps that are left; that they are taken is the fairness. The two properties of the
findings are false.

## 5. Not modelled

* The emulator's `FP32Coprocessor`: the host's float arithmetic, computed on every
  tick. In `Memory` a load from one of the RTL's coprocessors returns any word. Of
  the FP32 unit's registers, control bit 3 is read by nothing, and the
  testbench's address window ends before the status.
* The testbench's stimulus, the program loader of the emulator, tracing: input,
  output and simulation scripts. `initDevices` and the lookup maps of `bus.cpp` are
  the targets that a bus access may have.
* Instruction fetches from device registers; `X` values of the simulator
  before reset.
* Assembler: how a line is cut into label, mnemonic and operands, number formats
  and case; an included file whose last line has no end, which `fputs` glues to the
  line behind the include (`hybrid_assembler.c:1078-1080`); the Windows shims; out-of-memory exits; two paths to one file;
  what is left of the output file when pass 2 exits.
* BASIC: collisions of the 32-bit hash of names, overflow of `long`, words longer
  than the lexer's buffers, recursion without end.
* The library's FP32 conversions and coprocessor wrappers: sequences of loads and
  stores to devices whose behaviour is modelled, and arithmetic on the bits of a
  format that small words do not have.
* The BASIC versions in assembly and the test programs: inputs of a machine whose
  models take every program.

## 6. What could come next

1. The emulator's FP32 unit on `Fp32`'s numbers, with its own command convention.
2. Emulator liveness: interrupts lost while the processor is stalled, and the
   transfer lost at HLT, as properties that fail.
3. Library: CastI32F32, CastF32I32 on `Fp32`'s numbers.
4. A proof of `ProgramMeaning`: trees of bounded height as sets of records, their
   meaning as a function on them, and a frame of `control` for each path in a tree.
