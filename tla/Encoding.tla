------------------------------ MODULE Encoding ------------------------------
(***************************************************************************)
(* How hybrid_assembler.c turns one instruction into words: the table of   *)
(* opcodes, the resolution of operands, the size that pass 1 counts and    *)
(* the words that pass 2 writes.  Pure operators.                          *)
(*                                                                         *)
(* An operand is a register, a number or a name; a line of source is a     *)
(* record whose kind says how main classifies it.  A number and the value  *)
(* of a name are 32-bit: a bank and an offset.                             *)
(***************************************************************************)
EXTENDS Integers, Sequences, FiniteSets

CONSTANT WordSize       \* offsets in a bank: BANK_SIZE, 2^16 in the code

ASSUME WordSizeAssumption == WordSize \in Nat \ {0}

Place(b, o) == [bank |-> b, off |-> o]
Origin == Place(0, 0)

Register(n) == [type |-> "register", reg |-> n]
Number(a) == [type |-> "number", value |-> a]
Name(s) == [type |-> "name", name |-> s]

Address == [bank : Nat, off : 0 .. WordSize - 1]
Operand ==
    [type : {"register"}, reg : 0 .. 7] \cup [type : {"number"}, value : Address]
      \cup [type : {"name"}, name : STRING]

\* The bits of an opcode word.
MaskM == 2048
MaskLX == 128
MaskLY == 8
ShiftD == 256
ShiftX == 16
ShiftOpcode == 4096

Entry(name, op, m, d, form) ==
    [mnemonic |-> name,
     base |-> ShiftOpcode * op + (IF m THEN MaskM ELSE 0) + ShiftD * d,
     form |-> form]

optable ==
    {Entry("EAM.SET", 0, FALSE, 0, "N_R_N"), Entry("IVR.SET", 0, TRUE, 0, "N_R_N"),
     Entry("ADD", 1, FALSE, 0, "R_R_R"),     Entry("SUB", 2, FALSE, 0, "R_R_R"),
     Entry("AND", 3, FALSE, 0, "R_R_R"),     Entry("OR", 4, FALSE, 0, "R_R_R"),
     Entry("NOT", 5, FALSE, 0, "R_R_N"),     Entry("XOR", 6, FALSE, 0, "R_R_R"),
     Entry("SHL", 7, FALSE, 0, "R_R_N"),     Entry("SHR", 8, FALSE, 0, "R_R_N"),
     Entry("LDM", 9, FALSE, 0, "R_R_N"),     Entry("STM", 10, FALSE, 0, "N_R_R"),
     Entry("STJ", 11, FALSE, 0, "N_R_N"),    Entry("NIL", 12, FALSE, 0, "N_N_N"),
     Entry("JLT", 12, FALSE, 1, "N_R_R"),    Entry("JEQ", 12, FALSE, 2, "N_R_R"),
     Entry("JLE", 12, FALSE, 3, "N_R_R"),    Entry("JGT", 12, FALSE, 4, "N_R_R"),
     Entry("JNE", 12, FALSE, 5, "N_R_R"),    Entry("JGE", 12, FALSE, 6, "N_R_R"),
     Entry("JMP", 12, FALSE, 7, "N_N_N"),    Entry("JLT.U", 12, TRUE, 0, "N_R_R"),
     Entry("JEQ.U", 12, TRUE, 1, "N_R_R"),   Entry("JLE.U", 12, TRUE, 2, "N_R_R"),
     Entry("JGT.U", 12, TRUE, 3, "N_R_R"),   Entry("JNE.U", 12, TRUE, 4, "N_R_R"),
     Entry("JGE.U", 12, TRUE, 5, "N_R_R"),   Entry("JGT.E", 12, TRUE, 6, "N_R_R"),
     Entry("JGT.UE", 12, TRUE, 7, "N_R_R"),  Entry("CAL", 13, FALSE, 0, "N_R_N"),
     Entry("RET", 14, FALSE, 0, "N_N_N"),    Entry("HLT", 15, FALSE, 0, "N_N_N")}

lookup_opcode(name) == CHOOSE e \in optable : e.mnemonic = name

\* The suffixes .C and .SHORT are stripped and become the M flag; a jump and
\* the two mnemonics with a dot of their own cannot carry one.
Suffixable(name) ==
    /\ name \notin {"EAM.SET", "IVR.SET"}
    /\ name = "NIL" \/ lookup_opcode(name).base \div ShiftOpcode # 12

Known(name, suffixed) ==
    /\ \E e \in optable : e.mnemonic = name
    /\ suffixed => Suffixable(name)

Defined(table, name) == \E i \in 1 .. Len(table) : table[i].name = name

\* Both tables are searched from their first entry on.
First(table, name) ==
    LET i == CHOOSE j \in 1 .. Len(table) :
                /\ table[j].name = name
                /\ \A k \in 1 .. j - 1 : table[k].name # name
    IN  table[i].value

\* Faulty: a constant hides a label.
resolve_constants_first(labels, constants, o) ==
    IF o.type = "number" THEN o.value
    ELSE IF Defined(constants, o.name) THEN First(constants, o.name)
    ELSE IF Defined(labels, o.name) THEN First(labels, o.name)
    ELSE Origin

\* Labels come before constants; a name that is neither is read as a number,
\* which makes it 0.
resolve_address(labels, constants, o) ==
    IF o.type = "number" THEN o.value
    ELSE IF Defined(labels, o.name) THEN First(labels, o.name)
    ELSE IF Defined(constants, o.name) THEN First(constants, o.name)
    ELSE Origin

IsImmediate(o) == o.type # "register"

\* field2_slot and field3_slot: which operands go to the X and Y fields.
Slots(form) ==
    CASE form = "N_R_N" -> <<1>>
      [] form = "N_R_R" -> <<1, 2>>
      [] form = "N_N_N" -> <<>>
      [] OTHER -> <<2, 3>>

\* The operands a line gives for field n, none or one.
Field(form, ops, n) ==
    IF n <= Len(Slots(form)) /\ Slots(form)[n] <= Len(ops)
      THEN <<ops[Slots(form)[n]]>> ELSE <<>>

ImmediateOf(field) == IF field # <<>> /\ IsImmediate(field[1]) THEN field ELSE <<>>
RegisterOf(field) == IF field # <<>> /\ ImmediateOf(field) = <<>>
                       THEN field[1].reg ELSE 0

Immediates(form, ops) ==
    ImmediateOf(Field(form, ops, 1)) \o ImmediateOf(Field(form, ops, 2))

\* The banks other than 0 that the immediates of an instruction lie in.
BanksNeeded(labels, constants, imms) ==
    {resolve_address(labels, constants, imms[i]).bank : i \in 1 .. Len(imms)} \ {0}

\* EAM holds one bank at a time: both the layout and the encoder exit.
BankClash(labels, constants, imms) ==
    Cardinality(BanksNeeded(labels, constants, imms)) > 1

\* calculate_instruction_layout.
LayoutWords(labels, constants, form, ops) ==
    LET imms == Immediates(form, ops)
    IN  1 + Len(imms)
          + (IF BanksNeeded(labels, constants, imms) # {} THEN 2 + 2 ELSE 0)

OpcodeWord(e, suffixed, ops) ==
    LET x == Field(e.form, ops, 1)
        y == Field(e.form, ops, 2)
        named == /\ e.form \in {"R_R_R", "R_R_N", "R_N_R"}
                 /\ ops # <<>>
                 /\ ops[1].type = "register"
    IN  e.base
        + (IF suffixed THEN MaskM ELSE 0)
        + (IF named THEN ShiftD * ops[1].reg ELSE 0)
        + (IF ImmediateOf(x) # <<>> THEN MaskLX ELSE ShiftX * RegisterOf(x))
        + (IF ImmediateOf(y) # <<>> THEN MaskLY ELSE RegisterOf(y))

\* EAM.SET with a bank number, which itself lies in bank 0.
EamSetWords(b) == <<MaskLX, b>>

\* Faulty: the bank is left set behind the instruction.
compile_without_reset(labels, constants, name, suffixed, ops) ==
    LET e     == lookup_opcode(name)
        imms  == Immediates(e.form, ops)
        banks == BanksNeeded(labels, constants, imms)
        main  == <<OpcodeWord(e, suffixed, ops)>>
                   \o [i \in 1 .. Len(imms) |->
                          resolve_address(labels, constants, imms[i]).off]
    IN  IF banks = {} THEN main
        ELSE EamSetWords(CHOOSE b \in banks : TRUE) \o main

\* The instruction between a switch to its operands' bank and one back to bank
\* 0, where it needs them; only then are its operands' banks not all 0.
compile_instruction_safe(labels, constants, name, suffixed, ops) ==
    LET e     == lookup_opcode(name)
        imms  == Immediates(e.form, ops)
        banks == BanksNeeded(labels, constants, imms)
        main  == <<OpcodeWord(e, suffixed, ops)>>
                   \o [i \in 1 .. Len(imms) |->
                          resolve_address(labels, constants, imms[i]).off]
    IN  IF banks = {} THEN main
        ELSE EamSetWords(CHOOSE b \in banks : TRUE) \o main \o EamSetWords(0)
=============================================================================
