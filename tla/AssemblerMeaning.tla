-------------------------- MODULE AssemblerMeaning --------------------------
(***************************************************************************)
(* What an assembled program should be, said without passes: where each    *)
(* label really is in the output, and what the processor reads in the      *)
(* words of a line (design.sv:45-58).                                      *)
(***************************************************************************)
EXTENDS Assembler

-----------------------------------------------------------------------------
(* Labels                                                                  *)

LinesWith(kind, name) ==
    {k \in 1 .. Len(expanded) : expanded[k].kind = kind /\ expanded[k].name = name}

\* Where line k really is: the words written before it, from address 0 on.
PlaceOf(k) == Place(starts[k] \div WordSize, starts[k] % WordSize)

\* An operand that both passes take for the same bank: a name that a label
\* above defines, a name that a constant above and no label at all defines, or
\* one that means bank 0 whenever it is looked at.
Steady(k, o) ==
    \/ o.type # "name"
    \/ \E j \in LinesWith("label", o.name) : j < k
    \/ /\ LinesWith("label", o.name) = {}
       /\ \E j \in LinesWith("define", o.name) : j < k
    \/ /\ Resolve(o).bank = 0
       /\ \A j \in LinesWith("define", o.name) : expanded[j].value.bank = 0

\* Lines that both passes give one size.  Any other may shift the labels behind
\* it; a define does as soon as its text has an =, which pass 2 compiles.
Settled(k) ==
    LET l == expanded[k] IN
    CASE l.kind = "HEX" -> Len(l.words) = l.commas + 1
      [] l.kind = "call" ->
           /\ LinesWith("label", l.target) # {}
           /\ First(label_table, l.target).bank = 0
      [] l.kind \in {"define", "malformed define"} ->
           l.sign \in {"none", "unknown", "empty"}
      [] l.kind = "print" -> l.quoted
      [] l.kind = "assign" ->
           /\ l.sign \notin {"unknown", "dangling", "empty"}
           /\ \A i \in 1 .. Len(l.args) : Steady(k, l.args[i])
           /\ IF l.sign = "copy"
                THEN l.var.type = "register"
                ELSE \E i \in 1 .. 2 : \/ ~IsImmediate(l.args[i])
                                       \/ Resolve(l.args[i]).bank = 0
      [] l.kind = "code" ->
           /\ Known(l.mnemonic, l.suffixed)
           /\ \A i \in 1 .. Len(l.ops) : Steady(k, l.ops[i])
      [] OTHER -> TRUE

\* The address pass 1 gave a label is the place of its line in the output of
\* pass 2, as long as every line above it is settled: what is not settled is a
\* complete list of what moves the two passes apart, the define with an =
\* included (hybrid_assembler.c:1344-1355, 1542-1549).
LabelsWhereTheyPoint ==
    phase = "saved" =>
        \A k \in 1 .. Len(expanded) :
            /\ expanded[k].kind = "label"
            /\ \A j \in 1 .. k - 1 : Settled(j)
            /\ \A j \in LinesWith("label", expanded[k].name) : j >= k
            => First(label_table, expanded[k].name) = PlaceOf(k)

-----------------------------------------------------------------------------
(* Code                                                                    *)

\* The fields of an instruction word, as the processor reads them.
Fields(w) ==
    [op |-> w \div 4096, M |-> (w \div 2048) % 2, D |-> (w \div 256) % 8,
     LX |-> (w \div 128) % 2, X |-> (w \div 16) % 8,
     LY |-> (w \div 8) % 2, Y |-> w % 8]

\* The instruction whose first word is the n-th of the output, with its
\* immediate words, and where the next one begins.
Immediate(w) == Fields(w).LX + Fields(w).LY
InstructionAt(n) ==
    [is |-> Fields(output[n]), imms |-> SubSeq(output, n + 1, n + Immediate(output[n]))]
NextInstruction(n) == n + 1 + Immediate(output[n])

\* The first word of line k, and the first one behind its words.
FirstWord(k) == starts[k] + 1
WordBehind(k) == IF k < Len(starts) THEN starts[k + 1] + 1 ELSE Len(output) + 1

\* What a source operand stands for: a label for the place of its line.
Meaning(o) ==
    IF o.type = "name" /\ LinesWith("label", o.name) # {}
      THEN PlaceOf(CHOOSE k \in LinesWith("label", o.name) :
                      \A j \in LinesWith("label", o.name) : k <= j)
      ELSE Resolve(o)

\* The X operand of instruction d, or its Y operand, is what the source says.
XIs(d, o) == IF o.type = "register" THEN d.is.LX = 0 /\ d.is.X = o.reg
             ELSE d.is.LX = 1 /\ d.imms[1] = Meaning(o).off
YIs(d, o) == IF o.type = "register" THEN d.is.LY = 0 /\ d.is.Y = o.reg
             ELSE d.is.LY = 1 /\ d.imms[Len(d.imms)] = Meaning(o).off

\* Instruction d does what mnemonic and operands of the source ask for.  Stores,
\* branches, EAM.SET, STJ and CAL have no destination.
Does(d, name, suffixed, ops) ==
    LET e == lookup_opcode(name)
        source == IF e.form \in {"N_R_N", "N_R_R"} THEN ops ELSE Tail(ops)
    IN  /\ d.is.op = e.base \div 4096
        /\ d.is.M = IF suffixed THEN 1 ELSE (e.base \div 2048) % 2
        /\ e.form = "N_N_N" \/ XIs(d, source[1])
        /\ e.form \in {"R_R_R", "N_R_R"} => YIs(d, source[2])
        /\ e.form \in {"R_R_R", "R_R_N"} => d.is.D = ops[1].reg

SetsBank(d, b) ==
    d.is.op = 0 /\ d.is.M = 0 /\ d.is.LX = 1 /\ d.imms = <<b>>

\* The words of line k are the instruction its source names, with the bank of
\* its operands switched to before it and back to 0 behind it.
Carries(k, name, suffixed, ops) ==
    LET imms == Immediates(lookup_opcode(name).form, ops)
        banks == {Meaning(imms[i]).bank : i \in 1 .. Len(imms)} \ {0}
        first == FirstWord(k)
        second == NextInstruction(first)
        third == NextInstruction(second)
    IN  /\ first < WordBehind(k)
        /\ IF banks = {}
             THEN /\ second = WordBehind(k)
                  /\ Does(InstructionAt(first), name, suffixed, ops)
             ELSE /\ second < WordBehind(k) /\ third < WordBehind(k)
                  /\ NextInstruction(third) = WordBehind(k)
                  /\ \A b \in banks : SetsBank(InstructionAt(first), b)
                  /\ Does(InstructionAt(second), name, suffixed, ops)
                  /\ SetsBank(InstructionAt(third), 0)

\* The operands are as many as the form takes, and the destination is a
\* register; the assembler does not look.
Complete(name, ops) ==
    LET form == lookup_opcode(name).form IN
    /\ Len(ops) = CASE form = "N_N_N" -> 0 [] form = "N_R_N" -> 1
                     [] form \in {"N_R_R", "R_R_N"} -> 2 [] form = "R_R_R" -> 3
    /\ form \in {"R_R_R", "R_R_N"} => ops[1].type = "register"

\* A program of settled lines is assembled into what it says: the processor
\* reads every instruction with its registers, flags and numbers, in the bank
\* of its operands, and every label as the place the label's line really has.
CodeMeansSource ==
    phase = "saved" /\ (\A k \in 1 .. Len(expanded) : Settled(k)) =>
        \A k \in 1 .. Len(expanded) :
            LET l == expanded[k]
                as(name, suffixed, ops) ==
                    Complete(name, ops) => Carries(k, name, suffixed, ops)
            IN  /\ l.kind = "code" => as(l.mnemonic, l.suffixed, l.ops)
                /\ l.kind = "call" => as("CAL", FALSE, <<Name(l.target)>>)
                /\ l.kind = "assign" /\ l.sign # "copy" =>
                      as(Operator(l.sign), FALSE, <<l.var>> \o l.args)
=============================================================================
