----------------------------- MODULE Assembler -----------------------------
(***************************************************************************)
(* main of hybrid_assembler.c: the expanded file is read twice, one line   *)
(* of it in a step.  Pass 1 counts the words of every line to give each    *)
(* label its address, collects constants and warns about jump targets that *)
(* are stored and not used; pass 2 writes the words.                       *)
(*                                                                         *)
(* A line is a record; its kind is the branch of main it falls into:       *)
(*   blank                                                                 *)
(*   label    name                                                         *)
(*   HEX      words, commas: the words and how many commas stand between   *)
(*            and behind them                                              *)
(*   call     target                                                       *)
(*   define   name, value; "malformed define" lacks one of them            *)
(*   print    quoted: is it print 'c'?                                     *)
(*   assign   of what is no other kind, the lines with an =                *)
(*   code     mnemonic, suffixed, ops                                      *)
(* Pass 2 knows no define, and looks for an = before it looks for print:   *)
(* what an = makes of a line is a part of every call, define, print and    *)
(* assign, the fields var, sign and args, for var = args[1] sign args[2].  *)
(* The sign is an operator, "unknown", "copy" (one argument), "dangling"   *)
(* (an argument and no second one), "empty" or, without an =, "none"; var  *)
(* is the line's first word, and that is no mnemonic.                      *)
(***************************************************************************)
EXTENDS Includes, Encoding

VARIABLES
    line,               \* number of the line a pass reads next
    current_address,    \* of the next word, as the pass counts
    label_table, constant_table,
    stj_pending,        \* a target is stored and not used yet
    warnings,           \* the lines pass 1 warned at
    output,             \* the words of the output file
    addresses,          \* of each line of pass 1, the address it found (history)
    starts              \* of each line of pass 2, the words written before it
                        \* (history)

asmVars == <<line, current_address, label_table, constant_table, stj_pending,
             warnings, output, addresses, starts>>
allVars == <<incVars, asmVars>>

\* What the scanner of main makes of a line: an assignment has the arguments
\* its sign asks for; a code line may have any operands.
ArgumentCount(sign) ==
    CASE sign \in {"none", "empty"} -> 0
      [] sign \in {"copy", "dangling"} -> 1
      [] OTHER -> 2

Signs == {"+", "-", "&", "|", "^", "unknown", "copy", "dangling", "empty"}

MayAssign == {"call", "define", "malformed define", "print", "assign"}

IsAssignment(l) ==
    /\ l.sign \in Signs \cup {"none"} /\ l.var \in Operand
    /\ l.args \in Seq(Operand) /\ Len(l.args) = ArgumentCount(l.sign)
    /\ l.kind = "define" => l.var = Name("define")
    /\ l.kind = "assign" => l.sign # "none"

IsLine(l) ==
    /\ l.kind \in MayAssign => IsAssignment(l)
    /\ CASE l.kind = "label" -> l.name \in STRING
         [] l.kind = "define" -> l.name \in STRING /\ l.value \in Address
         [] l.kind = "HEX" -> l.words \in Seq(Nat) /\ l.commas \in Nat
         [] l.kind = "call" -> l.target \in STRING
         [] l.kind = "code" -> l.suffixed \in BOOLEAN /\ l.ops \in Seq(Operand)
         [] OTHER -> TRUE

ASSUME SourceAssumption ==
    \A fs \in Sources : \A f \in DOMAIN fs :
        /\ Len(fs[f]) \in Nat
        /\ \A i \in 1 .. Len(fs[f]) : IsLine(fs[f][i])

AsmInit ==
    /\ IncInit
    /\ line = 1
    /\ current_address = Origin
    /\ label_table = <<>> /\ constant_table = <<>>
    /\ stj_pending = FALSE /\ warnings = {}
    /\ output = <<>> /\ addresses = <<>> /\ starts = <<>>

AnyLine == line <= Len(expanded)
ThisLine == expanded[line]
Resolve(o) == resolve_address(label_table, constant_table, o)
Layout(l) == LayoutWords(label_table, constant_table,
                         lookup_opcode(l.mnemonic).form, l.ops)
Compile(name, suffixed, ops) ==
    compile_instruction_safe(label_table, constant_table, name, suffixed, ops)
Clash(name, ops) ==
    BankClash(label_table, constant_table,
              Immediates(lookup_opcode(name).form, ops))

\* The offset carries into the bank.
advance_address(a, n) ==
    Place(a.bank + (a.off + n) \div WordSize, (a.off + n) % WordSize)

Advance(n) == current_address' = advance_address(current_address, n)
KeepFiles == UNCHANGED <<files, reading, include_stack, expanded>>

-----------------------------------------------------------------------------
(* Pass 1                                                                  *)

\* Each argument of an assignment counts for itself, its bank switches too.
ArgumentWords(o) ==
    IF ~IsImmediate(o) THEN 0 ELSE IF Resolve(o).bank # 0 THEN 1 + 4 ELSE 1

\* An unknown operator is not noticed here; what stands left of the = is not
\* looked at.
AssignWords(l) ==
    CASE l.sign \in {"dangling", "empty"} -> 1
      [] l.sign = "copy" -> 2 + ArgumentWords(l.args[1])
      [] OTHER -> 1 + ArgumentWords(l.args[1]) + ArgumentWords(l.args[2])

\* Faulty: the words of a HEX line are not counted.
PassOneWordsWithoutHex(l) ==
    CASE l.kind = "call"   -> 2
      [] l.kind = "print"  -> 6
      [] l.kind = "assign" -> AssignWords(l)
      [] l.kind = "code"   -> IF Known(l.mnemonic, l.suffixed) THEN Layout(l) ELSE 1
      [] OTHER             -> 0

\* The words pass 1 counts for a line.  A mnemonic it does not know is one.
PassOneWords(l) ==
    CASE l.kind = "HEX"    -> l.commas + 1
      [] l.kind = "call"   -> 2
      [] l.kind = "print"  -> 6
      [] l.kind = "assign" -> AssignWords(l)
      [] l.kind = "code"   -> IF Known(l.mnemonic, l.suffixed) THEN Layout(l) ELSE 1
      [] OTHER             -> 0

\* Every mnemonic that starts with a J; JNZ stands for those it does not know.
Jumps == {"JNZ", "JMP", "JLT", "JEQ", "JLE", "JGT", "JNE", "JGE", "JLT.U",
          "JEQ.U", "JLE.U", "JGT.U", "JNE.U", "JGE.U", "JGT.E", "JGT.UE"}

\* The mnemonic is compared with its suffix: STJ.C and RET.C are not noticed.
IsStj(l) == l.kind = "code" /\ l.mnemonic = "STJ" /\ ~l.suffixed
IsJump(l) == l.kind = "code" /\ l.mnemonic \in Jumps
LeavesTarget(l) ==
    \/ l.kind \in {"label", "call"}
    \/ IsStj(l)
    \/ l.kind = "code" /\ l.mnemonic \in {"RET", "HLT"} /\ ~l.suffixed

\* Faulty: a warning also forgets the stored target.
TrackStjForgetting(l) ==
    /\ warnings' = IF stj_pending /\ LeavesTarget(l)
                     THEN warnings \cup {line} ELSE warnings
    /\ stj_pending' = (IsStj(l) \/ (stj_pending /\ ~IsJump(l) /\ ~LeavesTarget(l)))

TrackStj(l) ==
    /\ warnings' = IF stj_pending /\ LeavesTarget(l)
                     THEN warnings \cup {line} ELSE warnings
    /\ stj_pending' = (IsStj(l) \/ (stj_pending /\ ~IsJump(l)))

Bind(table, name, value) == Append(table, [name |-> name, value |-> value])

Asserted(l) == l.kind = "code" /\ Known(l.mnemonic, l.suffixed)
CodeClashes(l) == Asserted(l) /\ Clash(l.mnemonic, l.ops)

\* A second label or constant of one name is added behind the first.
PassOneLine ==
    LET l == ThisLine IN
    /\ phase = "pass 1" /\ AnyLine
    /\ ~CodeClashes(l)
    /\ label_table' = IF l.kind = "label"
                        THEN Bind(label_table, l.name, current_address)
                        ELSE label_table
    /\ constant_table' = IF l.kind = "define"
                           THEN Bind(constant_table, l.name, l.value)
                           ELSE constant_table
    /\ TrackStj(l)
    /\ Advance(PassOneWords(l))
    /\ addresses' = Append(addresses, current_address)
    /\ line' = line + 1
    /\ UNCHANGED <<phase, failure, output, starts>> /\ KeepFiles

\* calculate_instruction_layout exits; an assignment is not looked at here.
PassOneClash ==
    /\ phase = "pass 1" /\ AnyLine
    /\ CodeClashes(ThisLine)
    /\ TrackStj(ThisLine)
    /\ Exit("banks")
    /\ UNCHANGED <<line, current_address, label_table, constant_table, output,
                   addresses, starts>>
    /\ KeepFiles

PassOneEnds ==
    /\ phase = "pass 1" /\ ~AnyLine
    /\ phase' = "pass 2"
    /\ line' = 1
    /\ current_address' = Origin
    /\ UNCHANGED <<failure, label_table, constant_table, stj_pending, warnings,
                   output, addresses, starts>>
    /\ KeepFiles

-----------------------------------------------------------------------------
(* Pass 2                                                                  *)

\* The lines that end up in process_high_level_compile for their =: a print
\* that is not quoted, a call whose label does not exist, and every define.
Assigns(l) ==
    /\ l.kind \in MayAssign
    /\ l.kind = "call" => ~Defined(label_table, l.target)
    /\ l.kind = "print" => ~l.quoted

Operator(sign) ==
    CASE sign = "+" -> "ADD" [] sign = "-" -> "SUB" [] sign = "&" -> "AND"
      [] sign = "|" -> "OR"  [] sign = "^" -> "XOR"

\* The instructions process_high_level_compile makes of an assignment.
Expansion(l) ==
    CASE l.sign \in {"none", "unknown", "empty"} -> <<>>
      [] l.sign \in {"copy", "dangling"} ->
           <<[mnemonic |-> "SUB", ops |-> <<l.var, l.var, l.var>>],
             [mnemonic |-> "ADD", ops |-> <<l.var, l.var, l.args[1]>>]>>
      [] OTHER -> <<[mnemonic |-> Operator(l.sign),
                     ops |-> <<l.var, l.args[1], l.args[2]>>]>>

AssignCode(l) ==
    LET code == [i \in 1 .. Len(Expansion(l)) |->
                    Compile(Expansion(l)[i].mnemonic, FALSE, Expansion(l)[i].ops)]
    IN  CASE Len(code) = 0 -> <<>>
          [] Len(code) = 1 -> code[1]
          [] OTHER -> code[1] \o code[2]

\* The character is a third operand, which STM does not have: what is written
\* stores 0xFFFF where R0 points.
PrintCode ==
    Compile("EAM.SET", FALSE, <<Number(Place(0, 2047 % WordSize))>>)
      \o Compile("STM", TRUE, <<Register(0), Number(Place(0, WordSize - 1))>>)
      \o Compile("EAM.SET", FALSE, <<Number(Origin)>>)

CallCode(l) == Compile("CAL", FALSE, <<Number(First(label_table, l.target))>>)

\* The words pass 2 writes for a line.
PassTwoWords(l) ==
    IF Assigns(l) THEN AssignCode(l)
    ELSE CASE l.kind = "HEX"   -> l.words
           [] l.kind = "call"  -> CallCode(l)
           [] l.kind = "print" -> PrintCode
           [] l.kind = "code"  -> IF Known(l.mnemonic, l.suffixed)
                                    THEN Compile(l.mnemonic, l.suffixed, l.ops) ELSE <<>>
           [] OTHER            -> <<>>

\* Would an instruction of the line need two banks at once?
LineClashes(l) ==
    \/ CodeClashes(l)
    \/ /\ Assigns(l)
       /\ \E i \in 1 .. Len(Expansion(l)) :
             Clash(Expansion(l)[i].mnemonic, Expansion(l)[i].ops)

SizeDiverges(l) == Asserted(l) /\ Len(PassTwoWords(l)) # Layout(l)

\* An instruction that is not as long as its layout fails an assertion when it
\* has been written.  Only instructions are counted: the address is a message's.
PassTwoLine ==
    LET l == ThisLine IN
    /\ phase = "pass 2" /\ AnyLine
    /\ ~LineClashes(l)
    /\ output' = output \o PassTwoWords(l)
    /\ starts' = Append(starts, Len(output))
    /\ IF SizeDiverges(l) THEN Exit("size") ELSE UNCHANGED <<phase, failure>>
    /\ Advance(IF Asserted(l) THEN Layout(l) ELSE 0)
    /\ line' = line + 1
    /\ UNCHANGED <<label_table, constant_table, stj_pending, warnings, addresses>>
    /\ KeepFiles

\* compile_instruction_safe exits; the file is left as it is.
PassTwoClash ==
    /\ phase = "pass 2" /\ AnyLine
    /\ LineClashes(ThisLine)
    /\ Exit("banks")
    /\ UNCHANGED asmVars /\ KeepFiles

\* "Success! Saved to ..."
PassTwoEnds ==
    /\ phase = "pass 2" /\ ~AnyLine
    /\ phase' = "saved"
    /\ UNCHANGED <<failure, asmVars>> /\ KeepFiles

Ended == phase \in {"saved", "failed"} /\ UNCHANGED allVars

AsmNext ==
    \/ Expand /\ UNCHANGED asmVars
    \/ PassOneLine \/ PassOneClash \/ PassOneEnds
    \/ PassTwoLine \/ PassTwoClash \/ PassTwoEnds
    \/ Ended

AsmSpec == AsmInit /\ [][AsmNext]_allVars
-----------------------------------------------------------------------------
(* Properties                                                              *)

\* What pass 2 writes for an instruction is as long as its layout says: the
\* assertion at the end of main's loop never stops the assembler, whatever
\* the labels and constants are ("This MUST agree with
\* calculate_instruction_layout()").
EmissionMatchesLayout == failure # "size"

\* Pass 1 warns at a line exactly when a target was stored before it, no jump
\* came in between, and the line gives the target up or endangers it.
WarningsExact ==
    LET seen == IF phase = "pass 1" THEN line - 1 ELSE Len(expanded) IN
    phase \in {"pass 1", "pass 2", "saved"} =>
        warnings =
          {k \in 1 .. seen :
            /\ LeavesTarget(expanded[k])
            /\ \E i \in 1 .. k - 1 :
                  /\ IsStj(expanded[i])
                  /\ \A j \in i + 1 .. k - 1 : ~IsJump(expanded[j])}
=============================================================================
