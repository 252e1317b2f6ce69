-------------------------- MODULE AssemblerProofs --------------------------
(***************************************************************************)
(* Proofs about the assembler, for every source text, file system and      *)
(* size of bank.                                                           *)
(***************************************************************************)
EXTENDS AssemblerMeaning, AssemblerText, SequenceTheorems, FiniteSetTheorems,
        WellFoundedInduction, TLAPS

FileNames == UNION {DOMAIN fs : fs \in Sources}
SourceLines ==
    UNION {UNION {{fs[f][i] : i \in 1 .. Len(fs[f])} : f \in DOMAIN fs} :
              fs \in Sources}
Frames == [file : FileNames, next : Nat \ {0}]

LEMMA SourceLinesAreLines == \A l \in SourceLines : IsLine(l)
BY SourceAssumption DEF SourceLines

\* What the expansion works on.
IncTypeOK ==
    /\ files \in Sources
    /\ reading \in Seq(Frames)
    /\ \A i \in 1 .. Len(reading) : reading[i].file \in DOMAIN files
    /\ phase = "expand" => reading # <<>>
    /\ include_stack \in Seq(FileNames)
    /\ expanded \in Seq(SourceLines)

\* What the passes keep of the files.
KeepsInc == UNCHANGED <<files, reading, include_stack, expanded>>

LEMMA WithoutLast ==
    ASSUME NEW S, NEW s \in Seq(S), Len(s) \in Nat \ {0}
    PROVE  LET t == SubSeq(s, 1, Len(s) - 1) IN
           /\ t \in Seq(S)
           /\ Len(t) = Len(s) - 1
           /\ \A i \in 1 .. Len(t) : t[i] = s[i]
<1> DEFINE n == Len(s) - 1
<1>1. 1 \in Int /\ n \in Int /\ n >= 0 /\ n - 1 + 1 = n
  OBVIOUS
<1>2. \A i \in 1 .. n : s[i] \in S
  OBVIOUS
<1> HIDE DEF n
<1>3. /\ SubSeq(s, 1, n) \in Seq(S)
      /\ Len(SubSeq(s, 1, n)) = IF 1 <= n THEN n - 1 + 1 ELSE 0
      /\ \A i \in 1 .. n - 1 + 1 : SubSeq(s, 1, n)[i] = s[1 + i - 1]
  BY <1>1, <1>2, SubSeqProperties
<1>4. Len(SubSeq(s, 1, n)) = n
  BY <1>1, <1>3
<1> QED
  BY <1>1, <1>3, <1>4 DEF n

LEMMA TopIsFrame ==
    ASSUME IncTypeOK, phase = "expand"
    PROVE  /\ Len(reading) \in Nat \ {0}
           /\ Top \in Frames
           /\ Top.file \in DOMAIN files
           /\ HasLine => NextLine \in SourceLines
           /\ Behind \in Seq(Frames)
           /\ Len(Behind) = Len(reading)
           /\ \A i \in 1 .. Len(Behind) : Behind[i].file \in DOMAIN files
<1>1. Len(reading) \in Nat \ {0} /\ Len(reading) \in 1 .. Len(reading)
  BY DEF IncTypeOK
<1>2. Top \in Frames /\ Top.file \in DOMAIN files
  BY <1>1 DEF IncTypeOK, Top
<1>3. HasLine => NextLine \in SourceLines
  <2> SUFFICES ASSUME HasLine PROVE NextLine \in SourceLines
    OBVIOUS
  <2>1. Len(files[Top.file]) \in Nat /\ files \in Sources
    BY <1>2, SourceAssumption DEF IncTypeOK
  <2>2. Top.next \in 1 .. Len(files[Top.file])
    BY <1>2, <2>1 DEF HasLine, Frames
  <2> QED
    BY <1>2, <2>1, <2>2 DEF NextLine, SourceLines
<1>4. /\ Behind \in Seq(Frames)
      /\ Len(Behind) = Len(reading)
      /\ \A i \in 1 .. Len(reading) : Behind[i].file = reading[i].file
  <2>1. [Top EXCEPT !.next = @ + 1] \in Frames
    BY <1>2 DEF Frames
  <2>2. Behind = [reading EXCEPT ![Len(reading)] = [Top EXCEPT !.next = @ + 1]]
    BY DEF Behind, Top
  <2>3. [Top EXCEPT !.next = @ + 1].file = Top.file
    BY <1>2 DEF Frames
  <2> QED
    BY <1>1, <2>1, <2>2, <2>3 DEF IncTypeOK, Top
<1> QED
  BY <1>1, <1>2, <1>3, <1>4 DEF IncTypeOK

LEMMA IncTyped == AsmSpec => []IncTypeOK
<1>1. AsmInit => IncTypeOK
  <2> SUFFICES ASSUME AsmInit PROVE IncTypeOK
    OBVIOUS
  <2>1. MainFile \in DOMAIN files /\ MainFile \in FileNames
    BY IncludeAssumption DEF AsmInit, IncInit, FileNames
  <2>2. Frame(MainFile) \in Frames /\ Frame(MainFile).file = MainFile
    BY <2>1 DEF Frame, Frames
  <2> QED
    BY <2>1, <2>2 DEF AsmInit, IncInit, IncTypeOK
<1>2. IncTypeOK /\ [AsmNext]_allVars => IncTypeOK'
  <2> SUFFICES ASSUME IncTypeOK, [AsmNext]_allVars PROVE IncTypeOK'
    OBVIOUS
  <2>1. CASE CopyLine
    <3>1. phase = "expand" /\ HasLine
      BY <2>1 DEF CopyLine, HasLine
    <3>2. NextLine \in SourceLines /\ Behind \in Seq(Frames) /\ Len(Behind) # 0
          /\ \A i \in 1 .. Len(Behind) : Behind[i].file \in DOMAIN files
      BY <3>1, TopIsFrame
    <3>3. expanded' \in Seq(SourceLines)
      <4>1. expanded' = Append(expanded, NextLine)
        BY <2>1 DEF CopyLine
      <4>2. expanded \in Seq(SourceLines)
        BY DEF IncTypeOK
      <4> QED
        BY <3>2, <4>1, <4>2, AppendProperties
    <3>4. reading' = Behind /\ UNCHANGED <<files, phase, include_stack>>
      BY <2>1 DEF CopyLine
    <3>5. reading' # <<>>
      BY <3>2, <3>4
    <3> QED
      BY <3>2, <3>3, <3>4, <3>5 DEF IncTypeOK
  <2>2. CASE DropInclude
    <3>1. phase = "expand"
      BY <2>2 DEF DropInclude, HasLine
    <3> QED
      BY <2>2, <3>1, TopIsFrame DEF DropInclude, IncTypeOK
  <2>3. CASE Include
    <3> DEFINE new == NextLine.file
    <3>1. phase = "expand"
      BY <2>3 DEF Include, HasLine
    <3>2. new \in DOMAIN files /\ new \in FileNames
      BY <2>3 DEF Include, IncTypeOK, FileNames
    <3>3. Frame(new) \in Frames /\ Frame(new).file = new
      BY <3>2 DEF Frame, Frames
    <3> HIDE DEF new
    <3>4. reading' = Append(Behind, Frame(new))
          /\ include_stack' = Append(include_stack, new)
      BY <2>3 DEF Include, new
    <3>5. reading' \in Seq(Frames) /\ reading' # <<>>
          /\ \A i \in 1 .. Len(reading') : reading'[i].file \in DOMAIN files
      BY <3>1, <3>2, <3>3, <3>4, TopIsFrame
    <3>6. include_stack' \in Seq(FileNames)
      BY <3>2, <3>4 DEF IncTypeOK
    <3> QED
      BY <2>3, <3>5, <3>6 DEF Include, IncTypeOK
  <2>4. CASE RejectInclude
    BY <2>4 DEF RejectInclude, IncTypeOK, Exit
  <2>5. CASE EndOfFile
    <3>1. Len(reading) \in Nat \ {0}
      BY <2>5, TopIsFrame DEF EndOfFile
    <3>2. /\ reading' \in Seq(Frames)
          /\ Len(reading') = Len(reading) - 1
          /\ \A i \in 1 .. Len(reading') : reading'[i] = reading[i]
      <4>1. reading \in Seq(Frames)
            /\ reading' = SubSeq(reading, 1, Len(reading) - 1)
        BY <2>5 DEF EndOfFile, IncTypeOK
      <4> QED
        BY <3>1, <4>1, WithoutLast
    <3>3. phase' = "expand" => Len(reading') # 0
      BY <2>5, <3>1, <3>2 DEF EndOfFile
    <3>4. phase' = "expand" => reading' # <<>>
      BY <3>3
    <3> QED
      <4>1. UNCHANGED <<files, include_stack, expanded>>
        BY <2>5 DEF EndOfFile
      <4> QED
        BY <3>1, <3>2, <3>4, <4>1 DEF IncTypeOK
  <2>6. CASE PassOneLine \/ PassOneClash \/ PassOneEnds
    BY <2>6 DEF PassOneLine, PassOneClash, PassOneEnds, KeepFiles, Exit,
                IncTypeOK
  <2>7. CASE PassTwoLine \/ PassTwoClash \/ PassTwoEnds
    BY <2>7 DEF PassTwoLine, PassTwoClash, PassTwoEnds, KeepFiles, Exit,
                IncTypeOK
  <2>8. CASE UNCHANGED allVars
    BY <2>8 DEF allVars, incVars, IncTypeOK
  <2> QED
    BY <2>1, <2>2, <2>3, <2>4, <2>5, <2>6, <2>7, <2>8
    DEF AsmNext, Expand, Ended
<1> QED
  BY <1>1, <1>2, PTL DEF AsmSpec

\* No file is opened twice and the array of open files does not overflow, in
\* whatever way the files include each other (expand_includes): expansion
\* ends for files that include themselves, too.
THEOREM FilesOpenedOnce == AsmSpec => []OpenedOnce
<1>1. AsmInit => OpenedOnce
  BY IncludeAssumption DEF AsmInit, IncInit, OpenedOnce
<1>2. IncTypeOK /\ OpenedOnce /\ [AsmNext]_allVars => OpenedOnce'
  <2> SUFFICES ASSUME IncTypeOK, OpenedOnce, [AsmNext]_allVars
               PROVE  OpenedOnce'
    OBVIOUS
  <2>1. CASE Include
    <3> DEFINE new == NextLine.file
    <3>1. new \in FileNames
      BY <2>1 DEF Include, IncTypeOK, FileNames
    <3>2. \A i \in 1 .. Len(include_stack) : include_stack[i] # new
      BY <2>1 DEF Include, already_included
    <3>3. Len(include_stack) < MaxIncludeDepth
          /\ include_stack' = Append(include_stack, new)
      BY <2>1 DEF Include
    <3> HIDE DEF new
    <3> QED
      BY <3>1, <3>2, <3>3, IncludeAssumption DEF IncTypeOK, OpenedOnce
  <2>2. CASE UNCHANGED include_stack
    BY <2>2 DEF OpenedOnce
  <2> QED
    BY <2>1, <2>2
    DEF AsmNext, Expand, CopyLine, DropInclude, RejectInclude, EndOfFile,
        PassOneLine, PassOneClash, PassOneEnds, PassTwoLine, PassTwoClash,
        PassTwoEnds, Ended, KeepFiles, allVars, incVars
<1> QED
  BY <1>1, <1>2, IncTyped, PTL DEF AsmSpec
-----------------------------------------------------------------------------
(* The layout and the encoder                                              *)

\* The fields of an instruction hold at most one operand.
LEMMA FieldLength ==
    ASSUME NEW form, NEW ops, NEW n
    PROVE  LET f == ImmediateOf(Field(form, ops, n)) IN
           /\ f \in Seq({f[1]})
           /\ Len(f) \in Nat
<1>1. \/ Field(form, ops, n) = <<>>
      \/ Field(form, ops, n) = <<ops[Slots(form)[n]]>>
  BY DEF Field
<1>2. CASE Field(form, ops, n) = <<>>
  BY <1>2 DEF ImmediateOf
<1>3. CASE Field(form, ops, n) = <<ops[Slots(form)[n]]>>
  <2> DEFINE o == ops[Slots(form)[n]]
  <2>1. Field(form, ops, n) = <<o>>
    BY <1>3
  <2> HIDE DEF o
  <2>2. ImmediateOf(<<o>>) \in {<<>>, <<o>>}
    BY DEF ImmediateOf
  <2>3. \A f \in {<<>>, <<o>>} : f \in Seq({f[1]}) /\ Len(f) \in Nat
    <3>1. <<o>> \in Seq({<<o>>[1]}) /\ Len(<<o>>) \in Nat
      OBVIOUS
    <3>2. <<>> \in Seq({<<>>[1]}) /\ Len(<<>>) \in Nat
      OBVIOUS
    <3> QED
      BY <3>1, <3>2
  <2> QED
    BY <2>1, <2>2, <2>3
<1> QED
  BY <1>1, <1>2, <1>3

LEMMA ImmediatesLength ==
    ASSUME NEW form, NEW ops
    PROVE  Len(Immediates(form, ops)) \in Nat
<1> DEFINE f == ImmediateOf(Field(form, ops, 1))
           g == ImmediateOf(Field(form, ops, 2))
<1>1. /\ f \in Seq({f[1]}) /\ g \in Seq({g[1]})
  BY FieldLength
<1> HIDE DEF f, g
<1>2. f \in Seq({f[1], g[1]}) /\ g \in Seq({f[1], g[1]})
  BY <1>1
<1>3. f \o g \in Seq({f[1], g[1]})
  BY <1>2
<1>4. Len(f \o g) \in Nat
  BY <1>3
<1> QED
  BY <1>4 DEF Immediates, f, g

\* A sequence, of whatever elements.
IsSeq(s) == s \in Seq({s[i] : i \in 1 .. Len(s)})

LEMMA SeqIsSeq ==
    ASSUME NEW S, NEW s \in Seq(S)
    PROVE  IsSeq(s)
<1> DEFINE R == {s[i] : i \in 1 .. Len(s)}
<1>1. Len(s) \in Nat /\ s \in [1 .. Len(s) -> R]
  BY LenProperties
<1>2. s \in Seq(R)
  <2> HIDE DEF R
  <2> QED
    BY <1>1, SeqDef
<1> QED
  BY <1>2 DEF IsSeq

LEMMA Joined ==
    ASSUME NEW s, NEW t, IsSeq(s), IsSeq(t)
    PROVE  /\ IsSeq(s \o t)
           /\ Len(s) \in Nat /\ Len(t) \in Nat /\ Len(s \o t) = Len(s) + Len(t)
           /\ \A i \in 1 .. Len(s) : (s \o t)[i] = s[i]
           /\ \A i \in 1 .. Len(t) : (s \o t)[Len(s) + i] = t[i]
<1> DEFINE S == {s[i] : i \in 1 .. Len(s)}
           T == {t[i] : i \in 1 .. Len(t)}
           st == s \o t
<1>1. s \in Seq(S) /\ t \in Seq(T)
  BY DEF IsSeq
<1>2. Len(s) \in Nat /\ Len(t) \in Nat
  BY <1>1, LenProperties
<1> HIDE DEF S, T
<1>3. s \in Seq(S \cup T) /\ t \in Seq(S \cup T)
  BY <1>1, SeqMonotonic
<1>4. /\ st \in Seq(S \cup T) /\ Len(st) = Len(s) + Len(t)
      /\ \A i \in 1 .. Len(s) + Len(t) :
            st[i] = IF i <= Len(s) THEN s[i] ELSE t[i - Len(s)]
  BY <1>3, ConcatProperties
<1> HIDE DEF st
<1>5. IsSeq(st)
  BY <1>4, SeqIsSeq
<1>6. \A i \in 1 .. Len(s) : st[i] = s[i]
  BY <1>2, <1>4
<1>7. \A i \in 1 .. Len(t) : st[Len(s) + i] = t[i]
  BY <1>2, <1>4
<1> QED
  BY <1>2, <1>4, <1>5, <1>6, <1>7 DEF st

\* The encoder writes the number of words that the layout counts, whatever the
\* tables, the mnemonic and the operands are.
LEMMA EncodedLength ==
    ASSUME NEW labels, NEW constants, NEW name, NEW suffixed, NEW ops
    PROVE  LET words == compile_instruction_safe(labels, constants, name, suffixed, ops)
           IN  /\ IsSeq(words)
               /\ Len(words) = LayoutWords(labels, constants,
                                           lookup_opcode(name).form, ops)
<1> DEFINE e     == lookup_opcode(name)
           imms  == Immediates(e.form, ops)
           banks == BanksNeeded(labels, constants, imms)
           Off(i) == resolve_address(labels, constants, imms[i]).off
           offs  == [i \in 1 .. Len(imms) |-> Off(i)]
           head  == <<OpcodeWord(e, suffixed, ops)>>
           main  == head \o offs
           first == EamSetWords(CHOOSE b \in banks : TRUE)
           last  == EamSetWords(0)
           both  == first \o main
<1>1. Len(imms) \in Nat
  BY ImmediatesLength
<1>2. IsSeq(offs) /\ Len(offs) = Len(imms)
  <2> HIDE DEF imms
  <2> QED
    BY <1>1 DEF IsSeq
<1>3. IsSeq(head) /\ Len(head) = 1
  <2> HIDE DEF e
  <2> QED
    BY DEF IsSeq
<1>4. IsSeq(first) /\ Len(first) = 2 /\ IsSeq(last) /\ Len(last) = 2
  <2> HIDE DEF banks
  <2> QED
    BY DEF EamSetWords, IsSeq
<1>5. LayoutWords(labels, constants, lookup_opcode(name).form, ops)
        = 1 + Len(imms) + (IF banks # {} THEN 2 + 2 ELSE 0)
  BY DEF LayoutWords
<1>6. compile_instruction_safe(labels, constants, name, suffixed, ops)
        = IF banks = {} THEN main ELSE both \o last
  BY DEF compile_instruction_safe
<1> HIDE DEF Off, offs, head, first, last, imms, banks, e
<1>7. IsSeq(main) /\ Len(main) = 1 + Len(imms)
  <2>1. IsSeq(main) /\ Len(main) = Len(head) + Len(offs)
    BY <1>2, <1>3, Joined
  <2> HIDE DEF main
  <2> QED
    BY <1>2, <1>3, <2>1
<1> HIDE DEF main
<1>8. IsSeq(both) /\ Len(both) = 3 + Len(imms)
  <2>1. IsSeq(both) /\ Len(both) = Len(first) + Len(main)
    BY <1>4, <1>7, Joined
  <2> HIDE DEF both
  <2> QED
    BY <1>1, <1>4, <1>7, <2>1
<1> HIDE DEF both
<1>9. IsSeq(both \o last) /\ Len(both \o last) = 5 + Len(imms)
  <2>1. IsSeq(both \o last) /\ Len(both \o last) = Len(both) + Len(last)
    BY <1>4, <1>8, Joined
  <2>2. Len(both) + Len(last) = 5 + Len(imms)
    BY <1>1, <1>4, <1>8
  <2> QED
    BY <2>1, <2>2
<1> QED
  BY <1>1, <1>5, <1>6, <1>7, <1>9

\* The assertion at the end of pass 2 never fails, whatever the source says:
\* calculate_instruction_layout and compile_instruction_safe agree.
THEOREM LayoutAgreed == AsmSpec => []EmissionMatchesLayout
<1>1. AsmInit => EmissionMatchesLayout
  BY DEF AsmInit, IncInit, EmissionMatchesLayout
<1>2. EmissionMatchesLayout /\ [AsmNext]_allVars => EmissionMatchesLayout'
  <2> SUFFICES ASSUME EmissionMatchesLayout, [AsmNext]_allVars
               PROVE  EmissionMatchesLayout'
    OBVIOUS
  <2>1. CASE PassTwoLine
    <3>1. ~SizeDiverges(ThisLine)
      <4> SUFFICES ASSUME Asserted(ThisLine)
                   PROVE  Len(PassTwoWords(ThisLine)) = Layout(ThisLine)
        BY DEF SizeDiverges
      <4>1. PassTwoWords(ThisLine)
              = Compile(ThisLine.mnemonic, ThisLine.suffixed, ThisLine.ops)
        BY DEF PassTwoWords, Asserted, Assigns, MayAssign
      <4> QED
        BY <4>1, EncodedLength DEF Compile, Layout
    <3> QED
      BY <2>1, <3>1 DEF PassTwoLine, EmissionMatchesLayout
  <2>2. CASE RejectInclude
    BY <2>2 DEF RejectInclude, Exit, EmissionMatchesLayout
  <2>3. CASE PassOneClash \/ PassTwoClash
    BY <2>3 DEF PassOneClash, PassTwoClash, Exit, EmissionMatchesLayout
  <2>4. CASE UNCHANGED failure
    BY <2>4 DEF EmissionMatchesLayout
  <2> QED
    BY <2>1, <2>2, <2>3, <2>4
    DEF AsmNext, Expand, CopyLine, DropInclude, Include, EndOfFile,
        PassOneLine, PassOneEnds, PassTwoEnds, Ended, allVars, incVars
<1> QED
  BY <1>1, <1>2, PTL DEF AsmSpec
-----------------------------------------------------------------------------
(* The warnings of pass 1                                                  *)

\* Is a target stored before line k of a text and not used by a jump before it?
Pending(text, k) ==
    \E i \in 1 .. k - 1 :
        /\ IsStj(text[i])
        /\ \A j \in i + 1 .. k - 1 : ~IsJump(text[j])

Warned(text, n) == {k \in 1 .. n : LeavesTarget(text[k]) /\ Pending(text, k)}

\* stj_pending says what the lines read so far say, and so do the warnings.
WarnInv ==
    /\ phase = "expand" => line = 1 /\ warnings = {} /\ ~stj_pending
    /\ phase = "pass 1" =>
          /\ line \in 1 .. Len(expanded) + 1
          /\ stj_pending <=> Pending(expanded, line)
          /\ warnings = Warned(expanded, line - 1)
    /\ phase \in {"pass 2", "saved"} =>
          warnings = Warned(expanded, Len(expanded))

LEMMA NothingBefore == \A text : Warned(text, 0) = {} /\ ~Pending(text, 1)
BY DEF Warned, Pending

\* One line more.
LEMMA PendingNext ==
    ASSUME NEW text, NEW k \in Nat \ {0}
    PROVE  Pending(text, k + 1)
             <=> (IsStj(text[k]) \/ (Pending(text, k) /\ ~IsJump(text[k])))
<1>1. ASSUME Pending(text, k + 1)
      PROVE  IsStj(text[k]) \/ (Pending(text, k) /\ ~IsJump(text[k]))
  <2>1. PICK i \in 1 .. k : /\ IsStj(text[i])
                            /\ \A j \in i + 1 .. k : ~IsJump(text[j])
    BY <1>1 DEF Pending
  <2>2. CASE i = k
    BY <2>1, <2>2
  <2>3. CASE i # k
    <3>1. i \in 1 .. k - 1 /\ k \in i + 1 .. k
      BY <2>3
    <3>2. \A j \in i + 1 .. k - 1 : ~IsJump(text[j])
      BY <2>1
    <3> QED
      BY <2>1, <3>1, <3>2 DEF Pending
  <2> QED
    BY <2>2, <2>3
<1>2. ASSUME IsStj(text[k])
      PROVE  Pending(text, k + 1)
  <2>1. k \in 1 .. k + 1 - 1 /\ \A j \in k + 1 .. k + 1 - 1 : FALSE
    OBVIOUS
  <2> QED
    BY <1>2, <2>1 DEF Pending
<1>3. ASSUME Pending(text, k), ~IsJump(text[k])
      PROVE  Pending(text, k + 1)
  <2>1. PICK i \in 1 .. k - 1 : /\ IsStj(text[i])
                                /\ \A j \in i + 1 .. k - 1 : ~IsJump(text[j])
    BY <1>3 DEF Pending
  <2>2. \A j \in i + 1 .. k + 1 - 1 : j \in i + 1 .. k - 1 \/ j = k
    OBVIOUS
  <2>3. i \in 1 .. k + 1 - 1
    OBVIOUS
  <2> QED
    BY <1>3, <2>1, <2>2, <2>3 DEF Pending
<1> QED
  BY <1>1, <1>2, <1>3

LEMMA WarnedNext ==
    ASSUME NEW text, NEW k \in Nat \ {0}
    PROVE  Warned(text, k) = IF LeavesTarget(text[k]) /\ Pending(text, k)
                               THEN Warned(text, k - 1) \cup {k}
                               ELSE Warned(text, k - 1)
<1>1. \A x : x \in 1 .. k <=> (x \in 1 .. k - 1 \/ x = k)
  OBVIOUS
<1> QED
  BY <1>1 DEF Warned

LEMMA WarnInvariance == AsmSpec => []WarnInv
<1>1. AsmInit => WarnInv
  BY DEF AsmInit, IncInit, WarnInv
<1>2. IncTypeOK /\ WarnInv /\ [AsmNext]_allVars => WarnInv'
  <2> SUFFICES ASSUME IncTypeOK, WarnInv, [AsmNext]_allVars PROVE WarnInv'
    OBVIOUS
  <2>0. Len(expanded) \in Nat
    BY DEF IncTypeOK
  <2>1. CASE Expand /\ UNCHANGED asmVars
    <3>1. phase = "expand"
      BY <2>1 DEF Expand, CopyLine, DropInclude, Include, RejectInclude,
                  EndOfFile, HasLine
    <3>2. line' = 1 /\ warnings' = {} /\ ~stj_pending'
      BY <2>1, <3>1 DEF asmVars, WarnInv
    <3>3. CASE EndOfFile /\ phase' = "pass 1"
      <4>1. expanded' = expanded
        BY <3>3 DEF EndOfFile
      <4>2. /\ line' \in 1 .. Len(expanded) + 1
            /\ stj_pending' <=> Pending(expanded, line')
            /\ warnings' = Warned(expanded, line' - 1)
        BY <2>0, <3>2, NothingBefore
      <4> QED
        BY <3>3, <4>1, <4>2 DEF WarnInv
    <3>4. CASE phase' \in {"expand", "failed"}
      BY <3>2, <3>4 DEF WarnInv
    <3> QED
      BY <2>1, <3>1, <3>3, <3>4
      DEF Expand, CopyLine, DropInclude, Include, RejectInclude, EndOfFile, Exit
  <2>2. CASE PassOneLine
    <3>1. /\ phase = "pass 1" /\ line <= Len(expanded)
          /\ TrackStj(expanded[line])
          /\ line' = line + 1
          /\ UNCHANGED <<phase, expanded>>
      BY <2>2 DEF PassOneLine, AnyLine, ThisLine, KeepFiles
    <3>2. line \in 1 .. Len(expanded) + 1
      BY <3>1 DEF WarnInv
    <3>3. /\ line \in Nat \ {0}
          /\ line' \in 1 .. Len(expanded) + 1
          /\ line' - 1 = line
      <4>1. line <= Len(expanded) /\ line' = line + 1
        BY <3>1
      <4> QED
        BY <2>0, <3>2, <4>1
    <3>4. stj_pending' <=> Pending(expanded, line')
      BY <3>1, <3>3, PendingNext DEF WarnInv, TrackStj
    <3>5. warnings' = Warned(expanded, line)
      BY <3>1, <3>3, WarnedNext DEF WarnInv, TrackStj
    <3> QED
      BY <3>1, <3>3, <3>4, <3>5 DEF WarnInv
  <2>3. CASE PassOneClash \/ PassTwoClash
    BY <2>3 DEF PassOneClash, PassTwoClash, Exit, WarnInv
  <2>4. CASE PassOneEnds
    <3>1. /\ phase = "pass 1" /\ ~(line <= Len(expanded))
          /\ phase' = "pass 2"
          /\ UNCHANGED <<warnings, expanded>>
      BY <2>4 DEF PassOneEnds, AnyLine, KeepFiles
    <3>2. line \in 1 .. Len(expanded) + 1
      BY <3>1 DEF WarnInv
    <3>3. line - 1 = Len(expanded)
      <4>1. ~(line <= Len(expanded))
        BY <3>1
      <4> QED
        BY <2>0, <3>2, <4>1
    <3> QED
      BY <3>1, <3>3 DEF WarnInv
  <2>5. CASE PassTwoLine \/ PassTwoEnds
    <3>1. /\ phase = "pass 2"
          /\ phase' \in {"pass 2", "saved", "failed"}
          /\ UNCHANGED <<warnings, expanded>>
      BY <2>5 DEF PassTwoLine, PassTwoEnds, Exit, KeepFiles, asmVars
    <3> QED
      BY <3>1 DEF WarnInv
  <2>6. CASE UNCHANGED allVars
    BY <2>6 DEF allVars, incVars, asmVars, WarnInv
  <2> QED
    BY <2>1, <2>2, <2>3, <2>4, <2>5, <2>6 DEF AsmNext, Ended
<1> QED
  BY <1>1, <1>2, IncTyped, PTL DEF AsmSpec

\* Pass 1 warns of every stored target that is given up, and of no other.
THEOREM WarningsAreExact == AsmSpec => []WarningsExact
<1>1. WarnInv => WarningsExact
  BY DEF WarnInv, WarningsExact, Warned, Pending
<1> QED
  BY <1>1, WarnInvariance, PTL
-----------------------------------------------------------------------------
(* Least numbers, and what the tables find                                 *)

LEMMA NatWellFounded ==
    IsWellFoundedOn({ss \in Nat \X Nat : ss[1] < ss[2]}, Nat)
BY NatLessThanWellFounded DEF OpToRel

LEMMA LeastNatural ==
    ASSUME NEW S \in SUBSET Nat, S # {}
    PROVE  \E n \in S : \A m \in S : n <= m
<1> DEFINE R == {ss \in Nat \X Nat : ss[1] < ss[2]}
<1>1. IsWellFoundedOn(R, Nat)
  BY NatWellFounded
<1> HIDE DEF R
<1>2. PICK n \in S : \A m \in S : ~(<<m, n>> \in R)
  BY <1>1, WFMin
<1>3. \A m \in S : ~(m < n)
  BY <1>2 DEF R
<1> QED
  BY <1>3

\* What holds of 1 and of every successor up to n holds up to n.
LEMMA UpTo ==
    ASSUME NEW n \in Nat, NEW S, n >= 1 => 1 \in S,
           \A k \in 1 .. n - 1 : k \in S => k + 1 \in S
    PROVE  1 .. n \subseteq S
<1> DEFINE T == {k \in 1 .. n : k \notin S}
<1>1. SUFFICES ASSUME T # {} PROVE FALSE
  OBVIOUS
<1>2. PICK k \in T : \A m \in T : k <= m
  <2>1. T \in SUBSET Nat
    OBVIOUS
  <2> HIDE DEF T
  <2> QED
    BY <1>1, <2>1, LeastNatural
<1>3. k \in 1 .. n /\ k \notin S /\ k # 1
  OBVIOUS
<1>4. k - 1 \in 1 .. n - 1 /\ k - 1 + 1 = k
  BY <1>3
<1>5. k - 1 \notin T
  BY <1>2, <1>3
<1> QED
  BY <1>3, <1>4, <1>5

\* The first row of a name in a table.
IsFirst(table, name, j) ==
    /\ j \in 1 .. Len(table)
    /\ table[j].name = name
    /\ \A k \in 1 .. j - 1 : table[k].name # name

LEMMA FirstIs ==
    ASSUME NEW table, NEW name, NEW j, Len(table) \in Nat, IsFirst(table, name, j)
    PROVE  First(table, name) = table[j].value
<1> DEFINE i == CHOOSE x \in 1 .. Len(table) :
                  /\ table[x].name = name
                  /\ \A k \in 1 .. x - 1 : table[k].name # name
<1>1. /\ i \in 1 .. Len(table) /\ table[i].name = name
      /\ \A k \in 1 .. i - 1 : table[k].name # name
  BY DEF IsFirst
<1>2. First(table, name) = table[i].value
  BY DEF First
<1> HIDE DEF i
<1>3. ~(i < j) /\ ~(j < i)
  BY <1>1 DEF IsFirst
<1>4. i = j
  BY <1>1, <1>3 DEF IsFirst
<1> QED
  BY <1>2, <1>4

LEMMA HasFirst ==
    ASSUME NEW table, NEW name, Len(table) \in Nat, Defined(table, name)
    PROVE  \E j : IsFirst(table, name, j)
<1> DEFINE S == {i \in 1 .. Len(table) : table[i].name = name}
<1>1. S \in SUBSET Nat /\ S # {}
  BY DEF Defined
<1>2. PICK j \in S : \A m \in S : j <= m
  BY <1>1, LeastNatural
<1>3. \A k \in 1 .. j - 1 : table[k].name # name
  BY <1>2
<1> QED
  BY <1>2, <1>3 DEF IsFirst

\* A row behind the others is found only under a name that was not there.
LEMMA TableAppend ==
    ASSUME NEW B, NEW table \in Seq(B), NEW e \in B, NEW name,
           NEW new, new = Append(table, e)
    PROVE  /\ Defined(new, name) <=> Defined(table, name) \/ e.name = name
           /\ Defined(table, name) => First(new, name) = First(table, name)
           /\ ~Defined(table, name) /\ e.name = name =>
                 First(new, name) = e.value
<1> DEFINE longer == Append(table, e)
<1>1. /\ Len(table) \in Nat /\ Len(longer) = Len(table) + 1
      /\ \A i \in 1 .. Len(table) : longer[i] = table[i]
      /\ longer[Len(table) + 1] = e
  BY AppendProperties
<1> HIDE DEF longer
<1>2. Defined(longer, name) <=> Defined(table, name) \/ e.name = name
  BY <1>1 DEF Defined
<1>3. ASSUME Defined(table, name)
      PROVE  First(longer, name) = First(table, name)
  <2>1. PICK j : IsFirst(table, name, j)
    BY <1>1, <1>3, HasFirst
  <2>2. IsFirst(longer, name, j) /\ longer[j] = table[j]
    BY <1>1, <2>1 DEF IsFirst
  <2> QED
    BY <1>1, <2>1, <2>2, FirstIs
<1>4. ASSUME ~Defined(table, name), e.name = name
      PROVE  First(longer, name) = e.value
  <2>1. IsFirst(longer, name, Len(table) + 1)
    BY <1>1, <1>4 DEF IsFirst, Defined
  <2> QED
    BY <1>1, <2>1, FirstIs
<1>5. new = longer
  BY DEF longer
<1> QED
  BY <1>2, <1>3, <1>4, <1>5
-----------------------------------------------------------------------------
(* The words that pass 1 counts, said of the text                          *)

LinesIn(text, kind, name) ==
    {k \in 1 .. Len(text) : text[k].kind = kind /\ text[k].name = name}

\* Is there a line of the kind and name above line k?
Above(text, k, kind, name) == \E j \in LinesIn(text, kind, name) : j < k

FirstLine(text, kind, name) ==
    CHOOSE j \in LinesIn(text, kind, name) :
        \A i \in LinesIn(text, kind, name) : j <= i

\* The bank that pass 1 takes an operand for when it reads line k of a text
\* whose lines it gave the addresses a; behind the last line it is the one
\* pass 2 takes it for.
BankAt(text, a, k, o) ==
    IF o.type = "number" THEN o.value.bank
    ELSE IF Above(text, k, "label", o.name)
      THEN a[FirstLine(text, "label", o.name)].bank
    ELSE IF Above(text, k, "define", o.name)
      THEN text[FirstLine(text, "define", o.name)].value.bank
    ELSE 0

ArgumentCountAt(text, a, k, o) ==
    IF ~IsImmediate(o) THEN 0 ELSE IF BankAt(text, a, k, o) # 0 THEN 5 ELSE 1

AssignCountAt(text, a, k, l) ==
    CASE l.sign \in {"dangling", "empty"} -> 1
      [] l.sign = "copy" -> 2 + ArgumentCountAt(text, a, k, l.args[1])
      [] OTHER -> 1 + ArgumentCountAt(text, a, k, l.args[1])
                    + ArgumentCountAt(text, a, k, l.args[2])

CodeCountAt(text, a, k, l) ==
    LET imms == Immediates(lookup_opcode(l.mnemonic).form, l.ops)
    IN  1 + Len(imms)
          + (IF \E i \in 1 .. Len(imms) : BankAt(text, a, k, imms[i]) # 0 THEN 4 ELSE 0)

CountAt(text, a, k, l) ==
    CASE l.kind = "HEX"    -> l.commas + 1
      [] l.kind = "call"   -> 2
      [] l.kind = "print"  -> 6
      [] l.kind = "assign" -> AssignCountAt(text, a, k, l)
      [] l.kind = "code"   ->
           IF Known(l.mnemonic, l.suffixed) THEN CodeCountAt(text, a, k, l) ELSE 1
      [] OTHER             -> 0

\* Tables that hold the labels, and the constants, above line k.
LabelsOf(table, text, a, k) ==
    \A s \in STRING :
        /\ Defined(table, s) <=> Above(text, k, "label", s)
        /\ Above(text, k, "label", s) =>
              First(table, s) = a[FirstLine(text, "label", s)]

ConstantsOf(table, text, k) ==
    \A s \in STRING :
        /\ Defined(table, s) <=> Above(text, k, "define", s)
        /\ Above(text, k, "define", s) =>
              First(table, s) = text[FirstLine(text, "define", s)].value

Tabulated(k) ==
    /\ LabelsOf(label_table, expanded, addresses, k)
    /\ ConstantsOf(constant_table, expanded, k)

LEMMA FirstLineIs ==
    ASSUME NEW text, NEW kind, NEW name, NEW j \in LinesIn(text, kind, name)
    PROVE  /\ FirstLine(text, kind, name) \in LinesIn(text, kind, name)
           /\ FirstLine(text, kind, name) <= j
<1>1. LinesIn(text, kind, name) \in SUBSET Nat
  BY DEF LinesIn
<1>2. \E i \in LinesIn(text, kind, name) :
         \A m \in LinesIn(text, kind, name) : i <= m
  BY <1>1, LeastNatural
<1> QED
  BY <1>2 DEF FirstLine

\* The immediates of an instruction are operands of it.
LEMMA ImmediatesAre ==
    ASSUME NEW form, NEW ops \in Seq(Operand)
    PROVE  LET imms == Immediates(form, ops) IN
           /\ imms \in Seq(Operand)
           /\ Len(imms) \in Nat
           /\ \A i \in 1 .. Len(imms) : /\ IsImmediate(imms[i])
                                        /\ \E j \in 1 .. Len(ops) : imms[i] = ops[j]
<1> DEFINE A == {ops[j] : j \in 1 .. Len(ops)} \cap {o \in Operand : IsImmediate(o)}
<1>1. ASSUME NEW n \in {1, 2}
      PROVE  ImmediateOf(Field(form, ops, n)) \in Seq(A)
  <2>1. Slots(form)[n] \in Nat \ {0} \/ ~(n <= Len(Slots(form)))
    BY DEF Slots
  <2>2. CASE Field(form, ops, n) = <<>>
    BY <2>2 DEF ImmediateOf
  <2>3. CASE Field(form, ops, n) # <<>>
    <3> DEFINE o == ops[Slots(form)[n]]
    <3>1. Field(form, ops, n) = <<o>> /\ Slots(form)[n] \in 1 .. Len(ops)
      BY <2>1, <2>3 DEF Field
    <3>2. o \in Operand /\ o \in {ops[j] : j \in 1 .. Len(ops)}
      BY <3>1
    <3> HIDE DEF o
    <3>3. CASE IsImmediate(o)
      <4>1. o \in A
        BY <3>2, <3>3
      <4>2. ImmediateOf(<<o>>) = <<o>>
        BY <3>3 DEF ImmediateOf
      <4>3. ImmediateOf(Field(form, ops, n)) = <<o>>
        BY <3>1, <4>2
      <4> HIDE DEF A
      <4>4. <<o>> \in Seq(A)
        BY <4>1
      <4> QED
        BY <4>3, <4>4
    <3>4. CASE ~IsImmediate(o)
      BY <3>1, <3>4 DEF ImmediateOf
    <3> QED
      BY <3>3, <3>4
  <2> QED
    BY <2>2, <2>3
<1> HIDE DEF A
<1>2. Immediates(form, ops) \in Seq(A)
  BY <1>1, ConcatProperties DEF Immediates
<1>3. A \subseteq Operand
  BY DEF A
<1>4. \A a \in A : IsImmediate(a) /\ \E j \in 1 .. Len(ops) : a = ops[j]
  BY DEF A
<1> DEFINE imms == Immediates(form, ops)
<1>5. imms \in Seq(A)
  BY <1>2
<1> HIDE DEF imms
<1>6. Len(imms) \in Nat /\ \A i \in 1 .. Len(imms) : imms[i] \in A
  BY <1>5
<1>7. imms \in Seq(Operand)
  BY <1>3, <1>5
<1> QED
  BY <1>4, <1>6, <1>7 DEF imms

\* The model's resolution finds what the text says.
LEMMA ResolvedBank ==
    ASSUME NEW k \in Int, Tabulated(k),
           NEW o \in Operand, IsImmediate(o)
    PROVE  Resolve(o).bank = BankAt(expanded, addresses, k, o)
<1>1. o.type = "number" \/ (o.type = "name" /\ o.name \in STRING)
  BY DEF Operand, IsImmediate
<1> QED
  BY <1>1 DEF Tabulated, LabelsOf, ConstantsOf, BankAt, Resolve, resolve_address, Origin, Place

\* What pass 1 counts for a line is what the text above it makes of it.
LEMMA Counted ==
    ASSUME NEW k \in Int, Tabulated(k), NEW l, IsLine(l)
    PROVE  PassOneWords(l) = CountAt(expanded, addresses, k, l)
<1>1. CASE l.kind = "assign"
  <2>1. /\ l.args \in Seq(Operand) /\ Len(l.args) = ArgumentCount(l.sign)
        /\ l.sign \in Signs
    BY <1>1 DEF IsLine, IsAssignment, MayAssign
  <2>2. ASSUME NEW i \in 1 .. Len(l.args)
        PROVE  ArgumentWords(l.args[i])
                 = ArgumentCountAt(expanded, addresses, k, l.args[i])
    <3>1. l.args[i] \in Operand
      BY <2>1
    <3> QED
      BY <3>1, ResolvedBank DEF ArgumentWords, ArgumentCountAt
  <2>3. AssignWords(l) = AssignCountAt(expanded, addresses, k, l)
    <3>1. CASE l.sign \in {"dangling", "empty"}
      BY <3>1 DEF AssignWords, AssignCountAt
    <3>2. CASE l.sign = "copy"
      <4>1. 1 \in 1 .. Len(l.args)
        BY <2>1, <3>2 DEF ArgumentCount
      <4> QED
        BY <2>2, <3>2, <4>1 DEF AssignWords, AssignCountAt
    <3>3. CASE l.sign \notin {"dangling", "empty", "copy"}
      <4>1. 1 \in 1 .. Len(l.args) /\ 2 \in 1 .. Len(l.args)
        BY <2>1, <3>3 DEF ArgumentCount, Signs
      <4> QED
        BY <2>2, <3>3, <4>1 DEF AssignWords, AssignCountAt
    <3> QED
      BY <3>1, <3>2, <3>3
  <2> QED
    BY <1>1, <2>3 DEF PassOneWords, CountAt
<1>2. CASE l.kind = "code"
  <2> DEFINE imms == Immediates(lookup_opcode(l.mnemonic).form, l.ops)
  <2>1. l.ops \in Seq(Operand)
    BY <1>2 DEF IsLine
  <2>2. /\ imms \in Seq(Operand) /\ Len(imms) \in Nat
        /\ \A i \in 1 .. Len(imms) : IsImmediate(imms[i])
    BY <2>1, ImmediatesAre
  <2>3. CodeCountAt(expanded, addresses, k, l) = 1 + Len(imms)
          + (IF \E i \in 1 .. Len(imms) :
                   BankAt(expanded, addresses, k, imms[i]) # 0 THEN 4 ELSE 0)
    BY DEF CodeCountAt
  <2>4. Layout(l) = 1 + Len(imms)
          + (IF BanksNeeded(label_table, constant_table, imms) # {} THEN 2 + 2
             ELSE 0)
    BY DEF Layout, LayoutWords
  <2> HIDE DEF imms
  <2>5. \A i \in 1 .. Len(imms) :
           Resolve(imms[i]).bank = BankAt(expanded, addresses, k, imms[i])
    BY <2>2, ResolvedBank
  <2>6. BanksNeeded(label_table, constant_table, imms) # {}
          <=> \E i \in 1 .. Len(imms) : BankAt(expanded, addresses, k, imms[i]) # 0
    BY <2>5 DEF BanksNeeded, Resolve
  <2>7. Layout(l) = CodeCountAt(expanded, addresses, k, l)
    BY <2>2, <2>3, <2>4, <2>6
  <2> QED
    BY <1>2, <2>7 DEF PassOneWords, CountAt
<1>3. CASE l.kind \notin {"assign", "code"}
  BY <1>3 DEF PassOneWords, CountAt
<1> QED
  BY <1>1, <1>2, <1>3

LEMMA CountIsNat ==
    ASSUME NEW text, NEW a, NEW k, NEW l, IsLine(l)
    PROVE  CountAt(text, a, k, l) \in Nat
<1>1. CASE l.kind = "assign"
  <2>1. AssignCountAt(text, a, k, l) \in Nat
    BY DEF AssignCountAt, ArgumentCountAt
  <2> QED
    BY <1>1, <2>1 DEF CountAt
<1>2. CASE l.kind = "code"
  <2>1. l.ops \in Seq(Operand)
    BY <1>2 DEF IsLine
  <2>2. CodeCountAt(text, a, k, l) \in Nat
    BY <2>1, ImmediatesLength DEF CodeCountAt
  <2> QED
    BY <1>2, <2>2 DEF CountAt
<1>3. CASE l.kind \notin {"assign", "code"}
  BY <1>3 DEF CountAt, IsLine
<1> QED
  BY <1>1, <1>2, <1>3

\* The addresses of later lines do not matter.
LEMMA BankStable ==
    ASSUME NEW text, NEW S, NEW a \in Seq(S), NEW e \in S,
           NEW k \in 1 .. Len(a) + 1, NEW o
    PROVE  BankAt(text, Append(a, e), k, o) = BankAt(text, a, k, o)
<1> DEFINE b == Append(a, e)
<1>1. Len(a) \in Nat /\ \A i \in 1 .. Len(a) : b[i] = a[i]
  BY AppendProperties
<1> HIDE DEF b
<1>2. ASSUME Above(text, k, "label", o.name)
      PROVE  FirstLine(text, "label", o.name) \in 1 .. Len(a)
  <2>1. PICK j \in LinesIn(text, "label", o.name) : j < k
    BY <1>2 DEF Above
  <2>2. /\ FirstLine(text, "label", o.name) \in LinesIn(text, "label", o.name)
        /\ FirstLine(text, "label", o.name) <= j
    BY FirstLineIs
  <2>3. j \in Int
    BY DEF LinesIn
  <2> QED
    BY <1>1, <2>1, <2>2, <2>3 DEF LinesIn
<1>3. BankAt(text, b, k, o) = BankAt(text, a, k, o)
  BY <1>1, <1>2 DEF BankAt
<1> QED
  BY <1>3 DEF b

LEMMA CountStable ==
    ASSUME NEW text, NEW S, NEW a \in Seq(S), NEW e \in S,
           NEW k \in 1 .. Len(a) + 1, NEW l
    PROVE  CountAt(text, Append(a, e), k, l) = CountAt(text, a, k, l)
<1> DEFINE b == Append(a, e)
<1>1. \A o : BankAt(text, b, k, o) = BankAt(text, a, k, o)
  BY BankStable
<1> HIDE DEF b
<1>2. \A o : ArgumentCountAt(text, b, k, o) = ArgumentCountAt(text, a, k, o)
  BY <1>1 DEF ArgumentCountAt
<1>3. AssignCountAt(text, b, k, l) = AssignCountAt(text, a, k, l)
  BY <1>2 DEF AssignCountAt
<1>4. CodeCountAt(text, b, k, l) = CodeCountAt(text, a, k, l)
  <2> DEFINE imms == Immediates(lookup_opcode(l.mnemonic).form, l.ops)
  <2> HIDE DEF imms
  <2>1. (\E i \in 1 .. Len(imms) : BankAt(text, b, k, imms[i]) # 0)
          <=> \E i \in 1 .. Len(imms) : BankAt(text, a, k, imms[i]) # 0
    BY <1>1
  <2> QED
    BY <2>1 DEF CodeCountAt, imms
<1> QED
  BY <1>3, <1>4 DEF CountAt, b

\* How many lines pass 1 has read.
Numbered == IF phase = "pass 1" THEN line - 1 ELSE Len(expanded)

\* The address of the line behind line k.
AddressBehind(text, a, k) ==
    IF k = 0 THEN Origin ELSE advance_address(a[k], CountAt(text, a, k, text[k]))

Bindings == [name : STRING, value : Address]

\* Pass 1 has given every line it read the address behind the line before, and
\* its tables hold the lines it read.
LayInv ==
    /\ phase = "expand" =>
          /\ line = 1 /\ current_address = Origin
          /\ label_table = <<>> /\ constant_table = <<>> /\ addresses = <<>>
    /\ phase \in {"pass 1", "pass 2", "saved"} =>
          /\ label_table \in Seq(Bindings) /\ constant_table \in Seq(Bindings)
          /\ addresses \in Seq(Address) /\ Len(addresses) = Numbered
          /\ \A k \in 1 .. Numbered : addresses[k] = AddressBehind(expanded, addresses, k - 1)
          /\ Tabulated(Numbered + 1)
    /\ phase = "pass 1" =>
          /\ line \in 1 .. Len(expanded) + 1
          /\ current_address \in Address
          /\ current_address = AddressBehind(expanded, addresses, line - 1)

LEMMA AdvanceIsAddress ==
    ASSUME NEW x \in Address, NEW n \in Nat
    PROVE  advance_address(x, n) \in Address
BY WordSizeAssumption DEF advance_address, Address, Place

\* One line more is above.
LEMMA AboveNext ==
    ASSUME NEW text, Len(text) \in Nat, NEW k \in 1 .. Len(text), NEW kind, NEW name
    PROVE  /\ Above(text, k + 1, kind, name)
                <=> \/ Above(text, k, kind, name)
                    \/ text[k].kind = kind /\ text[k].name = name
           /\ Above(text, k, kind, name) => FirstLine(text, kind, name) \in 1 .. k - 1
           /\ /\ ~Above(text, k, kind, name)
              /\ text[k].kind = kind /\ text[k].name = name
              => FirstLine(text, kind, name) = k
<1>1. \A j \in LinesIn(text, kind, name) :
         /\ j \in Nat \ {0}
         /\ FirstLine(text, kind, name) \in LinesIn(text, kind, name)
         /\ FirstLine(text, kind, name) <= j
  BY FirstLineIs DEF LinesIn
<1>2. k \in LinesIn(text, kind, name) <=> text[k].kind = kind /\ text[k].name = name
  BY DEF LinesIn
<1> QED
  BY <1>1, <1>2 DEF Above

\* The tables take up line k.
LEMMA LabelsNext ==
    ASSUME NEW text, Len(text) \in Nat, NEW k \in 1 .. Len(text), IsLine(text[k]),
           NEW table \in Seq(Bindings), NEW a \in Seq(Address), k = Len(a) + 1,
           NEW x \in Address, LabelsOf(table, text, a, k)
    PROVE  LET new == IF text[k].kind = "label" THEN Bind(table, text[k].name, x)
                      ELSE table
           IN  new \in Seq(Bindings) /\ LabelsOf(new, text, Append(a, x), k + 1)
<1> DEFINE e == [name |-> text[k].name, value |-> x]
           longer == Append(table, e)
           b == Append(a, x)
<1>1. b[k] = x /\ \A i \in 1 .. k - 1 : b[i] = a[i]
  BY AppendProperties
<1> HIDE DEF b
<1>2. ASSUME NEW s \in STRING
      PROVE  /\ Defined(table, s) <=> Above(text, k, "label", s)
             /\ Above(text, k, "label", s) =>
                  First(table, s) = a[FirstLine(text, "label", s)]
  BY DEF LabelsOf
<1>3. CASE text[k].kind = "label"
  <2>1. e \in Bindings /\ e.name = text[k].name /\ e.value = x
    BY <1>3 DEF IsLine, Bindings
  <2> HIDE DEF e
  <2>2. longer \in Seq(Bindings)
    BY <2>1, AppendProperties
  <2>3. ASSUME NEW s \in STRING
        PROVE  /\ Defined(longer, s) <=> Defined(table, s) \/ e.name = s
               /\ Defined(table, s) => First(longer, s) = First(table, s)
               /\ ~Defined(table, s) /\ e.name = s => First(longer, s) = e.value
    BY ZenonT(40), <2>1, TableAppend
  <2> HIDE DEF longer
  <2>4. ASSUME NEW s \in STRING
        PROVE  /\ Defined(longer, s) <=> Above(text, k + 1, "label", s)
               /\ Above(text, k + 1, "label", s) =>
                    First(longer, s) = b[FirstLine(text, "label", s)]
    BY <1>1, <1>2, <1>3, <2>1, <2>3, AboveNext
  <2>5. LabelsOf(longer, text, b, k + 1)
    BY <2>4 DEF LabelsOf
  <2> QED
    BY <1>3, <2>2, <2>5 DEF Bind, b, e, longer
<1>4. CASE text[k].kind # "label"
  <2>1. LabelsOf(table, text, b, k + 1)
    BY <1>1, <1>2, <1>4, AboveNext DEF LabelsOf
  <2> QED
    BY <1>4, <2>1 DEF b
<1> QED
  BY <1>3, <1>4

LEMMA ConstantsNext ==
    ASSUME NEW text, Len(text) \in Nat, NEW k \in 1 .. Len(text), IsLine(text[k]),
           NEW table \in Seq(Bindings), ConstantsOf(table, text, k)
    PROVE  LET new == IF text[k].kind = "define"
                        THEN Bind(table, text[k].name, text[k].value) ELSE table
           IN  new \in Seq(Bindings) /\ ConstantsOf(new, text, k + 1)
<1> DEFINE e == [name |-> text[k].name, value |-> text[k].value]
           longer == Append(table, e)
<1>1. ASSUME NEW s \in STRING
      PROVE  /\ Defined(table, s) <=> Above(text, k, "define", s)
             /\ Above(text, k, "define", s) =>
                  First(table, s) = text[FirstLine(text, "define", s)].value
  BY DEF ConstantsOf
<1>2. CASE text[k].kind = "define"
  <2>1. e \in Bindings /\ e.name = text[k].name /\ e.value = text[k].value
    BY <1>2 DEF IsLine, Bindings
  <2> HIDE DEF e
  <2>2. longer \in Seq(Bindings)
    BY <2>1, AppendProperties
  <2>3. ASSUME NEW s \in STRING
        PROVE  /\ Defined(longer, s) <=> Defined(table, s) \/ e.name = s
               /\ Defined(table, s) => First(longer, s) = First(table, s)
               /\ ~Defined(table, s) /\ e.name = s => First(longer, s) = e.value
    BY ZenonT(40), <2>1, TableAppend
  <2> HIDE DEF longer
  <2>4. ASSUME NEW s \in STRING
        PROVE  /\ Defined(longer, s) <=> Above(text, k + 1, "define", s)
               /\ Above(text, k + 1, "define", s) =>
                    First(longer, s) = text[FirstLine(text, "define", s)].value
    BY <1>1, <1>2, <2>1, <2>3, AboveNext
  <2>5. ConstantsOf(longer, text, k + 1)
    BY <2>4 DEF ConstantsOf
  <2> QED
    BY <1>2, <2>2, <2>5 DEF Bind, e, longer
<1>3. CASE text[k].kind # "define"
  BY <1>1, <1>3, AboveNext DEF ConstantsOf
<1> QED
  BY <1>2, <1>3

LEMMA LayPassOne ==
    ASSUME IncTypeOK, LayInv, PassOneLine
    PROVE  LayInv'
<1> DEFINE l == expanded[line]
           n == CountAt(expanded, addresses, line, l)
<1>1. phase = "pass 1" /\ phase' = "pass 1" /\ expanded' = expanded
  BY DEF PassOneLine, KeepFiles
<1>2. line \in 1 .. Len(expanded) /\ line' = line + 1 /\ Len(expanded) \in Nat
  <2>1. line <= Len(expanded) /\ line' = line + 1
    BY DEF PassOneLine, AnyLine
  <2>2. line \in 1 .. Len(expanded) + 1
    BY <1>1 DEF LayInv
  <2>3. Len(expanded) \in Nat
    BY DEF IncTypeOK
  <2> QED
    BY <2>1, <2>2, <2>3
<1>3. addresses' = Append(addresses, current_address)
  BY DEF PassOneLine
<1>4. current_address' = advance_address(current_address, PassOneWords(l))
  BY DEF PassOneLine, ThisLine, Advance
<1>5. Numbered = line - 1 /\ Numbered + 1 = line
  <2>1. line - 1 + 1 = line
    BY <1>2
  <2> QED
    BY <1>1, <2>1 DEF Numbered
<1>6. Len(addresses) = line - 1 /\ addresses \in Seq(Address)
  BY <1>1, <1>5 DEF LayInv
<1>7. /\ current_address \in Address
      /\ current_address = AddressBehind(expanded, addresses, line - 1)
  BY <1>1 DEF LayInv
<1>8. \A k \in 1 .. line - 1 :
         addresses[k] = AddressBehind(expanded, addresses, k - 1)
  BY <1>1, <1>5 DEF LayInv
<1>9. Tabulated(line)
  BY <1>1, <1>5 DEF LayInv
<1>10. IsLine(l)
  BY <1>2, SourceLinesAreLines DEF IncTypeOK
<1>11. PassOneWords(l) = n /\ n \in Nat
  <2>1. line \in Int
    BY <1>2
  <2> HIDE DEF l
  <2> QED
    BY <1>9, <1>10, <2>1, Counted, CountIsNat
<1> HIDE DEF n
<1>12. line = Len(addresses) + 1
  BY <1>2, <1>6
<1>13. /\ label_table' \in Seq(Bindings)
       /\ LabelsOf(label_table', expanded, addresses', line + 1)
  <2>1. label_table' = IF expanded[line].kind = "label"
                         THEN Bind(label_table, expanded[line].name, current_address)
                         ELSE label_table
    BY DEF PassOneLine, ThisLine
  <2>2. label_table \in Seq(Bindings)
    BY <1>1 DEF LayInv
  <2> QED
    BY <1>2, <1>3, <1>6, <1>7, <1>9, <1>10, <1>12, <2>1, <2>2, LabelsNext
    DEF Tabulated
<1>14. /\ constant_table' \in Seq(Bindings)
       /\ ConstantsOf(constant_table', expanded, line + 1)
  <2>1. constant_table' = IF expanded[line].kind = "define"
                            THEN Bind(constant_table, expanded[line].name,
                                      expanded[line].value)
                            ELSE constant_table
    BY DEF PassOneLine, ThisLine
  <2>2. constant_table \in Seq(Bindings)
    BY <1>1 DEF LayInv
  <2> QED
    BY <1>2, <1>9, <1>10, <2>1, <2>2, ConstantsNext DEF Tabulated
<1>15. /\ addresses' \in Seq(Address) /\ Len(addresses') = line
       /\ addresses'[line] = current_address
       /\ \A k \in 1 .. line - 1 : addresses'[k] = addresses[k]
  <2>1. /\ addresses' \in Seq(Address) /\ Len(addresses') = Len(addresses) + 1
        /\ addresses'[Len(addresses) + 1] = current_address
        /\ \A k \in 1 .. Len(addresses) : addresses'[k] = addresses[k]
    BY <1>3, <1>6, <1>7, AppendProperties
  <2> QED
    BY <1>6, <1>12, <2>1
<1>16. ASSUME NEW k \in 1 .. line, NEW x
       PROVE  CountAt(expanded, addresses', k, x) = CountAt(expanded, addresses, k, x)
  <2>1. k \in 1 .. Len(addresses) + 1
    BY <1>12
  <2> QED
    BY <1>3, <1>6, <1>7, <2>1, CountStable
<1>17. /\ current_address' \in Address
       /\ current_address' = AddressBehind(expanded, addresses', line)
  <2>1. CountAt(expanded, addresses', line, expanded[line]) = n
    BY <1>2, <1>16 DEF n
  <2>2. current_address' \in Address
    BY <1>4, <1>7, <1>11, AdvanceIsAddress
  <2>3. current_address' = advance_address(addresses'[line], n)
    BY <1>4, <1>11, <1>15
  <2>4. line # 0
    BY <1>2
  <2> QED
    BY <2>1, <2>2, <2>3, <2>4 DEF AddressBehind
<1>18. ASSUME NEW k \in 1 .. line
       PROVE  addresses'[k] = AddressBehind(expanded, addresses', k - 1)
  <2>1. addresses'[k] = AddressBehind(expanded, addresses, k - 1)
    <3>1. k = line \/ k \in 1 .. line - 1
      BY <1>2
    <3> QED
      BY <1>7, <1>8, <1>15, <3>1
  <2>2. CASE k - 1 = 0
    BY <2>1, <2>2 DEF AddressBehind
  <2>3. CASE k - 1 # 0
    <3>1. k - 1 \in 1 .. line /\ k - 1 \in 1 .. line - 1
      BY <1>2, <2>3
    <3>2. CountAt(expanded, addresses', k - 1, expanded[k - 1])
            = CountAt(expanded, addresses, k - 1, expanded[k - 1])
      BY <1>16, <3>1
    <3> QED
      BY <1>15, <2>1, <2>3, <3>1, <3>2 DEF AddressBehind
  <2> QED
    BY <2>2, <2>3
<1> HIDE DEF l
<1>19. Numbered' = line /\ line' - 1 = line /\ line' \in 1 .. Len(expanded) + 1
  <2>1. line' - 1 = line
    BY <1>2
  <2>2. line' \in 1 .. Len(expanded) + 1
    BY <1>2
  <2> QED
    BY <1>1, <2>1, <2>2 DEF Numbered
<1>20. Tabulated(Numbered + 1)'
  BY <1>1, <1>13, <1>14, <1>19 DEF Tabulated
<1>21. current_address' = AddressBehind(expanded, addresses', line' - 1)
  BY <1>17, <1>19
<1> QED
  BY <1>1, <1>13, <1>14, <1>15, <1>17, <1>18, <1>19, <1>20, <1>21 DEF LayInv

LEMMA LayInvariance == AsmSpec => []LayInv
<1>1. AsmInit => LayInv
  BY DEF AsmInit, IncInit, LayInv
<1>2. IncTypeOK /\ LayInv /\ [AsmNext]_allVars => LayInv'
  <2> SUFFICES ASSUME IncTypeOK, LayInv, [AsmNext]_allVars PROVE LayInv'
    OBVIOUS
  <2>0. Len(expanded) \in Nat
    BY DEF IncTypeOK
  <2>1. CASE Expand /\ UNCHANGED asmVars
    <3>1. phase = "expand" /\ phase' \in {"expand", "pass 1", "failed"}
      BY <2>1 DEF Expand, CopyLine, DropInclude, Include, RejectInclude,
                  EndOfFile, HasLine, Exit
    <3>2. /\ line' = 1 /\ current_address' = Origin
          /\ label_table' = <<>> /\ constant_table' = <<>> /\ addresses' = <<>>
      BY <2>1, <3>1 DEF asmVars, LayInv
    <3>3. CASE phase' = "pass 1"
      <4>1. expanded' = expanded
        BY <2>1, <3>1, <3>3
        DEF Expand, CopyLine, DropInclude, Include, RejectInclude, EndOfFile, Exit
      <4>2. Numbered' = 0 /\ Numbered' + 1 = 1
        <5>1. Numbered' = line' - 1 /\ line' = 1
          BY <3>2, <3>3 DEF Numbered
        <5> QED
          BY <5>1
      <4>3. Tabulated(Numbered + 1)'
        <5>1. \A kind, name : ~Above(expanded, 1, kind, name)
          BY DEF Above, LinesIn
        <5>2. LabelsOf(<<>>, expanded, <<>>, 1) /\ ConstantsOf(<<>>, expanded, 1)
          BY <5>1 DEF LabelsOf, ConstantsOf, Defined
        <5> QED
          BY <3>2, <4>1, <4>2, <5>2 DEF Tabulated
      <4>4. Origin \in Address /\ line' - 1 = 0
        BY <3>2, WordSizeAssumption DEF Origin, Place, Address
      <4>5. line' \in 1 .. Len(expanded') + 1
        <5>1. 1 \in 1 .. Len(expanded) + 1
          BY <2>0
        <5>2. line' = 1
          BY <3>2
        <5> QED
          BY <4>1, <5>1, <5>2
      <4>6. current_address' = AddressBehind(expanded', addresses', line' - 1)
        BY <3>2, <4>4 DEF AddressBehind
      <4>7. /\ label_table' \in Seq(Bindings) /\ constant_table' \in Seq(Bindings)
            /\ addresses' \in Seq(Address) /\ Len(addresses') = Numbered'
            /\ \A k \in 1 .. Numbered' : FALSE
        BY <3>2, <4>2
      <4>8. current_address' \in Address
        BY <3>2, <4>4
      <4> QED
        BY <3>3, <4>3, <4>5, <4>6, <4>7, <4>8 DEF LayInv
    <3>4. CASE phase' \in {"expand", "failed"}
      BY <3>2, <3>4 DEF LayInv
    <3> QED
      BY <3>1, <3>3, <3>4
  <2>2. CASE PassOneLine
    BY <2>2, LayPassOne
  <2>3. CASE PassOneClash \/ PassTwoClash
    BY <2>3 DEF PassOneClash, PassTwoClash, Exit, LayInv
  <2>4. CASE PassOneEnds
    <3>1. /\ phase = "pass 1" /\ phase' = "pass 2" /\ ~(line <= Len(expanded))
          /\ UNCHANGED <<label_table, constant_table, addresses, expanded>>
      BY <2>4 DEF PassOneEnds, AnyLine, KeepFiles
    <3>2. line \in 1 .. Len(expanded) + 1
      BY <3>1 DEF LayInv
    <3>3. line - 1 = Len(expanded)
      <4>1. ~(line <= Len(expanded))
        BY <3>1
      <4> QED
        BY <2>0, <3>2, <4>1
    <3>4. Numbered' = Numbered
      BY <3>1, <3>3 DEF Numbered
    <3> QED
      BY <3>1, <3>4 DEF LayInv, Tabulated
  <2>5. CASE PassTwoLine \/ PassTwoEnds
    <3>1. /\ phase = "pass 2" /\ phase' \in {"pass 2", "saved", "failed"}
          /\ UNCHANGED <<label_table, constant_table, addresses, expanded>>
      BY <2>5 DEF PassTwoLine, PassTwoEnds, Exit, KeepFiles, asmVars
    <3>2. phase' # "failed" => Numbered' = Numbered
      BY <3>1 DEF Numbered
    <3> QED
      BY <3>1, <3>2 DEF LayInv, Tabulated
  <2>6. CASE UNCHANGED allVars
    BY <2>6 DEF allVars, incVars, asmVars, LayInv, Tabulated, Numbered
  <2> QED
    BY <2>1, <2>2, <2>3, <2>4, <2>5, <2>6 DEF AsmNext, Ended
<1> QED
  BY <1>1, <1>2, IncTyped, PTL DEF AsmSpec
-----------------------------------------------------------------------------
(* Where both passes give a line one size                                  *)

LEMMA MnemonicsDiffer ==
    \A e, f \in optable : e.mnemonic = f.mnemonic => e = f
BY DEF optable, Entry, ShiftOpcode, MaskM, ShiftD

LEMMA LookupIs ==
    ASSUME NEW e \in optable
    PROVE  lookup_opcode(e.mnemonic) = e
<1>1. lookup_opcode(e.mnemonic) \in optable
      /\ lookup_opcode(e.mnemonic).mnemonic = e.mnemonic
  BY DEF lookup_opcode
<1> QED
  BY <1>1, MnemonicsDiffer

LEMMA ConcatOfTwo ==
    ASSUME NEW x, NEW y
    PROVE  /\ <<>> \o <<>> = <<>>
           /\ <<x>> \o <<>> = <<x>>
           /\ <<>> \o <<y>> = <<y>>
           /\ <<x>> \o <<y>> = <<x, y>>
<1>1. <<>> \in Seq({x, y}) /\ <<x>> \in Seq({x, y}) /\ <<y>> \in Seq({x, y})
      /\ <<x, y>> \in Seq({x, y})
  OBVIOUS
<1>2. /\ <<>> \o <<>> = <<>>
      /\ <<x>> \o <<>> = <<x>>
      /\ <<>> \o <<y>> = <<y>>
  BY <1>1, ConcatEmptySeq
<1>3. <<x>> \o <<y>> = <<x, y>>
  <2> DEFINE s == <<x>>
             t == <<y>>
             st == s \o t
  <2>1. Len(s) = 1 /\ Len(t) = 1 /\ s[1] = x /\ t[1] = y
    OBVIOUS
  <2>2. /\ st \in Seq({x, y}) /\ Len(st) = Len(s) + Len(t)
        /\ \A i \in 1 .. Len(s) + Len(t) :
              st[i] = IF i <= Len(s) THEN s[i] ELSE t[i - Len(s)]
    BY <1>1, ConcatProperties
  <2> HIDE DEF s, t, st
  <2>3. Len(st) = 2 /\ st[1] = x /\ st[2] = y
    BY <2>1, <2>2
  <2>4. Len(<<x, y>>) = 2 /\ <<x, y>>[1] = x /\ <<x, y>>[2] = y
    OBVIOUS
  <2>5. Len(st) = Len(<<x, y>>) /\ \A i \in 1 .. Len(st) : st[i] = <<x, y>>[i]
    BY <2>3, <2>4
  <2> QED
    BY <1>1, <2>2, <2>5, SeqEqual DEF s, t, st
<1> QED
  BY <1>2, <1>3

\* The two fields of an instruction with two source operands.
LEMMA ImmediatesOfTwo ==
    ASSUME NEW form, NEW ops, NEW x, NEW y,
           Field(form, ops, 1) = <<x>>, Field(form, ops, 2) = <<y>>
    PROVE  Immediates(form, ops)
             = IF IsImmediate(x)
                 THEN IF IsImmediate(y) THEN <<x, y>> ELSE <<x>>
                 ELSE IF IsImmediate(y) THEN <<y>> ELSE <<>>
<1>1. \A o : ImmediateOf(<<o>>) = IF IsImmediate(o) THEN <<o>> ELSE <<>>
  BY DEF ImmediateOf
<1> QED
  BY <1>1, ConcatOfTwo DEF Immediates

LEMMA ImmediatesOfOne ==
    ASSUME NEW form, NEW ops, NEW x,
           Field(form, ops, 1) = <<x>>, Field(form, ops, 2) = <<>>
    PROVE  Immediates(form, ops) = IF IsImmediate(x) THEN <<x>> ELSE <<>>
<1>1. ImmediateOf(<<x>>) = IF IsImmediate(x) THEN <<x>> ELSE <<>>
  BY DEF ImmediateOf
<1>2. ImmediateOf(<<>>) = <<>>
  BY DEF ImmediateOf
<1> QED
  BY <1>1, <1>2, ConcatOfTwo DEF Immediates

\* An immediate that lies in another bank.
Far(o) == IsImmediate(o) /\ Resolve(o).bank # 0

LEMMA LayoutOfTwo ==
    ASSUME NEW form, NEW ops, NEW x, NEW y,
           Field(form, ops, 1) = <<x>>, Field(form, ops, 2) = <<y>>
    PROVE  LayoutWords(label_table, constant_table, form, ops)
             = 1 + (IF IsImmediate(x) THEN 1 ELSE 0)
                 + (IF IsImmediate(y) THEN 1 ELSE 0)
                 + (IF Far(x) \/ Far(y) THEN 4 ELSE 0)
<1> DEFINE imms == Immediates(form, ops)
           banks == BanksNeeded(label_table, constant_table, imms)
<1>1. imms = IF IsImmediate(x)
               THEN IF IsImmediate(y) THEN <<x, y>> ELSE <<x>>
               ELSE IF IsImmediate(y) THEN <<y>> ELSE <<>>
  BY ImmediatesOfTwo
<1>2. LayoutWords(label_table, constant_table, form, ops)
        = 1 + Len(imms) + (IF banks # {} THEN 4 ELSE 0)
  BY DEF LayoutWords
<1>3. banks = {Resolve(imms[i]).bank : i \in 1 .. Len(imms)} \ {0}
  BY DEF BanksNeeded, Resolve
<1> HIDE DEF imms, banks
<1>4. banks # {} <=> \E i \in 1 .. Len(imms) : Resolve(imms[i]).bank # 0
  BY <1>3
<1>5. CASE IsImmediate(x) /\ IsImmediate(y)
  <2>1. imms = <<x, y>> /\ Len(imms) = 2 /\ imms[1] = x /\ imms[2] = y
    BY <1>1, <1>5
  <2>2. banks # {} <=> Far(x) \/ Far(y)
    BY <1>4, <1>5, <2>1 DEF Far
  <2> QED
    BY <1>2, <1>5, <2>1, <2>2
<1>6. CASE IsImmediate(x) /\ ~IsImmediate(y)
  <2>1. imms = <<x>> /\ Len(imms) = 1 /\ imms[1] = x
    BY <1>1, <1>6
  <2>2. banks # {} <=> Far(x) \/ Far(y)
    BY <1>4, <1>6, <2>1 DEF Far
  <2> QED
    BY <1>2, <1>6, <2>1, <2>2
<1>7. CASE ~IsImmediate(x) /\ IsImmediate(y)
  <2>1. imms = <<y>> /\ Len(imms) = 1 /\ imms[1] = y
    BY <1>1, <1>7
  <2>2. banks # {} <=> Far(x) \/ Far(y)
    BY <1>4, <1>7, <2>1 DEF Far
  <2> QED
    BY <1>2, <1>7, <2>1, <2>2
<1>8. CASE ~IsImmediate(x) /\ ~IsImmediate(y)
  <2>1. imms = <<>> /\ Len(imms) = 0
    BY <1>1, <1>8
  <2>2. banks = {} /\ ~Far(x) /\ ~Far(y)
    BY <1>4, <1>8, <2>1 DEF Far
  <2> QED
    BY <1>2, <1>8, <2>1, <2>2
<1> QED
  BY <1>5, <1>6, <1>7, <1>8

LEMMA LayoutOfOne ==
    ASSUME NEW form, NEW ops, NEW x,
           Field(form, ops, 1) = <<x>>, Field(form, ops, 2) = <<>>
    PROVE  LayoutWords(label_table, constant_table, form, ops)
             = 1 + (IF IsImmediate(x) THEN 1 ELSE 0) + (IF Far(x) THEN 4 ELSE 0)
<1> DEFINE imms == Immediates(form, ops)
           banks == BanksNeeded(label_table, constant_table, imms)
<1>1. imms = IF IsImmediate(x) THEN <<x>> ELSE <<>>
  BY ImmediatesOfOne
<1>2. LayoutWords(label_table, constant_table, form, ops)
        = 1 + Len(imms) + (IF banks # {} THEN 4 ELSE 0)
  BY DEF LayoutWords
<1>3. banks = {Resolve(imms[i]).bank : i \in 1 .. Len(imms)} \ {0}
  BY DEF BanksNeeded, Resolve
<1> HIDE DEF imms, banks
<1>4. banks # {} <=> \E i \in 1 .. Len(imms) : Resolve(imms[i]).bank # 0
  BY <1>3
<1>5. CASE IsImmediate(x)
  <2>1. imms = <<x>> /\ Len(imms) = 1 /\ imms[1] = x
    BY <1>1, <1>5
  <2>2. banks # {} <=> Far(x)
    BY <1>4, <1>5, <2>1 DEF Far
  <2> QED
    BY <1>2, <1>5, <2>1, <2>2
<1>6. CASE ~IsImmediate(x)
  <2>1. imms = <<>> /\ Len(imms) = 0
    BY <1>1, <1>6
  <2>2. banks = {} /\ ~Far(x)
    BY <1>4, <1>6, <2>1 DEF Far
  <2> QED
    BY <1>2, <1>6, <2>1, <2>2
<1> QED
  BY <1>5, <1>6

\* The operands of the forms that the assembler itself makes instructions of.
LEMMA FieldsOf ==
    /\ \A v, x, y : /\ Field("R_R_R", <<v, x, y>>, 1) = <<x>>
                    /\ Field("R_R_R", <<v, x, y>>, 2) = <<y>>
    /\ \A x, y : /\ Field("N_R_R", <<x, y>>, 1) = <<x>>
                 /\ Field("N_R_R", <<x, y>>, 2) = <<y>>
    /\ \A x : /\ Field("N_R_N", <<x>>, 1) = <<x>>
              /\ Field("N_R_N", <<x>>, 2) = <<>>
BY DEF Field, Slots

LEMMA FormsOf ==
    /\ \A name \in {"ADD", "SUB", "AND", "OR", "XOR"} :
          lookup_opcode(name).form = "R_R_R"
    /\ lookup_opcode("STM").form = "N_R_R"
    /\ \A name \in {"CAL", "EAM.SET"} : lookup_opcode(name).form = "N_R_N"
<1>1. ASSUME NEW e \in optable
      PROVE  lookup_opcode(e.mnemonic).form = e.form
  BY LookupIs
<1>2. /\ Entry("ADD", 1, FALSE, 0, "R_R_R") \in optable
      /\ Entry("SUB", 2, FALSE, 0, "R_R_R") \in optable
      /\ Entry("AND", 3, FALSE, 0, "R_R_R") \in optable
      /\ Entry("OR", 4, FALSE, 0, "R_R_R") \in optable
      /\ Entry("XOR", 6, FALSE, 0, "R_R_R") \in optable
  BY DEF optable
<1>3. /\ Entry("STM", 10, FALSE, 0, "N_R_R") \in optable
      /\ Entry("CAL", 13, FALSE, 0, "N_R_N") \in optable
      /\ Entry("EAM.SET", 0, FALSE, 0, "N_R_N") \in optable
  BY DEF optable
<1>4. \A name \in {"ADD", "SUB", "AND", "OR", "XOR"} :
         lookup_opcode(name).form = "R_R_R"
  BY <1>1, <1>2 DEF Entry
<1>5. lookup_opcode("STM").form = "N_R_R"
  BY <1>1, <1>3 DEF Entry
<1>6. \A name \in {"CAL", "EAM.SET"} : lookup_opcode(name).form = "N_R_N"
  BY <1>1, <1>3 DEF Entry
<1> QED
  BY <1>4, <1>5, <1>6

LEMMA CompiledIsSeq ==
    ASSUME NEW name, NEW suffixed, NEW ops
    PROVE  /\ IsSeq(Compile(name, suffixed, ops))
           /\ Len(Compile(name, suffixed, ops))
                = LayoutWords(label_table, constant_table,
                              lookup_opcode(name).form, ops)
BY EncodedLength DEF Compile

LEMMA EmptyIsSeq == IsSeq(<<>>) /\ Len(<<>>) = 0
BY DEF IsSeq

LEMMA AssignIsSeq ==
    ASSUME NEW l
    PROVE  IsSeq(AssignCode(l))
<1> DEFINE code == [i \in 1 .. Len(Expansion(l)) |->
                      Compile(Expansion(l)[i].mnemonic, FALSE, Expansion(l)[i].ops)]
<1>1. Len(Expansion(l)) \in {0, 1, 2}
  BY DEF Expansion
<1>2. Len(code) \in {0, 1, 2} /\ \A i \in 1 .. Len(code) : IsSeq(code[i])
  <2>1. Len(code) = Len(Expansion(l))
    BY <1>1
  <2>2. ASSUME NEW i \in 1 .. Len(code)
        PROVE  IsSeq(code[i])
    <3>1. code[i] = Compile(Expansion(l)[i].mnemonic, FALSE, Expansion(l)[i].ops)
      BY <2>1
    <3> HIDE DEF code
    <3> QED
      BY <3>1, CompiledIsSeq
  <2> QED
    BY <1>1, <2>1, <2>2
<1>3. AssignCode(l) = CASE Len(code) = 0 -> <<>>
                        [] Len(code) = 1 -> code[1]
                        [] OTHER -> code[1] \o code[2]
  BY DEF AssignCode
<1> HIDE DEF code
<1>4. CASE Len(code) = 0
  BY <1>3, <1>4, EmptyIsSeq
<1>5. CASE Len(code) = 1
  BY <1>2, <1>3, <1>5
<1>6. CASE Len(code) = 2
  BY <1>2, <1>3, <1>6, Joined
<1> QED
  BY <1>2, <1>4, <1>5, <1>6

LEMMA LineIsSeq ==
    ASSUME NEW l, IsLine(l)
    PROVE  IsSeq(PassTwoWords(l))
<1>1. CASE Assigns(l)
  BY <1>1, AssignIsSeq DEF PassTwoWords
<1>2. CASE ~Assigns(l) /\ l.kind = "HEX"
  BY <1>2, SeqIsSeq DEF IsLine, PassTwoWords
<1>3. CASE ~Assigns(l) /\ l.kind = "call"
  BY <1>3, CompiledIsSeq DEF PassTwoWords, CallCode
<1>4. CASE ~Assigns(l) /\ l.kind = "print"
  <2>1. PassTwoWords(l) = PrintCode
    BY <1>4 DEF PassTwoWords
  <2>2. IsSeq(PrintCode)
    <3> DEFINE a == Number(Place(0, 2047 % WordSize))
               x == Compile("EAM.SET", FALSE, <<a>>)
               y == Compile("STM", TRUE,
                            <<Register(0), Number(Place(0, WordSize - 1))>>)
               z == Compile("EAM.SET", FALSE, <<Number(Origin)>>)
    <3>1. PrintCode = (x \o y) \o z
      BY DEF PrintCode
    <3> HIDE DEF a
    <3>2. IsSeq(x)
      BY CompiledIsSeq
    <3>3. IsSeq(y)
      BY CompiledIsSeq
    <3>4. IsSeq(z)
      BY CompiledIsSeq
    <3> HIDE DEF x, y, z
    <3> QED
      BY <3>1, <3>2, <3>3, <3>4, Joined
  <2> QED
    BY <2>1, <2>2
<1>5. CASE ~Assigns(l) /\ l.kind = "code"
  BY <1>5, CompiledIsSeq, EmptyIsSeq DEF PassTwoWords
<1>6. CASE ~Assigns(l) /\ l.kind \notin {"HEX", "call", "print", "code"}
  BY <1>6, EmptyIsSeq DEF PassTwoWords
<1> QED
  BY <1>1, <1>2, <1>3, <1>4, <1>5, <1>6

\* The instructions that the assembler itself makes, and their sizes.
Plain(name, ops) == Compile(name, FALSE, ops)
WithSuffix(name, ops) == Compile(name, TRUE, ops)

LEMMA MadeIsSeq ==
    ASSUME NEW name, NEW ops
    PROVE  /\ IsSeq(Plain(name, ops)) /\ IsSeq(WithSuffix(name, ops))
           /\ Len(Plain(name, ops))
                = LayoutWords(label_table, constant_table,
                              lookup_opcode(name).form, ops)
           /\ Len(WithSuffix(name, ops))
                = LayoutWords(label_table, constant_table,
                              lookup_opcode(name).form, ops)
BY CompiledIsSeq, Zenon DEF Plain, WithSuffix

LEMMA SizeOfOne ==
    ASSUME NEW name \in {"CAL", "EAM.SET"}, NEW x
    PROVE  Len(Plain(name, <<x>>))
             = 1 + (IF IsImmediate(x) THEN 1 ELSE 0) + (IF Far(x) THEN 4 ELSE 0)
<1>1. Len(Plain(name, <<x>>))
        = LayoutWords(label_table, constant_table, "N_R_N", <<x>>)
  BY MadeIsSeq, FormsOf
<1> QED
  BY <1>1, FieldsOf, LayoutOfOne

LEMMA SizeOfTwo ==
    ASSUME NEW x, NEW y
    PROVE  Len(WithSuffix("STM", <<x, y>>))
             = 1 + (IF IsImmediate(x) THEN 1 ELSE 0)
                 + (IF IsImmediate(y) THEN 1 ELSE 0)
                 + (IF Far(x) \/ Far(y) THEN 4 ELSE 0)
<1>1. Len(WithSuffix("STM", <<x, y>>))
        = LayoutWords(label_table, constant_table, "N_R_R", <<x, y>>)
  BY MadeIsSeq, FormsOf
<1> QED
  BY <1>1, FieldsOf, LayoutOfTwo

LEMMA SizeOfThree ==
    ASSUME NEW name \in {"ADD", "SUB", "AND", "OR", "XOR"}, NEW v, NEW x, NEW y
    PROVE  Len(Plain(name, <<v, x, y>>))
             = 1 + (IF IsImmediate(x) THEN 1 ELSE 0)
                 + (IF IsImmediate(y) THEN 1 ELSE 0)
                 + (IF Far(x) \/ Far(y) THEN 4 ELSE 0)
<1>1. Len(Plain(name, <<v, x, y>>))
        = LayoutWords(label_table, constant_table, "R_R_R", <<v, x, y>>)
  BY MadeIsSeq, FormsOf
<1> QED
  BY <1>1, FieldsOf, LayoutOfTwo

\* The code of an assignment of one instruction, and of two.
LEMMA AssignOne ==
    ASSUME NEW l, NEW name, NEW ops,
           Expansion(l) = <<[mnemonic |-> name, ops |-> ops]>>
    PROVE  AssignCode(l) = Plain(name, ops)
<1> DEFINE code == [i \in 1 .. Len(Expansion(l)) |->
                      Plain(Expansion(l)[i].mnemonic, Expansion(l)[i].ops)]
<1>1. /\ Len(Expansion(l)) = 1
      /\ Expansion(l)[1].mnemonic = name /\ Expansion(l)[1].ops = ops
  OBVIOUS
<1>2. Len(code) = 1
  BY <1>1
<1>3. code[1] = Plain(Expansion(l)[1].mnemonic, Expansion(l)[1].ops)
  BY <1>1
<1>4. AssignCode(l) = CASE Len(code) = 0 -> <<>>
                        [] Len(code) = 1 -> code[1]
                        [] OTHER -> code[1] \o code[2]
  BY DEF AssignCode, Plain
<1> HIDE DEF code
<1> QED
  BY <1>1, <1>2, <1>3, <1>4

LEMMA AssignTwo ==
    ASSUME NEW l, Len(Expansion(l)) = 2
    PROVE  AssignCode(l)
             = Plain(Expansion(l)[1].mnemonic, Expansion(l)[1].ops)
                 \o Plain(Expansion(l)[2].mnemonic, Expansion(l)[2].ops)
<1> DEFINE code == [i \in 1 .. Len(Expansion(l)) |->
                      Plain(Expansion(l)[i].mnemonic, Expansion(l)[i].ops)]
<1>1. 1 \in 1 .. Len(Expansion(l)) /\ 2 \in 1 .. Len(Expansion(l))
  OBVIOUS
<1>2. Len(code) = 2
  OBVIOUS
<1>3. /\ code[1] = Plain(Expansion(l)[1].mnemonic, Expansion(l)[1].ops)
      /\ code[2] = Plain(Expansion(l)[2].mnemonic, Expansion(l)[2].ops)
  BY <1>1
<1>4. AssignCode(l) = CASE Len(code) = 0 -> <<>>
                        [] Len(code) = 1 -> code[1]
                        [] OTHER -> code[1] \o code[2]
  BY DEF AssignCode, Plain
<1> HIDE DEF code
<1> QED
  BY <1>1, <1>2, <1>3, <1>4

\* Both passes take a steady operand for the same bank.
LEMMA SteadyBank ==
    ASSUME Len(expanded) \in Nat, Tabulated(Len(expanded) + 1),
           NEW k \in 1 .. Len(expanded), NEW o \in Operand, IsImmediate(o),
           Steady(k, o)
    PROVE  Resolve(o).bank = BankAt(expanded, addresses, k, o)
<1>1. \A kind, name : LinesWith(kind, name) = LinesIn(expanded, kind, name)
  BY DEF LinesWith, LinesIn
<1>2. \A kind, name :
         Above(expanded, Len(expanded) + 1, kind, name)
           <=> LinesIn(expanded, kind, name) # {}
  BY DEF Above, LinesIn
<1>3. Resolve(o).bank = BankAt(expanded, addresses, Len(expanded) + 1, o)
  BY ResolvedBank
<1>4. CASE o.type # "name"
  <2>1. o.type = "number"
    BY <1>4 DEF Operand, IsImmediate
  <2> QED
    BY <1>3, <2>1 DEF BankAt
<1>5. CASE o.type = "name" /\ \E j \in LinesWith("label", o.name) : j < k
  BY <1>1, <1>2, <1>3, <1>5 DEF BankAt, Above
<1>6. CASE /\ o.type = "name" /\ LinesWith("label", o.name) = {}
           /\ \E j \in LinesWith("define", o.name) : j < k
  <2>1. /\ ~Above(expanded, k, "label", o.name)
        /\ ~Above(expanded, Len(expanded) + 1, "label", o.name)
        /\ Above(expanded, k, "define", o.name)
        /\ Above(expanded, Len(expanded) + 1, "define", o.name)
    BY <1>1, <1>2, <1>6 DEF Above
  <2> QED
    BY <1>3, <1>6, <2>1 DEF BankAt
<1>7. CASE /\ o.type = "name" /\ Resolve(o).bank = 0
           /\ \A j \in LinesWith("define", o.name) : expanded[j].value.bank = 0
  <2>1. CASE Above(expanded, k, "label", o.name)
    BY <1>1, <1>5, <1>7, <2>1 DEF Above
  <2>2. CASE /\ ~Above(expanded, k, "label", o.name)
             /\ Above(expanded, k, "define", o.name)
    <3>1. FirstLine(expanded, "define", o.name) \in LinesWith("define", o.name)
      BY <1>1, <2>2, FirstLineIs DEF Above
    <3> QED
      BY <1>7, <2>2, <3>1 DEF BankAt
  <2>3. CASE /\ ~Above(expanded, k, "label", o.name)
             /\ ~Above(expanded, k, "define", o.name)
    BY <1>7, <2>3 DEF BankAt
  <2> QED
    BY <2>1, <2>2, <2>3
<1> QED
  BY <1>4, <1>5, <1>6, <1>7 DEF Steady

LEMMA SettledCall ==
    ASSUME Len(expanded) \in Nat, Tabulated(Len(expanded) + 1),
           NEW k \in 1 .. Len(expanded), IsLine(expanded[k]), Settled(k),
           expanded[k].kind = "call"
    PROVE  Len(PassTwoWords(expanded[k])) = 2
<1> DEFINE name == expanded[k].target
           o == Number(First(label_table, name))
<1>1. /\ name \in STRING /\ LinesWith("label", name) # {}
      /\ First(label_table, name).bank = 0
  BY DEF IsLine, Settled
<1>2. Above(expanded, Len(expanded) + 1, "label", name)
  BY <1>1 DEF Above, LinesWith, LinesIn
<1>3. Defined(label_table, name)
  BY <1>1, <1>2 DEF Tabulated, LabelsOf
<1>4. PassTwoWords(expanded[k]) = Plain("CAL", <<o>>)
  BY <1>3 DEF PassTwoWords, Assigns, CallCode, Plain
<1>5. IsImmediate(o) /\ ~Far(o)
  BY <1>1 DEF IsImmediate, Far, Resolve, resolve_address, Number
<1> HIDE DEF o
<1>6. Len(Plain("CAL", <<o>>)) = 2
  <2>1. Len(Plain("CAL", <<o>>))
          = 1 + (IF IsImmediate(o) THEN 1 ELSE 0) + (IF Far(o) THEN 4 ELSE 0)
    BY SizeOfOne, Zenon
  <2> QED
    BY <1>5, <2>1
<1> QED
  BY <1>4, <1>6

LEMMA PrintLength == Len(PrintCode) = 6
<1> DEFINE a == Number(Place(0, 2047 % WordSize))
           b == Number(Place(0, WordSize - 1))
           c == Number(Origin)
           r == Register(0)
<1>1. /\ IsImmediate(a) /\ IsImmediate(b) /\ IsImmediate(c) /\ ~IsImmediate(r)
      /\ ~Far(a) /\ ~Far(b) /\ ~Far(c) /\ ~Far(r)
  BY DEF IsImmediate, Far, Resolve, resolve_address, Number, Register, Place, Origin
<1> DEFINE x == Plain("EAM.SET", <<a>>)
           y == WithSuffix("STM", <<r, b>>)
           z == Plain("EAM.SET", <<c>>)
<1>2. PrintCode = (x \o y) \o z
  BY DEF PrintCode, Plain, WithSuffix
<1> HIDE DEF a, b, c, r
<1>3. IsSeq(x) /\ Len(x) = 2
  <2>1. Len(x) = 1 + (IF IsImmediate(a) THEN 1 ELSE 0) + (IF Far(a) THEN 4 ELSE 0)
    BY SizeOfOne, Zenon
  <2>2. IsSeq(x)
    BY MadeIsSeq
  <2> HIDE DEF x
  <2> QED
    BY <1>1, <2>1, <2>2
<1>4. IsSeq(y) /\ Len(y) = 2
  <2>1. Len(y) = 1 + (IF IsImmediate(r) THEN 1 ELSE 0)
                   + (IF IsImmediate(b) THEN 1 ELSE 0)
                   + (IF Far(r) \/ Far(b) THEN 4 ELSE 0)
    BY SizeOfTwo, Zenon
  <2>2. IsSeq(y)
    BY MadeIsSeq
  <2> HIDE DEF y
  <2> QED
    BY <1>1, <2>1, <2>2
<1>5. IsSeq(z) /\ Len(z) = 2
  <2>1. Len(z) = 1 + (IF IsImmediate(c) THEN 1 ELSE 0) + (IF Far(c) THEN 4 ELSE 0)
    BY SizeOfOne, Zenon
  <2>2. IsSeq(z)
    BY MadeIsSeq
  <2> HIDE DEF z
  <2> QED
    BY <1>1, <2>1, <2>2
<1> HIDE DEF x, y, z
<1>6. IsSeq(x \o y) /\ Len(x \o y) = Len(x) + Len(y)
  BY <1>3, <1>4, Joined
<1>7. Len((x \o y) \o z) = Len(x \o y) + Len(z)
  BY <1>5, <1>6, Joined
<1> QED
  BY <1>2, <1>3, <1>4, <1>5, <1>6, <1>7

LEMMA SettledCode ==
    ASSUME Len(expanded) \in Nat, Tabulated(Len(expanded) + 1),
           NEW k \in 1 .. Len(expanded), IsLine(expanded[k]), Settled(k),
           expanded[k].kind = "code"
    PROVE  Len(PassTwoWords(expanded[k]))
             = CodeCountAt(expanded, addresses, k, expanded[k])
<1> DEFINE l == expanded[k]
           imms == Immediates(lookup_opcode(l.mnemonic).form, l.ops)
<1>1. /\ l.ops \in Seq(Operand) /\ Known(l.mnemonic, l.suffixed)
      /\ \A i \in 1 .. Len(l.ops) : Steady(k, l.ops[i])
  BY DEF IsLine, Settled
<1>2. Len(PassTwoWords(l)) = Layout(l)
  BY <1>1, CompiledIsSeq DEF PassTwoWords, Assigns, MayAssign, Layout
<1>3. CodeCountAt(expanded, addresses, k, l) = 1 + Len(imms)
        + (IF \E i \in 1 .. Len(imms) : BankAt(expanded, addresses, k, imms[i]) # 0
           THEN 4 ELSE 0)
  BY DEF CodeCountAt
<1>4. Layout(l) = 1 + Len(imms)
        + (IF BanksNeeded(label_table, constant_table, imms) # {} THEN 2 + 2 ELSE 0)
  BY DEF Layout, LayoutWords
<1>5. /\ imms \in Seq(Operand) /\ Len(imms) \in Nat
      /\ \A i \in 1 .. Len(imms) : /\ IsImmediate(imms[i])
                                   /\ \E j \in 1 .. Len(l.ops) : imms[i] = l.ops[j]
  BY <1>1, ImmediatesAre
<1> HIDE DEF imms, l
<1>6. ASSUME NEW i \in 1 .. Len(imms)
      PROVE  Resolve(imms[i]).bank = BankAt(expanded, addresses, k, imms[i])
  <2>1. imms[i] \in Operand /\ IsImmediate(imms[i]) /\ Steady(k, imms[i])
    BY <1>1, <1>5
  <2> QED
    BY <2>1, SteadyBank
<1>7. BanksNeeded(label_table, constant_table, imms) # {}
        <=> \E i \in 1 .. Len(imms) : BankAt(expanded, addresses, k, imms[i]) # 0
  BY <1>6 DEF BanksNeeded, Resolve
<1> QED
  BY <1>2, <1>3, <1>4, <1>7 DEF l

LEMMA SettledAssign ==
    ASSUME Len(expanded) \in Nat, Tabulated(Len(expanded) + 1),
           NEW k \in 1 .. Len(expanded), IsLine(expanded[k]), Settled(k),
           expanded[k].kind = "assign"
    PROVE  Len(PassTwoWords(expanded[k]))
             = AssignCountAt(expanded, addresses, k, expanded[k])
<1> DEFINE l == expanded[k]
           v == l.var
           N(o) == IF ~IsImmediate(o) THEN 0 ELSE IF Far(o) THEN 5 ELSE 1
<1>1. /\ l.sign \in {"+", "-", "&", "|", "^", "copy"} /\ v \in Operand
      /\ l.args \in Seq(Operand) /\ Len(l.args) = ArgumentCount(l.sign)
      /\ \A i \in 1 .. Len(l.args) : Steady(k, l.args[i])
      /\ Assigns(l)
  BY DEF IsLine, IsAssignment, MayAssign, Settled, Signs, Assigns
<1>2. ASSUME NEW i \in 1 .. Len(l.args)
      PROVE  ArgumentCountAt(expanded, addresses, k, l.args[i]) = N(l.args[i])
  <2>1. l.args[i] \in Operand /\ Steady(k, l.args[i])
    BY <1>1
  <2>2. IsImmediate(l.args[i]) =>
           Resolve(l.args[i]).bank = BankAt(expanded, addresses, k, l.args[i])
    BY <2>1, SteadyBank
  <2> QED
    BY <2>2 DEF ArgumentCountAt, Far
<1>3. CASE l.sign = "copy"
  <2> DEFINE x == l.args[1]
             first == Plain("SUB", <<v, v, v>>)
             second == Plain("ADD", <<v, v, x>>)
  <2>1. 1 \in 1 .. Len(l.args) /\ v.type = "register"
    BY <1>1, <1>3 DEF ArgumentCount, Settled
  <2>2. ~IsImmediate(v) /\ ~Far(v)
    BY <2>1 DEF IsImmediate, Far
  <2>3. PassTwoWords(l) = first \o second
    <3>1. Expansion(l) = <<[mnemonic |-> "SUB", ops |-> <<v, v, v>>],
                           [mnemonic |-> "ADD", ops |-> <<v, v, x>>]>>
      BY <1>3 DEF Expansion
    <3>2. /\ Len(Expansion(l)) = 2
          /\ Expansion(l)[1].mnemonic = "SUB" /\ Expansion(l)[1].ops = <<v, v, v>>
          /\ Expansion(l)[2].mnemonic = "ADD" /\ Expansion(l)[2].ops = <<v, v, x>>
      BY <3>1
    <3>3. AssignCode(l) = first \o second
      BY <3>2, AssignTwo
    <3> HIDE DEF first, second
    <3> QED
      BY <1>1, <3>3 DEF PassTwoWords
  <2> HIDE DEF x, v
  <2>4. IsSeq(first) /\ Len(first) = 1
    <3>1. Len(first) = 1 + (IF IsImmediate(v) THEN 1 ELSE 0)
                         + (IF IsImmediate(v) THEN 1 ELSE 0)
                         + (IF Far(v) \/ Far(v) THEN 4 ELSE 0)
      BY SizeOfThree, Zenon
    <3>2. IsSeq(first)
      BY MadeIsSeq
    <3> HIDE DEF first
    <3> QED
      BY <2>2, <3>1, <3>2
  <2>5. IsSeq(second) /\ Len(second) = 1 + N(x)
    <3>1. Len(second) = 1 + (IF IsImmediate(v) THEN 1 ELSE 0)
                          + (IF IsImmediate(x) THEN 1 ELSE 0)
                          + (IF Far(v) \/ Far(x) THEN 4 ELSE 0)
      BY SizeOfThree, Zenon
    <3>2. IsSeq(second)
      BY MadeIsSeq
    <3>3. Far(x) => IsImmediate(x)
      BY DEF Far
    <3> HIDE DEF second
    <3> QED
      BY <2>2, <3>1, <3>2, <3>3
  <2> HIDE DEF first, second
  <2>6. Len(first \o second) = Len(first) + Len(second)
    BY <2>4, <2>5, Joined
  <2>7. AssignCountAt(expanded, addresses, k, l) = 2 + N(x)
    BY <1>2, <1>3, <2>1 DEF AssignCountAt, x
  <2> QED
    BY <2>3, <2>4, <2>5, <2>6, <2>7
<1>4. CASE l.sign # "copy"
  <2> DEFINE x == l.args[1]
             y == l.args[2]
             only == Plain(Operator(l.sign), <<v, x, y>>)
  <2>1. 1 \in 1 .. Len(l.args) /\ 2 \in 1 .. Len(l.args)
    BY <1>1, <1>4 DEF ArgumentCount
  <2>2. ~Far(x) \/ ~Far(y)
    BY <1>4 DEF Settled, Far
  <2>3. Operator(l.sign) \in {"ADD", "SUB", "AND", "OR", "XOR"}
    BY <1>1, <1>4 DEF Operator
  <2>4. PassTwoWords(l) = only
    <3>1. Expansion(l) = <<[mnemonic |-> Operator(l.sign), ops |-> <<v, x, y>>]>>
      BY <1>1, <1>4 DEF Expansion
    <3>2. AssignCode(l) = only
      BY <3>1, AssignOne
    <3> HIDE DEF only
    <3> QED
      BY <1>1, <3>2 DEF PassTwoWords
  <2>5. AssignCountAt(expanded, addresses, k, l) = 1 + N(x) + N(y)
    BY <1>1, <1>2, <1>4, <2>1 DEF AssignCountAt
  <2> HIDE DEF x, y, v
  <2>6. Len(only) = 1 + (IF IsImmediate(x) THEN 1 ELSE 0)
                      + (IF IsImmediate(y) THEN 1 ELSE 0)
                      + (IF Far(x) \/ Far(y) THEN 4 ELSE 0)
    BY <2>3, SizeOfThree
  <2>7. (Far(x) => IsImmediate(x)) /\ (Far(y) => IsImmediate(y))
    BY DEF Far
  <2> HIDE DEF only
  <2> QED
    BY <2>2, <2>4, <2>5, <2>6, <2>7
<1> QED
  BY <1>3, <1>4

\* A settled line has one size.
LEMMA SettledSize ==
    ASSUME Len(expanded) \in Nat, Tabulated(Len(expanded) + 1),
           NEW k \in 1 .. Len(expanded), IsLine(expanded[k]), Settled(k)
    PROVE  Len(PassTwoWords(expanded[k]))
             = CountAt(expanded, addresses, k, expanded[k])
<1> DEFINE l == expanded[k]
<1>1. CASE l.kind = "HEX"
  BY <1>1 DEF PassTwoWords, Assigns, MayAssign, CountAt, Settled
<1>2. CASE l.kind = "call"
  BY <1>2, SettledCall DEF CountAt
<1>3. CASE l.kind = "print"
  BY <1>3, PrintLength DEF PassTwoWords, Assigns, CountAt, Settled
<1>4. CASE l.kind = "assign"
  BY <1>4, SettledAssign DEF CountAt
<1>5. CASE l.kind = "code"
  BY <1>5, SettledCode DEF CountAt, Settled
<1>6. CASE l.kind \in {"define", "malformed define"}
  <2>1. Assigns(l) /\ l.sign \in {"none", "unknown", "empty"}
    BY <1>6 DEF Assigns, MayAssign, Settled
  <2>2. Expansion(l) = <<>>
    BY <2>1 DEF Expansion
  <2>3. AssignCode(l) = <<>>
    BY <2>2 DEF AssignCode
  <2>4. PassTwoWords(l) = <<>> /\ CountAt(expanded, addresses, k, l) = 0
    BY <1>6, <2>1, <2>3 DEF PassTwoWords, CountAt
  <2> QED
    BY <2>4, EmptyIsSeq
<1>7. CASE l.kind \notin {"HEX", "print", "code"} \cup MayAssign
  <2>1. /\ ~Assigns(l)
        /\ l.kind \notin {"HEX", "print", "code", "call", "assign"}
    BY <1>7 DEF Assigns, MayAssign
  <2>2. PassTwoWords(l) = <<>> /\ CountAt(expanded, addresses, k, l) = 0
    BY <2>1 DEF PassTwoWords, CountAt
  <2> QED
    BY <2>2, EmptyIsSeq
<1> QED
  BY <1>1, <1>2, <1>3, <1>4, <1>5, <1>6, <1>7 DEF MayAssign
-----------------------------------------------------------------------------
(* Where the lines stand in the output                                     *)

LEMMA SameTables ==
    ASSUME label_table' = label_table, constant_table' = constant_table
    PROVE  \A l : PassTwoWords(l)' = PassTwoWords(l)
<1>1. ASSUME NEW name, NEW suffixed, NEW ops
      PROVE  Compile(name, suffixed, ops)' = Compile(name, suffixed, ops)
  BY DEF Compile
<1>2. PrintCode' = PrintCode
  BY DEF PrintCode, Compile
<1>3. ASSUME NEW l
      PROVE  CallCode(l)' = CallCode(l) /\ Assigns(l)' = Assigns(l)
  BY DEF CallCode, Compile, Assigns
<1>4. ASSUME NEW l
      PROVE  AssignCode(l)' = AssignCode(l)
  BY DEF AssignCode, Compile
<1> QED
  BY <1>1, <1>2, <1>3, <1>4 DEF PassTwoWords

\* How many lines pass 2 has written, and how long the words of a line are.
Written == IF phase = "pass 2" THEN line - 1 ELSE Len(expanded)
WordCount(k) == Len(PassTwoWords(expanded[k]))

\* The number of words above line k.
WordsBefore(k) == IF k = 1 THEN 0 ELSE starts[k - 1] + WordCount(k - 1)

\* The words of a line stand behind the words of the line above.
WriteInv ==
    /\ phase \in {"expand", "pass 1"} => output = <<>> /\ starts = <<>>
    /\ phase = "pass 2" => line \in 1 .. Len(expanded) + 1
    /\ phase \in {"pass 2", "saved"} =>
          /\ IsSeq(output)
          /\ starts \in Seq(Nat) /\ Len(starts) = Written
          /\ Len(output) = WordsBefore(Written + 1)
          /\ \A k \in 1 .. Written :
                /\ starts[k] = WordsBefore(k)
                /\ starts[k] + WordCount(k) <= Len(output)
                /\ \A i \in 1 .. WordCount(k) :
                      output[starts[k] + i] = PassTwoWords(expanded[k])[i]

LEMMA WritePassTwo ==
    ASSUME IncTypeOK, WriteInv, PassTwoLine
    PROVE  WriteInv'
<1> DEFINE words == PassTwoWords(expanded[line])
<1>1. phase = "pass 2" /\ expanded' = expanded
      /\ label_table' = label_table /\ constant_table' = constant_table
  BY DEF PassTwoLine, KeepFiles
<1>2. line \in 1 .. Len(expanded) /\ line' = line + 1 /\ Len(expanded) \in Nat
  <2>1. line <= Len(expanded) /\ line' = line + 1
    BY DEF PassTwoLine, AnyLine
  <2>2. line \in 1 .. Len(expanded) + 1
    BY <1>1 DEF WriteInv
  <2>3. Len(expanded) \in Nat
    BY DEF IncTypeOK
  <2> QED
    BY <2>1, <2>2, <2>3
<1>3. output' = output \o words /\ starts' = Append(starts, Len(output))
  BY DEF PassTwoLine, ThisLine
<1>4. Written = line - 1 /\ Written + 1 = line
  <2>1. line - 1 + 1 = line
    BY <1>2
  <2> QED
    BY <1>1, <2>1 DEF Written
<1>5. IsSeq(output) /\ starts \in Seq(Nat) /\ Len(starts) = line - 1
      /\ Len(output) = WordsBefore(line)
  BY <1>1, <1>4 DEF WriteInv
<1>6. ASSUME NEW k \in 1 .. line - 1
      PROVE  /\ starts[k] = WordsBefore(k)
             /\ starts[k] + WordCount(k) <= Len(output)
             /\ \A i \in 1 .. WordCount(k) :
                   output[starts[k] + i] = PassTwoWords(expanded[k])[i]
  BY <1>1, <1>4 DEF WriteInv
<1>7. \A k \in 1 .. Len(expanded) :
         IsSeq(PassTwoWords(expanded[k])) /\ WordCount(k) \in Nat
  <2>1. \A k \in 1 .. Len(expanded) : IsLine(expanded[k])
    BY SourceLinesAreLines DEF IncTypeOK
  <2>2. \A s : IsSeq(s) => Len(s) \in Nat
    BY Joined
  <2> QED
    BY <2>1, <2>2, LineIsSeq DEF WordCount
<1>8. IsSeq(words) /\ WordCount(line) = Len(words)
  BY <1>2, <1>7 DEF WordCount
<1> HIDE DEF words
<1>9. /\ IsSeq(output') /\ Len(output) \in Nat /\ Len(words) \in Nat
      /\ Len(output') = Len(output) + Len(words)
      /\ \A i \in 1 .. Len(output) : output'[i] = output[i]
      /\ \A i \in 1 .. Len(words) : output'[Len(output) + i] = words[i]
  <2> DEFINE longer == output \o words
  <2>1. /\ IsSeq(longer) /\ Len(output) \in Nat /\ Len(words) \in Nat
        /\ Len(longer) = Len(output) + Len(words)
        /\ \A i \in 1 .. Len(output) : longer[i] = output[i]
        /\ \A i \in 1 .. Len(words) : longer[Len(output) + i] = words[i]
    BY <1>5, <1>8, Joined
  <2>2. output' = longer
    BY <1>3
  <2> HIDE DEF longer
  <2> QED
    BY <2>1, <2>2
<1>10. /\ starts' \in Seq(Nat) /\ Len(starts') = line
       /\ starts'[line] = Len(output)
       /\ \A k \in 1 .. line - 1 : starts'[k] = starts[k]
  <2>1. /\ starts' \in Seq(Nat) /\ Len(starts') = Len(starts) + 1
        /\ starts'[Len(starts) + 1] = Len(output)
        /\ \A k \in 1 .. Len(starts) : starts'[k] = starts[k]
    BY <1>3, <1>5, <1>9, AppendProperties
  <2>2. Len(starts) + 1 = line
    BY <1>2, <1>5
  <2> QED
    BY <1>5, <2>1, <2>2
<1>11. \A k : /\ PassTwoWords(expanded[k])' = PassTwoWords(expanded[k])
              /\ WordCount(k)' = WordCount(k)
  BY <1>1, SameTables DEF WordCount
<1>12. ASSUME NEW k \in 1 .. line
       PROVE  /\ WordsBefore(k)' = WordsBefore(k)
              /\ starts'[k] = WordsBefore(k)
  <2>1. WordsBefore(k)' = WordsBefore(k)
    <3>1. CASE k = 1
      BY <3>1 DEF WordsBefore
    <3>2. CASE k # 1
      <4>1. k - 1 \in 1 .. line - 1
        BY <1>2, <3>2
      <4> QED
        BY <1>10, <1>11, <3>2, <4>1 DEF WordsBefore
    <3> QED
      BY <3>1, <3>2
  <2>2. k = line \/ k \in 1 .. line - 1
    BY <1>2
  <2> QED
    BY <1>5, <1>6, <1>10, <2>1, <2>2
<1>13. ASSUME NEW k \in 1 .. line
       PROVE  /\ starts'[k] + WordCount(k) <= Len(output')
              /\ \A i \in 1 .. WordCount(k) :
                    output'[starts'[k] + i] = PassTwoWords(expanded[k])[i]
  <2>1. CASE k = line
    <3>1. PassTwoWords(expanded[k]) = words /\ WordCount(k) = Len(words)
      BY <1>8, <2>1 DEF words
    <3>2. starts'[k] = Len(output)
      BY <1>10, <2>1
    <3> QED
      BY <1>9, <3>1, <3>2
  <2>2. CASE k \in 1 .. line - 1
    <3>1. starts'[k] = starts[k] /\ starts[k] \in Nat
      BY <1>5, <1>10, <2>2
    <3>2. WordCount(k) \in Nat
      BY <1>2, <1>7
    <3>3. /\ starts[k] + WordCount(k) <= Len(output)
          /\ \A i \in 1 .. WordCount(k) :
                output[starts[k] + i] = PassTwoWords(expanded[k])[i]
      BY <1>6, <2>2
    <3>4. \A i \in 1 .. WordCount(k) : starts[k] + i \in 1 .. Len(output)
      BY <1>9, <3>1, <3>2, <3>3
    <3>5. starts[k] + WordCount(k) <= Len(output')
      BY <1>9, <3>1, <3>2, <3>3
    <3> QED
      BY <1>9, <3>1, <3>3, <3>4, <3>5
  <2> QED
    BY <1>2, <2>1, <2>2
<1>14. Len(output') = starts'[line] + WordCount(line)
  BY <1>8, <1>9, <1>10
<1>15. line' - 1 = line /\ line' \in 1 .. Len(expanded) + 1
  BY <1>2
<1>16. phase' \in {"pass 2", "failed"}
  BY <1>1 DEF PassTwoLine, Exit
<1>17. CASE phase' = "pass 2"
  <2>1. Written' = line /\ Written' + 1 = line + 1
    BY <1>15, <1>17 DEF Written
  <2>2. Len(output') = WordsBefore(Written + 1)'
    <3>1. ASSUME NEW k, k = line + 1
          PROVE  WordsBefore(k)' = Len(output')
      <4>1. k # 1 /\ k - 1 = line
        BY <1>2, <3>1
      <4>2. WordCount(k - 1)' = WordCount(k - 1)
        BY <1>11
      <4>3. WordsBefore(k)' = starts'[k - 1] + WordCount(k - 1)'
        BY <4>1 DEF WordsBefore
      <4> QED
        BY <1>14, <4>1, <4>2, <4>3
    <3> QED
      BY <2>1, <3>1
  <2>3. \A k \in 1 .. Written' :
           /\ starts'[k] = WordsBefore(k)'
           /\ starts'[k] + WordCount(k)' <= Len(output')
           /\ \A i \in 1 .. WordCount(k)' :
                 output'[starts'[k] + i] = PassTwoWords(expanded[k])'[i]
    BY <1>11, <1>12, <1>13, <2>1
  <2>4. IsSeq(output') /\ starts' \in Seq(Nat) /\ Len(starts') = Written'
    BY <1>9, <1>10, <2>1
  <2> QED
    BY <1>1, <1>15, <1>17, <2>2, <2>3, <2>4 DEF WriteInv
<1> QED
  BY <1>16, <1>17 DEF WriteInv

LEMMA WriteKept ==
    ASSUME WriteInv, phase \in {"pass 2", "saved"}, phase' \in {"pass 2", "saved"},
           UNCHANGED <<output, starts, expanded, label_table, constant_table>>,
           Written' = Written, line' = line, phase' = "pass 2" => phase = "pass 2"
    PROVE  WriteInv'
<1>1. \A k : /\ PassTwoWords(expanded[k])' = PassTwoWords(expanded[k])
             /\ WordCount(k)' = WordCount(k)
  BY SameTables DEF WordCount
<1>2. \A k : WordsBefore(k)' = WordsBefore(k)
  BY <1>1 DEF WordsBefore
<1>3. WordsBefore(Written + 1)' = WordsBefore(Written + 1)
  <2>1. \A k : k = Written + 1 => WordsBefore(k)' = WordsBefore(k)
    BY <1>2
  <2> QED
    BY <2>1
<1>4. /\ IsSeq(output) /\ starts \in Seq(Nat) /\ Len(starts) = Written
      /\ Len(output) = WordsBefore(Written + 1)
      /\ \A k \in 1 .. Written :
            /\ starts[k] = WordsBefore(k)
            /\ starts[k] + WordCount(k) <= Len(output)
            /\ \A i \in 1 .. WordCount(k) :
                  output[starts[k] + i] = PassTwoWords(expanded[k])[i]
  BY DEF WriteInv
<1>5. IsSeq(output') /\ starts' \in Seq(Nat) /\ Len(starts') = Written'
  BY <1>4
<1>6. Len(output') = WordsBefore(Written + 1)'
  BY <1>3, <1>4
<1>7. \A k \in 1 .. Written' :
         /\ starts'[k] = WordsBefore(k)'
         /\ starts'[k] + WordCount(k)' <= Len(output')
         /\ \A i \in 1 .. WordCount(k)' :
               output'[starts'[k] + i] = PassTwoWords(expanded[k])'[i]
  <2> TAKE k \in 1 .. Written'
  <2>1. k \in 1 .. Written /\ starts'[k] = starts[k] /\ output' = output
    OBVIOUS
  <2>2. /\ WordsBefore(k)' = WordsBefore(k) /\ WordCount(k)' = WordCount(k)
        /\ PassTwoWords(expanded[k])' = PassTwoWords(expanded[k])
    BY <1>1, <1>2
  <2> QED
    BY <1>4, <2>1, <2>2
<1>8. phase' = "pass 2" => line' \in 1 .. Len(expanded') + 1
  BY DEF WriteInv
<1> QED
  BY <1>5, <1>6, <1>7, <1>8 DEF WriteInv

LEMMA WriteInvariance == AsmSpec => []WriteInv
<1>1. AsmInit => WriteInv
  BY DEF AsmInit, IncInit, WriteInv
<1>2. IncTypeOK /\ LayInv /\ WriteInv /\ [AsmNext]_allVars => WriteInv'
  <2> SUFFICES ASSUME IncTypeOK, LayInv, WriteInv, [AsmNext]_allVars
               PROVE  WriteInv'
    OBVIOUS
  <2>0. Len(expanded) \in Nat
    BY DEF IncTypeOK
  <2>1. CASE (Expand /\ UNCHANGED asmVars) \/ PassOneLine
    <3>1. /\ phase \in {"expand", "pass 1"} /\ phase' \in {"expand", "pass 1", "failed"}
          /\ UNCHANGED <<output, starts>>
      BY <2>1 DEF Expand, CopyLine, DropInclude, Include, RejectInclude,
                  EndOfFile, HasLine, Exit, PassOneLine, asmVars
    <3> QED
      BY <3>1 DEF WriteInv
  <2>2. CASE PassOneClash \/ PassTwoClash
    BY <2>2 DEF PassOneClash, PassTwoClash, Exit, WriteInv
  <2>3. CASE PassOneEnds
    <3>1. /\ phase = "pass 1" /\ phase' = "pass 2" /\ line' = 1
          /\ UNCHANGED <<output, starts, expanded>>
      BY <2>3 DEF PassOneEnds, KeepFiles
    <3>2. output' = <<>> /\ starts' = <<>>
      BY <3>1 DEF WriteInv
    <3>3. Written' = 0
      <4>1. Written' = line' - 1
        BY <3>1 DEF Written
      <4>2. line' = 1
        BY <3>1
      <4> QED
        BY <4>1, <4>2
    <3>4. \A k : k = Written' + 1 => WordsBefore(k)' = 0
      BY <3>3 DEF WordsBefore
    <3>5. line' \in 1 .. Len(expanded') + 1
      <4>1. 1 \in 1 .. Len(expanded) + 1
        BY <2>0
      <4> QED
        BY <3>1, <4>1
    <3>6. IsSeq(output') /\ Len(output') = 0 /\ starts' \in Seq(Nat)
          /\ Len(starts') = Written' /\ \A k \in 1 .. Written' : FALSE
      BY <3>2, <3>3, EmptyIsSeq
    <3> QED
      BY <3>1, <3>4, <3>5, <3>6 DEF WriteInv
  <2>4. CASE PassTwoLine
    BY <2>4, WritePassTwo
  <2>5. CASE PassTwoEnds
    <3>1. /\ phase = "pass 2" /\ phase' = "saved" /\ ~(line <= Len(expanded))
          /\ UNCHANGED <<output, starts, expanded, label_table, constant_table>>
      BY <2>5 DEF PassTwoEnds, AnyLine, KeepFiles, asmVars
    <3>2. line - 1 = Len(expanded)
      <4>1. ~(line <= Len(expanded))
        BY <3>1
      <4>2. line \in 1 .. Len(expanded) + 1
        BY <3>1 DEF WriteInv
      <4> QED
        BY <2>0, <4>1, <4>2
    <3>3. Written' = Written
      BY <3>1, <3>2 DEF Written
    <3>4. line' = line
      BY <2>5 DEF PassTwoEnds, asmVars
    <3> QED
      BY <3>1, <3>3, <3>4, WriteKept
  <2>6. CASE UNCHANGED allVars
    <3>1. /\ UNCHANGED <<phase, line, expanded, output, starts>>
          /\ label_table' = label_table /\ constant_table' = constant_table
      BY <2>6 DEF allVars, incVars, asmVars
    <3>2. Written' = Written
      BY <3>1 DEF Written
    <3>3. CASE phase \in {"pass 2", "saved"}
      BY <3>1, <3>2, <3>3, WriteKept
    <3>4. CASE phase \notin {"pass 2", "saved"}
      BY <3>1, <3>4 DEF WriteInv
    <3> QED
      BY <3>3, <3>4
  <2> QED
    BY <2>1, <2>2, <2>3, <2>4, <2>5, <2>6 DEF AsmNext, Ended
<1> QED
  BY <1>1, <1>2, IncTyped, LayInvariance, PTL DEF AsmSpec

LEMMA DivisionUnique ==
    ASSUME NEW w \in Nat \ {0}, NEW q \in Nat, NEW r \in 0 .. w - 1
    PROVE  (w * q + r) \div w = q /\ (w * q + r) % w = r
<1> DEFINE a == w * q + r
           p == a \div w
           s == a % w
<1>1. a \in Nat /\ p \in Nat /\ s \in 0 .. w - 1 /\ a = w * p + s
  OBVIOUS
<1>2. a = w * q + r
  OBVIOUS
<1> HIDE DEF a, p, s
<1>3. \A x, y \in Nat : x < y => w * x + w <= w * y
  OBVIOUS
<1>4. w * p \in Nat /\ w * q \in Nat
  BY <1>1
<1>5. ~(p < q) /\ ~(q < p)
  BY <1>1, <1>2, <1>3, <1>4
<1> QED
  BY <1>1, <1>2, <1>4, <1>5 DEF a, p, s

\* Where the m-th word lies.
PlaceOfWord(m) == Place(m \div WordSize, m % WordSize)

LEMMA AdvanceIsPlace ==
    ASSUME NEW m \in Nat, NEW n \in Nat
    PROVE  advance_address(PlaceOfWord(m), n) = PlaceOfWord(m + n)
<1> DEFINE w == WordSize
           b == m \div w
           f == m % w
           c == (f + n) \div w
           g == (f + n) % w
<1>1. w \in Nat \ {0}
  BY WordSizeAssumption
<1> HIDE DEF w
<1>2. b \in Nat /\ f \in 0 .. w - 1 /\ m = w * b + f
  BY <1>1
<1> HIDE DEF b, f
<1>3. c \in Nat /\ g \in 0 .. w - 1 /\ f + n = w * c + g
  BY <1>1, <1>2
<1> HIDE DEF c, g
<1>4. m + n = w * (b + c) + g
  <2>1. w * (b + c) = w * b + w * c
    BY <1>1, <1>2, <1>3
  <2>2. w * b \in Nat /\ w * c \in Nat /\ w * (b + c) \in Nat
    BY <1>1, <1>2, <1>3
  <2> DEFINE x == w * b
             y == w * c
  <2>3. m = x + f /\ f + n = y + g /\ x \in Nat /\ y \in Nat
        /\ f \in Nat /\ g \in Nat
    BY <1>1, <1>2, <1>3, <2>2
  <2>4. w * (b + c) = x + y
    BY <2>1
  <2> HIDE DEF x, y
  <2>5. m + n = x + y + g
    BY <2>3
  <2> QED
    BY <2>4, <2>5
<1>5. (m + n) \div w = b + c /\ (m + n) % w = g
  <2>1. b + c \in Nat /\ g \in 0 .. w - 1
    BY <1>2, <1>3
  <2> DEFINE q == b + c
  <2>2. (w * q + g) \div w = q /\ (w * q + g) % w = g
    <3> HIDE DEF q
    <3>1. q \in Nat
      BY <2>1 DEF q
    <3> QED
      BY <1>1, <2>1, <3>1, DivisionUnique
  <2> QED
    BY <1>4, <2>2
<1> QED
  BY <1>5 DEF advance_address, PlaceOfWord, Place, w, b, f, c, g

\* The address of a line is its place, as long as the lines above are settled.
LEMMA AddressIsPlace ==
    ASSUME IncTypeOK, LayInv, WriteInv, phase = "saved"
    PROVE  \A k \in 1 .. Len(expanded) :
              (\A j \in 1 .. k - 1 : Settled(j)) => addresses[k] = PlaceOf(k)
<1> DEFINE N == Len(expanded)
           S == {k \in 1 .. N :
                   (\A j \in 1 .. k - 1 : Settled(j)) => addresses[k] = PlaceOf(k)}
<1>1. N \in Nat /\ Numbered = N /\ Written = N
  BY DEF IncTypeOK, Numbered, Written
<1>2. Tabulated(N + 1)
  BY <1>1 DEF LayInv
<1>3. ASSUME NEW k \in 1 .. N
      PROVE  /\ addresses[k] = AddressBehind(expanded, addresses, k - 1)
             /\ starts[k] = WordsBefore(k) /\ starts[k] \in Nat
             /\ IsLine(expanded[k])
  <2>1. addresses[k] = AddressBehind(expanded, addresses, k - 1)
    BY <1>1 DEF LayInv
  <2>2. starts[k] = WordsBefore(k) /\ starts \in Seq(Nat) /\ Len(starts) = N
    BY <1>1 DEF WriteInv
  <2>3. IsLine(expanded[k])
    BY SourceLinesAreLines DEF IncTypeOK
  <2> QED
    BY <2>1, <2>2, <2>3
<1>4. N >= 1 => 1 \in S
  <2> SUFFICES ASSUME N >= 1 PROVE addresses[1] = PlaceOf(1) /\ 1 \in 1 .. N
    OBVIOUS
  <2>1. 1 \in 1 .. N
    BY <1>1
  <2>2. starts[1] = 0 /\ addresses[1] = Origin
    <3>1. 1 - 1 = 0
      OBVIOUS
    <3> HIDE DEF N
    <3> QED
      BY <1>3, <2>1, <3>1 DEF WordsBefore, AddressBehind
  <2>3. 0 \div WordSize = 0 /\ 0 % WordSize = 0
    BY WordSizeAssumption
  <2> QED
    BY <2>1, <2>2, <2>3 DEF PlaceOf, Origin, Place
<1>5. ASSUME NEW k \in 1 .. N - 1, k \in S
      PROVE  k + 1 \in S
  <2> SUFFICES ASSUME \A j \in 1 .. k : Settled(j)
               PROVE  addresses[k + 1] = PlaceOf(k + 1)
    BY <1>1
  <2>1. k \in 1 .. N /\ k + 1 \in 1 .. N /\ k + 1 - 1 = k /\ k # 0 /\ k + 1 # 1
    BY <1>1
  <2>2. addresses[k] = PlaceOf(k)
    BY <1>1, <1>5, <2>1
  <2> DEFINE n == CountAt(expanded, addresses, k, expanded[k])
  <2>3. Settled(k) /\ IsLine(expanded[k])
    BY <1>3, <2>1
  <2>4. n \in Nat /\ WordCount(k) = n
    BY <1>1, <1>2, <2>1, <2>3, CountIsNat, SettledSize DEF WordCount
  <2>5. addresses[k + 1] = advance_address(addresses[k], n)
    BY <1>3, <2>1 DEF AddressBehind
  <2>6. starts[k + 1] = starts[k] + n /\ starts[k] \in Nat
    BY <1>3, <2>1, <2>4 DEF WordsBefore
  <2> HIDE DEF n
  <2>7. \A j : PlaceOf(j) = PlaceOfWord(starts[j])
    BY DEF PlaceOf, PlaceOfWord
  <2> QED
    BY <2>2, <2>4, <2>5, <2>6, <2>7, AdvanceIsPlace
<1>6. 1 .. N \subseteq S
  <2> HIDE DEF N, S
  <2> QED
    BY <1>1, <1>4, <1>5, UpTo
<1> QED
  BY <1>6

\* The address pass 1 gave a label is the place of its line in the output of
\* pass 2, as long as every line above it is settled: a call, define, print or
\* assign line with an = that pass 2 compiles is only if pass 1 counts its words
\* (hybrid_assembler.c:1287-1469, 1515-1586).
THEOREM LabelsPoint == AsmSpec => []LabelsWhereTheyPoint
<1>1. IncTypeOK /\ LayInv /\ WriteInv => LabelsWhereTheyPoint
  <2> SUFFICES ASSUME IncTypeOK, LayInv, WriteInv, phase = "saved",
                      NEW k \in 1 .. Len(expanded),
                      expanded[k].kind = "label",
                      \A j \in 1 .. k - 1 : Settled(j),
                      \A j \in LinesWith("label", expanded[k].name) : j >= k
               PROVE  First(label_table, expanded[k].name) = PlaceOf(k)
    BY DEF LabelsWhereTheyPoint
  <2> DEFINE name == expanded[k].name
  <2>1. addresses[k] = PlaceOf(k)
    BY AddressIsPlace
  <2>2. name \in STRING /\ Len(expanded) \in Nat
    BY SourceLinesAreLines DEF IncTypeOK, IsLine
  <2>3. k \in LinesIn(expanded, "label", name)
        /\ \A j \in LinesIn(expanded, "label", name) : j >= k
    BY DEF LinesIn, LinesWith
  <2>4. FirstLine(expanded, "label", name) = k
    <3>1. FirstLine(expanded, "label", name) \in LinesIn(expanded, "label", name)
          /\ FirstLine(expanded, "label", name) <= k
      BY <2>3, FirstLineIs
    <3> HIDE DEF name
    <3> QED
      BY <2>3, <3>1 DEF LinesIn
  <2>5. Above(expanded, Len(expanded) + 1, "label", name)
    BY <2>2, <2>3 DEF Above
  <2>6. Tabulated(Len(expanded) + 1)
    BY DEF LayInv, Numbered
  <2>7. First(label_table, name) = addresses[FirstLine(expanded, "label", name)]
    BY <2>2, <2>5, <2>6 DEF Tabulated, LabelsOf
  <2> QED
    BY <2>1, <2>4, <2>7
<1> QED
  BY <1>1, IncTyped, LayInvariance, WriteInvariance, PTL
-----------------------------------------------------------------------------
(* The processor reads what the encoder wrote                              *)

\* The parts of the opcodes in the table.
LEMMA TableOpcodes ==
    \A e \in optable :
        /\ e.base \in Nat /\ e.base < 65536 /\ e.base % 256 = 0
        /\ e.form \in {"R_R_R", "R_R_N", "N_R_R", "N_R_N", "N_N_N"}
        /\ e.form \in {"R_R_R", "R_R_N"} => e.base % 4096 = 0
        /\ (e.base \div 2048) % 2 = 1 =>
              e.mnemonic = "IVR.SET"
                \/ (e.base \div 4096 = 12 /\ e.mnemonic # "NIL")
BY DEF optable, Entry, ShiftOpcode, MaskM, ShiftD

LEMMA QuotientIs ==
    ASSUME NEW c \in Nat \ {0}, NEW q \in Nat, NEW r \in 0 .. c - 1,
           NEW a, a = c * q + r
    PROVE  a \div c = q /\ a % c = r
BY DivisionUnique

LEMMA DivisionIs ==
    ASSUME NEW c \in Nat \ {0}, NEW a \in Nat
    PROVE  a \div c \in Nat /\ a % c \in 0 .. c - 1 /\ a = c * (a \div c) + (a % c)
OBVIOUS

LEMMA ByteParts ==
    ASSUME NEW t \in 0 .. 255
    PROVE  t \div 8 \in 0 .. 31 /\ t % 8 \in 0 .. 7 /\ t = 8 * (t \div 8) + (t % 8)
<1> DEFINE p == t \div 8
           r == t % 8
<1>1. p \in Nat /\ r \in 0 .. 8 - 1 /\ t = 8 * p + r
  BY DivisionIs
<1> HIDE DEF p, r
<1>2. p \in 0 .. 31 /\ r \in 0 .. 7
  BY <1>1
<1> QED
  BY <1>1, <1>2 DEF p, r

LEMMA FiveBitParts ==
    ASSUME NEW u \in 0 .. 31
    PROVE  u \div 2 \in 0 .. 15 /\ u % 2 \in 0 .. 1 /\ u = 2 * (u \div 2) + (u % 2)
<1> DEFINE p == u \div 2
           r == u % 2
<1>1. p \in Nat /\ r \in 0 .. 2 - 1 /\ u = 2 * p + r
  BY DivisionIs
<1> HIDE DEF p, r
<1>2. p \in 0 .. 15 /\ r \in 0 .. 1
  BY <1>1
<1> QED
  BY <1>1, <1>2 DEF p, r

\* A word of four bits x below q.
LEMMA NibbleBelow ==
    ASSUME NEW q \in Nat, NEW x \in 0 .. 15
    PROVE  /\ 16 * q + x \in Nat
           /\ (16 * q + x) \div 16 = q
           /\ (16 * q + x) \div 8 = 2 * q + x \div 8
           /\ ((16 * q + x) \div 8) % 2 = x \div 8
           /\ (16 * q + x) % 8 = x % 8
<1>1. PICK g \in 0 .. 1, r \in 0 .. 7 : x = 8 * g + r
  <2>1. x = 8 * 0 + x \/ x = 8 * 1 + (x - 8)
    OBVIOUS
  <2>2. CASE x < 8
    BY <2>2
  <2>3. CASE x >= 8
    <3>1. x - 8 \in 0 .. 7
      BY <2>3
    <3> QED
      BY <3>1
  <2> QED
    BY <2>2, <2>3
<1>2. x \div 8 = g /\ x % 8 = r
  BY <1>1
<1> DEFINE z == 2 * q + g
           v == 16 * q + x
<1>3. z \in Nat /\ z % 2 = g /\ v = 8 * z + r
  BY <1>1
<1>4. v \in Nat /\ v \div 16 = q
  OBVIOUS
<1>5. v \div 8 = z /\ v % 8 = r
  <2> HIDE DEF z, v
  <2> QED
    BY <1>1, <1>3, QuotientIs
<1>6. (v \div 8) % 2 = g
  <2> HIDE DEF z, v
  <2> QED
    BY <1>3, <1>5
<1> QED
  BY <1>2, <1>4, <1>5, <1>6 DEF z, v

\* The word of its parts, and the parts as fields.
WordWith(p, m, d, x, y) == 16 * (16 * (8 * (2 * p + m) + d) + x) + y
Parts(p, m, d, x, y) ==
    [op |-> p, M |-> m, D |-> d, LX |-> x \div 8, X |-> x % 8,
     LY |-> y \div 8, Y |-> y % 8]

LEMMA WordDecoded ==
    ASSUME NEW p \in 0 .. 15, NEW m \in 0 .. 1, NEW d \in 0 .. 7,
           NEW x \in 0 .. 15, NEW y \in 0 .. 15
    PROVE  Fields(WordWith(p, m, d, x, y)) = Parts(p, m, d, x, y)
<1> DEFINE h == 2 * p + m
           i == 8 * h + d
           j == 16 * i + x
           w == 16 * j + y
<1>1. h \in Nat /\ h \div 2 = p /\ h % 2 = m
  OBVIOUS
<1>2. i \in Nat /\ i \div 8 = h /\ i % 8 = d
  <2> HIDE DEF h
  <2> QED
    BY <1>1
<1>3. /\ j \in Nat /\ j \div 16 = i
      /\ j \div 8 = 2 * i + x \div 8 /\ (j \div 8) % 2 = x \div 8
      /\ j % 8 = x % 8
  <2> HIDE DEF i
  <2> QED
    BY <1>2, NibbleBelow
<1>4. /\ w \in Nat /\ w \div 16 = j
      /\ (w \div 8) % 2 = y \div 8 /\ w % 8 = y % 8
  <2> HIDE DEF j
  <2> QED
    BY <1>3, NibbleBelow
<1>5. WordWith(p, m, d, x, y) = w
  BY DEF WordWith
<1> HIDE DEF h, i, j, w
<1>6. w \div 128 = j \div 8 /\ w \div 256 = i
  <2>1. w \div 128 = (w \div 16) \div 8 /\ w \div 256 = (w \div 16) \div 16
    BY <1>4
  <2> QED
    BY <1>3, <1>4, <2>1
<1>7. w \div 2048 = h /\ w \div 4096 = p
  <2>1. w \div 2048 = (w \div 256) \div 8 /\ w \div 4096 = (w \div 2048) \div 2
    BY <1>4
  <2> QED
    BY <1>1, <1>2, <1>6, <2>1
<1> QED
  BY <1>1, <1>2, <1>3, <1>4, <1>5, <1>6, <1>7 DEF Fields, Parts

\* What the encoder puts into the four bits of a source field.
Nibble(field) ==
    IF field = <<>> THEN 0 ELSE IF IsImmediate(field[1]) THEN 8 ELSE field[1].reg

LEMMA OpcodeParts ==
    ASSUME NEW g \in Nat, g < 65536, g % 256 = 0
    PROVE  \E p \in 0 .. 15, m \in 0 .. 1, d \in 0 .. 7 :
              /\ g = 4096 * p + 2048 * m + 256 * d
              /\ g \div 4096 = p /\ (g \div 2048) % 2 = m
              /\ g % 4096 = 0 => d = 0
<1>1. PICK t \in 0 .. 255 : g = 256 * t
  <2>1. g \div 256 \in 0 .. 255 /\ g = 256 * (g \div 256)
    OBVIOUS
  <2> QED
    BY <2>1
<1>2. PICK u \in 0 .. 31, d \in 0 .. 7 : t = 8 * u + d
  BY ByteParts
<1>3. PICK p \in 0 .. 15, m \in 0 .. 1 : u = 2 * p + m
  BY FiveBitParts
<1>4. g = 2048 * u + 256 * d /\ g = 4096 * p + (2048 * m + 256 * d)
  BY <1>1, <1>2, <1>3
<1>5. 256 * d \in 0 .. 2048 - 1 /\ 2048 * m + 256 * d \in 0 .. 4096 - 1
  OBVIOUS
<1>6. g \div 2048 = u
  BY <1>4, <1>5, QuotientIs
<1>7. g \div 4096 = p /\ g % 4096 = 2048 * m + 256 * d
  BY <1>4, <1>5, QuotientIs
<1>8. u % 2 = m
  BY <1>3
<1> QED
  BY <1>4, <1>6, <1>7, <1>8

LEMMA WordOf ==
    ASSUME NEW e \in optable, NEW suffixed \in BOOLEAN, NEW ops,
           suffixed => Suffixable(e.mnemonic),
           Nibble(Field(e.form, ops, 1)) \in 0 .. 8,
           Nibble(Field(e.form, ops, 2)) \in 0 .. 8,
           e.form \in {"R_R_R", "R_R_N"} =>
              ops # <<>> /\ ops[1].type = "register" /\ ops[1].reg \in 0 .. 7
    PROVE  LET x == Nibble(Field(e.form, ops, 1))
               y == Nibble(Field(e.form, ops, 2))
               f == Fields(OpcodeWord(e, suffixed, ops))
           IN  /\ f.op = e.base \div 4096
               /\ f.M = IF suffixed THEN 1 ELSE (e.base \div 2048) % 2
               /\ e.form \in {"R_R_R", "R_R_N"} => f.D = ops[1].reg
               /\ f.LX = x \div 8 /\ f.X = x % 8
               /\ f.LY = y \div 8 /\ f.Y = y % 8
<1> DEFINE x == Nibble(Field(e.form, ops, 1))
           y == Nibble(Field(e.form, ops, 2))
           w == OpcodeWord(e, suffixed, ops)
           named == e.form \in {"R_R_R", "R_R_N"}
           g == e.base
<1>1. \A field : /\ (IF ImmediateOf(field) # <<>> THEN MaskLX ELSE ShiftX * RegisterOf(field))
                      = 16 * Nibble(field)
                 /\ (IF ImmediateOf(field) # <<>> THEN MaskLY ELSE RegisterOf(field))
                      = Nibble(field)
  BY DEF ImmediateOf, RegisterOf, Nibble, MaskLX, MaskLY, ShiftX
<1>2. w = g + (IF suffixed THEN 2048 ELSE 0)
            + (IF named THEN 256 * ops[1].reg ELSE 0) + 16 * x + y
  <2>1. e.form # "R_N_R"
    BY TableOpcodes
  <2> QED
    BY <1>1, <2>1 DEF OpcodeWord, MaskM, ShiftD
<1>3. /\ g \in Nat /\ g < 65536 /\ g % 256 = 0
      /\ named => g % 4096 = 0
      /\ (g \div 2048) % 2 = 1 =>
           e.mnemonic = "IVR.SET" \/ (g \div 4096 = 12 /\ e.mnemonic # "NIL")
  BY TableOpcodes
<1>4. suffixed => e.mnemonic # "IVR.SET"
                    /\ (e.mnemonic = "NIL" \/ g \div 4096 # 12)
  BY LookupIs DEF Suffixable, ShiftOpcode
<1> HIDE DEF g, x, y, w, named
<1>5. PICK p \in 0 .. 15, b \in 0 .. 1, c \in 0 .. 7 :
         /\ g = 4096 * p + 2048 * b + 256 * c
         /\ g \div 4096 = p /\ (g \div 2048) % 2 = b
         /\ g % 4096 = 0 => c = 0
  BY <1>3, OpcodeParts
<1> DEFINE m == IF suffixed THEN 1 ELSE b
           d == IF named THEN ops[1].reg ELSE c
           s == IF suffixed THEN 2048 ELSE 0
           t == IF named THEN 256 * ops[1].reg ELSE 0
<1>6. suffixed => b = 0
  BY <1>3, <1>4, <1>5
<1>7. s + 2048 * b = 2048 * m /\ s \in Int /\ m \in 0 .. 1
  BY <1>5, <1>6
<1>8. t + 256 * c = 256 * d /\ t \in Int /\ d \in 0 .. 7
  <2>1. named => c = 0 /\ ops[1].reg \in 0 .. 7
    BY <1>3, <1>5 DEF named
  <2> QED
    BY <2>1
<1>9. x \in 0 .. 8 /\ y \in 0 .. 8
  BY DEF x, y
<1>10. w = g + s + t + 16 * x + y
  BY <1>2
<1>11. m = IF suffixed THEN 1 ELSE (g \div 2048) % 2
  BY <1>5
<1>12. named => d = ops[1].reg
  OBVIOUS
<1> HIDE DEF m, d, s, t
<1>13. w = WordWith(p, m, d, x, y)
  <2>1. w = 4096 * p + 2048 * m + 256 * d + 16 * x + y
    BY <1>5, <1>7, <1>8, <1>9, <1>10
  <2> QED
    BY <1>7, <1>8, <1>9, <2>1 DEF WordWith
<1>14. Fields(w) = Parts(p, m, d, x, y)
  <2>1. x \in 0 .. 15 /\ y \in 0 .. 15
    BY <1>9
  <2>2. p \in 0 .. 15 /\ m \in 0 .. 1 /\ d \in 0 .. 7
    BY <1>5, <1>7, <1>8
  <2>3. Fields(WordWith(p, m, d, x, y)) = Parts(p, m, d, x, y)
    BY ZenonT(40), <2>1, <2>2, WordDecoded
  <2> QED
    BY <1>13, <2>3
<1>15. /\ Fields(w).op = g \div 4096
       /\ Fields(w).M = IF suffixed THEN 1 ELSE (g \div 2048) % 2
       /\ named => Fields(w).D = ops[1].reg
       /\ Fields(w).LX = x \div 8 /\ Fields(w).X = x % 8
       /\ Fields(w).LY = y \div 8 /\ Fields(w).Y = y % 8
  BY <1>5, <1>11, <1>12, <1>14 DEF Parts
<1> QED
  BY <1>15 DEF w, x, y, named, g

LEMMA ReadBack ==
    ASSUME IsSeq(output), NEW n \in Nat \ {0}, NEW j \in Nat,
           Immediate(output[n]) = j, n + j <= Len(output)
    PROVE  LET d == InstructionAt(n) IN
           /\ d.is = Fields(output[n])
           /\ Len(d.imms) = j /\ d.imms \in Seq({output[i] : i \in 1 .. Len(output)})
           /\ \A i \in 1 .. j : d.imms[i] = output[n + i]
           /\ NextInstruction(n) = n + 1 + j
<1> DEFINE S == {output[i] : i \in 1 .. Len(output)}
           a == n + 1
           b == n + j
           t == SubSeq(output, a, b)
<1>1. Len(output) \in Nat
  BY LenProperties DEF IsSeq
<1>2. a \in Int /\ b \in Int /\ (a <= b => b - a + 1 = j) /\ (~(a <= b) => j = 0)
      /\ b - a + 1 = j
  OBVIOUS
<1>3. \A i \in a .. b : output[i] \in S
  BY <1>1
<1>4. /\ InstructionAt(n).is = Fields(output[n])
      /\ InstructionAt(n).imms = t
      /\ NextInstruction(n) = n + 1 + j
  BY DEF InstructionAt, NextInstruction
<1>5. \A i \in 1 .. j : a + i - 1 = n + i
  OBVIOUS
<1> HIDE DEF S, a, b
<1>6. /\ t \in Seq(S)
      /\ Len(t) = IF a <= b THEN b - a + 1 ELSE 0
      /\ \A i \in 1 .. b - a + 1 : t[i] = output[a + i - 1]
  BY <1>2, <1>3, SubSeqProperties
<1> HIDE DEF t
<1>7. Len(t) = j /\ \A i \in 1 .. j : t[i] = output[n + i]
  BY <1>2, <1>5, <1>6
<1> QED
  BY <1>4, <1>6, <1>7 DEF S

\* The words of EAM.SET are read as a switch of the bank.
LEMMA SwitchRead ==
    ASSUME IsSeq(output), NEW n \in Nat \ {0}, n + 1 <= Len(output),
           NEW b, output[n] = MaskLX, output[n + 1] = b
    PROVE  SetsBank(InstructionAt(n), b) /\ NextInstruction(n) = n + 2
<1> DEFINE d == InstructionAt(n)
           f == Fields(MaskLX)
<1>1. f = [op |-> 0, M |-> 0, D |-> 0, LX |-> 1, X |-> 0, LY |-> 0, Y |-> 0]
  <2>1. WordWith(0, 0, 0, 8, 0) = MaskLX
    BY DEF WordWith, MaskLX
  <2>2. Fields(WordWith(0, 0, 0, 8, 0)) = Parts(0, 0, 0, 8, 0)
    <3>1. 0 \in 0 .. 15 /\ 0 \in 0 .. 1 /\ 0 \in 0 .. 7 /\ 8 \in 0 .. 15
      OBVIOUS
    <3> QED
      BY <3>1, WordDecoded, Zenon
  <2>3. 8 \div 8 = 1 /\ 8 % 8 = 0 /\ 0 \div 8 = 0 /\ 0 % 8 = 0
    OBVIOUS
  <2> QED
    BY <2>1, <2>2, <2>3 DEF Parts
<1>2. Immediate(output[n]) = 1
  BY <1>1 DEF Immediate
<1>3. /\ d.is = f
      /\ Len(d.imms) = 1 /\ d.imms \in Seq({output[i] : i \in 1 .. Len(output)})
      /\ \A i \in 1 .. 1 : d.imms[i] = output[n + i]
      /\ NextInstruction(n) = n + 1 + 1
  BY <1>2, ReadBack
<1>4. d.imms = <<b>>
  <2> DEFINE t == d.imms
  <2>1. Len(t) = 1 /\ t[1] = b
    BY <1>3
  <2>2. t \in Seq({output[i] : i \in 1 .. Len(output)})
    BY <1>3
  <2> HIDE DEF t
  <2>3. t = <<t[1]>>
    BY <2>1, <2>2
  <2>4. t = <<b>>
    BY <2>1, <2>3
  <2> QED
    BY <2>4 DEF t
<1>5. f.op = 0 /\ f.M = 0 /\ f.LX = 1
  BY <1>1
<1> HIDE DEF d, f
<1> QED
  BY <1>3, <1>4, <1>5 DEF SetsBank, d

\* The operands of a complete instruction, and where the encoder puts them.
SourceOf(form, ops) == IF form \in {"N_R_N", "N_R_R"} THEN ops ELSE Tail(ops)
HasX(form) == form # "N_N_N"
HasY(form) == form \in {"R_R_R", "N_R_R"}

LEMMA FieldsOfForm ==
    ASSUME NEW name, NEW ops \in Seq(Operand), Complete(name, ops),
           NEW form, form = lookup_opcode(name).form,
           form \in {"R_R_R", "R_R_N", "N_R_R", "N_R_N", "N_N_N"}
    PROVE  LET source == SourceOf(form, ops) IN
           /\ Field(form, ops, 1) = IF HasX(form) THEN <<source[1]>> ELSE <<>>
           /\ Field(form, ops, 2) = IF HasY(form) THEN <<source[2]>> ELSE <<>>
           /\ HasX(form) => source[1] \in Operand
           /\ HasY(form) => source[2] \in Operand
           /\ HasY(form) => HasX(form)
           /\ form \in {"R_R_R", "R_R_N"} =>
                 ops # <<>> /\ ops[1].type = "register" /\ ops[1].reg \in 0 .. 7
<1>1. /\ Len(ops) = CASE form = "N_N_N" -> 0 [] form = "N_R_N" -> 1
                      [] form \in {"N_R_R", "R_R_N"} -> 2 [] form = "R_R_R" -> 3
      /\ form \in {"R_R_R", "R_R_N"} => ops[1].type = "register"
  BY DEF Complete
<1>2. CASE form = "N_N_N"
  BY <1>1, <1>2 DEF Field, Slots, HasX, HasY
<1>3. CASE form = "N_R_N"
  BY <1>1, <1>3 DEF Field, Slots, HasX, HasY, SourceOf
<1>4. CASE form = "N_R_R"
  <2>1. Len(ops) = 2 /\ ops[1] \in Operand /\ ops[2] \in Operand
    BY <1>1, <1>4
  <2>2. Field(form, ops, 1) = <<ops[1]>> /\ Field(form, ops, 2) = <<ops[2]>>
    BY <1>4, <2>1 DEF Field, Slots
  <2> QED
    BY <1>4, <2>1, <2>2 DEF HasX, HasY, SourceOf
<1>5. CASE form \in {"R_R_R", "R_R_N"}
  <2>1. Len(ops) >= 2 /\ ops # <<>>
    BY <1>1, <1>5
  <2>2. Tail(ops)[1] = ops[2] /\ (Len(ops) = 3 => Tail(ops)[2] = ops[3])
    BY <2>1, HeadTailProperties
  <2>3. /\ Field(form, ops, 1) = <<ops[2]>>
        /\ Field(form, ops, 2) = IF form = "R_R_R" THEN <<ops[3]>> ELSE <<>>
    BY <1>1, <1>5 DEF Field, Slots
  <2>4. ops[1] \in Operand /\ ops[2] \in Operand
        /\ (Len(ops) = 3 => ops[3] \in Operand)
    BY <2>1
  <2>5. ops[1].reg \in 0 .. 7
    BY <1>1, <1>5, <2>4 DEF Operand
  <2> QED
    BY <1>1, <1>5, <2>1, <2>2, <2>3, <2>4, <2>5 DEF HasX, HasY, SourceOf
<1> QED
  BY <1>2, <1>3, <1>4, <1>5

\* The immediate words of a complete instruction are those of its operands.
LEMMA ImmediatesOfForm ==
    ASSUME NEW name, NEW ops \in Seq(Operand), Complete(name, ops),
           NEW form, form = lookup_opcode(name).form,
           form \in {"R_R_R", "R_R_N", "N_R_R", "N_R_N", "N_N_N"}
    PROVE  LET source == SourceOf(form, ops)
               imms == Immediates(form, ops)
               n == Len(imms)
           IN  /\ n = (IF HasX(form) /\ IsImmediate(source[1]) THEN 1 ELSE 0)
                        + (IF HasY(form) /\ IsImmediate(source[2]) THEN 1 ELSE 0)
               /\ HasX(form) /\ IsImmediate(source[1]) => imms[1] = source[1]
               /\ HasY(form) /\ IsImmediate(source[2]) => imms[n] = source[2]
<1> DEFINE source == SourceOf(form, ops)
           x == source[1]
           y == source[2]
           imms == Immediates(form, ops)
<1>1. /\ Field(form, ops, 1) = IF HasX(form) THEN <<x>> ELSE <<>>
      /\ Field(form, ops, 2) = IF HasY(form) THEN <<y>> ELSE <<>>
      /\ HasY(form) => HasX(form)
  BY FieldsOfForm
<1> HIDE DEF x, y
<1>2. CASE HasY(form)
  <2>1. imms = IF IsImmediate(x)
                 THEN IF IsImmediate(y) THEN <<x, y>> ELSE <<x>>
                 ELSE IF IsImmediate(y) THEN <<y>> ELSE <<>>
    BY <1>1, <1>2, ImmediatesOfTwo
  <2>2. /\ Len(<<x, y>>) = 2 /\ <<x, y>>[1] = x /\ <<x, y>>[2] = y
        /\ Len(<<x>>) = 1 /\ <<x>>[1] = x /\ Len(<<y>>) = 1 /\ <<y>>[1] = y
        /\ Len(<<>>) = 0
    OBVIOUS
  <2> HIDE DEF imms
  <2>3. /\ Len(imms) = (IF IsImmediate(x) THEN 1 ELSE 0)
                         + (IF IsImmediate(y) THEN 1 ELSE 0)
        /\ IsImmediate(x) => imms[1] = x
        /\ IsImmediate(y) => imms[Len(imms)] = y
    BY <2>1, <2>2
  <2> QED
    BY <1>1, <1>2, <2>3 DEF imms, x, y
<1>3. CASE HasX(form) /\ ~HasY(form)
  <2>1. imms = IF IsImmediate(x) THEN <<x>> ELSE <<>>
    BY <1>1, <1>3, ImmediatesOfOne
  <2>2. Len(<<x>>) = 1 /\ <<x>>[1] = x /\ Len(<<>>) = 0
    OBVIOUS
  <2> HIDE DEF imms
  <2>3. /\ Len(imms) = (IF IsImmediate(x) THEN 1 ELSE 0) + 0
        /\ IsImmediate(x) => imms[1] = x
    BY <2>1, <2>2
  <2> QED
    BY <1>3, <2>3 DEF imms, x, y
<1>4. CASE ~HasX(form)
  <2>1. ImmediateOf(<<>>) = <<>> /\ <<>> \o <<>> = <<>>
    BY ConcatOfTwo DEF ImmediateOf
  <2>2. imms = <<>> /\ Len(imms) = 0
    BY <1>1, <1>4, <2>1 DEF Immediates
  <2> QED
    BY <1>1, <1>4, <2>2
<1> QED
  BY <1>1, <1>2, <1>3, <1>4

\* The words from the n-th of the output on are those that the encoder writes
\* for an instruction, its names resolved to what they mean.
EncodedAt(n, name, suffixed, ops) ==
    LET imms == Immediates(lookup_opcode(name).form, ops) IN
    /\ n + Len(imms) <= Len(output)
    /\ output[n] = OpcodeWord(lookup_opcode(name), suffixed, ops)
    /\ \A i \in 1 .. Len(imms) : output[n + i] = Meaning(imms[i]).off

\* Words that the encoder writes for an instruction are read as it.
LEMMA InstructionRead ==
    ASSUME IsSeq(output), NEW n \in Nat \ {0}, NEW name, NEW suffixed \in BOOLEAN,
           NEW ops \in Seq(Operand), Known(name, suffixed), Complete(name, ops),
           EncodedAt(n, name, suffixed, ops)
    PROVE  /\ Does(InstructionAt(n), name, suffixed, ops)
           /\ NextInstruction(n)
                = n + 1 + Len(Immediates(lookup_opcode(name).form, ops))
<1> DEFINE imms == Immediates(lookup_opcode(name).form, ops)
<1>a. /\ n + Len(imms) <= Len(output)
      /\ output[n] = OpcodeWord(lookup_opcode(name), suffixed, ops)
      /\ \A i \in 1 .. Len(imms) : output[n + i] = Meaning(imms[i]).off
  BY DEF EncodedAt
<1>b. imms = Immediates(lookup_opcode(name).form, ops)
  OBVIOUS
<1> HIDE DEF imms
<1> DEFINE e == lookup_opcode(name)
           form == e.form
           source == SourceOf(form, ops)
           x == source[1]
           y == source[2]
           nx == Nibble(Field(form, ops, 1))
           ny == Nibble(Field(form, ops, 2))
           w == output[n]
           d == InstructionAt(n)
           j == Len(imms)
<1>1. e \in optable /\ e.mnemonic = name /\ (suffixed => Suffixable(name))
  BY DEF Known, lookup_opcode
<1>2. form \in {"R_R_R", "R_R_N", "N_R_R", "N_R_N", "N_N_N"}
  BY <1>1, TableOpcodes
<1>3. /\ Field(form, ops, 1) = IF HasX(form) THEN <<x>> ELSE <<>>
      /\ Field(form, ops, 2) = IF HasY(form) THEN <<y>> ELSE <<>>
      /\ HasX(form) => x \in Operand
      /\ HasY(form) => y \in Operand
      /\ form \in {"R_R_R", "R_R_N"} =>
            ops # <<>> /\ ops[1].type = "register" /\ ops[1].reg \in 0 .. 7
  BY <1>2, FieldsOfForm
<1>4. /\ j = (IF HasX(form) /\ IsImmediate(x) THEN 1 ELSE 0)
               + (IF HasY(form) /\ IsImmediate(y) THEN 1 ELSE 0)
      /\ HasX(form) /\ IsImmediate(x) => imms[1] = x
      /\ HasY(form) /\ IsImmediate(y) => imms[j] = y
  BY <1>2, <1>b, ImmediatesOfForm DEF e
<1>5. \A o \in Operand :
         /\ Nibble(<<o>>) = IF IsImmediate(o) THEN 8 ELSE o.reg
         /\ ~IsImmediate(o) => o.type = "register" /\ o.reg \in 0 .. 7
  BY DEF Nibble, IsImmediate, Operand
<1>6. Nibble(<<>>) = 0
  BY DEF Nibble
<1> HIDE DEF e, source, x, y
<1>7. /\ nx = IF HasX(form) THEN IF IsImmediate(x) THEN 8 ELSE x.reg ELSE 0
      /\ ny = IF HasY(form) THEN IF IsImmediate(y) THEN 8 ELSE y.reg ELSE 0
      /\ nx \in 0 .. 8 /\ ny \in 0 .. 8
  BY <1>3, <1>5, <1>6
<1>8. /\ Fields(w).op = e.base \div 4096
      /\ Fields(w).M = IF suffixed THEN 1 ELSE (e.base \div 2048) % 2
      /\ form \in {"R_R_R", "R_R_N"} => Fields(w).D = ops[1].reg
      /\ Fields(w).LX = nx \div 8 /\ Fields(w).X = nx % 8
      /\ Fields(w).LY = ny \div 8 /\ Fields(w).Y = ny % 8
  <2>1. w = OpcodeWord(e, suffixed, ops)
    BY <1>a DEF e
  <2> QED
    BY <1>1, <1>3, <1>7, <2>1, WordOf
<1>9. /\ HasX(form) /\ IsImmediate(x) => nx \div 8 = 1
      /\ HasX(form) /\ ~IsImmediate(x) => nx \div 8 = 0 /\ nx % 8 = x.reg
      /\ ~HasX(form) => nx \div 8 = 0
      /\ HasY(form) /\ IsImmediate(y) => ny \div 8 = 1
      /\ HasY(form) /\ ~IsImmediate(y) => ny \div 8 = 0 /\ ny % 8 = y.reg
      /\ ~HasY(form) => ny \div 8 = 0
  <2>1. \A v \in 0 .. 7 : v \div 8 = 0 /\ v % 8 = v
    OBVIOUS
  <2>2. 8 \div 8 = 1
    OBVIOUS
  <2>3. (HasX(form) /\ ~IsImmediate(x) => x.reg \in 0 .. 7)
        /\ (HasY(form) /\ ~IsImmediate(y) => y.reg \in 0 .. 7)
    BY <1>3, <1>5
  <2>4. 0 \in 0 .. 7
    OBVIOUS
  <2> HIDE DEF nx, ny
  <2> QED
    BY <1>7, <2>1, <2>2, <2>3, <2>4
<1> HIDE DEF nx, ny, w, d, j
<1>10. Immediate(w) = j /\ j \in Nat
  BY <1>4, <1>8, <1>9 DEF Immediate
<1>11. /\ d.is = Fields(w) /\ Len(d.imms) = j
       /\ \A i \in 1 .. j : d.imms[i] = output[n + i]
       /\ NextInstruction(n) = n + 1 + j
  BY <1>10, <1>a, ReadBack DEF d, w, j
<1>12. \A i \in 1 .. j : d.imms[i] = Meaning(imms[i]).off
  BY <1>11, <1>a DEF j
<1>13. \A o \in Operand : o.type = "register" <=> ~IsImmediate(o)
  BY DEF IsImmediate
<1>14. HasX(form) => XIs(d, x)
  <2> SUFFICES ASSUME HasX(form) PROVE XIs(d, x)
    OBVIOUS
  <2>1. CASE IsImmediate(x)
    <3>1. 1 \in 1 .. j /\ imms[1] = x
      BY <1>4, <2>1
    <3>2. d.imms[1] = Meaning(x).off
      BY <1>12, <3>1
    <3>3. d.is.LX = 1
      BY <1>8, <1>9, <1>11, <2>1
    <3> QED
      BY <2>1, <3>2, <3>3 DEF XIs, IsImmediate
  <2>2. CASE ~IsImmediate(x)
    <3>1. d.is.LX = 0 /\ d.is.X = x.reg
      BY <1>8, <1>9, <1>11, <2>2
    <3> QED
      BY <2>2, <3>1 DEF XIs, IsImmediate
  <2> QED
    BY <2>1, <2>2
<1>15. HasY(form) => YIs(d, y)
  <2> SUFFICES ASSUME HasY(form) PROVE YIs(d, y)
    OBVIOUS
  <2>1. CASE IsImmediate(y)
    <3>1. j \in 1 .. j /\ imms[j] = y
      BY <1>4, <2>1
    <3>2. d.imms[Len(d.imms)] = Meaning(y).off
      BY <1>11, <1>12, <3>1
    <3>3. d.is.LY = 1
      BY <1>8, <1>9, <1>11, <2>1
    <3> QED
      BY <2>1, <3>2, <3>3 DEF YIs, IsImmediate
  <2>2. CASE ~IsImmediate(y)
    <3>1. d.is.LY = 0 /\ d.is.Y = y.reg
      BY <1>8, <1>9, <1>11, <2>2
    <3> QED
      BY <2>2, <3>1 DEF YIs, IsImmediate
  <2> QED
    BY <2>1, <2>2
<1>16. /\ d.is.op = e.base \div 4096
       /\ d.is.M = IF suffixed THEN 1 ELSE (e.base \div 2048) % 2
       /\ form \in {"R_R_R", "R_R_N"} => d.is.D = ops[1].reg
  BY <1>8, <1>11
<1>17. Does(d, name, suffixed, ops)
  <2> DEFINE given == IF e.form \in {"N_R_N", "N_R_R"} THEN ops ELSE Tail(ops)
  <2>1. source = given
    BY DEF source, SourceOf
  <2>2. e.form = "N_N_N" \/ XIs(d, given[1])
    BY <1>14, <2>1 DEF HasX, x
  <2>3. e.form \in {"R_R_R", "N_R_R"} => YIs(d, given[2])
    BY <1>15, <2>1 DEF HasY, y
  <2>4. e.form \in {"R_R_R", "R_R_N"} => d.is.D = ops[1].reg
    BY <1>16
  <2>5. d.is.op = e.base \div 4096
        /\ d.is.M = IF suffixed THEN 1 ELSE (e.base \div 2048) % 2
    BY <1>16
  <2>6. Does(d, name, suffixed, ops) <=>
           /\ d.is.op = e.base \div 4096
           /\ d.is.M = IF suffixed THEN 1 ELSE (e.base \div 2048) % 2
           /\ e.form = "N_N_N" \/ XIs(d, given[1])
           /\ e.form \in {"R_R_R", "N_R_R"} => YIs(d, given[2])
           /\ e.form \in {"R_R_R", "R_R_N"} => d.is.D = ops[1].reg
    BY Zenon DEF Does, e
  <2> HIDE DEF given
  <2> QED
    BY <2>2, <2>3, <2>4, <2>5, <2>6
<1> QED
  BY <1>11, <1>17, <1>b DEF d, j

\* The words that the encoder writes, one by one.
EncodedWords(words, name, suffixed, ops) ==
    LET e == lookup_opcode(name)
        imms == Immediates(e.form, ops)
        banks == BanksNeeded(label_table, constant_table, imms)
        n == Len(imms)
    IN  /\ IsSeq(words)
        /\ banks = {} =>
              /\ Len(words) = 1 + n
              /\ words[1] = OpcodeWord(e, suffixed, ops)
              /\ \A i \in 1 .. n : words[1 + i] = Resolve(imms[i]).off
        /\ banks # {} =>
              /\ Len(words) = 5 + n
              /\ words[1] = MaskLX /\ words[2] = (CHOOSE b \in banks : TRUE)
              /\ words[3] = OpcodeWord(e, suffixed, ops)
              /\ \A i \in 1 .. n : words[3 + i] = Resolve(imms[i]).off
              /\ words[4 + n] = MaskLX /\ words[5 + n] = 0

LEMMA CompiledWords ==
    ASSUME NEW name, NEW suffixed \in BOOLEAN, NEW ops
    PROVE  EncodedWords(Compile(name, suffixed, ops), name, suffixed, ops)
<1> DEFINE e == lookup_opcode(name)
           imms == Immediates(e.form, ops)
           banks == BanksNeeded(label_table, constant_table, imms)
           words == Compile(name, suffixed, ops)
           n == Len(imms)
           offs == [i \in 1 .. n |-> Resolve(imms[i]).off]
           opcode == OpcodeWord(e, suffixed, ops)
           head == <<opcode>>
           main == head \o offs
           bank == CHOOSE b \in banks : TRUE
           first == <<MaskLX, bank>>
           last == <<MaskLX, 0>>
           both == first \o main
           all == both \o last
<1>1. n \in Nat
  BY ImmediatesLength
<1>2. words = IF banks = {} THEN main ELSE all
  BY DEF Compile, compile_instruction_safe, EamSetWords, Resolve
<1>a. EncodedWords(words, name, suffixed, ops) <=>
         /\ IsSeq(words)
         /\ banks = {} =>
               /\ Len(words) = 1 + n
               /\ words[1] = opcode
               /\ \A i \in 1 .. n : words[1 + i] = Resolve(imms[i]).off
         /\ banks # {} =>
               /\ Len(words) = 5 + n
               /\ words[1] = MaskLX /\ words[2] = bank
               /\ words[3] = opcode
               /\ \A i \in 1 .. n : words[3 + i] = Resolve(imms[i]).off
               /\ words[4 + n] = MaskLX /\ words[5 + n] = 0
  BY Zenon DEF EncodedWords
<1> HIDE DEF n, bank, opcode, e, imms, banks, words
<1>3. IsSeq(offs) /\ Len(offs) = n /\ \A i \in 1 .. n : offs[i] = Resolve(imms[i]).off
  BY <1>1 DEF IsSeq
<1>4. /\ IsSeq(head) /\ Len(head) = 1 /\ head[1] = opcode
      /\ IsSeq(first) /\ Len(first) = 2 /\ first[1] = MaskLX /\ first[2] = bank
      /\ IsSeq(last) /\ Len(last) = 2 /\ last[1] = MaskLX /\ last[2] = 0
  BY DEF IsSeq
<1> HIDE DEF offs, head, first, last
<1>5. /\ IsSeq(main) /\ Len(main) = Len(head) + Len(offs)
      /\ \A i \in 1 .. Len(head) : main[i] = head[i]
      /\ \A i \in 1 .. Len(offs) : main[Len(head) + i] = offs[i]
  <2>1. IsSeq(head) /\ IsSeq(offs)
    BY <1>3, <1>4
  <2> QED
    BY <2>1, Joined
<1> HIDE DEF main
<1>6. /\ Len(main) = 1 + n /\ main[1] = opcode
      /\ \A i \in 1 .. n : main[1 + i] = Resolve(imms[i]).off
  BY <1>1, <1>3, <1>4, <1>5
<1>7. /\ IsSeq(both) /\ Len(both) = Len(first) + Len(main)
      /\ \A i \in 1 .. Len(first) : both[i] = first[i]
      /\ \A i \in 1 .. Len(main) : both[Len(first) + i] = main[i]
  <2>1. IsSeq(first) /\ IsSeq(main)
    BY <1>4, <1>5
  <2> QED
    BY <2>1, Joined
<1> HIDE DEF both
<1>8. /\ Len(both) = 3 + n /\ both[1] = MaskLX /\ both[2] = bank
      /\ both[3] = opcode
      /\ \A i \in 1 .. n : both[3 + i] = Resolve(imms[i]).off
  <2>1. Len(both) = 3 + n /\ both[1] = MaskLX /\ both[2] = bank
    BY <1>1, <1>4, <1>6, <1>7
  <2>2. \A i \in 1 .. 1 + n : both[2 + i] = main[i]
    BY <1>4, <1>6, <1>7
  <2>3. 1 \in 1 .. 1 + n /\ 2 + 1 = 3
    BY <1>1
  <2>4. \A i \in 1 .. n : 1 + i \in 1 .. 1 + n /\ 2 + (1 + i) = 3 + i
    BY <1>1
  <2> QED
    BY <1>6, <2>1, <2>2, <2>3, <2>4
<1>9. /\ IsSeq(all) /\ Len(all) = Len(both) + Len(last)
      /\ \A i \in 1 .. Len(both) : all[i] = both[i]
      /\ \A i \in 1 .. Len(last) : all[Len(both) + i] = last[i]
  <2>1. IsSeq(both) /\ IsSeq(last)
    BY <1>4, <1>7
  <2> QED
    BY <2>1, Joined
<1> HIDE DEF all
<1>10. /\ Len(all) = 5 + n /\ all[1] = MaskLX /\ all[2] = bank /\ all[3] = opcode
       /\ all[4 + n] = MaskLX /\ all[5 + n] = 0
  <2>1. Len(both) + 1 = 4 + n /\ Len(both) + 2 = 5 + n /\ Len(both) >= 3
    BY <1>1, <1>8
  <2>2. \A i \in 1 .. 3 : all[i] = both[i]
    BY <1>1, <1>8, <1>9
  <2> QED
    BY <1>1, <1>4, <1>8, <1>9, <2>1, <2>2
<1>11. \A i \in 1 .. n : all[3 + i] = Resolve(imms[i]).off
  <2>1. \A i \in 1 .. n : 3 + i \in 1 .. Len(both)
    BY <1>1, <1>8
  <2> QED
    BY <1>8, <1>9, <2>1
<1> QED
  <2>1. EncodedWords(words, name, suffixed, ops)
    BY <1>a, <1>1, <1>2, <1>5, <1>6, <1>9, <1>10, <1>11
  <2> QED
    BY <2>1 DEF words

\* Without a clash the immediates lie in one bank besides bank 0.
LEMMA OneBank ==
    ASSUME NEW imms, Len(imms) \in Nat,
           NEW banks, banks = BanksNeeded(label_table, constant_table, imms),
           ~BankClash(label_table, constant_table, imms), NEW b \in banks
    PROVE  b = CHOOSE c \in banks : TRUE
<1> DEFINE c == CHOOSE x \in banks : TRUE
           B(i) == Resolve(imms[i]).bank
           all == {B(i) : i \in 1 .. Len(imms)}
           f == [i \in 1 .. Len(imms) |-> B(i)]
<1>1. c \in banks
  OBVIOUS
<1>2. banks \subseteq all
  BY DEF BanksNeeded, Resolve
<1> HIDE DEF c
<1>3. IsFiniteSet(all)
  <2>1. IsFiniteSet(1 .. Len(imms))
    BY FS_Interval
  <2> HIDE DEF B
  <2>2. f \in Surjection(1 .. Len(imms), all)
    BY DEF Surjection
  <2> HIDE DEF f, all
  <2> QED
    BY <2>1, <2>2, FS_Surjection
<1> HIDE DEF all
<1>4. IsFiniteSet(banks) /\ Cardinality(banks) \in Nat
  BY <1>2, <1>3, FS_Subset, FS_CardinalityType
<1>5. Cardinality(banks) <= 1
  BY <1>4 DEF BankClash
<1>6. ASSUME b # c PROVE FALSE
  <2>1. IsFiniteSet({b}) /\ Cardinality({b}) = 1
    BY FS_Singleton
  <2>2. {b} \in SUBSET banks
    OBVIOUS
  <2>3. Cardinality({b}) <= Cardinality(banks)
        /\ (Cardinality(banks) = Cardinality({b}) => banks = {b})
    BY <1>4, <2>2, FS_Subset
  <2>4. banks = {b}
    BY <1>4, <1>5, <2>1, <2>3
  <2> QED
    BY <1>1, <1>6, <2>4
<1> QED
  BY <1>6 DEF c

\* Where the words of a line stand in a finished output.
LEMMA LineStands ==
    ASSUME IncTypeOK, WriteInv, phase = "saved", NEW k \in 1 .. Len(expanded),
           NEW words, words = PassTwoWords(expanded[k])
    PROVE  /\ IsSeq(output) /\ Len(output) \in Nat /\ Len(words) \in Nat
           /\ starts[k] \in Nat
           /\ WordBehind(k) = FirstWord(k) + Len(words)
           /\ WordBehind(k) <= Len(output) + 1
           /\ \A i \in 1 .. Len(words) : output[starts[k] + i] = words[i]
<1> DEFINE N == Len(expanded)
<1>1. N \in Nat /\ Written = N
  BY DEF IncTypeOK, Written
<1>2. /\ IsSeq(output) /\ starts \in Seq(Nat) /\ Len(starts) = N
      /\ Len(output) = WordsBefore(N + 1)
      /\ \A j \in 1 .. N :
            /\ starts[j] = WordsBefore(j)
            /\ starts[j] + WordCount(j) <= Len(output)
            /\ \A i \in 1 .. WordCount(j) :
                  output[starts[j] + i] = PassTwoWords(expanded[j])[i]
  BY <1>1 DEF WriteInv
<1>3. WordCount(k) = Len(words)
  BY DEF WordCount
<1>4. Len(output) \in Nat
  BY <1>2, LenProperties DEF IsSeq
<1>5. starts[k] \in Nat
  BY <1>2
<1>6. Len(words) \in Nat
  <2>1. IsLine(expanded[k])
    BY SourceLinesAreLines DEF IncTypeOK
  <2>2. IsSeq(words)
    BY <2>1, LineIsSeq
  <2> QED
    BY <2>2, LenProperties DEF IsSeq
<1>7. ASSUME k = N
      PROVE  WordBehind(k) = starts[k] + Len(words) + 1
  <2>1. ASSUME NEW j, j = N + 1
        PROVE  WordsBefore(j) = starts[N] + WordCount(N)
    <3>1. j # 1 /\ j - 1 = N
      BY <1>1, <1>7, <2>1
    <3> QED
      BY <3>1 DEF WordsBefore
  <2>2. WordBehind(k) = Len(output) + 1
    BY <1>1, <1>2, <1>7 DEF WordBehind
  <2> QED
    BY <1>2, <1>3, <1>7, <2>1, <2>2
<1>8. ASSUME k # N
      PROVE  WordBehind(k) = starts[k] + Len(words) + 1
  <2>1. k + 1 \in 1 .. N /\ k < N /\ k + 1 # 1 /\ k + 1 - 1 = k
    BY <1>1, <1>8
  <2>2. starts[k + 1] = WordsBefore(k + 1)
    BY <1>2, <2>1
  <2>3. WordsBefore(k + 1) = starts[k] + WordCount(k)
    BY <2>1 DEF WordsBefore
  <2>4. WordBehind(k) = starts[k + 1] + 1
    BY <1>2, <2>1 DEF WordBehind
  <2> QED
    BY <1>3, <2>2, <2>3, <2>4
<1>9. WordBehind(k) = starts[k] + Len(words) + 1 /\ starts[k] + Len(words) <= Len(output)
  BY <1>2, <1>3, <1>7, <1>8
<1>10. \A i \in 1 .. Len(words) : output[starts[k] + i] = words[i]
  BY <1>2, <1>3
<1>11. /\ starts[k] \in Nat
       /\ WordBehind(k) = FirstWord(k) + Len(words)
       /\ WordBehind(k) <= Len(output) + 1
  BY <1>4, <1>5, <1>6, <1>9 DEF FirstWord
<1> QED
  BY <1>2, <1>4, <1>6, <1>10, <1>11

\* In a text of settled lines every operand is resolved to what it means.
LEMMA MeaningIsResolve ==
    ASSUME IncTypeOK, LayInv, WriteInv, phase = "saved",
           \A k \in 1 .. Len(expanded) : Settled(k), NEW o \in Operand
    PROVE  Meaning(o) = Resolve(o)
<1>1. CASE o.type # "name" \/ LinesWith("label", o.name) = {}
  BY <1>1 DEF Meaning
<1>2. CASE o.type = "name" /\ LinesWith("label", o.name) # {}
  <2> DEFINE name == o.name
             first == FirstLine(expanded, "label", name)
  <2>1. name \in STRING /\ Len(expanded) \in Nat
    BY <1>2 DEF Operand, IncTypeOK
  <2>2. LinesWith("label", name) = LinesIn(expanded, "label", name)
    BY DEF LinesWith, LinesIn
  <2>3. Meaning(o) = PlaceOf(first)
    BY <1>2, <2>2 DEF Meaning, FirstLine
  <2>4. PICK k \in LinesIn(expanded, "label", name) : TRUE
    BY <1>2, <2>2
  <2>5. first \in 1 .. Len(expanded)
    BY <2>4, FirstLineIs DEF LinesIn
  <2>6. Above(expanded, Len(expanded) + 1, "label", name)
    BY <2>1, <2>4 DEF Above, LinesIn
  <2>7. Tabulated(Len(expanded) + 1)
    BY DEF LayInv, Numbered
  <2>8. Defined(label_table, name) /\ First(label_table, name) = addresses[first]
    BY <2>1, <2>6, <2>7 DEF Tabulated, LabelsOf
  <2>9. addresses[first] = PlaceOf(first)
    BY <2>1, <2>5, AddressIsPlace
  <2>10. Resolve(o) = First(label_table, name)
    BY <1>2, <2>8 DEF Resolve, resolve_address
  <2> QED
    BY <2>3, <2>8, <2>9, <2>10
<1> QED
  BY <1>1, <1>2

\* A line whose words are an instruction carries it.
LEMMA CompiledCarries ==
    ASSUME IsSeq(output), Len(output) \in Nat,
           NEW k, starts[k] \in Nat,
           NEW name, NEW suffixed \in BOOLEAN, NEW ops \in Seq(Operand),
           NEW words, words = Compile(name, suffixed, ops),
           WordBehind(k) = FirstWord(k) + Len(words), WordBehind(k) <= Len(output) + 1,
           \A i \in 1 .. Len(words) : output[starts[k] + i] = words[i],
           Known(name, suffixed), Complete(name, ops), ~Clash(name, ops),
           \A o \in Operand : Meaning(o) = Resolve(o)
    PROVE  Carries(k, name, suffixed, ops)
<1> DEFINE e == lookup_opcode(name)
           imms == Immediates(e.form, ops)
           banks == BanksNeeded(label_table, constant_table, imms)
           meant == {Meaning(imms[i]).bank : i \in 1 .. Len(imms)} \ {0}
           f == FirstWord(k)
           n == Len(imms)
           bank == CHOOSE b \in banks : TRUE
<1>0. /\ e = lookup_opcode(name) /\ imms = Immediates(e.form, ops)
      /\ banks = BanksNeeded(label_table, constant_table, imms)
  OBVIOUS
<1>1. imms \in Seq(Operand) /\ n \in Nat /\ \A i \in 1 .. n : imms[i] \in Operand
  BY ImmediatesAre
<1>2. meant = banks
  <2> HIDE DEF imms
  <2> QED
    BY <1>1 DEF BanksNeeded, Resolve
<1>3. \A b \in banks : b = bank
  <2>1. ~BankClash(label_table, constant_table, imms)
    BY DEF Clash
  <2> HIDE DEF imms
  <2>2. ASSUME NEW b \in banks PROVE b = CHOOSE c \in banks : TRUE
    BY <1>1, <2>1, OneBank
  <2> QED
    BY <2>2
<1>4. Carries(k, name, suffixed, ops) <=>
         /\ f < WordBehind(k)
         /\ IF meant = {}
              THEN /\ NextInstruction(f) = WordBehind(k)
                   /\ Does(InstructionAt(f), name, suffixed, ops)
              ELSE /\ NextInstruction(f) < WordBehind(k)
                   /\ NextInstruction(NextInstruction(f)) < WordBehind(k)
                   /\ NextInstruction(NextInstruction(NextInstruction(f)))
                        = WordBehind(k)
                   /\ \A b \in meant : SetsBank(InstructionAt(f), b)
                   /\ Does(InstructionAt(NextInstruction(f)), name, suffixed, ops)
                   /\ SetsBank(InstructionAt(NextInstruction(NextInstruction(f))), 0)
  BY Zenon DEF Carries
<1>5. f = starts[k] + 1 /\ f \in Nat \ {0}
  BY DEF FirstWord
<1>6. /\ IsSeq(words)
      /\ banks = {} =>
            /\ Len(words) = 1 + n
            /\ words[1] = OpcodeWord(e, suffixed, ops)
            /\ \A i \in 1 .. n : words[1 + i] = Resolve(imms[i]).off
      /\ banks # {} =>
            /\ Len(words) = 5 + n
            /\ words[1] = MaskLX /\ words[2] = bank
            /\ words[3] = OpcodeWord(e, suffixed, ops)
            /\ \A i \in 1 .. n : words[3 + i] = Resolve(imms[i]).off
            /\ words[4 + n] = MaskLX /\ words[5 + n] = 0
  <2>1. EncodedWords(words, name, suffixed, ops)
    BY CompiledWords, Zenon
  <2> QED
    BY <2>1, Zenon DEF EncodedWords
<1>b. \A p \in Nat : EncodedAt(p, name, suffixed, ops) <=>
         /\ p + n <= Len(output)
         /\ output[p] = OpcodeWord(e, suffixed, ops)
         /\ \A i \in 1 .. n : output[p + i] = Meaning(imms[i]).off
  BY Zenon DEF EncodedAt
<1> HIDE DEF e, imms, banks, meant, f, n, bank
<1>7. \A i \in 1 .. Len(words) : output[f + (i - 1)] = words[i]
  <2>1. \A i \in 1 .. Len(words) : f + (i - 1) = starts[k] + i
    BY <1>5
  <2> QED
    BY <2>1
<1>8. ASSUME NEW p \in Nat \ {0}, p + n <= Len(output),
             output[p] = OpcodeWord(e, suffixed, ops),
             \A i \in 1 .. n : output[p + i] = Resolve(imms[i]).off
      PROVE  /\ Does(InstructionAt(p), name, suffixed, ops)
             /\ NextInstruction(p) = p + 1 + n
  <2>1. \A i \in 1 .. n : output[p + i] = Meaning(imms[i]).off
    BY <1>1, <1>8
  <2>2. EncodedAt(p, name, suffixed, ops)
    BY <1>8, <1>b, <2>1
  <2>3. /\ Does(InstructionAt(p), name, suffixed, ops)
        /\ NextInstruction(p)
              = p + 1 + Len(Immediates(lookup_opcode(name).form, ops))
    BY <2>2, InstructionRead
  <2> QED
    BY <1>8, <2>3 DEF n, imms, e
<1>9. CASE banks = {}
  <2>1. Len(words) = 1 + n /\ 1 \in 1 .. Len(words)
    BY <1>1, <1>6, <1>9
  <2>2. output[f] = OpcodeWord(e, suffixed, ops)
    <3>1. f + (1 - 1) = f
      BY <1>5
    <3> QED
      BY <1>6, <1>7, <1>9, <2>1, <3>1
  <2>3. ASSUME NEW i \in 1 .. n
        PROVE  output[f + i] = Resolve(imms[i]).off
    <3> DEFINE j == 1 + i
    <3>1. j \in 1 .. Len(words) /\ f + (j - 1) = f + i
      BY <1>1, <1>5, <2>1
    <3>2. words[j] = Resolve(imms[i]).off
      BY <1>6, <1>9
    <3> HIDE DEF j
    <3>3. output[f + (j - 1)] = words[j]
      BY <1>7, <3>1
    <3>4. f + (j - 1) = f + i
      BY <3>1
    <3> QED
      BY <3>2, <3>3, <3>4, Zenon
  <2>4. f \in Nat \ {0} /\ f + n <= Len(output) /\ WordBehind(k) = f + 1 + n
    <3>1. f \in Nat \ {0}
      BY <1>5
    <3>2. WordBehind(k) = f + (1 + n)
      BY <2>1 DEF f
    <3> QED
      BY <1>1, <3>1, <3>2
  <2>5. /\ Does(InstructionAt(f), name, suffixed, ops)
        /\ NextInstruction(f) = f + 1 + n
    BY <1>8, <2>2, <2>3, <2>4
  <2>6. f < WordBehind(k)
    BY <1>1, <2>4
  <2>7. NextInstruction(f) = WordBehind(k)
    BY <2>4, <2>5
  <2> QED
    BY <1>2, <1>4, <1>9, <2>5, <2>6, <2>7
<1>10. CASE banks # {}
  <2> DEFINE p == f + 2
             q == f + 3 + n
  <2>1. Len(words) = 5 + n
    BY <1>6, <1>10
  <2>2. f \in Nat \ {0} /\ WordBehind(k) = f + 5 + n /\ f + 4 + n <= Len(output)
    <3>1. f \in Nat \ {0}
      BY <1>5
    <3>2. WordBehind(k) = f + (5 + n)
      BY <2>1 DEF f
    <3> QED
      BY <1>1, <3>1, <3>2
  <2>3. /\ 1 \in 1 .. Len(words) /\ 2 \in 1 .. Len(words) /\ 3 \in 1 .. Len(words)
        /\ 4 + n \in 1 .. Len(words) /\ 5 + n \in 1 .. Len(words)
        /\ f + (1 - 1) = f /\ f + (2 - 1) = f + 1 /\ f + (3 - 1) = p
        /\ f + ((4 + n) - 1) = q /\ f + ((5 + n) - 1) = q + 1
    BY <1>1, <2>1, <2>2
  <2>4. /\ output[f] = MaskLX /\ output[f + 1] = bank
        /\ output[p] = OpcodeWord(e, suffixed, ops)
        /\ output[q] = MaskLX /\ output[q + 1] = 0
    <3> HIDE DEF p, q
    <3> QED
      BY <1>6, <1>7, <1>10, <2>3
  <2>5. ASSUME NEW i \in 1 .. n
        PROVE  output[p + i] = Resolve(imms[i]).off
    <3> DEFINE j == 3 + i
    <3>1. j \in 1 .. Len(words) /\ f + (j - 1) = p + i
      BY <1>1, <2>1, <2>2
    <3>2. words[j] = Resolve(imms[i]).off
      BY <1>6, <1>10
    <3> HIDE DEF j, p, q
    <3>3. output[f + (j - 1)] = words[j]
      BY <1>7, <3>1
    <3> QED
      BY <3>1, <3>2, <3>3
  <2>6. SetsBank(InstructionAt(f), bank) /\ NextInstruction(f) = p
    <3>1. f + 1 <= Len(output)
      BY <1>1, <2>2
    <3> QED
      BY <2>2, <2>4, <3>1, SwitchRead
  <2>7. Does(InstructionAt(p), name, suffixed, ops) /\ NextInstruction(p) = q
    <3>1. p \in Nat \ {0}
      BY <2>2
    <3>2. p + n <= Len(output)
      BY <1>1, <2>2
    <3>3. p + 1 + n = q
      BY <1>1, <2>2
    <3> HIDE DEF p, q
    <3> QED
      BY <1>8, <2>4, <2>5, <3>1, <3>2, <3>3
  <2>8. SetsBank(InstructionAt(q), 0) /\ NextInstruction(q) = WordBehind(k)
    <3>1. q \in Nat \ {0} /\ q + 1 <= Len(output) /\ q + 2 = WordBehind(k)
      BY SMTT(20), <1>1, <2>2
    <3> HIDE DEF p, q
    <3> QED
      BY <2>4, <3>1, SwitchRead
  <2>9. f < WordBehind(k) /\ p < WordBehind(k) /\ q < WordBehind(k)
    BY SMTT(20), <1>1, <2>2
  <2> HIDE DEF p, q
  <2>10. \A b \in meant : SetsBank(InstructionAt(f), b)
    BY <1>2, <1>3, <2>6
  <2> QED
    BY <1>2, <1>4, <1>10, <2>6, <2>7, <2>8, <2>9, <2>10
<1> QED
  BY <1>9, <1>10

\* The words of an instruction, from its opcode word and its immediates.
Emission(word, imms) ==
    LET banks == BanksNeeded(label_table, constant_table, imms)
        main == <<word>> \o [i \in 1 .. Len(imms) |-> Resolve(imms[i]).off]
    IN  IF banks = {} THEN main
        ELSE EamSetWords(CHOOSE b \in banks : TRUE) \o main \o EamSetWords(0)

LEMMA Emitted ==
    ASSUME NEW name, NEW suffixed, NEW ops
    PROVE  LET e == lookup_opcode(name) IN
           Compile(name, suffixed, ops)
             = Emission(OpcodeWord(e, suffixed, ops), Immediates(e.form, ops))
BY DEF Emission, Compile, compile_instruction_safe, Resolve

\* A call names its label and is written with the label's address.
LEMMA CallByName ==
    ASSUME NEW x, NEW y, IsImmediate(x), IsImmediate(y), Resolve(x) = Resolve(y)
    PROVE  Plain("CAL", <<x>>) = Plain("CAL", <<y>>)
<1> DEFINE e == lookup_opcode("CAL")
           W(o) == OpcodeWord(e, FALSE, <<o>>)
           I(o) == Immediates(e.form, <<o>>)
           B(o) == BanksNeeded(label_table, constant_table, <<o>>)
           O(o) == [i \in 1 .. Len(<<o>>) |-> Resolve(<<o>>[i]).off]
<1>1. e.form = "N_R_N"
  BY FormsOf
<1>2. ASSUME NEW o, IsImmediate(o)
      PROVE  /\ Field("N_R_N", <<o>>, 1) = <<o>> /\ Field("N_R_N", <<o>>, 2) = <<>>
             /\ ImmediateOf(<<o>>) = <<o>> /\ ImmediateOf(<<>>) = <<>>
             /\ <<o>> # <<>> /\ RegisterOf(<<>>) = 0
  BY <1>2 DEF Field, Slots, ImmediateOf, RegisterOf
<1>3. ASSUME NEW o, IsImmediate(o)
      PROVE  W(o) = e.base + 0 + 0 + MaskLX + 0
  <2> HIDE DEF e
  <2>1. W(o) = e.base + (IF FALSE THEN MaskM ELSE 0)
                 + (IF FALSE THEN ShiftD * <<o>>[1].reg ELSE 0)
                 + (IF ImmediateOf(<<o>>) # <<>> THEN MaskLX
                    ELSE ShiftX * RegisterOf(<<o>>))
                 + (IF ImmediateOf(<<>>) # <<>> THEN MaskLY ELSE RegisterOf(<<>>))
    BY <1>1, <1>2, <1>3 DEF OpcodeWord
  <2> QED
    BY <1>2, <1>3, <2>1
<1>4. ASSUME NEW o, IsImmediate(o)
      PROVE  I(o) = <<o>>
  BY <1>1, <1>2, <1>4, ImmediatesOfOne
<1>5. B(x) = B(y) /\ O(x) = O(y)
  BY DEF BanksNeeded, Resolve
<1>6. ASSUME NEW o, IsImmediate(o)
      PROVE  Plain("CAL", <<o>>) = Emission(W(o), <<o>>)
  <2>1. Plain("CAL", <<o>>) = Emission(W(o), I(o))
    BY Emitted, Zenon DEF Plain
  <2> QED
    BY <1>4, <1>6, <2>1, Zenon
<1>7. W(x) = W(y)
  BY <1>3
<1> HIDE DEF e, W
<1>8. Emission(W(x), <<x>>) = Emission(W(x), <<y>>)
  <2> DEFINE w == W(x)
             E(banks, offs) ==
               IF banks = {} THEN <<w>> \o offs
               ELSE EamSetWords(CHOOSE b \in banks : TRUE) \o (<<w>> \o offs)
                      \o EamSetWords(0)
  <2>1. Emission(w, <<x>>) = E(B(x), O(x)) /\ Emission(w, <<y>>) = E(B(y), O(y))
    BY DEF Emission
  <2> HIDE DEF E, B, O
  <2> QED
    BY <1>5, <2>1, Zenon
<1> QED
  BY <1>6, <1>7, <1>8

-----------------------------------------------------------------------------
(* No line of a finished output asks for two banks at once.                *)

ClashInv ==
    phase \in {"pass 2", "saved"} => \A k \in 1 .. Written : ~LineClashes(expanded[k])

LEMMA SameClashes ==
    ASSUME label_table' = label_table, constant_table' = constant_table
    PROVE  \A l : LineClashes(l)' = LineClashes(l)
<1>1. ASSUME NEW name, NEW ops
      PROVE  Clash(name, ops)' = Clash(name, ops)
  BY DEF Clash
<1>2. ASSUME NEW l
      PROVE  Assigns(l)' = Assigns(l)
  BY DEF Assigns
<1> QED
  BY <1>1, <1>2 DEF LineClashes, CodeClashes

LEMMA ClashInvariance == AsmSpec => []ClashInv
<1>1. AsmInit => ClashInv
  BY DEF AsmInit, IncInit, ClashInv
<1>2. IncTypeOK /\ WriteInv /\ ClashInv /\ [AsmNext]_allVars => ClashInv'
  <2> SUFFICES ASSUME IncTypeOK, WriteInv, ClashInv, [AsmNext]_allVars
               PROVE  ClashInv'
    OBVIOUS
  <2>0. Len(expanded) \in Nat
    BY DEF IncTypeOK
  <2>1. CASE (Expand /\ UNCHANGED asmVars) \/ PassOneLine
    <3>1. phase' \in {"expand", "pass 1", "failed"}
      BY <2>1 DEF Expand, CopyLine, DropInclude, Include, RejectInclude,
                  EndOfFile, HasLine, Exit, PassOneLine, asmVars
    <3> QED
      BY <3>1 DEF ClashInv
  <2>2. CASE PassOneClash \/ PassTwoClash
    BY <2>2 DEF PassOneClash, PassTwoClash, Exit, ClashInv
  <2>3. CASE PassOneEnds
    <3>1. Written' = line' - 1 /\ line' = 1
      BY <2>3 DEF PassOneEnds, Written
    <3>2. Written' = 0
      BY <3>1
    <3>3. \A k \in 1 .. Written' : FALSE
      BY <3>2
    <3> QED
      BY <3>3 DEF ClashInv
  <2>4. CASE PassTwoLine
    <3>1. /\ phase = "pass 2" /\ phase' \in {"pass 2", "failed"}
          /\ expanded' = expanded /\ line' = line + 1 /\ ~LineClashes(expanded[line])
          /\ label_table' = label_table /\ constant_table' = constant_table
      BY <2>4 DEF PassTwoLine, KeepFiles, Exit, ThisLine
    <3>2. line \in 1 .. Len(expanded) + 1
      BY <3>1 DEF WriteInv
    <3>3. \A k \in 1 .. line - 1 : ~LineClashes(expanded[k])
      BY <3>1 DEF ClashInv, Written
    <3>4. \A k \in 1 .. line : ~LineClashes(expanded[k])
      <4>1. \A k \in 1 .. line : k = line \/ k \in 1 .. line - 1
        BY <2>0, <3>2
      <4> QED
        BY <3>1, <3>3, <4>1
    <3>5. CASE phase' = "pass 2"
      <4>1. line' - 1 = line
        <5>1. line' = line + 1
          BY <3>1
        <5> QED
          BY <2>0, <3>2, <5>1
      <4>2. Written' = line
        BY <3>5, <4>1 DEF Written
      <4>3. \A k : LineClashes(expanded[k])' = LineClashes(expanded[k])
        BY <3>1, SameClashes
      <4> QED
        BY <3>4, <4>2, <4>3 DEF ClashInv
    <3> QED
      BY <3>1, <3>5 DEF ClashInv
  <2>5. CASE PassTwoEnds \/ UNCHANGED allVars
    <3>1. /\ expanded' = expanded
          /\ label_table' = label_table /\ constant_table' = constant_table
      BY <2>5 DEF PassTwoEnds, KeepFiles, asmVars, allVars, incVars
    <3>2. \A k : LineClashes(expanded[k])' = LineClashes(expanded[k])
      BY <3>1, SameClashes
    <3>3. phase' \in {"pass 2", "saved"} =>
             phase \in {"pass 2", "saved"} /\ Written' = Written
      <4>1. CASE PassTwoEnds
        <5>1. phase = "pass 2" /\ phase' = "saved" /\ ~(line <= Len(expanded))
          BY <4>1 DEF PassTwoEnds, AnyLine
        <5>2. line \in 1 .. Len(expanded) + 1
          BY <5>1 DEF WriteInv
        <5>3. line - 1 = Len(expanded)
          <6>1. ~(line <= Len(expanded))
            BY <5>1
          <6> QED
            BY <2>0, <5>2, <6>1
        <5> QED
          BY <3>1, <5>1, <5>3 DEF Written
      <4>2. CASE UNCHANGED allVars
        BY <4>2 DEF allVars, incVars, asmVars, Written
      <4> QED
        BY <2>5, <4>1, <4>2
    <3> QED
      BY <3>2, <3>3 DEF ClashInv
  <2> QED
    BY <2>1, <2>2, <2>3, <2>4, <2>5 DEF AsmNext, Ended
<1> QED
  BY <1>1, <1>2, IncTyped, WriteInvariance, PTL DEF AsmSpec

\* The instruction that the source names for a line of code, call or assignment
\* is the one pass 2 compiles for it.
LEMMA LineSays ==
    ASSUME IncTypeOK, Tabulated(Len(expanded) + 1),
           NEW k \in 1 .. Len(expanded), Settled(k),
           ~LineClashes(expanded[k]), NEW l, l = expanded[k]
    PROVE  /\ l.kind = "code" =>
                 /\ l.suffixed \in BOOLEAN /\ l.ops \in Seq(Operand)
                 /\ PassTwoWords(l) = Compile(l.mnemonic, l.suffixed, l.ops)
                 /\ Known(l.mnemonic, l.suffixed) /\ ~Clash(l.mnemonic, l.ops)
           /\ l.kind = "call" =>
                 /\ <<Name(l.target)>> \in Seq(Operand)
                 /\ PassTwoWords(l) = Plain("CAL", <<Name(l.target)>>)
                 /\ ~Clash("CAL", <<Name(l.target)>>)
           /\ l.kind = "assign" /\ l.sign # "copy" =>
                 LET ops == <<l.var>> \o l.args IN
                 /\ ops \in Seq(Operand)
                 /\ Operator(l.sign) \in {"ADD", "SUB", "AND", "OR", "XOR"}
                 /\ PassTwoWords(l) = Plain(Operator(l.sign), ops)
                 /\ ~Clash(Operator(l.sign), ops)
<1>0. IsLine(l)
  BY SourceLinesAreLines DEF IncTypeOK
<1>1. ASSUME l.kind = "code"
      PROVE  /\ l.suffixed \in BOOLEAN /\ l.ops \in Seq(Operand)
             /\ PassTwoWords(l) = Compile(l.mnemonic, l.suffixed, l.ops)
             /\ Known(l.mnemonic, l.suffixed) /\ ~Clash(l.mnemonic, l.ops)
  <2>1. l.suffixed \in BOOLEAN /\ l.ops \in Seq(Operand)
    BY <1>0, <1>1 DEF IsLine
  <2>2. Known(l.mnemonic, l.suffixed)
    BY <1>1 DEF Settled
  <2>3. PassTwoWords(l) = Compile(l.mnemonic, l.suffixed, l.ops)
    BY <1>1, <2>2 DEF PassTwoWords, Assigns, MayAssign
  <2>4. ~Clash(l.mnemonic, l.ops)
    BY <1>1, <2>2 DEF LineClashes, CodeClashes, Asserted
  <2> QED
    BY <2>1, <2>2, <2>3, <2>4
<1>2. ASSUME l.kind = "call"
      PROVE  /\ <<Name(l.target)>> \in Seq(Operand)
             /\ PassTwoWords(l) = Plain("CAL", <<Name(l.target)>>)
             /\ ~Clash("CAL", <<Name(l.target)>>)
  <2> DEFINE o == Name(l.target)
             a == First(label_table, l.target)
  <2>1. o \in Operand
    BY <1>0, <1>2 DEF IsLine, Name, Operand
  <2>2. LinesWith("label", l.target) # {} /\ a.bank = 0
    BY <1>2 DEF Settled
  <2>3. Above(expanded, Len(expanded) + 1, "label", l.target)
    BY <1>0, <1>2, <2>2 DEF Above, LinesWith, LinesIn, IncTypeOK
  <2>4. Defined(label_table, l.target)
    BY <1>0, <1>2, <2>3 DEF Tabulated, LabelsOf, IsLine
  <2>5. Resolve(o) = a /\ Resolve(Number(a)) = a
        /\ IsImmediate(o) /\ IsImmediate(Number(a))
    BY <2>4 DEF Resolve, resolve_address, IsImmediate, Number, Name
  <2>6. PassTwoWords(l) = Plain("CAL", <<Number(a)>>)
    BY <1>2, <2>4 DEF PassTwoWords, Assigns, CallCode, Plain
  <2> HIDE DEF o, a
  <2>7. PassTwoWords(l) = Plain("CAL", <<o>>)
    <3> DEFINE x == Number(a)
    <3>1. Resolve(o) = Resolve(x) /\ IsImmediate(o) /\ IsImmediate(x)
      BY <2>5
    <3> HIDE DEF x
    <3>2. Plain("CAL", <<o>>) = Plain("CAL", <<x>>)
      BY <3>1, CallByName
    <3> QED
      BY <2>6, <3>2 DEF x
  <2>8. ~Clash("CAL", <<o>>)
    <3>1. lookup_opcode("CAL").form = "N_R_N"
      BY FormsOf
    <3>2. Field("N_R_N", <<o>>, 1) = <<o>> /\ Field("N_R_N", <<o>>, 2) = <<>>
      BY DEF Field, Slots
    <3>3. Immediates("N_R_N", <<o>>) = <<o>>
      BY <2>5, <3>2, ImmediatesOfOne
    <3>4. BanksNeeded(label_table, constant_table, <<o>>) = {}
      BY <2>2, <2>5 DEF BanksNeeded, Resolve
    <3>5. Cardinality({}) = 0
      BY FS_EmptySet
    <3>6. Cardinality(BanksNeeded(label_table, constant_table, <<o>>)) = 0
      BY <3>4, <3>5, Zenon
    <3>7. ~BankClash(label_table, constant_table, <<o>>)
      BY <3>6 DEF BankClash
    <3> QED
      BY <3>1, <3>3, <3>7, Zenon DEF Clash
  <2> QED
    BY <2>1, <2>7, <2>8 DEF o
<1>3. ASSUME l.kind = "assign", l.sign # "copy"
      PROVE  LET ops == <<l.var>> \o l.args IN
             /\ ops \in Seq(Operand)
             /\ Operator(l.sign) \in {"ADD", "SUB", "AND", "OR", "XOR"}
             /\ PassTwoWords(l) = Plain(Operator(l.sign), ops)
             /\ ~Clash(Operator(l.sign), ops)
  <2> DEFINE ops == <<l.var>> \o l.args
             given == <<l.var, l.args[1], l.args[2]>>
             name == Operator(l.sign)
  <2>1. /\ l.sign \in {"+", "-", "&", "|", "^"} /\ l.var \in Operand
        /\ l.args \in Seq(Operand) /\ Len(l.args) = 2
        /\ Assigns(l)
    BY <1>0, <1>3 DEF IsLine, IsAssignment, MayAssign, Settled, Signs,
                      ArgumentCount, Assigns
  <2>2. ops = given
    <3> DEFINE v == l.var
               args == l.args
    <3>1. v \in Operand /\ args \in Seq(Operand) /\ Len(args) = 2
      BY <2>1
    <3> HIDE DEF v, args
    <3>2. <<v>> \o args = <<v, args[1], args[2]>>
      <4> DEFINE s == <<v>>
                 st == s \o args
      <4>1. s \in Seq(Operand) /\ Len(s) = 1 /\ s[1] = v
        BY <3>1
      <4>2. /\ st \in Seq(Operand) /\ Len(st) = Len(s) + Len(args)
            /\ \A i \in 1 .. Len(s) + Len(args) :
                  st[i] = IF i <= Len(s) THEN s[i] ELSE args[i - Len(s)]
        BY <3>1, <4>1, ConcatProperties
      <4> HIDE DEF s, st
      <4>3. Len(st) = 3 /\ st[1] = v /\ st[2] = args[1] /\ st[3] = args[2]
        BY <3>1, <4>1, <4>2
      <4> DEFINE t == <<v, args[1], args[2]>>
      <4>4. t \in Seq(Operand)
        <5>1. v \in Operand /\ args[1] \in Operand /\ args[2] \in Operand
          <6>1. 1 \in 1 .. Len(args) /\ 2 \in 1 .. Len(args)
            BY <3>1
          <6>2. args \in Seq(Operand) /\ v \in Operand
            BY <3>1
          <6>3. \A i \in 1 .. Len(args) : args[i] \in Operand
            BY <6>2, ElementOfSeq
          <6> QED
            BY <6>1, <6>2, <6>3
        <5> QED
          BY <5>1
      <4>5. Len(t) = 3 /\ t[1] = v /\ t[2] = args[1] /\ t[3] = args[2]
        OBVIOUS
      <4> HIDE DEF t
      <4>6. Len(st) = Len(t) /\ \A i \in 1 .. Len(st) : st[i] = t[i]
        BY <4>3, <4>5
      <4>7. st = t
        BY <4>2, <4>4, <4>6, SeqEqual
      <4> QED
        BY <4>7 DEF s, st, t
    <3> QED
      BY <3>2 DEF v, args
  <2>3. ops \in Seq(Operand)
    <3>1. <<l.var>> \in Seq(Operand) /\ l.args \in Seq(Operand)
      BY <2>1
    <3> QED
      BY <3>1, ConcatProperties
  <2>4. name \in {"ADD", "SUB", "AND", "OR", "XOR"}
    BY <2>1 DEF Operator
  <2>5. Expansion(l) = <<[mnemonic |-> name, ops |-> given]>>
    BY <2>1 DEF Expansion
  <2>6. AssignCode(l) = Plain(name, given)
    BY <2>5, AssignOne
  <2>7. PassTwoWords(l) = Plain(name, given)
    BY <2>1, <2>6 DEF PassTwoWords
  <2>8. ~Clash(name, given)
    <3> HIDE DEF name, given
    <3>1. Len(Expansion(l)) = 1 /\ 1 \in 1 .. 1
          /\ Expansion(l)[1].mnemonic = name /\ Expansion(l)[1].ops = given
      BY <2>5
    <3> QED
      BY <2>1, <3>1 DEF LineClashes
  <2> QED
    BY <2>2, <2>3, <2>4, <2>7, <2>8
<1> QED
  BY <1>1, <1>2, <1>3

\* A program of settled lines is assembled into the instructions its source
\* names, and the processor reads them as such (hybrid_assembler.c:1410-1662,
\* design.sv:45-58).
THEOREM CodeMeans == AsmSpec => []CodeMeansSource
<1>1. IncTypeOK /\ LayInv /\ WriteInv /\ ClashInv => CodeMeansSource
  <2> SUFFICES ASSUME IncTypeOK, LayInv, WriteInv, ClashInv, phase = "saved",
                      \A j \in 1 .. Len(expanded) : Settled(j),
                      NEW k \in 1 .. Len(expanded)
               PROVE  LET l == expanded[k]
                          as(name, suffixed, ops) ==
                              Complete(name, ops) => Carries(k, name, suffixed, ops)
                      IN  /\ l.kind = "code" => as(l.mnemonic, l.suffixed, l.ops)
                          /\ l.kind = "call" => as("CAL", FALSE, <<Name(l.target)>>)
                          /\ l.kind = "assign" /\ l.sign # "copy" =>
                                as(Operator(l.sign), FALSE, <<l.var>> \o l.args)
    BY Zenon DEF CodeMeansSource
  <2> DEFINE l == expanded[k]
             words == PassTwoWords(l)
  <2>1. Settled(k) /\ ~LineClashes(l) /\ Tabulated(Len(expanded) + 1)
    BY DEF ClashInv, Written, LayInv, Numbered
  <2>2. /\ IsSeq(output) /\ Len(output) \in Nat /\ starts[k] \in Nat
        /\ WordBehind(k) = FirstWord(k) + Len(words)
        /\ WordBehind(k) <= Len(output) + 1
        /\ \A i \in 1 .. Len(words) : output[starts[k] + i] = words[i]
    BY LineStands
  <2>3. \A o \in Operand : Meaning(o) = Resolve(o)
    BY MeaningIsResolve
  <2>4. /\ l.kind = "code" =>
              /\ l.suffixed \in BOOLEAN /\ l.ops \in Seq(Operand)
              /\ words = Compile(l.mnemonic, l.suffixed, l.ops)
              /\ Known(l.mnemonic, l.suffixed) /\ ~Clash(l.mnemonic, l.ops)
        /\ l.kind = "call" =>
              /\ <<Name(l.target)>> \in Seq(Operand)
              /\ words = Plain("CAL", <<Name(l.target)>>)
              /\ ~Clash("CAL", <<Name(l.target)>>)
        /\ l.kind = "assign" /\ l.sign # "copy" =>
              /\ <<l.var>> \o l.args \in Seq(Operand)
              /\ Operator(l.sign) \in {"ADD", "SUB", "AND", "OR", "XOR"}
              /\ words = Plain(Operator(l.sign), <<l.var>> \o l.args)
              /\ ~Clash(Operator(l.sign), <<l.var>> \o l.args)
    BY <2>1, LineSays
  <2> HIDE DEF words, l
  <2>5. ASSUME NEW name, NEW suffixed \in BOOLEAN, NEW ops \in Seq(Operand),
               words = Compile(name, suffixed, ops), Known(name, suffixed),
               Complete(name, ops), ~Clash(name, ops)
        PROVE  Carries(k, name, suffixed, ops)
    BY <2>2, <2>3, <2>5, CompiledCarries
  <2>6. \A name \in {"CAL", "ADD", "SUB", "AND", "OR", "XOR"} : Known(name, FALSE)
    <3>1. /\ Entry("CAL", 13, FALSE, 0, "N_R_N") \in optable
          /\ Entry("ADD", 1, FALSE, 0, "R_R_R") \in optable
          /\ Entry("SUB", 2, FALSE, 0, "R_R_R") \in optable
          /\ Entry("AND", 3, FALSE, 0, "R_R_R") \in optable
          /\ Entry("OR", 4, FALSE, 0, "R_R_R") \in optable
          /\ Entry("XOR", 6, FALSE, 0, "R_R_R") \in optable
      BY Zenon DEF optable
    <3>2. ASSUME NEW name, NEW op, NEW m, NEW d, NEW form,
                 Entry(name, op, m, d, form) \in optable
          PROVE  \E e \in optable : e.mnemonic = name
      <4>1. Entry(name, op, m, d, form).mnemonic = name
        BY DEF Entry
      <4> QED
        BY <3>2, <4>1, Zenon
    <3>3. \A name \in {"CAL", "ADD", "SUB", "AND", "OR", "XOR"} :
             \E e \in optable : e.mnemonic = name
      BY <3>1, <3>2, Zenon
    <3> QED
      BY <3>3 DEF Known
  <2>7. ASSUME l.kind = "code", Complete(l.mnemonic, l.ops)
        PROVE  Carries(k, l.mnemonic, l.suffixed, l.ops)
    BY <2>4, <2>5, <2>7
  <2>8. ASSUME NEW name \in {"CAL", "ADD", "SUB", "AND", "OR", "XOR"},
               NEW ops \in Seq(Operand), words = Plain(name, ops),
               Complete(name, ops), ~Clash(name, ops)
        PROVE  Carries(k, name, FALSE, ops)
    <3> DEFINE plain == FALSE
    <3>1. words = Compile(name, plain, ops) /\ Known(name, plain)
      BY <2>6, <2>8, Zenon DEF Plain
    <3>2. plain \in BOOLEAN
      OBVIOUS
    <3> HIDE DEF plain
    <3>3. Carries(k, name, plain, ops)
      BY <2>5, <2>8, <3>1, <3>2
    <3> QED
      BY <3>3 DEF plain
  <2>9. ASSUME l.kind = "call", Complete("CAL", <<Name(l.target)>>)
        PROVE  Carries(k, "CAL", FALSE, <<Name(l.target)>>)
    BY <2>4, <2>8, <2>9
  <2>10. ASSUME l.kind = "assign", l.sign # "copy",
                Complete(Operator(l.sign), <<l.var>> \o l.args)
         PROVE  Carries(k, Operator(l.sign), FALSE, <<l.var>> \o l.args)
    BY <2>4, <2>8, <2>10
  <2> QED
    BY <2>7, <2>9, <2>10, Zenon DEF l
<1> QED
  BY <1>1, IncTyped, LayInvariance, WriteInvariance, ClashInvariance, PTL

-----------------------------------------------------------------------------
(* The text that the includes stand for: one file's lines, joined          *)

\* g is what each number of lines of file f stands for, up to n of them.
LinesJoined(text, f, n, g) ==
    g = [k \in 0 .. n |->
            IF k = 0 THEN <<>> ELSE g[k - 1] \o LineText(text, files[f][k])]

LEMMA JoinedExists ==
    ASSUME NEW text, NEW f, NEW n \in Nat
    PROVE  \E g : LinesJoined(text, f, n, g)
<1> DEFINE Bad == {k \in Nat : ~\E g : LinesJoined(text, f, k, g)}
<1>1. ASSUME Bad # {} PROVE FALSE
  <2>1. PICK k \in Bad : \A j \in Bad : k <= j
    <3>1. Bad \in SUBSET Nat
      OBVIOUS
    <3> HIDE DEF Bad
    <3> QED
      BY <1>1, <3>1, LeastNatural
  <2>2. CASE k = 0
    <3> DEFINE g == [i \in 0 .. 0 |-> <<>>]
    <3>1. \A i \in 0 .. 0 : i = 0
      OBVIOUS
    <3>2. g = [i \in 0 .. 0 |->
                  IF i = 0 THEN <<>> ELSE g[i - 1] \o LineText(text, files[f][i])]
      BY <3>1
    <3> QED
      BY <2>1, <2>2, <3>2 DEF LinesJoined
  <2>3. CASE k # 0
    <3>1. k - 1 \in Nat /\ k - 1 < k
      BY <2>1, <2>3
    <3>2. PICK g : LinesJoined(text, f, k - 1, g)
      BY <2>1, <3>1
    <3> DEFINE h == [i \in 0 .. k |->
                        IF i = 0 THEN <<>> ELSE g[i - 1] \o LineText(text, files[f][i])]
    <3>3. ASSUME NEW i \in 0 .. k, i # 0
          PROVE  h[i - 1] = g[i - 1]
      <4>1. i - 1 \in 0 .. k - 1 /\ i - 1 \in 0 .. k
        BY <2>1, <3>3
      <4>2. g[i - 1] = IF i - 1 = 0 THEN <<>>
                       ELSE g[i - 1 - 1] \o LineText(text, files[f][i - 1])
        BY <3>2, <4>1 DEF LinesJoined
      <4>3. h[i - 1] = IF i - 1 = 0 THEN <<>>
                       ELSE g[i - 1 - 1] \o LineText(text, files[f][i - 1])
        BY <4>1
      <4> QED
        BY <4>2, <4>3
    <3>4. h = [i \in 0 .. k |->
                  IF i = 0 THEN <<>> ELSE h[i - 1] \o LineText(text, files[f][i])]
      BY <3>3
    <3> QED
      BY <2>1, <3>4 DEF LinesJoined
  <2> QED
    BY <2>2, <2>3
<1> QED
  BY <1>1

LEMMA JoinedAgree ==
    ASSUME NEW text, NEW f, NEW n \in Nat, NEW g, NEW h,
           LinesJoined(text, f, n + 1, g), LinesJoined(text, f, n, h)
    PROVE  g[n] = h[n]
<1> DEFINE Bad == {k \in 0 .. n : g[k] # h[k]}
<1>1. \A k \in 0 .. n + 1 : g[k] = IF k = 0 THEN <<>>
                            ELSE g[k - 1] \o LineText(text, files[f][k])
  BY DEF LinesJoined
<1>2. \A k \in 0 .. n : h[k] = IF k = 0 THEN <<>>
                        ELSE h[k - 1] \o LineText(text, files[f][k])
  BY DEF LinesJoined
<1>3. ASSUME Bad # {} PROVE FALSE
  <2>1. PICK k \in Bad : \A j \in Bad : k <= j
    <3>1. Bad \in SUBSET Nat
      OBVIOUS
    <3> HIDE DEF Bad
    <3> QED
      BY <1>3, <3>1, LeastNatural
  <2>2. k \in 0 .. n /\ k \in 0 .. n + 1 /\ g[k] # h[k]
    BY <2>1
  <2>3. CASE k = 0
    BY <1>1, <1>2, <2>2, <2>3
  <2>4. CASE k # 0
    <3>1. k - 1 \in 0 .. n /\ k - 1 < k
      BY <2>2, <2>4
    <3>2. g[k - 1] = h[k - 1]
      BY <2>1, <2>2, <3>1
    <3> QED
      BY <1>1, <1>2, <2>2, <2>4, <3>2
  <2> QED
    BY <2>3, <2>4
<1> QED
  BY <1>3

LEMMA LinesAre ==
    ASSUME NEW text, NEW f, NEW n \in Nat
    PROVE  \E g : LinesJoined(text, f, n, g) /\ TextOfLines(text, f, n) = g[n]
<1> DEFINE g == CHOOSE h : LinesJoined(text, f, n, h)
<1>1. TextOfLines(text, f, n) = g[n]
  BY Zenon DEF TextOfLines, LinesJoined
<1>2. LinesJoined(text, f, n, g)
  BY JoinedExists, Zenon
<1> QED
  BY <1>1, <1>2, Zenon

\* One line more adds what that line stands for.
LEMMA TextGrows ==
    ASSUME NEW text, NEW f, NEW n \in Nat
    PROVE  /\ TextOfLines(text, f, 0) = <<>>
           /\ TextOfLines(text, f, n + 1) =
                 TextOfLines(text, f, n) \o LineText(text, files[f][n + 1])
<1>1. PICK e : LinesJoined(text, f, 0, e) /\ TextOfLines(text, f, 0) = e[0]
  BY LinesAre
<1>2. PICK h : LinesJoined(text, f, n, h) /\ TextOfLines(text, f, n) = h[n]
  BY LinesAre
<1>3. n + 1 \in Nat
  OBVIOUS
<1>4. PICK g : LinesJoined(text, f, n + 1, g) /\ TextOfLines(text, f, n + 1) = g[n + 1]
  BY <1>3, LinesAre
<1>5. e[0] = <<>>
  BY <1>1 DEF LinesJoined
<1>6. g[n + 1] = g[n] \o LineText(text, files[f][n + 1])
  <2>1. n + 1 \in 0 .. n + 1 /\ n + 1 # 0 /\ n + 1 - 1 = n
    OBVIOUS
  <2>2. g[n + 1] = IF n + 1 = 0 THEN <<>>
                   ELSE g[n + 1 - 1] \o LineText(text, files[f][n + 1])
    BY SMTT(20), <1>4, <2>1 DEF LinesJoined
  <2> QED
    BY <2>1, <2>2
<1>7. g[n] = h[n]
  BY <1>2, <1>4, JoinedAgree
<1> QED
  BY <1>1, <1>2, <1>4, <1>5, <1>6, <1>7

Texts == [DOMAIN files -> Seq(SourceLines)]

LEMMA LineTextIsText ==
    ASSUME files \in Sources, NEW text \in Texts, NEW f \in DOMAIN files,
           NEW n \in 1 .. Len(files[f])
    PROVE  LineText(text, files[f][n]) \in Seq(SourceLines)
<1>1. files[f][n] \in SourceLines
  BY DEF SourceLines
<1>2. <<>> \in Seq(SourceLines)
  BY EmptySeq
<1>3. <<files[f][n]>> \in Seq(SourceLines)
  BY <1>1
<1> QED
  BY <1>2, <1>3 DEF LineText, Texts

LEMMA TextOfLinesIsText ==
    ASSUME files \in Sources, NEW text \in Texts, NEW f \in DOMAIN files,
           NEW n \in 0 .. Len(files[f])
    PROVE  TextOfLines(text, f, n) \in Seq(SourceLines)
<1> DEFINE Bad == {k \in 0 .. Len(files[f]) : TextOfLines(text, f, k) \notin Seq(SourceLines)}
<1>1. Len(files[f]) \in Nat
  BY SourceAssumption
<1>2. ASSUME Bad # {} PROVE FALSE
  <2>1. PICK k \in Bad : \A j \in Bad : k <= j
    <3>1. Bad \in SUBSET Nat
      BY <1>1
    <3> HIDE DEF Bad
    <3> QED
      BY <1>2, <3>1, LeastNatural
  <2>2. CASE k = 0
    <3>1. TextOfLines(text, f, 0) = <<>>
      BY TextGrows
    <3> QED
      BY <2>1, <2>2, <3>1, EmptySeq
  <2>3. CASE k # 0
    <3> DEFINE j == k - 1
    <3>1. j \in Nat /\ j + 1 = k /\ k \in 1 .. Len(files[f])
          /\ j \in 0 .. Len(files[f]) /\ j < k
      BY <1>1, <2>1, <2>3
    <3>2. TextOfLines(text, f, j) \in Seq(SourceLines)
      BY <2>1, <3>1
    <3>3. LineText(text, files[f][k]) \in Seq(SourceLines)
      BY <3>1, LineTextIsText
    <3> HIDE DEF j
    <3>4. TextOfLines(text, f, j + 1) =
             TextOfLines(text, f, j) \o LineText(text, files[f][j + 1])
      BY <3>1, TextGrows
    <3>5. TextOfLines(text, f, k) \in Seq(SourceLines)
      BY <3>1, <3>2, <3>3, <3>4, ConcatProperties
    <3> QED
      BY <2>1, <3>5
  <2> QED
    BY <2>2, <2>3
<1> QED
  BY <1>2


\* g is the texts of the files at each depth up to d.
Nested(d, g) ==
    g = [n \in 0 .. d |->
            [f \in DOMAIN files |->
                IF n = 0 THEN <<>> ELSE TextOfLines(g[n - 1], f, Len(files[f]))]]

LEMMA NestedExists ==
    ASSUME NEW d \in Nat
    PROVE  \E g : Nested(d, g)
<1> DEFINE Bad == {k \in Nat : ~\E g : Nested(k, g)}
<1>1. ASSUME Bad # {} PROVE FALSE
  <2>1. PICK k \in Bad : \A j \in Bad : k <= j
    <3>1. Bad \in SUBSET Nat
      OBVIOUS
    <3> HIDE DEF Bad
    <3> QED
      BY <1>1, <3>1, LeastNatural
  <2>2. CASE k = 0
    <3> DEFINE g == [n \in 0 .. 0 |-> [f \in DOMAIN files |-> <<>>]]
    <3>1. \A n \in 0 .. 0 : n = 0
      OBVIOUS
    <3>2. g = [n \in 0 .. 0 |->
                  [f \in DOMAIN files |->
                      IF n = 0 THEN <<>>
                      ELSE TextOfLines(g[n - 1], f, Len(files[f]))]]
      BY <3>1
    <3> QED
      BY <2>1, <2>2, <3>2 DEF Nested
  <2>3. CASE k # 0
    <3>1. k - 1 \in Nat /\ k - 1 < k
      BY <2>1, <2>3
    <3>2. PICK g : Nested(k - 1, g)
      BY <2>1, <3>1
    <3> DEFINE h == [n \in 0 .. k |->
                        [f \in DOMAIN files |->
                            IF n = 0 THEN <<>>
                            ELSE TextOfLines(g[n - 1], f, Len(files[f]))]]
    <3>3. ASSUME NEW n \in 0 .. k, n # 0
          PROVE  h[n - 1] = g[n - 1]
      <4>1. n - 1 \in 0 .. k - 1 /\ n - 1 \in 0 .. k
        BY <2>1, <3>3
      <4>2. g[n - 1] = [f \in DOMAIN files |->
                           IF n - 1 = 0 THEN <<>>
                           ELSE TextOfLines(g[n - 1 - 1], f, Len(files[f]))]
        BY <3>2, <4>1 DEF Nested
      <4>3. h[n - 1] = [f \in DOMAIN files |->
                           IF n - 1 = 0 THEN <<>>
                           ELSE TextOfLines(g[n - 1 - 1], f, Len(files[f]))]
        BY <4>1
      <4> QED
        BY <4>2, <4>3
    <3>4. h = [n \in 0 .. k |->
                  [f \in DOMAIN files |->
                      IF n = 0 THEN <<>>
                      ELSE TextOfLines(h[n - 1], f, Len(files[f]))]]
      BY <3>3
    <3> QED
      BY <2>1, <3>4 DEF Nested
  <2> QED
    BY <2>2, <2>3
<1> QED
  BY <1>1

LEMMA NestedAgree ==
    ASSUME NEW d \in Nat, NEW g, NEW h, Nested(d + 1, g), Nested(d, h)
    PROVE  g[d] = h[d]
<1> DEFINE Bad == {k \in 0 .. d : g[k] # h[k]}
<1>1. \A k \in 0 .. d + 1 :
         g[k] = [f \in DOMAIN files |->
                    IF k = 0 THEN <<>> ELSE TextOfLines(g[k - 1], f, Len(files[f]))]
  BY DEF Nested
<1>2. \A k \in 0 .. d :
         h[k] = [f \in DOMAIN files |->
                    IF k = 0 THEN <<>> ELSE TextOfLines(h[k - 1], f, Len(files[f]))]
  BY DEF Nested
<1>3. ASSUME Bad # {} PROVE FALSE
  <2>1. PICK k \in Bad : \A j \in Bad : k <= j
    <3>1. Bad \in SUBSET Nat
      OBVIOUS
    <3> HIDE DEF Bad
    <3> QED
      BY <1>3, <3>1, LeastNatural
  <2>2. k \in 0 .. d /\ k \in 0 .. d + 1 /\ g[k] # h[k]
    BY <2>1
  <2>3. CASE k = 0
    BY <1>1, <1>2, <2>2, <2>3
  <2>4. CASE k # 0
    <3>1. k - 1 \in 0 .. d /\ k - 1 < k
      BY <2>2, <2>4
    <3>2. g[k - 1] = h[k - 1]
      BY <2>1, <2>2, <3>1
    <3> QED
      BY <1>1, <1>2, <2>2, <2>4, <3>2
  <2> QED
    BY <2>3, <2>4
<1> QED
  BY <1>3

LEMMA TextsAre ==
    ASSUME NEW d \in Nat
    PROVE  \E g : Nested(d, g) /\ TextsWithin(d) = g[d]
<1> DEFINE g == CHOOSE h : Nested(d, h)
<1>1. TextsWithin(d) = g[d]
  BY Zenon DEF TextsWithin, Nested
<1>2. Nested(d, g)
  BY NestedExists, Zenon
<1> QED
  BY <1>1, <1>2, Zenon

\* One level more of files within files.
LEMMA TextsGrow ==
    ASSUME NEW d \in Nat
    PROVE  /\ TextsWithin(0) = [f \in DOMAIN files |-> <<>>]
           /\ TextsWithin(d + 1) =
                 [f \in DOMAIN files |->
                     TextOfLines(TextsWithin(d), f, Len(files[f]))]
<1>1. PICK e : Nested(0, e) /\ TextsWithin(0) = e[0]
  BY TextsAre
<1>2. PICK h : Nested(d, h) /\ TextsWithin(d) = h[d]
  BY TextsAre
<1>3. d + 1 \in Nat
  OBVIOUS
<1>4. PICK g : Nested(d + 1, g) /\ TextsWithin(d + 1) = g[d + 1]
  BY <1>3, TextsAre
<1>5. e[0] = [f \in DOMAIN files |-> <<>>]
  BY <1>1 DEF Nested
<1>6. g[d + 1] = [f \in DOMAIN files |-> TextOfLines(g[d], f, Len(files[f]))]
  <2>1. d + 1 \in 0 .. d + 1 /\ d + 1 # 0 /\ d + 1 - 1 = d
    OBVIOUS
  <2>2. \A n \in 0 .. d + 1 :
           g[n] = [f \in DOMAIN files |->
                      IF n = 0 THEN <<>> ELSE TextOfLines(g[n - 1], f, Len(files[f]))]
    BY <1>4 DEF Nested
  <2> QED
    BY <2>1, <2>2
<1>7. g[d] = h[d]
  BY <1>2, <1>4, NestedAgree
<1> QED
  BY <1>1, <1>2, <1>4, <1>5, <1>6, <1>7

LEMMA TextsAreTexts ==
    ASSUME files \in Sources, NEW d \in Nat
    PROVE  TextsWithin(d) \in Texts
<1> DEFINE Bad == {k \in Nat : TextsWithin(k) \notin Texts}
<1>1. ASSUME Bad # {} PROVE FALSE
  <2>1. PICK k \in Bad : \A j \in Bad : k <= j
    <3>1. Bad \in SUBSET Nat
      OBVIOUS
    <3> HIDE DEF Bad
    <3> QED
      BY <1>1, <3>1, LeastNatural
  <2>2. CASE k = 0
    <3>1. TextsWithin(0) = [f \in DOMAIN files |-> <<>>]
      BY TextsGrow
    <3> QED
      BY <2>1, <2>2, <3>1, EmptySeq DEF Texts
  <2>3. CASE k # 0
    <3> DEFINE j == k - 1
    <3>1. j \in Nat /\ j + 1 = k /\ j < k
      BY <2>1, <2>3
    <3>2. TextsWithin(j) \in Texts
      BY <2>1, <3>1
    <3> HIDE DEF j
    <3>3. TextsWithin(j + 1) =
             [f \in DOMAIN files |-> TextOfLines(TextsWithin(j), f, Len(files[f]))]
      BY <3>1, TextsGrow
    <3>4. ASSUME NEW f \in DOMAIN files
          PROVE  TextOfLines(TextsWithin(j), f, Len(files[f])) \in Seq(SourceLines)
      <4>1. Len(files[f]) \in 0 .. Len(files[f])
        BY SourceAssumption
      <4> QED
        BY <3>2, <4>1, TextOfLinesIsText
    <3> QED
      BY <2>1, <3>1, <3>3, <3>4 DEF Texts
  <2> QED
    BY <2>2, <2>3
<1> QED
  BY <1>1

-----------------------------------------------------------------------------
(* The files that are opened                                               *)

LEMMA SameFiles ==
    ASSUME UNCHANGED files
    PROVE  /\ \A f : IncludeLines(f)' = IncludeLines(f)
           /\ \A f, i : Included(f, i)' = Included(f, i)
           /\ Reachable' = Reachable
           /\ IsTree' = IsTree
           /\ \A text, f, n : TextOfLines(text, f, n)' = TextOfLines(text, f, n)
           /\ \A d : TextsWithin(d)' = TextsWithin(d)
<1>1. /\ \A f : IncludeLines(f)' = IncludeLines(f)
      /\ \A f, i : Included(f, i)' = Included(f, i)
  BY DEF IncludeLines, Included
<1>2. Named' = Named
  BY DEF Named, IncludeLines, Included
<1>3. \A S : IsClosed(S)' = IsClosed(S)
  BY DEF IsClosed, IncludeLines, Included
<1>4. Reachable' = Reachable
  BY <1>2, <1>3 DEF Reachable
<1>5. IsTree' = IsTree
  BY <1>1, <1>4 DEF IsTree
<1>6. \A text, l : LineText(text, l)' = LineText(text, l)
  BY DEF LineText
<1>7. \A text, f, n : TextOfLines(text, f, n)' = TextOfLines(text, f, n)
  BY <1>6 DEF TextOfLines
<1>8. \A d : TextsWithin(d)' = TextsWithin(d)
  BY <1>7 DEF TextsWithin
<1> QED
  BY <1>1, <1>4, <1>5, <1>7, <1>8

LEMMA MainReachable ==
    ASSUME files \in Sources
    PROVE  MainFile \in DOMAIN files /\ MainFile \in Reachable
BY IncludeAssumption DEF Reachable, Named, IsClosed

\* What a reachable file includes is reachable.
LEMMA ReachFurther ==
    ASSUME NEW f \in Reachable, f \in DOMAIN files, NEW i \in IncludeLines(f)
    PROVE  Included(f, i) \in Reachable
<1>1. Included(f, i) \in Named
  BY DEF Named
<1>2. ASSUME NEW S \in SUBSET Named, IsClosed(S)
      PROVE  Included(f, i) \in S
  BY <1>2 DEF Reachable, IsClosed
<1> QED
  BY <1>1, <1>2 DEF Reachable

\* Nothing outside a closed set is reachable.
LEMMA ReachOnly ==
    ASSUME NEW S \in SUBSET Named, IsClosed(S)
    PROVE  Reachable \subseteq S
BY DEF Reachable

Opened == {include_stack[i] : i \in 1 .. Len(include_stack)}

\* Has the include line i of file f been read?
WasRead(f, i) ==
    /\ f \in Opened
    /\ i \in IncludeLines(f)
    /\ \A k \in 1 .. Len(reading) : reading[k].file = f => i < reading[k].next

\* The files opened so far form a tree, whose edges are the include lines that
\* have been read, and each is on the stack once.
TreeSoFar ==
    /\ Opened \subseteq Reachable
    /\ Opened \subseteq DOMAIN files
    /\ MainFile \in Opened
    /\ \A k \in 1 .. Len(reading) : reading[k].file \in Opened
    /\ \A j, k \in 1 .. Len(reading) : reading[j].file = reading[k].file => j = k
    /\ \A f, i : WasRead(f, i) =>
          /\ Included(f, i) \in Opened
          /\ Included(f, i) # MainFile
          /\ \A g, j : WasRead(g, j) /\ Included(f, i) = Included(g, j)
                         => f = g /\ i = j
    /\ \A g \in Opened : g # MainFile => \E f, i : WasRead(f, i) /\ Included(f, i) = g

LEMMA OpenedFinite ==
    ASSUME IncTypeOK, OpenedOnce
    PROVE  /\ IsFiniteSet(Opened)
           /\ Cardinality(Opened) = Len(include_stack)
<1> DEFINE n == Len(include_stack)
           at == [i \in 1 .. n |-> include_stack[i]]
<1>1. n \in Nat
  BY DEF IncTypeOK
<1>2. at \in Bijection(1 .. n, Opened)
  BY <1>1 DEF Opened, OpenedOnce, Bijection, Injection, Surjection, IsInjective
<1>3. IsFiniteSet(1 .. n) /\ Cardinality(1 .. n) = n
  <2>1. 1 \in Int /\ n \in Int
    BY <1>1
  <2>2. /\ IsFiniteSet(1 .. n)
        /\ Cardinality(1 .. n) = IF 1 > n THEN 0 ELSE n - 1 + 1
    BY <2>1, FS_Interval
  <2> QED
    BY <1>1, <2>2
<1> HIDE DEF at, n
<1>4. ExistsBijection(1 .. n, Opened)
  BY <1>2 DEF ExistsBijection
<1>5. IsFiniteSet(Opened) /\ Cardinality(1 .. n) = Cardinality(Opened)
  BY <1>3, <1>4, FS_Bijection, FS_SameCardinalityBij
<1> QED
  BY <1>3, <1>5 DEF n

\* When every line has been read the files form a tree.
LEMMA TreeOfOpened ==
    ASSUME IncTypeOK, OpenedOnce, TreeSoFar, Len(reading) = 0
    PROVE  IsTree
<1>1. \A f \in Opened : \A i \in IncludeLines(f) : WasRead(f, i)
  BY DEF WasRead
<1>2. IsClosed(Opened)
  BY <1>1 DEF TreeSoFar, IsClosed
<1>3. Opened \in SUBSET Named
  BY DEF TreeSoFar, Named
<1>4. Reachable = Opened
  BY <1>2, <1>3, ReachOnly DEF TreeSoFar
<1>5. IsFiniteSet(Opened) /\ Cardinality(Opened) = Len(include_stack)
  BY OpenedFinite
<1>6. Cardinality(Opened) <= MaxIncludeDepth
  BY <1>5 DEF OpenedOnce
<1>7. /\ Opened \subseteq DOMAIN files
      /\ \A f \in Opened : \A i \in IncludeLines(f) :
            /\ Included(f, i) # MainFile
            /\ \A g \in Opened : \A j \in IncludeLines(g) :
                  Included(f, i) = Included(g, j) => f = g /\ i = j
  BY <1>1 DEF TreeSoFar
<1> QED
  BY <1>4, <1>5, <1>6, <1>7 DEF IsTree

\* The include line that is read next.
LEMMA NextInclude ==
    ASSUME IncTypeOK, TreeSoFar, HasLine, NextLine.kind = "include"
    PROVE  /\ Top.file \in Opened /\ Top.file \in DOMAIN files
           /\ Top.next \in IncludeLines(Top.file)
           /\ Included(Top.file, Top.next) = NextLine.file
           /\ NextLine.file \in Reachable
           /\ ~WasRead(Top.file, Top.next)
<1>1. phase = "expand"
  BY DEF HasLine
<1>2. Len(reading) \in Nat \ {0} /\ Top \in Frames /\ Top.file \in DOMAIN files
  BY <1>1, TopIsFrame
<1>3. Top = reading[Len(reading)] /\ Len(reading) \in 1 .. Len(reading)
  BY <1>2 DEF Top
<1>4. Top.file \in Opened
  BY <1>3 DEF TreeSoFar
<1>5. Len(files[Top.file]) \in Nat
  BY <1>2, SourceAssumption DEF IncTypeOK
<1>6. Top.next \in 1 .. Len(files[Top.file])
  BY <1>2, <1>5 DEF HasLine, Frames
<1>7. Top.next \in IncludeLines(Top.file)
  BY <1>6 DEF IncludeLines, NextLine
<1>8. Included(Top.file, Top.next) = NextLine.file
  BY DEF Included, NextLine
<1>9. ~WasRead(Top.file, Top.next)
  <2>1. Top.next \in Int
    BY <1>2 DEF Frames
  <2> QED
    BY <1>3, <2>1 DEF WasRead
<1>10. NextLine.file \in Reachable
  BY <1>2, <1>4, <1>7, <1>8, ReachFurther DEF TreeSoFar
<1> QED
  BY <1>2, <1>4, <1>7, <1>8, <1>9, <1>10

\* An include line that is rejected shows that the files form no tree.
LEMMA RejectedIsNoTree ==
    ASSUME IncTypeOK, OpenedOnce, TreeSoFar, HasLine, NextLine.kind = "include",
           \/ NextLine.file \notin DOMAIN files
           \/ already_included(NextLine.file)
           \/ ~already_included(NextLine.file) /\ Len(include_stack) >= MaxIncludeDepth
    PROVE  ~IsTree
<1> DEFINE f == Top.file
           i == Top.next
           new == NextLine.file
<1>1. /\ f \in Opened /\ f \in DOMAIN files
      /\ i \in IncludeLines(f) /\ Included(f, i) = new
      /\ new \in Reachable /\ ~WasRead(f, i)
  BY NextInclude
<1>2. f \in Reachable
  BY <1>1 DEF TreeSoFar
<1>3. already_included(new) <=> new \in Opened
  BY DEF already_included, Opened
<1> SUFFICES ASSUME IsTree PROVE FALSE
  OBVIOUS
<1>4. CASE new \notin DOMAIN files
  BY <1>1, <1>4 DEF IsTree
<1>5. CASE new \in Opened
  <2>1. new # MainFile
    BY <1>1, <1>2 DEF IsTree
  <2>2. PICK g, j : WasRead(g, j) /\ Included(g, j) = new
    BY <1>5, <2>1 DEF TreeSoFar
  <2>3. g \in Reachable /\ j \in IncludeLines(g)
    BY <2>2 DEF WasRead, TreeSoFar
  <2>4. f = g /\ i = j
    BY <1>1, <1>2, <2>2, <2>3 DEF IsTree
  <2> HIDE DEF f, i, new
  <2> QED
    BY <1>1, <2>2, <2>4
<1>6. CASE new \notin Opened /\ Len(include_stack) >= MaxIncludeDepth
  <2>1. IsFiniteSet(Opened) /\ Cardinality(Opened) = Len(include_stack)
    BY OpenedFinite
  <2>2. /\ IsFiniteSet(Opened \cup {new})
        /\ Cardinality(Opened \cup {new}) = Cardinality(Opened) + 1
    BY <1>6, <2>1, FS_AddElement
  <2>3. Opened \cup {new} \subseteq Reachable
    BY <1>1 DEF TreeSoFar
  <2>4. IsFiniteSet(Reachable) /\ Cardinality(Reachable) <= MaxIncludeDepth
    BY DEF IsTree
  <2>5. Cardinality(Opened \cup {new}) <= Cardinality(Reachable)
    BY <2>3, <2>4, FS_Subset
  <2>6. Len(include_stack) \in Nat /\ MaxIncludeDepth \in Nat
        /\ Cardinality(Reachable) \in Nat
    BY <2>4, FS_CardinalityType, IncludeAssumption DEF IncTypeOK
  <2> HIDE DEF new
  <2> QED
    BY <1>6, <2>1, <2>2, <2>4, <2>5, <2>6
<1> HIDE DEF f, i, new
<1> QED
  BY <1>3, <1>4, <1>5, <1>6 DEF new

\* What reading a line does to the stack.
LEMMA BehindTop ==
    ASSUME IncTypeOK, phase = "expand"
    PROVE  LET n == Len(reading) IN
           /\ n \in Nat \ {0} /\ n \in 1 .. n /\ Len(Behind) = n
           /\ Top = reading[n] /\ Top \in Frames
           /\ \A k \in 1 .. n : /\ Behind[k].file = reading[k].file
                                /\ k # n => Behind[k] = reading[k]
           /\ Behind[n].next = Top.next + 1
<1>1. Len(reading) \in Nat \ {0} /\ Top \in Frames /\ Len(Behind) = Len(reading)
  BY TopIsFrame
<1>2. Top = reading[Len(reading)] /\ Len(reading) \in 1 .. Len(reading)
  BY <1>1 DEF Top
<1>3. Behind = [reading EXCEPT ![Len(reading)] = [Top EXCEPT !.next = @ + 1]]
  BY DEF Behind, Top
<1>4. DOMAIN reading = 1 .. Len(reading)
  BY DEF IncTypeOK
<1>5. /\ [Top EXCEPT !.next = @ + 1].file = Top.file
      /\ [Top EXCEPT !.next = @ + 1].next = Top.next + 1
  BY <1>1 DEF Frames
<1> QED
  BY <1>1, <1>2, <1>3, <1>4, <1>5

LEMMA TreeAfterLine ==
    ASSUME IncTypeOK, TreeSoFar, CopyLine \/ DropInclude
    PROVE  TreeSoFar'
<1>1. /\ phase = "expand" /\ HasLine
      /\ NextLine.kind # "include"
      /\ reading' = Behind
      /\ UNCHANGED <<files, include_stack>>
  BY DEF CopyLine, DropInclude, HasLine
<1> DEFINE n == Len(reading)
<1>2. /\ n \in Nat \ {0} /\ n \in 1 .. n /\ Len(reading') = n
      /\ Top = reading[n] /\ Top \in Frames
      /\ \A k \in 1 .. n : /\ reading'[k].file = reading[k].file
                           /\ k # n => reading'[k] = reading[k]
      /\ reading'[n].next = Top.next + 1
  BY <1>1, BehindTop
<1> HIDE DEF n
<1>3. Opened' = Opened
  BY <1>1 DEF Opened
<1>4. Top.next \notin IncludeLines(Top.file)
  BY <1>1 DEF IncludeLines, NextLine
<1>5. \A f : IncludeLines(f)' = IncludeLines(f)
      /\ \A i : Included(f, i)' = Included(f, i)
  BY <1>1, SameFiles
<1>6. ASSUME NEW f, NEW i
      PROVE  WasRead(f, i)' <=> WasRead(f, i)
  <2>1. ASSUME i \in IncludeLines(f)
        PROVE  /\ i \in Int
               /\ \A k \in 1 .. n :
                     (reading[k].file = f => i < reading[k].next)
                        <=> (reading'[k].file = f => i < reading'[k].next)
    <3>1. i \in Int
      BY <2>1 DEF IncludeLines
    <3>2. ASSUME NEW k \in 1 .. n, k = n, reading[k].file = f
          PROVE  i < reading[k].next <=> i < reading'[k].next
      <4>1. i # Top.next /\ Top.next \in Int
        BY <1>2, <1>4, <2>1, <3>2 DEF Frames
      <4> QED
        BY <1>2, <3>1, <3>2, <4>1
    <3> QED
      BY <1>2, <3>1, <3>2
  <2> QED
    BY <1>2, <1>3, <1>5, <2>1 DEF WasRead, n
<1>7. Reachable' = Reachable
  BY <1>1, SameFiles
<1>8. 1 .. Len(reading') = 1 .. Len(reading)
  BY <1>2 DEF n
<1>9. /\ \A k \in 1 .. Len(reading') : reading'[k].file \in Opened'
      /\ \A j, k \in 1 .. Len(reading') : reading'[j].file = reading'[k].file => j = k
  BY <1>2, <1>3, <1>8 DEF TreeSoFar, n
<1>10. \A f, i : WasRead(f, i)' =>
          /\ Included(f, i)' \in Opened'
          /\ Included(f, i)' # MainFile
          /\ \A g, j : WasRead(g, j)' /\ Included(f, i)' = Included(g, j)'
                         => f = g /\ i = j
  BY <1>3, <1>5, <1>6 DEF TreeSoFar
<1>11. \A g \in Opened' : g # MainFile =>
          \E f, i : WasRead(f, i)' /\ Included(f, i)' = g
  BY <1>3, <1>5, <1>6 DEF TreeSoFar
<1> QED
  BY <1>1, <1>3, <1>7, <1>9, <1>10, <1>11 DEF TreeSoFar

LEMMA TreeAfterInclude ==
    ASSUME IncTypeOK, TreeSoFar, Include
    PROVE  TreeSoFar'
<1> DEFINE n == Len(reading)
           f0 == Top.file
           i0 == Top.next
           new == NextLine.file
<1>1. /\ phase = "expand" /\ HasLine
      /\ NextLine.kind = "include"
      /\ new \in DOMAIN files
      /\ ~already_included(new)
      /\ reading' = Append(Behind, Frame(new))
      /\ include_stack' = Append(include_stack, new)
      /\ UNCHANGED files
  BY DEF Include, HasLine
<1>2. /\ n \in Nat \ {0} /\ n \in 1 .. n /\ Len(Behind) = n
      /\ Top = reading[n] /\ Top \in Frames
      /\ \A k \in 1 .. n : /\ Behind[k].file = reading[k].file
                           /\ k # n => Behind[k] = reading[k]
      /\ Behind[n].next = Top.next + 1
  BY <1>1, BehindTop
<1>3. /\ f0 \in Opened /\ f0 \in DOMAIN files
      /\ i0 \in IncludeLines(f0) /\ Included(f0, i0) = new
      /\ new \in Reachable /\ ~WasRead(f0, i0)
  BY <1>1, NextInclude
<1>4. new \notin Opened
  BY <1>1 DEF already_included, Opened
<1>5. Opened' = Opened \cup {new}
  <2>1. include_stack \in Seq(FileNames) /\ new \in FileNames
    BY <1>1 DEF IncTypeOK, FileNames
  <2> HIDE DEF new
  <2>2. /\ Len(include_stack') = Len(include_stack) + 1
        /\ \A i \in 1 .. Len(include_stack) : include_stack'[i] = include_stack[i]
        /\ include_stack'[Len(include_stack) + 1] = new
    BY <1>1, <2>1, AppendProperties
  <2>3. Len(include_stack) \in Nat
    BY <2>1
  <2> QED
    BY <2>2, <2>3 DEF Opened
<1>6. /\ Len(reading') = n + 1
      /\ \A k \in 1 .. n : reading'[k] = Behind[k]
      /\ reading'[n + 1] = Frame(new)
  <2>1. Behind \in Seq(Frames) /\ Frame(new) \in Frames
    BY <1>1, TopIsFrame DEF IncTypeOK, FileNames, Frame, Frames
  <2> HIDE DEF new, n
  <2> QED
    BY <1>1, <1>2, <2>1, AppendProperties
<1>7. Frame(new).file = new /\ Frame(new).next = 1
  BY DEF Frame
<1>8. \A f : IncludeLines(f)' = IncludeLines(f)
      /\ \A i : Included(f, i)' = Included(f, i)
  BY <1>1, SameFiles
<1>9. \A k \in 1 .. n : reading[k].file \in Opened
  BY DEF TreeSoFar, n
<1>10. \A j, k \in 1 .. n : reading[j].file = reading[k].file => j = k
  BY DEF TreeSoFar, n
<1>11. \A f, i : WasRead(f, i) <=>
          /\ f \in Opened /\ i \in IncludeLines(f)
          /\ \A k \in 1 .. n : reading[k].file = f => i < reading[k].next
  BY DEF WasRead, n
<1>12. \A f, i : WasRead(f, i)' <=>
          /\ f \in Opened' /\ i \in IncludeLines(f)
          /\ \A k \in 1 .. n + 1 : reading'[k].file = f => i < reading'[k].next
  BY <1>6, <1>8 DEF WasRead
<1>13. \A f : \A i \in IncludeLines(f) : i \in Int /\ i >= 1
  BY DEF IncludeLines
<1>14. i0 \in Int /\ f0 = reading[n].file /\ i0 = reading[n].next
  BY <1>2 DEF Frames
<1>15. Reachable' = Reachable /\ new \in DOMAIN files
  BY <1>1, SameFiles
<1> HIDE DEF n, f0, i0, new
<1>16. 1 .. Len(reading') = 1 .. n + 1
       /\ \A k \in 1 .. n + 1 : k \in 1 .. n \/ k = n + 1
  BY <1>2, <1>6
<1>17. ASSUME NEW f, NEW i
       PROVE  WasRead(f, i)' <=> WasRead(f, i) \/ (f = f0 /\ i = i0)
  <2>1. CASE f = new
    <3>1. ~WasRead(f, i) /\ f # f0
      BY <1>3, <1>4, <1>11, <2>1
    <3>2. ~WasRead(f, i)'
      <4>1. n + 1 \in 1 .. n + 1 /\ reading'[n + 1].file = f /\ reading'[n + 1].next = 1
        BY <1>2, <1>6, <1>7, <2>1
      <4> QED
        BY <1>12, <1>13, <4>1
    <3> QED
      BY <3>1, <3>2
  <2>2. CASE f = f0 /\ f # new
    <3>1. ASSUME NEW k \in 1 .. n + 1, reading'[k].file = f PROVE k = n
      <4>1. k \in 1 .. n
        BY <1>6, <1>7, <1>16, <2>2, <3>1
      <4> QED
        BY <1>2, <1>6, <1>10, <1>14, <2>2, <3>1, <4>1
    <3>2. n \in 1 .. n + 1 /\ reading'[n].file = f /\ reading'[n].next = i0 + 1
      BY <1>2, <1>6, <1>14, <2>2
    <3>3. WasRead(f, i)' <=> f \in Opened' /\ i \in IncludeLines(f) /\ i < i0 + 1
      BY <1>12, <3>1, <3>2
    <3>4. ASSUME NEW k \in 1 .. n, reading[k].file = f PROVE k = n
      BY <1>2, <1>10, <1>14, <2>2, <3>4
    <3>5. WasRead(f, i) <=> f \in Opened /\ i \in IncludeLines(f) /\ i < i0
      BY <1>2, <1>11, <1>14, <2>2, <3>4
    <3>6. i \in IncludeLines(f) => (i < i0 + 1 <=> i < i0 \/ i = i0)
      BY <1>13, <1>14
    <3> QED
      BY <1>3, <1>5, <2>2, <3>3, <3>5, <3>6
  <2>3. CASE f # f0 /\ f # new
    <3>1. \A k \in 1 .. n + 1 : reading'[k].file = f =>
             k \in 1 .. n /\ k # n
      BY <1>2, <1>6, <1>7, <1>14, <1>16, <2>3
    <3>2. \A k \in 1 .. n : reading[k].file = f => k # n
      BY <1>14, <2>3
    <3>3. \A k \in 1 .. n : k # n => reading'[k] = reading[k]
      BY <1>2, <1>6
    <3>4. \A k \in 1 .. n : k \in 1 .. n + 1
      BY <1>2
    <3>5. (\A k \in 1 .. n + 1 : reading'[k].file = f => i < reading'[k].next)
            <=> (\A k \in 1 .. n : reading[k].file = f => i < reading[k].next)
      BY <3>1, <3>2, <3>3, <3>4
    <3> QED
      BY <1>5, <1>11, <1>12, <2>3, <3>5
  <2> QED
    BY <2>1, <2>2, <2>3
<1>18. \A k \in 1 .. Len(reading') : reading'[k].file \in Opened'
  BY <1>2, <1>5, <1>6, <1>7, <1>9, <1>16
<1>19. \A j, k \in 1 .. Len(reading') : reading'[j].file = reading'[k].file => j = k
  <2>1. \A k \in 1 .. n : reading'[k].file = reading[k].file /\ reading'[k].file # new
    BY <1>2, <1>4, <1>6, <1>9
  <2> QED
    BY <1>6, <1>7, <1>10, <1>16, <2>1
<1>20. new # MainFile
  BY <1>4 DEF TreeSoFar
<1>21. \A f, i : WasRead(f, i) =>
          /\ Included(f, i) \in Opened
          /\ Included(f, i) # MainFile
          /\ \A g, j : WasRead(g, j) /\ Included(f, i) = Included(g, j)
                         => f = g /\ i = j
  BY DEF TreeSoFar
<1>22. \A f, i : WasRead(f, i)' =>
          /\ Included(f, i)' \in Opened'
          /\ Included(f, i)' # MainFile
          /\ \A g, j : WasRead(g, j)' /\ Included(f, i)' = Included(g, j)'
                         => f = g /\ i = j
  <2>1. \A f, i : WasRead(f, i)' => Included(f, i)' \in Opened' /\ Included(f, i)' # MainFile
    BY <1>3, <1>5, <1>8, <1>17, <1>20, <1>21
  <2>2. \A f, i, g, j : WasRead(f, i)' /\ WasRead(g, j)' /\ Included(f, i)' = Included(g, j)'
           => f = g /\ i = j
    BY <1>3, <1>4, <1>8, <1>17, <1>21
  <2> QED
    BY <2>1, <2>2
<1>23. \A g \in Opened' : g # MainFile =>
          \E f, i : WasRead(f, i)' /\ Included(f, i)' = g
  BY <1>3, <1>5, <1>8, <1>17 DEF TreeSoFar
<1>24. Opened' \subseteq Reachable' /\ Opened' \subseteq DOMAIN files' /\ MainFile \in Opened'
  BY <1>1, <1>3, <1>5, <1>15 DEF TreeSoFar
<1> QED
  BY <1>18, <1>19, <1>22, <1>23, <1>24 DEF TreeSoFar

LEMMA TreeAfterFile ==
    ASSUME IncTypeOK, TreeSoFar, EndOfFile
    PROVE  TreeSoFar'
<1> DEFINE n == Len(reading)
<1>1. /\ phase = "expand" /\ ~HasLine
      /\ reading' = SubSeq(reading, 1, n - 1)
      /\ UNCHANGED <<files, include_stack>>
  BY DEF EndOfFile
<1>2. n \in Nat \ {0} /\ Top \in Frames /\ Top.file \in DOMAIN files
  BY <1>1, TopIsFrame
<1>3. /\ Len(reading') = n - 1
      /\ \A k \in 1 .. Len(reading') : reading'[k] = reading[k]
  <2>1. reading \in Seq(Frames)
    BY DEF IncTypeOK
  <2> QED
    BY <1>1, <1>2, <2>1, WithoutLast
<1>4. Opened' = Opened
  BY <1>1 DEF Opened
<1>5. \A f : IncludeLines(f)' = IncludeLines(f)
      /\ \A i : Included(f, i)' = Included(f, i)
  BY <1>1, SameFiles
<1>6. Top = reading[n] /\ Top.next > Len(files[Top.file])
      /\ Len(files[Top.file]) \in Nat
  BY <1>1, <1>2, SourceAssumption DEF HasLine, Top, Frames, IncTypeOK
<1>7. \A f, i : WasRead(f, i) <=>
          /\ f \in Opened /\ i \in IncludeLines(f)
          /\ \A k \in 1 .. n : reading[k].file = f => i < reading[k].next
  BY DEF WasRead, n
<1>8. \A f, i : WasRead(f, i)' <=>
          /\ f \in Opened /\ i \in IncludeLines(f)
          /\ \A k \in 1 .. n - 1 : reading[k].file = f => i < reading[k].next
  BY <1>3, <1>4, <1>5 DEF WasRead
<1>9. Reachable' = Reachable
  BY <1>1, SameFiles
<1>10. /\ \A k \in 1 .. n : reading[k].file \in Opened
       /\ \A j, k \in 1 .. n : reading[j].file = reading[k].file => j = k
  BY DEF TreeSoFar, n
<1> HIDE DEF n
<1>11. \A k \in 1 .. n - 1 : k \in 1 .. n
  BY <1>2
<1>12. \A k \in 1 .. n : k \in 1 .. n - 1 \/ k = n
  BY <1>2
<1>13. ASSUME NEW f, NEW i
       PROVE  WasRead(f, i)' <=> WasRead(f, i)
  <2>1. ASSUME i \in IncludeLines(f), reading[n].file = f
        PROVE  i < reading[n].next
    <3>1. i \in 1 .. Len(files[f]) /\ f = Top.file
      BY <1>6, <2>1 DEF IncludeLines
    <3>2. Top.next \in Int
      BY <1>2 DEF Frames
    <3> QED
      BY <1>6, <3>1, <3>2
  <2> QED
    BY <1>7, <1>8, <1>11, <1>12, <2>1
<1>14. /\ \A k \in 1 .. Len(reading') : reading'[k].file \in Opened'
       /\ \A j, k \in 1 .. Len(reading') : reading'[j].file = reading'[k].file => j = k
  BY <1>3, <1>4, <1>10, <1>11
<1>15. \A f, i : WasRead(f, i)' =>
          /\ Included(f, i)' \in Opened'
          /\ Included(f, i)' # MainFile
          /\ \A g, j : WasRead(g, j)' /\ Included(f, i)' = Included(g, j)'
                         => f = g /\ i = j
  BY <1>4, <1>5, <1>13 DEF TreeSoFar
<1>16. \A g \in Opened' : g # MainFile =>
          \E f, i : WasRead(f, i)' /\ Included(f, i)' = g
  BY <1>4, <1>5, <1>13 DEF TreeSoFar
<1> QED
  BY <1>1, <1>4, <1>9, <1>14, <1>15, <1>16 DEF TreeSoFar

-----------------------------------------------------------------------------
(* The text that is expanded                                               *)

LEMMA TextsAssociate ==
    \A a, b, c \in Seq(SourceLines) : (a \o b) \o c = a \o (b \o c)
BY ConcatAssociative

\* What the first n lines of file f stand for when f is the k-th file on the
\* stack.
PartText(k, f, n) == TextOfLines(TextsWithin(MaxIncludeDepth - k), f, n)

LEMMA PartIsText ==
    ASSUME files \in Sources, NEW k \in 1 .. MaxIncludeDepth,
           NEW f \in DOMAIN files, NEW n \in 0 .. Len(files[f])
    PROVE  PartText(k, f, n) \in Seq(SourceLines)
<1>1. MaxIncludeDepth - k \in Nat
  BY IncludeAssumption
<1>2. TextsWithin(MaxIncludeDepth - k) \in Texts
  BY <1>1, TextsAreTexts
<1> QED
  BY <1>2, TextOfLinesIsText DEF PartText

LEMMA PartGrows ==
    ASSUME NEW k, NEW f, NEW n \in Nat
    PROVE  /\ PartText(k, f, 0) = <<>>
           /\ PartText(k, f, n + 1) =
                PartText(k, f, n)
                  \o LineText(TextsWithin(MaxIncludeDepth - k), files[f][n + 1])
BY TextGrows DEF PartText

\* The whole of a file is what the line that includes it stands for.
LEMMA PartOfWhole ==
    ASSUME NEW k \in 1 .. MaxIncludeDepth, NEW f \in DOMAIN files
    PROVE  PartText(k, f, Len(files[f])) = TextsWithin(MaxIncludeDepth - (k - 1))[f]
<1> DEFINE d == MaxIncludeDepth - k
<1>1. d \in Nat /\ MaxIncludeDepth - (k - 1) = d + 1
  BY IncludeAssumption
<1> HIDE DEF d
<1>2. TextsWithin(d + 1) =
         [g \in DOMAIN files |-> TextOfLines(TextsWithin(d), g, Len(files[g]))]
  BY <1>1, TextsGrow
<1> QED
  BY <1>1, <1>2 DEF PartText, d

\* The lines of the k-th file of stack r whose text is there: not the include
\* line whose file is being read.
LinesDone(r, k) == IF k = Len(r) THEN r[k].next - 1 ELSE r[k].next - 2

\* e[k] is what the first k files of stack r have given.
Builds(e, r) ==
    /\ e \in [0 .. Len(r) -> Seq(SourceLines)]
    /\ e[0] = <<>>
    /\ \A k \in 1 .. Len(r) :
          e[k] = e[k - 1] \o PartText(k, r[k].file, LinesDone(r, k))

TextSoFar == \E e : Builds(e, reading) /\ e[Len(reading)] = expanded

\* Each file of stack r was included by the line that was read last below it.
IsStack(r) ==
    /\ Len(r) # 0 => r[1].file = MainFile
    /\ \A k \in 1 .. Len(r) : r[k].next <= Len(files[r[k].file]) + 1
    /\ \A k \in 1 .. Len(r) : k # Len(r) =>
          /\ r[k].next - 1 \in IncludeLines(r[k].file)
          /\ Included(r[k].file, r[k].next - 1) = r[k + 1].file

StackSoFar ==
    /\ Len(reading) <= Len(include_stack)
    /\ IsStack(reading)

LEMMA SameBuilds ==
    ASSUME UNCHANGED files
    PROVE  /\ \A e : Builds(e, reading)' <=> Builds(e, reading')
           /\ IsStack(reading)' <=> IsStack(reading')
<1>1. \A k, f, n : PartText(k, f, n)' = PartText(k, f, n)
  BY SameFiles DEF PartText
<1>2. \A e : Builds(e, reading)' <=> Builds(e, reading')
  BY <1>1 DEF Builds, LinesDone
<1>3. IsStack(reading)' <=> IsStack(reading')
  BY SameFiles DEF IsStack
<1> QED
  BY <1>2, <1>3

LEMMA StackFits ==
    ASSUME IncTypeOK, OpenedOnce, StackSoFar, NEW k \in 1 .. Len(reading)
    PROVE  /\ k \in 1 .. MaxIncludeDepth
           /\ reading[k].file \in DOMAIN files
           /\ Len(files[reading[k].file]) \in Nat
           /\ reading[k].next \in Nat \ {0}
           /\ reading[k].next - 1 \in 0 .. Len(files[reading[k].file])
<1>1. /\ reading \in Seq(Frames) /\ reading[k].file \in DOMAIN files
      /\ files \in Sources /\ Len(reading) \in Nat
  BY DEF IncTypeOK
<1>2. reading[k] \in Frames
  BY <1>1, ElementOfSeq
<1>3. Len(files[reading[k].file]) \in Nat
  BY <1>1, SourceAssumption
<1>4. Len(reading) <= MaxIncludeDepth /\ MaxIncludeDepth \in Nat
  BY <1>1, IncludeAssumption DEF StackSoFar, OpenedOnce, IncTypeOK
<1>5. reading[k].next <= Len(files[reading[k].file]) + 1
  BY DEF StackSoFar, IsStack
<1>6. reading[k].next \in Nat \ {0}
  BY <1>2 DEF Frames
<1> QED
  BY <1>1, <1>3, <1>4, <1>5, <1>6

\* A line that is no include adds what it stands for.
LEMMA TextAfterLine ==
    ASSUME IncTypeOK, OpenedOnce, StackSoFar, TextSoFar, CopyLine \/ DropInclude
    PROVE  StackSoFar' /\ TextSoFar'
<1> DEFINE n == Len(reading)
           f == Top.file
           i == Top.next
           here == LineText(TextsWithin(MaxIncludeDepth - n), NextLine)
<1>1. /\ phase = "expand" /\ HasLine
      /\ NextLine.kind # "include"
      /\ reading' = Behind
      /\ UNCHANGED <<files, include_stack>>
  BY DEF CopyLine, DropInclude, HasLine
<1>2. /\ n \in Nat \ {0} /\ n \in 1 .. n /\ Len(Behind) = n
      /\ Top = reading[n] /\ Top \in Frames
      /\ \A k \in 1 .. n : /\ Behind[k].file = reading[k].file
                           /\ k # n => Behind[k] = reading[k]
      /\ Behind[n].next = i + 1
  BY <1>1, BehindTop
<1>3. /\ n \in 1 .. MaxIncludeDepth /\ f \in DOMAIN files
      /\ Len(files[f]) \in Nat /\ i \in Nat \ {0} /\ i \in 1 .. Len(files[f])
  BY <1>1, <1>2, StackFits DEF HasLine
<1>4. NextLine = files[f][i] /\ NextLine \in SourceLines
  BY <1>1, TopIsFrame DEF NextLine
<1>5. here \in Seq(SourceLines) /\ expanded' = expanded \o here
      /\ expanded \in Seq(SourceLines)
  <2>1. expanded \in Seq(SourceLines)
    BY DEF IncTypeOK
  <2>2. CASE CopyLine
    <3>1. here = <<NextLine>>
      BY <2>2 DEF CopyLine, LineText
    <3>2. expanded' = Append(expanded, NextLine)
      BY <2>2 DEF CopyLine
    <3>3. <<NextLine>> \in Seq(SourceLines)
      BY <1>4
    <3> QED
      BY <1>4, <2>1, <3>1, <3>2, <3>3, AppendIsConcat
  <2>3. CASE DropInclude
    <3>1. here = <<>> /\ expanded' = expanded
      BY <2>3 DEF DropInclude, LineText
    <3> QED
      BY <2>1, <3>1, ConcatEmptySeq, EmptySeq
  <2> QED
    BY <2>2, <2>3
<1>6. PICK e : Builds(e, reading) /\ e[n] = expanded
  BY DEF TextSoFar
<1>7. PartText(n, f, i) = PartText(n, f, i - 1) \o here
  <2>1. i - 1 \in Nat /\ i - 1 + 1 = i
    BY <1>3
  <2> HIDE DEF i, f, n
  <2>2. PartText(n, f, i - 1 + 1) =
          PartText(n, f, i - 1)
            \o LineText(TextsWithin(MaxIncludeDepth - n), files[f][i - 1 + 1])
    BY <2>1, PartGrows
  <2> QED
    BY <1>4, <2>1, <2>2
<1>8. PartText(n, f, i - 1) \in Seq(SourceLines)
  BY <1>3, PartIsText DEF IncTypeOK
<1> DEFINE e2 == [e EXCEPT ![n] = expanded \o here]
<1>9. /\ e \in [0 .. n -> Seq(SourceLines)] /\ e[0] = <<>>
      /\ \A k \in 1 .. n : e[k] = e[k - 1] \o PartText(k, reading[k].file, LinesDone(reading, k))
  BY <1>6 DEF Builds
<1>10. \A k \in 1 .. n : Behind[k].file = reading[k].file
                         /\ (k # n => Behind[k].next = reading[k].next)
  BY <1>2
<1>11. LinesDone(reading, n) = i - 1 /\ LinesDone(Behind, n) = i
  BY <1>2, <1>3 DEF LinesDone
<1>12. \A k \in 1 .. n : k # n => LinesDone(Behind, k) = LinesDone(reading, k)
  BY <1>2, <1>10 DEF LinesDone
<1>13. IsStack(Behind)
  <2>1. IsStack(reading)
    BY DEF StackSoFar
  <2>2. /\ n # 0 => reading[1].file = MainFile
        /\ \A k \in 1 .. n : reading[k].next <= Len(files[reading[k].file]) + 1
        /\ \A k \in 1 .. n : k # n =>
              /\ reading[k].next - 1 \in IncludeLines(reading[k].file)
              /\ Included(reading[k].file, reading[k].next - 1) = reading[k + 1].file
    BY <2>1 DEF IsStack
  <2>3. \A k \in 1 .. n : k # n => k + 1 \in 1 .. n
    BY <1>2
  <2>4. 1 \in 1 .. n /\ Behind[n].next <= Len(files[Behind[n].file]) + 1
    BY <1>2, <1>3
  <2> HIDE DEF n, i, f
  <2> QED
    BY <1>2, <1>10, <2>2, <2>3, <2>4 DEF IsStack
<1>14. Builds(e2, Behind)
  <2>1. expanded \o here \in Seq(SourceLines)
    BY <1>5, ConcatProperties
  <2>2. e2 \in [0 .. n -> Seq(SourceLines)] /\ e2[0] = <<>> /\ e2[n] = expanded \o here
        /\ \A k \in 0 .. n : k # n => e2[k] = e[k]
    BY <1>2, <1>9, <2>1
  <2>3. ASSUME NEW k \in 1 .. n, k # n
        PROVE  e2[k] = e2[k - 1] \o PartText(k, Behind[k].file, LinesDone(Behind, k))
    <3>1. k \in 0 .. n /\ k - 1 \in 0 .. n /\ k - 1 # n
      BY <1>2, <2>3
    <3> HIDE DEF e2, n
    <3> QED
      BY <1>9, <1>10, <1>12, <2>2, <2>3, <3>1
  <2>4. e2[n] = e2[n - 1] \o PartText(n, Behind[n].file, LinesDone(Behind, n))
    <3>1. n - 1 \in 0 .. n /\ n - 1 # n
      BY <1>2
    <3>2. e[n - 1] \in Seq(SourceLines) /\ e2[n - 1] = e[n - 1]
      BY <1>9, <2>2, <3>1
    <3>3. expanded = e[n - 1] \o PartText(n, f, i - 1)
      <4>1. e[n] = e[n - 1] \o PartText(n, reading[n].file, LinesDone(reading, n))
        BY <1>2, <1>9
      <4>2. reading[n].file = f
        BY <1>2
      <4> HIDE DEF e2, n, f, i
      <4> QED
        BY <1>6, <1>11, <4>1, <4>2
    <3>4. expanded \o here = e[n - 1] \o (PartText(n, f, i - 1) \o here)
      <4> HIDE DEF e2, n, f, i, here
      <4>1. (e[n - 1] \o PartText(n, f, i - 1)) \o here
              = e[n - 1] \o (PartText(n, f, i - 1) \o here)
        <5>1. /\ e[n - 1] \in Seq(SourceLines) /\ here \in Seq(SourceLines)
              /\ PartText(n, f, i - 1) \in Seq(SourceLines)
          BY <1>5, <1>8, <3>2
        <5> QED
          BY <5>1, TextsAssociate, Zenon
      <4> QED
        BY <3>3, <4>1, Zenon
    <3>5. Behind[n].file = f
      BY <1>2
    <3> HIDE DEF e2, n, f, i, here
    <3> QED
      BY <1>7, <1>11, <2>2, <3>2, <3>4, <3>5
  <2>5. Len(Behind) = n
    BY <1>2
  <2> HIDE DEF e2, n
  <2> QED
    BY <2>2, <2>3, <2>4, <2>5 DEF Builds
<1>15. e2[Len(Behind)] = expanded'
  BY <1>2, <1>5, <1>9
<1>16. PICK e3 : Builds(e3, reading') /\ e3[Len(reading')] = expanded'
  BY <1>1, <1>14, <1>15
<1>17. Builds(e3, reading)' /\ IsStack(reading)'
  BY <1>1, <1>13, <1>16, SameBuilds
<1>18. StackSoFar'
  BY <1>1, <1>2, <1>17 DEF StackSoFar
<1>19. TextSoFar'
  BY <1>16, <1>17 DEF TextSoFar
<1> QED
  BY <1>18, <1>19

\* A file that is opened has given nothing yet.
LEMMA TextAfterInclude ==
    ASSUME IncTypeOK, OpenedOnce, StackSoFar, TextSoFar, TreeSoFar, Include
    PROVE  StackSoFar' /\ TextSoFar'
<1> DEFINE n == Len(reading)
           f == Top.file
           i == Top.next
           new == NextLine.file
           r == Append(Behind, Frame(new))
<1>1. /\ phase = "expand" /\ HasLine
      /\ NextLine.kind = "include"
      /\ new \in DOMAIN files
      /\ Len(include_stack) < MaxIncludeDepth
      /\ reading' = r
      /\ include_stack' = Append(include_stack, new)
      /\ UNCHANGED <<files, expanded>>
  BY DEF Include, HasLine
<1>2. /\ n \in Nat \ {0} /\ n \in 1 .. n /\ Len(Behind) = n
      /\ Top = reading[n] /\ Top \in Frames
      /\ \A k \in 1 .. n : /\ Behind[k].file = reading[k].file
                           /\ k # n => Behind[k] = reading[k]
      /\ Behind[n].next = i + 1
  BY <1>1, BehindTop
<1>3. i \in Nat \ {0} /\ i \in IncludeLines(f) /\ Included(f, i) = new
  BY <1>1, <1>2, NextInclude DEF Frames
<1>4. /\ Len(r) = n + 1
      /\ \A k \in 1 .. n : r[k] = Behind[k]
      /\ r[n + 1] = Frame(new)
  <2>1. Behind \in Seq(Frames) /\ Frame(new) \in Frames
    BY <1>1, TopIsFrame DEF IncTypeOK, FileNames, Frame, Frames
  <2> HIDE DEF new, n
  <2> QED
    BY <1>2, <2>1, AppendProperties
<1>5. Frame(new).file = new /\ Frame(new).next = 1
  BY DEF Frame
<1>6. /\ 1 .. Len(r) = 1 .. n + 1
      /\ \A k \in 1 .. n + 1 : k \in 1 .. n \/ k = n + 1
      /\ 1 \in 1 .. n
      /\ \A k \in 1 .. n : k # n + 1 /\ (k # n => k + 1 \in 1 .. n)
  <2> HIDE DEF r
  <2> QED
    BY <1>2, <1>4
<1>7. Len(files[new]) \in Nat /\ Len(files[f]) \in Nat
  BY <1>1, TopIsFrame, SourceAssumption DEF IncTypeOK
<1>8. /\ reading[1].file = MainFile
      /\ \A k \in 1 .. n : reading[k].next <= Len(files[reading[k].file]) + 1
      /\ \A k \in 1 .. n : k # n =>
            /\ reading[k].next - 1 \in IncludeLines(reading[k].file)
            /\ Included(reading[k].file, reading[k].next - 1) = reading[k + 1].file
  BY <1>2 DEF StackSoFar, IsStack
<1>9. i <= Len(files[f])
  BY <1>1 DEF HasLine
<1>10. n <= Len(include_stack)
  BY DEF StackSoFar
<1>11. PICK e : Builds(e, reading) /\ e[n] = expanded
  BY DEF TextSoFar
<1>12. /\ e \in [0 .. n -> Seq(SourceLines)] /\ e[0] = <<>>
       /\ \A k \in 1 .. n :
             e[k] = e[k - 1] \o PartText(k, reading[k].file, LinesDone(reading, k))
  BY <1>11 DEF Builds
<1>13. Len(include_stack) \in Nat /\ Len(include_stack') = Len(include_stack) + 1
  BY <1>1 DEF IncTypeOK, FileNames
<1>14. f = reading[n].file /\ i = reading[n].next
  BY <1>2
<1> HIDE DEF n, f, i, new, r
<1>15. r[n].file = f /\ r[n].next = i + 1 /\ r[n + 1].file = new /\ r[n + 1].next = 1
  BY <1>2, <1>4, <1>5, <1>14
<1>16. \A k \in 1 .. n : r[k].file = reading[k].file /\ (k # n => r[k] = reading[k])
  BY <1>2, <1>4
<1>17. IsStack(r)
  <2>1. r[1].file = MainFile
    BY <1>6, <1>8, <1>16
  <2>2. ASSUME NEW k \in 1 .. n + 1
        PROVE  r[k].next <= Len(files[r[k].file]) + 1
    <3>1. CASE k = n + 1
      BY <1>7, <1>15, <3>1
    <3>2. CASE k = n
      BY <1>3, <1>7, <1>9, <1>15, <3>2
    <3>3. CASE k \in 1 .. n /\ k # n
      <4>1. r[k] = reading[k]
        BY <1>16, <3>3
      <4> QED
        BY <1>8, <3>3, <4>1
    <3> QED
      BY <1>6, <3>1, <3>2, <3>3
  <2>3. ASSUME NEW k \in 1 .. n + 1, k # n + 1
        PROVE  /\ r[k].next - 1 \in IncludeLines(r[k].file)
               /\ Included(r[k].file, r[k].next - 1) = r[k + 1].file
    <3>1. k \in 1 .. n
      BY <1>6, <2>3
    <3>2. CASE k = n
      <4>1. i + 1 - 1 = i
        BY <1>3
      <4> QED
        BY <1>3, <1>15, <3>2, <4>1
    <3>3. CASE k # n
      <4>1. r[k] = reading[k] /\ r[k + 1].file = reading[k + 1].file
        BY <1>6, <1>16, <3>1, <3>3
      <4> QED
        BY <1>8, <3>1, <3>3, <4>1
    <3> QED
      BY <3>2, <3>3
  <2> QED
    BY <1>4, <1>6, <2>1, <2>2, <2>3 DEF IsStack
<1> DEFINE e2 == [k \in 0 .. n + 1 |-> IF k = n + 1 THEN expanded ELSE e[k]]
<1>18. /\ e2 \in [0 .. n + 1 -> Seq(SourceLines)] /\ e2[0] = <<>>
       /\ e2[n + 1] = expanded /\ \A k \in 0 .. n : e2[k] = e[k]
  <2>1. expanded \in Seq(SourceLines)
    BY DEF IncTypeOK
  <2>2. 0 # n + 1 /\ \A k \in 0 .. n + 1 : k \in 0 .. n \/ k = n + 1
    BY <1>2
  <2>3. 0 \in 0 .. n /\ n + 1 \in 0 .. n + 1
        /\ \A k \in 0 .. n : k # n + 1 /\ k \in 0 .. n + 1
    BY <1>2
  <2> QED
    BY <1>12, <2>1, <2>2, <2>3
<1> HIDE DEF e2
<1>19. Builds(e2, r)
  <2>1. ASSUME NEW k \in 1 .. n
        PROVE  e2[k] = e2[k - 1] \o PartText(k, r[k].file, LinesDone(r, k))
    <3>1. k \in 0 .. n /\ k - 1 \in 0 .. n /\ k # n + 1
      BY <1>2
    <3>2. LinesDone(r, k) = LinesDone(reading, k)
      <4>1. i + 1 - 2 = i - 1
        BY <1>3
      <4>2. Len(reading) = n
        BY DEF n
      <4> QED
        <5>1. CASE k = n
          <6>1. LinesDone(r, n) = r[n].next - 2 /\ LinesDone(reading, n) = reading[n].next - 1
            BY <1>2, <1>4, <4>2 DEF LinesDone
          <6>2. LinesDone(r, n) = i + 1 - 2
            <7>1. r[n].next = i + 1 /\ r[n].next \in Int
              BY <1>3, <1>15
            <7> QED
              BY <1>3, <6>1, <7>1
          <6>3. LinesDone(reading, n) = i - 1
            <7>1. reading[n].next = i
              BY <1>14
            <7> QED
              BY <6>1, <7>1
          <6> QED
            BY <4>1, <5>1, <6>2, <6>3
        <5>2. CASE k # n
          <6>1. r[k] = reading[k]
            BY <1>16, <5>2
          <6> QED
            BY <1>4, <3>1, <4>2, <5>2, <6>1 DEF LinesDone
        <5> QED
          BY <5>1, <5>2
    <3> QED
      BY <1>12, <1>16, <1>18, <3>1, <3>2
  <2>2. e2[n + 1] = e2[n] \o PartText(n + 1, r[n + 1].file, LinesDone(r, n + 1))
    <3>1. LinesDone(r, n + 1) = 0
      BY <1>4, <1>15 DEF LinesDone
    <3>2. PartText(n + 1, r[n + 1].file, 0) = <<>>
      <4>1. 0 \in Nat
        OBVIOUS
      <4> QED
        BY <4>1, PartGrows
    <3>3. expanded \o <<>> = expanded
      BY ConcatEmptySeq DEF IncTypeOK
    <3>4. n \in 0 .. n
      BY <1>2
    <3> QED
      BY <1>11, <1>18, <3>1, <3>2, <3>3, <3>4
  <2>3. ASSUME NEW k \in 1 .. n + 1
        PROVE  e2[k] = e2[k - 1] \o PartText(k, r[k].file, LinesDone(r, k))
    <3>1. CASE k = n + 1
      <4>1. k - 1 = n
        BY <1>2, <3>1
      <4> QED
        BY <2>2, <3>1, <4>1, Zenon
    <3> QED
      BY <1>6, <2>1, <3>1
  <2> QED
    BY <1>4, <1>18, <2>3 DEF Builds
<1>20. PICK e3 : Builds(e3, reading') /\ e3[Len(reading')] = expanded'
  BY <1>1, <1>4, <1>18, <1>19
<1>21. Builds(e3, reading)' /\ IsStack(reading)'
  BY <1>1, <1>17, <1>20, SameBuilds
<1>22. StackSoFar'
  BY <1>1, <1>2, <1>4, <1>10, <1>13, <1>21 DEF StackSoFar
<1>23. TextSoFar'
  BY <1>20, <1>21 DEF TextSoFar
<1> QED
  BY <1>22, <1>23

\* When a file ends, the line that included it has given the whole of it; when
\* the main file ends, the text is complete.
LEMMA TextAfterFile ==
    ASSUME IncTypeOK, OpenedOnce, StackSoFar, TextSoFar, EndOfFile
    PROVE  /\ StackSoFar'
           /\ phase' = "expand" => TextSoFar'
           /\ phase' # "expand" =>
                 expanded' = TextsWithin(MaxIncludeDepth)[MainFile]
<1> DEFINE n == Len(reading)
           r == SubSeq(reading, 1, n - 1)
           f == Top.file
           whole == PartText(n, f, Len(files[f]))
<1>1. /\ phase = "expand" /\ ~HasLine
      /\ reading' = r
      /\ phase' = IF n = 1 THEN "pass 1" ELSE "expand"
      /\ UNCHANGED <<files, include_stack, expanded>>
  BY DEF EndOfFile
<1>2. n \in Nat \ {0} /\ n \in 1 .. n /\ Top = reading[n] /\ Top \in Frames
  BY <1>1, BehindTop
<1>3. Len(r) = n - 1 /\ \A k \in 1 .. n - 1 : r[k] = reading[k]
  <2>1. reading \in Seq(Frames)
    BY DEF IncTypeOK
  <2> QED
    BY <1>2, <2>1, WithoutLast
<1>4. \A k \in 1 .. n :
         /\ k \in 1 .. MaxIncludeDepth
         /\ reading[k].file \in DOMAIN files
         /\ Len(files[reading[k].file]) \in Nat
         /\ reading[k].next \in Nat \ {0}
         /\ reading[k].next - 1 \in 0 .. Len(files[reading[k].file])
  BY StackFits
<1>5. reading[n].next - 1 = Len(files[f])
  <2>1. /\ Len(files[f]) \in Nat /\ reading[n].next - 1 \in 0 .. Len(files[f])
        /\ reading[n].next \in Nat
    BY <1>2, <1>4
  <2>2. ~(reading[n].next <= Len(files[f]))
    BY <1>1, <1>2 DEF HasLine
  <2> QED
    BY <2>1, <2>2
<1>6. /\ reading[1].file = MainFile
      /\ \A k \in 1 .. n : reading[k].next <= Len(files[reading[k].file]) + 1
      /\ \A k \in 1 .. n : k # n =>
            /\ reading[k].next - 1 \in IncludeLines(reading[k].file)
            /\ Included(reading[k].file, reading[k].next - 1) = reading[k + 1].file
  BY <1>2 DEF StackSoFar, IsStack
<1>7. PICK e : Builds(e, reading) /\ e[n] = expanded
  BY DEF TextSoFar
<1>8. /\ e \in [0 .. n -> Seq(SourceLines)] /\ e[0] = <<>>
      /\ \A k \in 1 .. n :
            e[k] = e[k - 1] \o PartText(k, reading[k].file, LinesDone(reading, k))
  BY <1>7 DEF Builds
<1>9. n <= Len(include_stack) /\ Len(include_stack) \in Nat
  BY DEF StackSoFar, IncTypeOK
<1>10. f = reading[n].file /\ Len(reading) = n /\ files \in Sources
  BY <1>2 DEF IncTypeOK
<1> HIDE DEF n, r, f
<1>11. LinesDone(reading, n) = Len(files[f])
  BY <1>5, <1>10 DEF LinesDone
<1>12. e[n] = e[n - 1] \o whole
  BY <1>2, <1>8, <1>10, <1>11
<1>13. whole = TextsWithin(MaxIncludeDepth - (n - 1))[f] /\ whole \in Seq(SourceLines)
  <2>1. n \in 1 .. MaxIncludeDepth /\ f \in DOMAIN files
        /\ Len(files[f]) \in 0 .. Len(files[f])
    BY <1>2, <1>4, <1>10
  <2> QED
    BY <1>10, <2>1, PartOfWhole, PartIsText
<1> HIDE DEF whole
<1>14. \A k \in 1 .. n - 1 : k \in 1 .. n /\ k # n
  BY <1>2
<1>15. IsStack(r)
  <2>1. n - 1 # 0 => 1 \in 1 .. n - 1
    BY <1>2
  <2>2. \A k \in 1 .. n - 1 : k # n - 1 => k + 1 \in 1 .. n - 1
    BY <1>2
  <2> QED
    BY <1>3, <1>6, <1>14, <2>1, <2>2 DEF IsStack
<1>16. IsStack(reading)' /\ StackSoFar'
  <2>1. IsStack(reading')
    BY <1>1, <1>15
  <2>2. IsStack(reading)'
    BY <1>1, <2>1, SameBuilds
  <2>3. Len(reading') = n - 1 /\ Len(include_stack') = Len(include_stack)
    BY <1>1, <1>3
  <2>4. Len(reading') <= Len(include_stack')
    BY <1>2, <1>9, <2>3
  <2> QED
    BY <2>2, <2>4 DEF StackSoFar
<1>17. ASSUME n = 1
       PROVE  expanded' = TextsWithin(MaxIncludeDepth)[MainFile]
  <2>1. MaxIncludeDepth - (1 - 1) = MaxIncludeDepth
    BY IncludeAssumption
  <2>2. expanded = <<>> \o whole
    <3>1. n - 1 = 0
      BY <1>17
    <3> QED
      BY <1>7, <1>8, <1>12, <3>1
  <2>3. <<>> \o whole = whole
    BY <1>13, ConcatEmptySeq
  <2>4. f = MainFile
    BY <1>6, <1>10, <1>17
  <2> QED
    BY <1>1, <1>13, <1>17, <2>1, <2>2, <2>3, <2>4
<1>18. ASSUME n # 1
       PROVE  TextSoFar'
  <2> DEFINE m == n - 1
             g == reading[m].file
             j == reading[m].next - 1
             e2 == [k \in 0 .. m |-> IF k = m THEN expanded ELSE e[k]]
  <2>1. m \in Nat \ {0} /\ m \in 1 .. n /\ m # n /\ m + 1 = n /\ m - 1 \in Nat
    BY <1>2, <1>18
  <2>2. /\ g \in DOMAIN files /\ m \in 1 .. MaxIncludeDepth
        /\ Len(files[g]) \in Nat
    BY <1>4, <2>1
  <2>3. /\ j \in 1 .. Len(files[g])
        /\ files[g][j].kind = "include" /\ files[g][j].file = f
    <3>1. j \in IncludeLines(g) /\ Included(g, j) = reading[m + 1].file
      BY <1>6, <2>1
    <3> QED
      BY <1>10, <2>1, <3>1 DEF IncludeLines, Included
  <2>4. LinesDone(reading, m) = j - 1 /\ LinesDone(r, m) = j
    <3>1. reading[m].next \in Nat
      BY <1>4, <2>1
    <3> QED
      BY <1>3, <1>10, <2>1, <3>1 DEF LinesDone
  <2>5. LineText(TextsWithin(MaxIncludeDepth - m), files[g][j]) = whole
    <3>1. f \in DOMAIN files
      BY <1>2, <1>4, <1>10
    <3> QED
      BY <1>13, <2>3, <3>1 DEF LineText
  <2>6. e[m] = e[m - 1] \o PartText(m, g, j - 1)
    BY <1>8, <2>1, <2>4
  <2>7. PartText(m, g, j) = PartText(m, g, j - 1) \o whole
        /\ PartText(m, g, j - 1) \in Seq(SourceLines)
    <3> HIDE DEF m, g, j
    <3>1. j - 1 \in Nat /\ j - 1 + 1 = j /\ j - 1 \in 0 .. Len(files[g])
      BY <2>2, <2>3
    <3>2. PartText(m, g, j - 1 + 1) =
            PartText(m, g, j - 1)
              \o LineText(TextsWithin(MaxIncludeDepth - m), files[g][j - 1 + 1])
      BY <3>1, PartGrows
    <3>3. PartText(m, g, j - 1) \in Seq(SourceLines)
      BY <1>10, <2>2, <3>1, PartIsText
    <3> QED
      BY <2>5, <3>1, <3>2, <3>3
  <2>8. e[m - 1] \in Seq(SourceLines) /\ m - 1 \in 0 .. m /\ m - 1 # m
    <3>1. m - 1 \in 0 .. n
      BY <2>1
    <3> QED
      BY <1>8, <2>1, <3>1
  <2>9. expanded = e[m - 1] \o PartText(m, g, j)
    <3> HIDE DEF m, g, j
    <3>1. n - 1 = m
      BY <2>1
    <3>2. expanded = (e[m - 1] \o PartText(m, g, j - 1)) \o whole
      BY <1>7, <1>12, <2>6, <3>1
    <3> QED
      <4>1. (e[m - 1] \o PartText(m, g, j - 1)) \o whole
              = e[m - 1] \o (PartText(m, g, j - 1) \o whole)
        BY <1>13, <2>7, <2>8, TextsAssociate, Zenon
      <4> QED
        BY <2>7, <3>2, <4>1, Zenon
  <2>10. /\ e2 \in [0 .. m -> Seq(SourceLines)] /\ e2[0] = <<>>
         /\ e2[m] = expanded /\ \A k \in 0 .. m : k # m => e2[k] = e[k]
    <3>1. expanded \in Seq(SourceLines)
      BY DEF IncTypeOK
    <3> HIDE DEF m
    <3>2. /\ 0 # m /\ 0 \in 0 .. m /\ m \in 0 .. m
          /\ \A k \in 0 .. m : k \in 0 .. n
      BY <2>1
    <3> QED
      BY <1>8, <3>1, <3>2
  <2>11. \A k \in 1 .. m : k # m =>
           /\ k \in 1 .. n /\ k \in 0 .. m /\ k - 1 \in 0 .. m /\ k - 1 # m
           /\ r[k] = reading[k] /\ LinesDone(r, k) = LinesDone(reading, k)
    <3>1. \A k \in 1 .. m : k # m => k \in 1 .. n /\ k # n /\ k \in 0 .. m
                                     /\ k - 1 \in 0 .. m /\ k - 1 # m
      BY <2>1
    <3> QED
      BY <1>3, <1>10, <3>1 DEF LinesDone
  <2>12. r[m] = reading[m] /\ Len(r) = m
    BY <1>3, <2>1
  <2> HIDE DEF e2, m, j
  <2>13. \A k \in 1 .. m :
            e2[k] = e2[k - 1] \o PartText(k, r[k].file, LinesDone(r, k))
    <3>1. ASSUME NEW k \in 1 .. m, k # m
          PROVE  e2[k] = e2[k - 1] \o PartText(k, r[k].file, LinesDone(r, k))
      BY <1>8, <2>10, <2>11, <3>1
    <3>2. e2[m] = e2[m - 1] \o PartText(m, r[m].file, LinesDone(r, m))
      BY <2>4, <2>8, <2>9, <2>10, <2>12
    <3> QED
      BY <3>1, <3>2
  <2>14. Builds(e2, r)
    BY <2>10, <2>12, <2>13 DEF Builds
  <2>15. PICK e3 : Builds(e3, reading') /\ e3[Len(reading')] = expanded'
    BY <1>1, <2>10, <2>12, <2>14
  <2>16. Builds(e3, reading)'
    BY <1>1, <2>15, SameBuilds
  <2> QED
    BY <2>15, <2>16 DEF TextSoFar
<1> QED
  BY <1>1, <1>16, <1>17, <1>18

-----------------------------------------------------------------------------
(* Expansion is the text of a tree of files                                *)

\* Why an include is refused.
Refused == {"missing", "repeated", "too deep"}

\* The inductive invariant: what has been opened is a tree and what has been
\* expanded its text so far; a refused include shows that there is no tree.
TextInv ==
    /\ phase \in {"expand", "pass 1", "pass 2", "saved"} => TreeSoFar
    /\ phase = "expand" => StackSoFar /\ TextSoFar
    /\ phase \in {"pass 1", "pass 2", "saved"} =>
          /\ Len(reading) = 0
          /\ expanded = TextsWithin(MaxIncludeDepth)[MainFile]
    /\ failure \in Refused => ~IsTree

LEMMA TextAtFirst == AsmInit => TextInv
<1> SUFFICES ASSUME AsmInit PROVE TextInv
  OBVIOUS
<1>1. /\ files \in Sources /\ phase = "expand" /\ failure = "none"
      /\ reading = <<Frame(MainFile)>> /\ include_stack = <<MainFile>>
      /\ expanded = <<>>
  BY DEF AsmInit, IncInit
<1>2. Frame(MainFile).file = MainFile /\ Frame(MainFile).next = 1
  BY DEF Frame
<1>3. MainFile \in DOMAIN files /\ MainFile \in Reachable
  BY <1>1, MainReachable
<1>4. Opened = {MainFile}
  BY <1>1 DEF Opened
<1>5. /\ Len(reading) = 1 /\ reading[1].file = MainFile /\ reading[1].next = 1
      /\ Len(include_stack) = 1
  BY <1>1, <1>2
<1>6. \A f, i : ~WasRead(f, i)
  <2> SUFFICES ASSUME NEW f, NEW i, WasRead(f, i) PROVE FALSE
    OBVIOUS
  <2>1. f = MainFile /\ i \in 1 .. Len(files[f]) /\ i < 1
    BY <1>4, <1>5 DEF WasRead, IncludeLines
  <2> QED
    BY <2>1
<1>7. TreeSoFar
  BY <1>3, <1>4, <1>5, <1>6 DEF TreeSoFar
<1>8. StackSoFar
  <2>1. Len(files[MainFile]) \in Nat
    BY <1>1, <1>3, SourceAssumption
  <2> QED
    BY <1>5, <2>1 DEF StackSoFar, IsStack
<1>9. TextSoFar
  <2> DEFINE e == [k \in 0 .. 1 |-> <<>>]
  <2>1. <<>> \in Seq(SourceLines) /\ <<>> \o <<>> = <<>>
    BY EmptySeq, ConcatEmptySeq
  <2>2. LinesDone(reading, 1) = 0
    BY <1>5 DEF LinesDone
  <2>3. PartText(1, MainFile, 0) = <<>>
    <3>1. 0 \in Nat
      OBVIOUS
    <3> QED
      BY <3>1, PartGrows
  <2>4. Builds(e, reading)
    BY <1>5, <2>1, <2>2, <2>3 DEF Builds
  <2>5. e[Len(reading)] = expanded
    BY <1>1, <1>5
  <2> QED
    BY <2>4, <2>5 DEF TextSoFar
<1> QED
  BY <1>1, <1>7, <1>8, <1>9 DEF TextInv, Refused

LEMMA TextNext ==
    ASSUME IncTypeOK, OpenedOnce, TextInv, [AsmNext]_allVars
    PROVE  TextInv'
<1>1. CASE CopyLine \/ DropInclude
  <2>1. /\ phase = "expand" /\ phase' = "expand"
        /\ UNCHANGED <<files, failure>>
    BY <1>1 DEF CopyLine, DropInclude, HasLine
  <2>2. TreeSoFar /\ StackSoFar /\ TextSoFar
    BY <2>1 DEF TextInv
  <2>3. TreeSoFar'
    BY <1>1, <2>2, TreeAfterLine
  <2>4. StackSoFar' /\ TextSoFar'
    BY <1>1, <2>2, TextAfterLine
  <2>5. IsTree' = IsTree
    BY <2>1, SameFiles
  <2> QED
    BY <2>1, <2>3, <2>4, <2>5 DEF TextInv
<1>2. CASE Include
  <2>1. /\ phase = "expand" /\ phase' = "expand"
        /\ UNCHANGED <<files, failure>>
    BY <1>2 DEF Include, HasLine
  <2>2. TreeSoFar /\ StackSoFar /\ TextSoFar
    BY <2>1 DEF TextInv
  <2>3. TreeSoFar'
    BY <1>2, <2>2, TreeAfterInclude
  <2>4. StackSoFar' /\ TextSoFar'
    BY <1>2, <2>2, TextAfterInclude
  <2>5. IsTree' = IsTree
    BY <2>1, SameFiles
  <2> QED
    BY <2>1, <2>3, <2>4, <2>5 DEF TextInv
<1>3. CASE RejectInclude
  <2>1. /\ phase = "expand" /\ HasLine /\ NextLine.kind = "include"
        /\ phase' = "failed"
        /\ UNCHANGED files
        /\ \/ NextLine.file \notin DOMAIN files
           \/ already_included(NextLine.file)
           \/ ~already_included(NextLine.file) /\ Len(include_stack) >= MaxIncludeDepth
    BY <1>3 DEF RejectInclude, Exit, HasLine
  <2>2. ~IsTree
    BY <2>1, RejectedIsNoTree DEF TextInv
  <2>3. IsTree' = IsTree
    BY <2>1, SameFiles
  <2> QED
    BY <2>1, <2>2, <2>3 DEF TextInv
<1>4. CASE EndOfFile
  <2>1. /\ phase = "expand" /\ UNCHANGED <<files, failure>>
        /\ phase' = IF Len(reading) = 1 THEN "pass 1" ELSE phase
        /\ reading' = SubSeq(reading, 1, Len(reading) - 1)
    BY <1>4 DEF EndOfFile
  <2>2. TreeSoFar /\ StackSoFar /\ TextSoFar
    BY <2>1 DEF TextInv
  <2>3. TreeSoFar'
    BY <1>4, <2>2, TreeAfterFile
  <2>4. /\ phase' = "expand" => StackSoFar' /\ TextSoFar'
        /\ phase' # "expand" => expanded' = TextsWithin(MaxIncludeDepth)[MainFile]
    BY <1>4, <2>2, TextAfterFile
  <2>5. phase' # "expand" => Len(reading') = 0
    <3>1. Len(reading) = 1 => reading' = <<>>
      <4>1. ASSUME Len(reading) = 1 PROVE SubSeq(reading, 1, Len(reading) - 1) = <<>>
        BY <4>1, SubSeqEmpty
      <4> QED
        BY <2>1, <4>1
    <3> QED
      BY <2>1, <3>1
  <2>6. /\ IsTree' = IsTree
        /\ \A d : TextsWithin(d)' = TextsWithin(d)
    BY <2>1, SameFiles
  <2>7. TextsWithin(MaxIncludeDepth)' = TextsWithin(MaxIncludeDepth)
    BY <2>6
  <2> QED
    BY <2>1, <2>3, <2>4, <2>5, <2>6, <2>7 DEF TextInv
<1>5. ASSUME UNCHANGED <<files, reading, include_stack, expanded>>,
             phase' \in {phase, "failed"}
                \/ (phase \in {"pass 1", "pass 2"} /\ phase' \in {"pass 2", "saved"}),
             failure' \in {failure, "banks", "size"}
      PROVE  TextInv'
  <2>1. /\ TreeSoFar => TreeSoFar'
        /\ IsTree' = IsTree
        /\ StackSoFar /\ TextSoFar => StackSoFar' /\ TextSoFar'
        /\ TextsWithin(MaxIncludeDepth)' = TextsWithin(MaxIncludeDepth)
    <3>1. /\ IsTree' = IsTree /\ Reachable' = Reachable
          /\ \A f : IncludeLines(f)' = IncludeLines(f)
          /\ \A f, i : Included(f, i)' = Included(f, i)
          /\ \A d : TextsWithin(d)' = TextsWithin(d)
      BY <1>5, SameFiles
    <3>2. Opened' = Opened /\ \A f, i : WasRead(f, i)' <=> WasRead(f, i)
      BY <1>5, <3>1 DEF Opened, WasRead
    <3>3. TreeSoFar => TreeSoFar'
      <4> SUFFICES ASSUME TreeSoFar PROVE TreeSoFar'
        OBVIOUS
      <4>1. /\ Opened' \subseteq Reachable' /\ Opened' \subseteq DOMAIN files'
            /\ MainFile \in Opened'
            /\ \A k \in 1 .. Len(reading') : reading'[k].file \in Opened'
            /\ \A j, k \in 1 .. Len(reading') :
                  reading'[j].file = reading'[k].file => j = k
        BY <1>5, <3>1, <3>2 DEF TreeSoFar
      <4>2. \A f, i : WasRead(f, i)' =>
               /\ Included(f, i)' \in Opened'
               /\ Included(f, i)' # MainFile
               /\ \A g, j : WasRead(g, j)' /\ Included(f, i)' = Included(g, j)'
                              => f = g /\ i = j
        BY <3>1, <3>2 DEF TreeSoFar
      <4>3. \A g \in Opened' : g # MainFile =>
               \E f, i : WasRead(f, i)' /\ Included(f, i)' = g
        BY <3>1, <3>2 DEF TreeSoFar
      <4> QED
        BY <4>1, <4>2, <4>3 DEF TreeSoFar
    <3>4. /\ IsStack(reading)' <=> IsStack(reading')
          /\ \A e : Builds(e, reading)' <=> Builds(e, reading')
      BY <1>5, SameBuilds
    <3>5. StackSoFar /\ TextSoFar => StackSoFar' /\ TextSoFar'
      BY <1>5, <3>4 DEF StackSoFar, TextSoFar
    <3> QED
      BY <3>1, <3>3, <3>5
  <2> QED
    BY <1>5, <2>1 DEF TextInv, Refused
<1>6. CASE PassOneLine \/ PassOneClash \/ PassOneEnds
  <2>1. /\ UNCHANGED <<files, reading, include_stack, expanded>>
        /\ \/ phase' \in {phase, "failed"}
           \/ phase = "pass 1" /\ phase' = "pass 2"
        /\ failure' \in {failure, "banks", "size"}
    BY <1>6 DEF PassOneLine, PassOneClash, PassOneEnds, KeepFiles, Exit
  <2> QED
    BY <1>5, <2>1
<1>7. CASE PassTwoLine \/ PassTwoClash \/ PassTwoEnds
  <2>1. /\ UNCHANGED <<files, reading, include_stack, expanded>>
        /\ \/ phase' \in {phase, "failed"}
           \/ phase = "pass 2" /\ phase' = "saved"
        /\ failure' \in {failure, "banks", "size"}
    BY <1>7 DEF PassTwoLine, PassTwoClash, PassTwoEnds, KeepFiles, Exit
  <2> QED
    BY <1>5, <2>1
<1>8. CASE UNCHANGED allVars
  BY <1>5, <1>8 DEF allVars, incVars
<1> QED
  BY <1>1, <1>2, <1>3, <1>4, <1>6, <1>7, <1>8 DEF AsmNext, Expand, Ended

\* For every file system: expansion succeeds exactly when the includes form a
\* tree of at most MaxIncludeDepth files, and what it leaves is the text that
\* the tree stands for (expand_includes).
THEOREM ExpandsToText == AsmSpec => []ExpansionIsText
<1>1. IncTypeOK /\ OpenedOnce /\ TextInv /\ [AsmNext]_allVars => TextInv'
  BY TextNext
<1>2. IncTypeOK /\ OpenedOnce /\ TextInv => ExpansionIsText
  BY TreeOfOpened DEF TextInv, ExpansionIsText, Refused
<1> QED
  BY <1>1, <1>2, IncTyped, FilesOpenedOnce, TextAtFirst, PTL DEF AsmSpec

-----------------------------------------------------------------------------
(* The assembler ends                                                      *)

\* What is left to do, the most important first: passes, files that may still be
\* opened, files that are open, lines of the file or the text that is read.
WorkLeft ==
    <<CASE phase = "expand" -> 3 [] phase = "pass 1" -> 2 [] phase = "pass 2" -> 1
        [] OTHER -> 0,
      MaxIncludeDepth - Len(include_stack),
      Len(reading),
      IF phase = "expand" THEN Len(files[Top.file]) + 1 - Top.next
                          ELSE Len(expanded) + 1 - line>>

\* The lexicographic order of four numbers.
IsLess(u, v) ==
    \E i \in 1 .. 4 : /\ u[i] \in Nat /\ u[i] < v[i]
                      /\ \A j \in 1 .. i - 1 : u[j] = v[j]

\* Every step of an assembler that has not ended makes the work less: include
\* files cannot keep it for ever, and no line is assembled twice.
LessIsLeft == IsLess(WorkLeft', WorkLeft)
WorkRunsOut == [][phase \notin {"saved", "failed"} => LessIsLeft]_allVars

LineIsNat == line \in Nat

LEMMA FirstIsLess == \A u, v : u[1] \in Nat /\ u[1] < v[1] => IsLess(u, v)
<1>1. 1 \in 1 .. 4 /\ 1 .. 1 - 1 = {}
  OBVIOUS
<1> QED
  BY <1>1 DEF IsLess

LEMMA SecondIsLess == \A u, v : u[1] = v[1] /\ u[2] \in Nat /\ u[2] < v[2] => IsLess(u, v)
<1>1. 2 \in 1 .. 4 /\ \A j \in 1 .. 2 - 1 : j = 1
  OBVIOUS
<1> QED
  BY <1>1 DEF IsLess

LEMMA ThirdIsLess ==
    \A u, v : u[1] = v[1] /\ u[2] = v[2] /\ u[3] \in Nat /\ u[3] < v[3] => IsLess(u, v)
<1>1. 3 \in 1 .. 4 /\ \A j \in 1 .. 3 - 1 : j = 1 \/ j = 2
  OBVIOUS
<1> QED
  BY <1>1 DEF IsLess

LEMMA LastIsLess ==
    \A u, v : u[1] = v[1] /\ u[2] = v[2] /\ u[3] = v[3] /\ u[4] \in Nat /\ u[4] < v[4]
                => IsLess(u, v)
<1>1. 4 \in 1 .. 4 /\ \A j \in 1 .. 4 - 1 : j = 1 \/ j = 2 \/ j = 3
  OBVIOUS
<1> QED
  BY <1>1 DEF IsLess

LEMMA ExpansionStep ==
    ASSUME IncTypeOK, OpenedOnce, Expand
    PROVE  IsLess(WorkLeft', WorkLeft)
<1>1. /\ phase = "expand" /\ files' = files
      /\ Len(reading) \in Nat \ {0} /\ Top.next \in Nat /\ Top.file \in DOMAIN files
      /\ Len(files[Top.file]) \in Nat
  <2>1. phase = "expand" /\ files' = files
    BY DEF Expand, CopyLine, DropInclude, Include, RejectInclude, EndOfFile, HasLine
  <2> QED
    BY <2>1, TopIsFrame, SourceAssumption DEF Frames, IncTypeOK
<1>2. Len(include_stack) \in Nat /\ Len(include_stack) <= MaxIncludeDepth
      /\ MaxIncludeDepth \in Nat
  BY IncludeAssumption DEF OpenedOnce
<1>3. CASE CopyLine \/ DropInclude
  <2>1. /\ HasLine /\ reading' = Behind /\ phase' = "expand"
        /\ include_stack' = include_stack
    BY <1>1, <1>3 DEF CopyLine, DropInclude
  <2>2. Len(Behind) = Len(reading) /\ Behind[Len(reading)].file = Top.file
        /\ Behind[Len(reading)].next = Top.next + 1
    BY <1>1, BehindTop
  <2>3. Len(reading') = Len(reading) /\ Top' = Behind[Len(reading)]
    BY <2>1, <2>2 DEF Top
  <2>4. Top.next <= Len(files[Top.file])
    BY <2>1 DEF HasLine
  <2>5. /\ WorkLeft'[4] = Len(files[Top.file]) + 1 - (Top.next + 1)
        /\ WorkLeft[4] = Len(files[Top.file]) + 1 - Top.next
    BY <1>1, <2>1, <2>2, <2>3 DEF WorkLeft
  <2>6. WorkLeft'[1] = WorkLeft[1] /\ WorkLeft'[2] = WorkLeft[2] /\ WorkLeft'[3] = WorkLeft[3]
    BY <1>1, <2>1, <2>3 DEF WorkLeft
  <2>7. WorkLeft'[4] \in Nat /\ WorkLeft'[4] < WorkLeft[4]
    BY <1>1, <2>4, <2>5
  <2> QED
    BY <2>6, <2>7, LastIsLess
<1>4. CASE Include
  <2>1. /\ phase' = "expand" /\ Len(include_stack) < MaxIncludeDepth
        /\ include_stack' = Append(include_stack, NextLine.file)
    BY <1>1, <1>4 DEF Include
  <2>2. Len(include_stack') = Len(include_stack) + 1
    BY <2>1 DEF IncTypeOK
  <2>3. /\ WorkLeft'[1] = WorkLeft[1]
        /\ WorkLeft'[2] = MaxIncludeDepth - Len(include_stack')
        /\ WorkLeft[2] = MaxIncludeDepth - Len(include_stack)
    BY <1>1, <2>1 DEF WorkLeft
  <2>4. WorkLeft'[2] \in Nat /\ WorkLeft'[2] < WorkLeft[2]
    BY <1>2, <2>1, <2>2, <2>3
  <2> QED
    BY <2>3, <2>4, SecondIsLess
<1>5. CASE RejectInclude
  <2>1. phase' = "failed"
    BY <1>5 DEF RejectInclude, Exit
  <2>2. WorkLeft'[1] = 0 /\ WorkLeft[1] = 3
    BY <1>1, <2>1 DEF WorkLeft
  <2> QED
    BY <2>2, FirstIsLess
<1>6. CASE EndOfFile
  <2>1. /\ reading' = SubSeq(reading, 1, Len(reading) - 1)
        /\ phase' = IF Len(reading) = 1 THEN "pass 1" ELSE phase
        /\ include_stack' = include_stack
    BY <1>6 DEF EndOfFile
  <2>2. CASE Len(reading) = 1
    <3>1. WorkLeft'[1] = 2 /\ WorkLeft[1] = 3
      BY <1>1, <2>1, <2>2 DEF WorkLeft
    <3> QED
      BY <3>1, FirstIsLess
  <2>3. CASE Len(reading) # 1
    <3>1. Len(reading') = Len(reading) - 1
      BY <1>1, <2>1, WithoutLast DEF IncTypeOK
    <3>2. /\ WorkLeft'[1] = WorkLeft[1] /\ WorkLeft'[2] = WorkLeft[2]
          /\ WorkLeft'[3] = Len(reading) - 1 /\ WorkLeft[3] = Len(reading)
      BY <1>1, <2>1, <2>3, <3>1 DEF WorkLeft
    <3>3. WorkLeft'[3] \in Nat /\ WorkLeft'[3] < WorkLeft[3]
      BY <1>1, <3>2
    <3> QED
      BY <3>2, <3>3, ThirdIsLess
  <2> QED
    BY <2>2, <2>3
<1> QED
  BY <1>3, <1>4, <1>5, <1>6 DEF Expand

\* What a step of a pass does to the phase, the line and the files.
LEMMA PassMoves ==
    ASSUME \/ PassOneLine \/ PassOneClash \/ PassOneEnds
           \/ PassTwoLine \/ PassTwoClash \/ PassTwoEnds
    PROVE  /\ phase \in {"pass 1", "pass 2"}
           /\ KeepFiles
           /\ line' \in {line, line + 1, 1}
           /\ \/ phase' = "failed"
              \/ phase = "pass 1" /\ phase' = "pass 2"
              \/ phase = "pass 2" /\ phase' = "saved"
              \/ phase' = phase /\ AnyLine /\ line' = line + 1
<1>1. CASE PassOneLine
  BY <1>1 DEF PassOneLine
<1>2. CASE PassOneClash
  BY <1>2 DEF PassOneClash, Exit
<1>3. CASE PassOneEnds
  BY <1>3 DEF PassOneEnds
<1>4. CASE PassTwoLine
  <2>1. phase' = "failed" \/ phase' = phase
    BY <1>4 DEF PassTwoLine, Exit
  <2>2. phase = "pass 2" /\ AnyLine /\ line' = line + 1 /\ KeepFiles
    BY <1>4 DEF PassTwoLine
  <2> QED
    BY <2>1, <2>2
<1>5. CASE PassTwoClash
  BY <1>5 DEF PassTwoClash, Exit, asmVars
<1>6. CASE PassTwoEnds
  BY <1>6 DEF PassTwoEnds, asmVars
<1> QED
  BY <1>1, <1>2, <1>3, <1>4, <1>5, <1>6

LEMMA PassStep ==
    ASSUME IncTypeOK, line \in Nat,
           \/ PassOneLine \/ PassOneClash \/ PassOneEnds
           \/ PassTwoLine \/ PassTwoClash \/ PassTwoEnds
    PROVE  IsLess(WorkLeft', WorkLeft)
<1>1. /\ phase \in {"pass 1", "pass 2"}
      /\ reading' = reading /\ include_stack' = include_stack /\ expanded' = expanded
  BY PassMoves DEF KeepFiles
<1>2. Len(expanded) \in Nat
  BY DEF IncTypeOK
<1>3. CASE phase' = "failed"
  <2>1. WorkLeft'[1] = 0 /\ WorkLeft[1] \in {1, 2}
    BY <1>1, <1>3 DEF WorkLeft
  <2> QED
    BY <2>1, FirstIsLess
<1>4. CASE phase = "pass 1" /\ phase' = "pass 2"
  <2>1. WorkLeft'[1] = 1 /\ WorkLeft[1] = 2
    BY <1>4 DEF WorkLeft
  <2> QED
    BY <2>1, FirstIsLess
<1>5. CASE phase = "pass 2" /\ phase' = "saved"
  <2>1. WorkLeft'[1] = 0 /\ WorkLeft[1] = 1
    BY <1>5 DEF WorkLeft
  <2> QED
    BY <2>1, FirstIsLess
<1>6. CASE phase' = phase /\ AnyLine /\ line' = line + 1
  <2>1. /\ WorkLeft'[1] = WorkLeft[1] /\ WorkLeft'[2] = WorkLeft[2]
        /\ WorkLeft'[3] = WorkLeft[3]
    BY <1>1, <1>6 DEF WorkLeft
  <2>2. /\ WorkLeft'[4] = Len(expanded) + 1 - (line + 1)
        /\ WorkLeft[4] = Len(expanded) + 1 - line
    BY <1>1, <1>6 DEF WorkLeft
  <2>3. line <= Len(expanded)
    BY <1>6 DEF AnyLine
  <2>4. /\ Len(expanded) + 1 - (line + 1) \in Nat
        /\ Len(expanded) + 1 - (line + 1) < Len(expanded) + 1 - line
    BY <1>2, <2>3
  <2>5. WorkLeft'[4] \in Nat /\ WorkLeft'[4] < WorkLeft[4]
    BY ONLY <2>2, <2>4
  <2> QED
    BY <2>1, <2>5, LastIsLess
<1> QED
  BY <1>3, <1>4, <1>5, <1>6, PassMoves

\* For every file system and every text: the assembler saves a file or fails, after
\* a number of steps that what it was given bounds.
THEOREM AssemblerEnds == AsmSpec => WorkRunsOut
<1>1. AsmInit => LineIsNat
  BY DEF AsmInit, LineIsNat
<1>2. LineIsNat /\ [AsmNext]_allVars => LineIsNat'
  <2> SUFFICES ASSUME line \in Nat, [AsmNext]_allVars PROVE line' \in Nat
    BY DEF LineIsNat
  <2>1. CASE UNCHANGED asmVars \/ Ended \/ UNCHANGED allVars
    BY <2>1 DEF Ended, asmVars, allVars
  <2>2. CASE \/ PassOneLine \/ PassOneClash \/ PassOneEnds
             \/ PassTwoLine \/ PassTwoClash \/ PassTwoEnds
    <3>1. line' \in {line, line + 1, 1}
      BY <2>2, PassMoves
    <3> QED
      BY <3>1
  <2> QED
    BY <2>1, <2>2 DEF AsmNext
<1>3. IncTypeOK /\ OpenedOnce /\ LineIsNat /\ [AsmNext]_allVars
        => [phase \notin {"saved", "failed"} => LessIsLeft]_allVars
  <2> SUFFICES ASSUME IncTypeOK, OpenedOnce, line \in Nat, AsmNext,
                      phase \notin {"saved", "failed"}
               PROVE  IsLess(WorkLeft', WorkLeft)
    BY DEF LessIsLeft, LineIsNat
  <2>1. CASE Expand
    BY <2>1, ExpansionStep
  <2>2. CASE \/ PassOneLine \/ PassOneClash \/ PassOneEnds
             \/ PassTwoLine \/ PassTwoClash \/ PassTwoEnds
    BY <2>2, PassStep
  <2> QED
    BY <2>1, <2>2 DEF AsmNext, Ended
<1> QED
  BY <1>1, <1>2, <1>3, IncTyped, FilesOpenedOnce, PTL DEF AsmSpec, WorkRunsOut
=============================================================================
