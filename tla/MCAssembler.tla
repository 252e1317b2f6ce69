---------------------------- MODULE MCAssembler ----------------------------
(***************************************************************************)
(* Instances of the assembler for TLC.  A bank has a few words only, so    *)
(* that labels in other banks come up behind a short line of HEX.          *)
(***************************************************************************)
EXTENDS AssemblerMeaning, AssemblerText, TLC

CONSTANTS MaxLines      \* lines of a program without includes

R1 == Register(1)
Far == Number(Place(1, 2))
Near == Number(Place(0, 3))

Code(name, suffixed, ops) ==
    [kind |-> "code", mnemonic |-> name, suffixed |-> suffixed, ops |-> ops]
Equation(var, sign, args) == [var |-> var, sign |-> sign, args |-> args]
NoEquation(word) == Equation(Name(word), "none", <<>>)
Assign(var, sign, args) == [kind |-> "assign"] @@ Equation(var, sign, args)
Hex(words, commas) == [kind |-> "HEX", words |-> words, commas |-> commas]
Label(s) == [kind |-> "label", name |-> s]
DefineText(s, a, equation) == [kind |-> "define", name |-> s, value |-> a] @@ equation
Define(s, a) == DefineText(s, a, NoEquation("define"))
Call(s) == [kind |-> "call", target |-> s] @@ NoEquation("call")
PrintLine(quoted, equation) == [kind |-> "print", quoted |-> quoted] @@ equation
Blank == [kind |-> "blank"]
IncludeLine(f) == [kind |-> "include", file |-> f]

\* define b = 3, define b=a, print a = R1 and call a = 3 - R1.
HiddenAssignments ==
    {DefineText("b", Origin, Equation(Name("define"), "copy", <<Near>>)),
     [kind |-> "malformed define"] @@ Equation(Name("define"), "copy", <<Name("a")>>),
     PrintLine(FALSE, Equation(Name("print"), "copy", <<R1>>)),
     [kind |-> "call", target |-> "a"]
        @@ Equation(Name("call"), "-", <<Near, R1>>)}

\* Labels and constants called a and b, and every way to use them.
Lines ==
    {Label("a"), Label("b"), Define("a", Place(1, 0)), Define("b", Place(0, 1)),
     Hex(<<1, 2, 3>>, 2), Hex(<<1>>, 1), Blank,
     Call("a"), PrintLine(TRUE, NoEquation("print")), PrintLine(FALSE, NoEquation("print")),
     Assign(R1, "+", <<Name("a"), R1>>), Assign(R1, "-", <<Far, Name("a")>>),
     Assign(R1, "unknown", <<R1, Near>>), Assign(Name("b"), "copy", <<R1>>),
     Assign(Name("b"), "|", <<R1, R1>>), Assign(R1, "copy", <<Name("a")>>), Assign(R1, "dangling", <<R1>>),
     Assign(R1, "empty", <<>>),
     Code("STJ", FALSE, <<Name("a")>>), Code("STJ", TRUE, <<Name("b")>>),
     Code("JLE.U", FALSE, <<R1, Near>>), Code("JMP", FALSE, <<>>),
     Code("RET", TRUE, <<>>), Code("HLT", FALSE, <<>>),
     Code("ADD", FALSE, <<R1, Far, Name("a")>>), Code("SUB", FALSE, <<R1, Far>>),
     Code("AND", FALSE, <<R1, Number(Place(2, 0)), Name("a")>>),
     Code("LDM", TRUE, <<R1, Name("b")>>), Code("STM", FALSE, <<Name("a"), R1>>),
     Code("MOV", FALSE, <<R1, R1>>)}
  \cup HiddenAssignments

Programs == UNION {[1 .. n -> Lines] : n \in 0 .. MaxLines}

\* Longer programs of the lines that move labels and their uses.
LongLines ==
    {Label("a"), Define("a", Place(1, 0)), Hex(<<1, 2, 3>>, 2),
     Call("a"), Assign(R1, "-", <<Far, Name("a")>>),
     Code("STJ", FALSE, <<Name("a")>>), Code("JMP", FALSE, <<>>),
     Code("STM", FALSE, <<Name("a"), R1>>)}

LongPrograms == [1 .. MaxLines + 1 -> LongLines]

\* Four files whose lines include any of them, or one that does not exist.
Files == {"main", "lib", "io", "math"}
IncludingLines ==
    {IncludeLine(f) : f \in Files \cup {"lost"}} \cup
    {[kind |-> "malformed include"], Blank}

FileSystems ==
    {[f \in {"main"} |-> p] : p \in Programs \cup LongPrograms} \cup
    {[f \in Files |->
         CASE f = "main" -> <<x, Label("a"), y>>
           [] f = "lib"  -> <<z>>
           [] f = "io"   -> <<Code("HLT", FALSE, <<>>), w>>
           [] f = "math" -> <<Label("b")>>] :
        x, y, z, w \in IncludingLines}
=============================================================================
