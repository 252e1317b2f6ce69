------------------------------ MODULE MCBasic ------------------------------
(***************************************************************************)
(* Instances of the BASIC interpreter for TLC: it is given a program, the  *)
(* beginning of a program, or a text that has to be cut into tokens first. *)
(***************************************************************************)
EXTENDS BasicMeaning

CONSTANTS MaxText       \* characters of a text

a == <<"a">>
b == <<"b">>
f == <<"f">>
n == <<"n">>

\* Only this statement changes n, so that a while loop ends.
CountOn == Assign(n, Op(Var(n), "+", Num(1)))
NotDone == Op(Var(n), "<", Num(2))

NoCalls ==
    {Assign(a, Num(3)), Assign(b, Op(Paren(Op(Var(a), "-", Var(n))), "*", Var(a))),
     PrintVar(a), Junk(Sym(";")), Junk(Id(a) \o Sym("=") \o Sym(";")),
     Junk(Id(Keyword.print) \o <<NumToken(1)>> \o Sym(";"))}
Simple ==
    NoCalls \cup {Call(f), PrintText(<<"a">>), Assign(a, Op(Num(6), "&", Num(3))),
                  Assign(n, Op(Num(0), "|", Num(1))), Assign(b, Op(Var(a), ">", Num(2))),
                  Junk(Id(f) \o Sym("(") \o Sym(";"))}

\* a = 1 + 2 + 3; sets a, print a b; prints a, print 1 a = 2; and f() 7 a = 5;
\* do nothing: before the error.  The last one is in error twice.
Unendeds ==
    {Unended(Assign(a, Op(Num(1), "+", Num(2))), SymToken("+"),
             Junk(<<NumToken(3)>> \o Sym(";"))),
     Unended(PrintVar(a), IdToken(b), Junk(Sym(";"))),
     Unended(Junk(Id(Keyword.print) \o Sym(";")), NumToken(1), Assign(a, Num(2))),
     Unended(Call(f), NumToken(7), Assign(a, Num(5))),
     Unended(Assign(b, Var(n)), NumToken(7),
             Unended(PrintText(<<"a">>), NumToken(1), PrintVar(b)))}

Around(body, inFunction) ==
    {If(Num(0), body), If(Op(Var(n), "=", Num(0)), body),
     While(NotDone, <<CountOn>> \o body), While(NotDone, body \o <<CountOn>>),
     For(a, Num(0), Num(1), body), For(b, Var(n), Var(a), body)}
      \cup IF inFunction THEN {} ELSE {Func(f, body)}

Shallow(inFunction) ==
    UNION {Around(body, inFunction) :
             body \in {<<>>} \cup {<<s>> : s \in NoCalls}}

\* A block in a block, alone, behind a statement or before one.
Nested ==
    LET inner == {c \in Shallow(FALSE) : Len(c.body) < 2}
    IN  UNION {Around(body, FALSE) :
                 body \in {<<c>> : c \in inner}
                            \cup {<<PrintVar(a), c>> : c \in inner}
                            \cup {<<c, CountOn>> : c \in inner}}

\* Errors at the top, in a block, in a block's block and in a function.
InErrors ==
    LET behind(s) == {<<s>>, <<Assign(a, Num(3)), s>>, <<s, PrintVar(a)>>}
        blocks == UNION {Around(body, FALSE) : body \in UNION {behind(s) : s \in Unendeds}}
        deep == {If(Num(1), <<c, PrintVar(b)>>) : c \in blocks}
    IN  UNION {behind(s) : s \in Unendeds}
          \cup {<<c, PrintVar(a)>> : c \in blocks \cup deep}
          \cup {<<Func(f, <<PrintText(<<"a">>)>>), d>> :
                  d \in Unendeds \cup {If(Num(1), <<s, PrintVar(a)>>) : s \in Unendeds}}
          \cup {<<Func(f, <<s>>), d>> :
                  s \in {s \in Unendeds : s.begun.is # "call"},
                  d \in {Call(f), If(Num(1), <<Call(f)>>)}}

Bodies ==
    InErrors \cup
    {<<s>> : s \in Simple} \cup {<<s, t>> : s, t \in Simple}
      \cup {<<c, s>> : c \in Shallow(FALSE), s \in NoCalls}
      \cup {<<s, c>> : c \in Shallow(FALSE), s \in NoCalls}
      \cup {<<c, PrintVar(b)>> : c \in Nested}
      \cup {<<Func(f, <<c>>), d, Call(f), PrintVar(b)>> :
              c \in Shallow(TRUE), d \in {Call(f), Func(f, <<>>), For(a, Num(1), Num(2), <<Call(f)>>)}}

Programs == {<<Assign(n, Num(0))>> \o body : body \in Bodies}

\* Programs that break off, in a header, in a block or before a semicolon, and
\* programs that lack a token; only the body of a while loop, where n is counted,
\* and that of a function, which has to end before the call, stay whole.
Removable(s, ts) ==
    (5 .. Len(ts)) \ (CASE s.is = "while" -> 12 .. Len(ts)
                        [] s.is = "func" -> 10 .. Len(ts) - 4
                        [] OTHER -> {})
Broken ==
    UNION {LET ts == TextOfProgram(<<Assign(n, Num(0)), s, Call(f)>>)
           IN  {SubSeq(ts, 1, i) : i \in 5 .. Len(ts) - 1}
                 \cup {RemoveAt(ts, i) : i \in Removable(s, ts)}
             : s \in {c \in Shallow(FALSE) : Len(c.body) > 0}}

Texts ==
    UNION {[1 .. k -> {"a", "1", Quote, Space, ";"}] : k \in 0 .. MaxText}
      \cup {[i \in 1 .. MaxTokens + 1 |-> ";"],
            <<"a", "=", "1", "2", ";", "print", Space, "a", ";">>}

ASSUME \A program \in Programs : Len(TextOfProgram(program)) <= MaxTokens

\* What the lexer leaves of a program whose tokens are ts.
Lexed(ts) == at = "start" /\ LexInit(<<>>, ts)

Init ==
    /\ BasicInit
    /\ \/ \E program \in Programs :
            /\ Lexed(TextOfProgram(program))
            /\ given = [kind |-> "program", program |-> program]
       \/ \E ts \in Broken : Lexed(ts) /\ given = [kind |-> "tokens"]
       \/ \E t \in Texts :
            at = "lexing" /\ LexInit(t, <<>>) /\ given = [kind |-> "text"]

Next == BasicNext /\ UNCHANGED given

Spec == Init /\ [][Next]_<<basicVars, given>> /\ WF_<<basicVars, given>>(Next)
=============================================================================
