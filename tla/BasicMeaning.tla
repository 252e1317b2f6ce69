---------------------------- MODULE BasicMeaning ----------------------------
(***************************************************************************)
(* What the text of a BASIC program means, said of its syntax tree, and    *)
(* the properties that compare it with the interpreter: the interpreter    *)
(* never builds a tree, it finds its way through the tokens by position    *)
(* and by counting braces.                                                 *)
(*                                                                         *)
(* A statement is a record: `is` names its kind.  A program is a sequence  *)
(* of statements, an expression an operand or two with an operator.        *)
(***************************************************************************)
EXTENDS Basic, SequencesExt

VARIABLE given      \* what the interpreter was given: a program, other tokens or a text

Num(n) == [is |-> "number", value |-> n]
Var(x) == [is |-> "variable", name |-> x]
Op(l, op, r) == [is |-> "operation", left |-> l, op |-> op, right |-> r]
Paren(e) == [is |-> "paren", inner |-> e]

Assign(x, e) == [is |-> "assign", name |-> x, value |-> e]
PrintVar(x) == [is |-> "print", name |-> x]
PrintText(s) == [is |-> "say", string |-> s]
If(c, b) == [is |-> "if", cond |-> c, body |-> b]
While(c, b) == [is |-> "while", cond |-> c, body |-> b]
For(x, s, e, b) == [is |-> "for", name |-> x, start |-> s, end |-> e, body |-> b]
Func(f, b) == [is |-> "func", name |-> f, body |-> b]
Call(f) == [is |-> "call", name |-> f]
\* Tokens that are no statement and end with a semicolon: they are found in
\* error before they have any effect.
Junk(ts) == [is |-> "junk", tokens |-> ts]
\* A simple statement s whose ; is missing: a token t takes its place that
\* neither goes on with s nor begins a statement with what follows, and behind
\* it stands r, in itself a simple statement.
Unended(s, t, r) == [is |-> "unended", begun |-> s, token |-> t, rest |-> r]

-----------------------------------------------------------------------------
(* The tokens of a program                                                 *)

Id(x) == <<IdToken(x)>>
Sym(c) == <<SymToken(c)>>

RECURSIVE TextOf(_), TextOfStatement(_), TextOfBlock(_)
TextOf(e) ==
    CASE e.is = "number"    -> <<NumToken(e.value)>>
      [] e.is = "variable"  -> Id(e.name)
      [] e.is = "operation" -> TextOf(e.left) \o Sym(e.op) \o TextOf(e.right)
      [] e.is = "paren"     -> Sym("(") \o TextOf(e.inner) \o Sym(")")

TextOfProgram(b) == FlattenSeq([i \in 1 .. Len(b) |-> TextOfStatement(b[i])])
TextOfBlock(b) == Sym("{") \o TextOfProgram(b) \o Sym("}")

TextOfStatement(s) ==
    CASE s.is = "assign" -> Id(s.name) \o Sym("=") \o TextOf(s.value) \o Sym(";")
      [] s.is = "print"  -> Id(Keyword.print) \o Id(s.name) \o Sym(";")
      [] s.is = "say"    -> Id(Keyword.print) \o <<StrToken(s.string)>> \o Sym(";")
      [] s.is = "call"   -> Id(s.name) \o Sym("(") \o Sym(")") \o Sym(";")
      [] s.is = "junk"   -> s.tokens
      [] s.is = "unended" ->
           Front(TextOfStatement(s.begun)) \o <<s.token>> \o TextOfStatement(s.rest)
      [] s.is \in {"if", "while"} ->
           Id(Keyword[s.is]) \o Sym("(") \o TextOf(s.cond) \o Sym(")") \o TextOfBlock(s.body)
      [] s.is = "func"   ->
           Id(Keyword.func) \o Id(s.name) \o Sym("(") \o Sym(")") \o TextOfBlock(s.body)
      [] s.is = "for"    ->
           Id(Keyword.for) \o Id(s.name) \o Sym("=") \o TextOf(s.start)
             \o Id(Keyword.to) \o TextOf(s.end) \o TextOfBlock(s.body)

-----------------------------------------------------------------------------
(* The meaning of a program.  The state m has the variables, the bodies of *)
(* the functions, what was printed, whether a block is being executed,     *)
(* whether the last statement was in error, and whether the meaning is     *)
(* settled: it is not once a block's header is in error, or a while loop's *)
(* condition is read after an error.                                       *)

RECURSIVE Defined(_, _), Eval(_, _), Effect(_, _), EffectOf(_, _)
Defined(e, env) ==
    CASE e.is = "number"    -> TRUE
      [] e.is = "variable"  -> e.name \in DOMAIN env
      [] e.is = "operation" -> Defined(e.left, env) /\ Defined(e.right, env)
      [] e.is = "paren"     -> Defined(e.inner, env)

Eval(e, env) ==
    CASE e.is = "number"    -> e.value
      [] e.is = "variable"  -> env[e.name]
      [] e.is = "operation" -> Apply(e.op, Eval(e.left, env), Eval(e.right, env))
      [] e.is = "paren"     -> Eval(e.inner, env)

Unsettled(m) == [m EXCEPT !.settled = FALSE]
InError(m) == [m EXCEPT !.error = TRUE]
Bind(m, x, v) == [m EXCEPT !.vars = (x :> v) @@ @]

Effect(b, m) == FoldLeft(LAMBDA acc, s : EffectOf(s, acc), m, b)

\* The body of a block.
Inside(b, m) == [Effect(b, [m EXCEPT !.block = TRUE]) EXCEPT !.block = m.block]

\* What a statement has done when it misses its ;.  A call has done nothing, an
\* assignment has set its variable and a PRINT has printed.
Begun(s, m) == IF s.is = "call" THEN m ELSE EffectOf(s, m)

\* The loop counts by itself, whatever its body assigns to the variable.
Turns(s, start, end, m) ==
    FoldLeft(LAMBDA acc, n : Inside(s.body, Bind(acc, s.name, n)), m,
             [i \in 1 .. end - start + 1 |-> start + i - 1])

EffectOf(s, m0) ==
    LET m == [m0 EXCEPT !.error = FALSE] IN
    CASE ~m.settled -> m
      [] s.is = "junk" -> InError(m)
      [] s.is = "unended" ->
           IF m.block THEN EffectOf(s.rest, Begun(s.begun, m))
           ELSE InError(Begun(s.begun, m))
      [] s.is = "assign" ->
           IF /\ s.name \notin DOMAIN m.funcs
              /\ Defined(s.value, m.vars) /\ HasRoom(m.vars, s.name)
             THEN Bind(m, s.name, Eval(s.value, m.vars)) ELSE InError(m)
      [] s.is = "say" ->
           [m EXCEPT !.out = Append(@, [is |-> "string", string |-> s.string])]
      [] s.is = "print" ->
           IF s.name \in DOMAIN m.vars
             THEN [m EXCEPT !.out = Append(@, [is |-> "value", value |-> m.vars[s.name]])]
             ELSE InError(m)
      [] s.is = "func" ->
           IF m.declared = MaxFuncs THEN InError(m)
           ELSE [m EXCEPT !.declared = @ + 1, !.funcs = @ @@ (s.name :> s.body)]
      [] s.is = "call" ->
           IF s.name \in DOMAIN m.funcs THEN Inside(m.funcs[s.name], m) ELSE InError(m)
      [] s.is = "if" ->
           IF ~Defined(s.cond, m.vars) THEN Unsettled(m)
           ELSE IF Eval(s.cond, m.vars) = 0 THEN m ELSE Inside(s.body, m)
      [] s.is = "while" ->
           IF ~Defined(s.cond, m.vars) THEN Unsettled(m)
           ELSE IF Eval(s.cond, m.vars) = 0 THEN m
           ELSE LET after == Inside(s.body, m)
                IN  IF after.error THEN Unsettled(after) ELSE EffectOf(s, after)
      [] s.is = "for" ->
           LET start == Eval(s.start, m.vars)
               first == Bind(m, s.name, start)
           IN  IF Defined(s.start, m.vars) /\ HasRoom(m.vars, s.name)
                    /\ Defined(s.end, first.vars)
                 THEN Turns(s, start, Eval(s.end, first.vars), first)
                 ELSE Unsettled(m)

Meaning(program) ==
    Effect(program, [vars |-> <<>>, funcs |-> <<>>, declared |-> 0, out |-> <<>>,
                     block |-> FALSE, error |-> FALSE, settled |-> TRUE])

-----------------------------------------------------------------------------
(* Properties                                                              *)

\* A program whose meaning is settled ends with the variables, the output and the
\* functions its syntax tree says: loops, calls and skipped blocks come back to
\* the right token however they are nested.  A statement that lacks its ; keeps
\* what it had done by then; outside of blocks the text behind its error is
\* skipped, in a block it is executed (BASIC_PROTOTYPE.c:437-475, 514-518).
ProgramMeaning ==
    at = "done" /\ given.kind = "program"
      => LET m == Meaning(given.program)
         IN  m.settled => /\ vars = m.vars
                          /\ printed = m.out
                          /\ {funcs[i].name : i \in 1 .. Len(funcs)} = DOMAIN m.funcs

\* Whatever the tokens, also after errors and in unclosed blocks, the interpreter
\* comes to the end of a program whose while loops count and whose functions do not
\* call themselves.
Terminates == <>(at = "done")
=============================================================================
