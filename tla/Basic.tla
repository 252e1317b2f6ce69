------------------------------- MODULE Basic -------------------------------
(***************************************************************************)
(* The interpreter of BASIC_PROTOTYPE.c: recursive descent over the token  *)
(* array, executing as it goes.                                            *)
(*                                                                         *)
(* `control` is the C stack of the interpreter without its expressions: a  *)
(* frame for every execute_block, loop and function call in progress.  A   *)
(* step is one turn of the loop of parse_program, of execute_block or of a *)
(* loop statement, or one call of the dispatcher; expressions and skipped  *)
(* blocks are evaluated within the step.                                   *)
(***************************************************************************)
EXTENDS BasicLexer, Bits

CONSTANTS
    MaxVars, MaxFuncs,      \* MAX_VARS and MAX_FUNCS: 1024 and 256 in the code
    LongBits                \* the bits of a long: 32 or 64

ASSUME BasicAssumption == MaxVars \in Nat /\ MaxFuncs \in Nat /\ LongBits \in Nat \ {0}

VARIABLES
    parser,     \* the place of currentToken, parser_error and the value of the
                \* expression evaluated last
    vars,       \* the symbol table: names to values
    funcs,      \* the function table, in the order of declaration
    control,
    printed     \* what PRINT has written, a sequence of strings and values

runVars == <<parser, vars, funcs, control, printed>>
basicVars == <<at, lexVars, runVars>>

EOF == [type |-> "eof"]
Keyword == [if |-> <<"if">>, while |-> <<"while">>, for |-> <<"for">>,
            func |-> <<"func">>, print |-> <<"print">>, to |-> <<"to">>]

-----------------------------------------------------------------------------
(* The parser's cursor                                                     *)

\* currentToken: its place is behind the last token when it is TOKEN_EOF.
Current(p) == IF p.pos > Len(tokens) THEN EOF ELSE tokens[p.pos]

advanceToken(p) == [p EXCEPT !.pos = IF @ > Len(tokens) THEN @ ELSE @ + 1]

\* The place a loop or a function comes back to when it has seen p: at the end
\* token_Position does not move, so it is the last token's.
Marked(p) == IF p.pos > Len(tokens) THEN Len(tokens) ELSE p.pos
From(p, mark) == [p EXCEPT !.pos = mark]

Fail(p) == [p EXCEPT !.error = TRUE]
Bad(p) == [Fail(p) EXCEPT !.val = 0]
IsSym(p, c) == Current(p) = SymToken(c)
IsId(p) == Current(p).type = "id"
NameAt(p) == Current(p).name
IsName(p, name) == Current(p) = IdToken(name)

\* Is the current token one that ends an expression?
EndsExpression(p) ==
    Current(p).type # "symbol" \/ Current(p).symbol \in {";", ")", "{"}

Truth(b) == IF b THEN 1 ELSE 0

\* AND and OR work on the bits of a long, in two's complement.
OnBits(op(_, _, _), l, r) ==
    LET x == op(LongBits, l % 2^LongBits, r % 2^LongBits)
    IN  IF x >= 2^(LongBits - 1) THEN x - 2^LongBits ELSE x

\* Any symbol that is none of these adds.
Apply(op, l, r) ==
    CASE op = "-" -> l - r
      [] op = "*" -> l * r
      [] op = "&" -> OnBits(And, l, r)
      [] op = "|" -> OnBits(Or, l, r)
      [] op = "=" -> Truth(l = r)
      [] op = "<" -> Truth(l < r)
      [] op = ">" -> Truth(l > r)
      [] OTHER    -> l + r

Parser == [pos : 1 .. Len(tokens) + 1, error : BOOLEAN, val : Int]

Read(p, value) == [advanceToken(p) EXCEPT !.val = value]

\* In parentheses; expr[q] is the parser behind an expression that starts at q.
Parenthesis(expr, p) ==
    LET q == expr[advanceToken(p)]
    IN  IF IsSym(q, ")") THEN advanceToken(q) ELSE Bad(q)

evaluate_primary(expr, env, p) ==
    CASE IsId(p) /\ NameAt(p) \in DOMAIN env -> Read(p, env[NameAt(p)])
      [] Current(p).type = "number" -> Read(p, Current(p).value)
      [] IsSym(p, "(") -> Parenthesis(expr, p)
      [] OTHER -> Bad(p)

\* One operator at the most.  An error that is still set when the expression
\* begins makes it 0 and ends it behind its first operand.
Operation(expr, env, p) ==
    LET left == evaluate_primary(expr, env, p) IN
    IF left.error THEN [left EXCEPT !.val = 0]
    ELSE IF EndsExpression(left) THEN left
    ELSE LET right == evaluate_primary(expr, env, advanceToken(left))
         IN  IF right.error THEN [right EXCEPT !.val = 0]
             ELSE [right EXCEPT !.val = Apply(Current(left).symbol, left.val, @)]

evaluate_expression(env, p) ==
    LET expr[q \in Parser] == Operation(expr, env, q) IN expr[p]

\* The places of a symbol from p on.
Ahead(p, c) == {i \in p.pos .. Len(tokens) : tokens[i] = SymToken(c)}

\* The first of some places; the end if there is none.
First(places) ==
    IF places = {} THEN Len(tokens) + 1
    ELSE CHOOSE i \in places : \A j \in places : i <= j

\* Faulty: the first closing brace ends the block.
skip_to_brace(p) ==
    IF ~IsSym(p, "{") THEN Fail(p)
    ELSE IF Ahead(p, "}") = {} THEN Fail(From(p, First({})))
    ELSE From(p, First(Ahead(p, "}")))

\* To the brace that closes as many blocks as have been opened.
skip_block(p) ==
    LET upTo(places, i) == Cardinality({j \in places : j <= i})
        closing == {i \in Ahead(p, "}") :
                      upTo(Ahead(p, "{"), i) = upTo(Ahead(p, "}"), i)}
    IN  IF ~IsSym(p, "{") THEN Fail(p)
        ELSE IF closing = {} THEN Fail(From(p, First({})))
        ELSE From(p, First(closing))

recover_statement(p) == From(p, First(Ahead(p, ";") \cup Ahead(p, "}")))

HasRoom(env, name) == name \in DOMAIN env \/ Cardinality(DOMAIN env) < MaxVars

\* set_variable: a full table takes no new variable.
Set(env, name, value) ==
    IF ~HasRoom(env, name) THEN env
    ELSE [n \in DOMAIN env \cup {name} |-> IF n = name THEN value ELSE env[n]]

AfterSet(env, name, p) == IF HasRoom(env, name) THEN p ELSE Fail(p)

FunctionsNamed(name) == {i \in 1 .. Len(funcs) : funcs[i].name = name}

\* The first declaration of a name counts.
find_function(name) == First(FunctionsNamed(name))

-----------------------------------------------------------------------------
(* Control                                                                 *)

Top == control[Len(control)]
Popped == SubSeq(control, 1, Len(control) - 1)
OnTop(kind) == control # <<>> /\ Top.kind = kind

\* A statement, or a block, has come to its end.
Return(p) == at' = "returned" /\ parser' = p
Leave(p) == Return(p) /\ control' = Popped

\* execute_block, called with the frames ctl below it.
execute_block(p, ctl) ==
    IF IsSym(p, "{")
      THEN /\ parser' = advanceToken(p)
           /\ control' = Append(ctl, [kind |-> "block"])
           /\ at' = "block"
      ELSE Return(Fail(p)) /\ control' = ctl

KeepData == UNCHANGED <<lexVars, vars, funcs, printed>>

\* parse_program: what precedes its loop.
parse_program ==
    /\ at = "start"
    /\ parser' = [parser EXCEPT !.pos = 1]
    /\ at' = IF tokens = <<>> THEN "done" ELSE "statement"
    /\ UNCHANGED <<control>> /\ KeepData

-----------------------------------------------------------------------------
(* Statements.  The dispatcher clears the error of the statement before.   *)

Cleared == [parser EXCEPT !.error = FALSE]
Starts(name) == at = "statement" /\ IsName(parser, name)
IsKeyword(name) == \E k \in {"if", "while", "for", "func", "print"} : Keyword[k] = name

NotAStatement ==
    /\ at = "statement" /\ ~IsId(parser)
    /\ Return(IF Current(parser) = EOF THEN Cleared ELSE Fail(parser))
    /\ UNCHANGED control /\ KeepData

execute_print_statement ==
    LET p == advanceToken(Cleared)
        known == IsId(p) /\ NameAt(p) \in DOMAIN vars
        valid == Current(p).type = "string" \/ known
        q == advanceToken(p)
    IN  /\ Starts(Keyword.print)
        /\ printed' = IF ~valid THEN printed
                      ELSE Append(printed,
                                  IF known THEN [is |-> "value", value |-> vars[NameAt(p)]]
                                  ELSE [is |-> "string", string |-> Current(p).string])
        /\ Return(IF ~valid THEN Fail(p) ELSE IF IsSym(q, ";") THEN q ELSE Fail(q))
        /\ UNCHANGED <<lexVars, vars, funcs, control>>

\* The variable is set before the ; behind the expression is looked for.
execute_assignment ==
    LET name == NameAt(parser)
        p == advanceToken(Cleared)
        e == evaluate_expression(vars, advanceToken(p))
        q == AfterSet(vars, name, e)
    IN  /\ at = "statement" /\ IsId(parser)
        /\ ~IsKeyword(name) /\ FunctionsNamed(name) = {}
        /\ IF ~IsSym(p, "=") THEN Return(Fail(p)) /\ UNCHANGED vars
           ELSE IF e.error THEN Return(e) /\ UNCHANGED vars
           ELSE /\ vars' = Set(vars, name, e.val)
                /\ Return(IF IsSym(q, ";") THEN q ELSE Fail(q))
        /\ UNCHANGED <<lexVars, funcs, control, printed>>

compile_if_statement ==
    LET p == advanceToken(Cleared)
        c == evaluate_expression(vars, advanceToken(p))
        b == advanceToken(c)
    IN  /\ Starts(Keyword.if)
        /\ IF ~IsSym(p, "(") THEN Return(Fail(p)) /\ UNCHANGED control
           ELSE IF ~IsSym(c, ")") THEN Return(Fail(c)) /\ UNCHANGED control
           ELSE IF c.val # 0 THEN execute_block(b, control)
           ELSE Return(skip_block(b)) /\ UNCHANGED control
        /\ KeepData

compile_while_loop ==
    LET p == advanceToken(Cleared)
        c == advanceToken(p)
    IN  /\ Starts(Keyword.while)
        /\ IF ~IsSym(p, "(") THEN Return(Fail(p)) /\ UNCHANGED control
           ELSE /\ parser' = c
                /\ control' = Append(control, [kind |-> "while", cond |-> Marked(c)])
                /\ at' = "loop"
        /\ KeepData

\* One turn: the condition is read again, from where it starts.
WhileTurn ==
    LET c == evaluate_expression(vars, From(parser, Top.cond))
        b == advanceToken(c)
    IN  /\ at = "loop" /\ OnTop("while")
        /\ IF ~IsSym(c, ")") THEN Leave(Fail(c))
           ELSE IF c.val # 0 THEN execute_block(b, control)
           ELSE Leave(skip_block(b))
        /\ KeepData

\* The variable is set to the start value even if that is an error.
compile_for_loop ==
    LET v == advanceToken(Cleared)
        s == advanceToken(v)
        start == evaluate_expression(vars, advanceToken(s))
        env == Set(vars, NameAt(v), start.val)
        t == AfterSet(vars, NameAt(v), start)
        end == evaluate_expression(env, advanceToken(t))
    IN  /\ Starts(Keyword.for)
        /\ IF ~IsId(v) THEN Return(Fail(v)) /\ UNCHANGED <<vars, control>>
           ELSE IF ~IsSym(s, "=") THEN Return(Fail(s)) /\ UNCHANGED <<vars, control>>
           ELSE /\ vars' = env
                /\ IF ~IsName(t, Keyword.to) THEN Return(Fail(t)) /\ UNCHANGED control
                   ELSE IF ~IsSym(end, "{") THEN Return(Fail(end)) /\ UNCHANGED control
                   ELSE /\ parser' = end
                        /\ control' = Append(control,
                              [kind |-> "for", var |-> NameAt(v), counter |-> start.val,
                               end |-> end.val, body |-> end.pos])
                        /\ at' = "loop"
        /\ UNCHANGED <<lexVars, funcs, printed>>

\* One turn: the variable is set from a counter of the loop's own.
ForTurn ==
    LET p == From(parser, Top.body)
        q == From(AfterSet(vars, Top.var, parser), Top.body)
    IN  /\ at = "loop" /\ OnTop("for")
        /\ IF Top.counter > Top.end THEN Leave(skip_block(p)) /\ UNCHANGED vars
           ELSE vars' = Set(vars, Top.var, Top.counter) /\ execute_block(q, control)
        /\ UNCHANGED <<lexVars, funcs, printed>>

\* The body is skipped; a declaration beyond the table's end is an error.
parse_function_declaration ==
    LET name == advanceToken(Cleared)
        o == advanceToken(name)
        c == advanceToken(o)
        b == advanceToken(c)
        room == Len(funcs) < MaxFuncs
    IN  /\ Starts(Keyword.func)
        /\ IF ~IsId(name) THEN Return(Fail(name)) /\ UNCHANGED funcs
           ELSE IF ~IsSym(o, "(") THEN Return(Fail(o)) /\ UNCHANGED funcs
           ELSE IF ~IsSym(c, ")") THEN Return(Fail(c)) /\ UNCHANGED funcs
           ELSE /\ funcs' = IF room
                              THEN Append(funcs, [name |-> NameAt(name), body |-> Marked(b)])
                              ELSE funcs
                /\ Return(skip_block(IF room THEN b ELSE Fail(b)))
        /\ UNCHANGED <<lexVars, vars, control, printed>>

\* The call returns to the ; behind it.
compile_function_call ==
    LET name == NameAt(parser)
        o == advanceToken(Cleared)
        c == advanceToken(o)
        s == advanceToken(c)
        body == funcs[find_function(name)].body
    IN  /\ at = "statement" /\ IsId(parser)
        /\ ~IsKeyword(name) /\ FunctionsNamed(name) # {}
        /\ IF ~IsSym(o, "(") THEN Return(Fail(o)) /\ UNCHANGED control
           ELSE IF ~IsSym(c, ")") THEN Return(Fail(c)) /\ UNCHANGED control
           ELSE IF ~IsSym(s, ";") THEN Return(Fail(s)) /\ UNCHANGED control
           ELSE execute_block(From(s, body),
                              Append(control, [kind |-> "call", return |-> s.pos]))
        /\ KeepData

parser_statement_dispatcher ==
    \/ NotAStatement \/ execute_print_statement \/ execute_assignment
    \/ compile_if_statement \/ compile_while_loop \/ compile_for_loop
    \/ parse_function_declaration \/ compile_function_call

-----------------------------------------------------------------------------
(* The loops around the statements                                         *)

BlockTurn ==
    /\ at = "block"
    /\ IF IsSym(parser, "}") THEN Leave(parser)
       ELSE IF Current(parser) = EOF THEN Leave(Fail(parser))
       ELSE at' = "statement" /\ UNCHANGED <<parser, control>>
    /\ KeepData

ReturnToBlock ==
    /\ at = "returned" /\ OnTop("block")
    /\ parser' = advanceToken(parser)
    /\ at' = "block"
    /\ UNCHANGED control /\ KeepData

ReturnToWhile ==
    /\ at = "returned" /\ OnTop("while")
    /\ at' = "loop"
    /\ UNCHANGED <<parser, control>> /\ KeepData

\* Faulty: the counter is not advanced when the body ends with an error.
ReturnToForStuck ==
    /\ at = "returned" /\ OnTop("for")
    /\ control' = IF parser.error THEN control
                  ELSE [control EXCEPT ![Len(control)].counter = @ + 1]
    /\ at' = "loop"
    /\ UNCHANGED parser /\ KeepData

ReturnToFor ==
    /\ at = "returned" /\ OnTop("for")
    /\ control' = [control EXCEPT ![Len(control)].counter = @ + 1]
    /\ at' = "loop"
    /\ UNCHANGED parser /\ KeepData

ReturnToCall ==
    /\ at = "returned" /\ OnTop("call")
    /\ Leave(From(parser, Top.return))
    /\ KeepData

\* Only here is an error recovered from.
ReturnToProgram ==
    LET p == IF parser.error THEN [recover_statement(parser) EXCEPT !.error = FALSE]
             ELSE parser
        q == advanceToken(p)
    IN  /\ at = "returned" /\ control = <<>>
        /\ parser' = q
        /\ at' = IF Current(q) = EOF THEN "done" ELSE "statement"
        /\ UNCHANGED control /\ KeepData

BasicInit ==
    /\ parser = [pos |-> 1, error |-> FALSE, val |-> 0]
    /\ vars = <<>> /\ funcs = <<>> /\ control = <<>> /\ printed = <<>>

Run ==
    \/ parse_program \/ parser_statement_dispatcher
    \/ BlockTurn \/ WhileTurn \/ ForTurn
    \/ ReturnToBlock \/ ReturnToWhile \/ ReturnToFor \/ ReturnToCall
    \/ ReturnToProgram

Ended == at = "done" /\ UNCHANGED basicVars

BasicNext ==
    \/ Lex /\ UNCHANGED runVars
    \/ Run
    \/ Ended

-----------------------------------------------------------------------------
(* The interpreter on any text and, as parse_program takes them, on any    *)
(* tokens, those that no program consists of included.                     *)

IsSeq(s) == \E S : s \in Seq(S)
IsTokens(ts) ==
    /\ IsSeq(ts)
    /\ \A i \in 1 .. Len(ts) :
          ts[i].type # "eof" /\ (ts[i].type = "number" => ts[i].value \in Int)

BasicSpec ==
    /\ BasicInit
    /\ \/ at = "lexing" /\ \E t \in Seq(Chars) : LexInit(t, <<>>)
       \/ at = "start" /\ \E ts : IsTokens(ts) /\ LexInit(<<>>, ts)
    /\ [][BasicNext]_basicVars
=============================================================================
