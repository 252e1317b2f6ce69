---------------------------- MODULE BasicLexer ----------------------------
(***************************************************************************)
(* parse_line of BASIC_PROTOTYPE.c: the text is cut into tokens, one turn  *)
(* of its loop in a step.                                                  *)
(*                                                                         *)
(* A character is a letter, a digit, the quote, a space (all white space   *)
(* is one) or a symbol.  A letter may stand for several: the keywords are  *)
(* names of one letter here.  The hash of a name is the name.              *)
(***************************************************************************)
EXTENDS Integers, Sequences, FiniteSets

CONSTANTS
    Letters, Symbols,       \* the letters and the symbols of a text
    MaxTokens               \* MAX_TOKENS: 65536 in the code

VARIABLES
    at,                     \* what main is doing
    text, index,
    mode, idBuffer, numBuffer, string,
    tokens

lexVars == <<text, index, mode, idBuffer, numBuffer, string, tokens>>

DigitChars == <<"0", "1", "2", "3", "4", "5", "6", "7", "8", "9">>
Digits == {DigitChars[i] : i \in 1 .. 10}
DigitValue(c) == (CHOOSE i \in 1 .. 10 : DigitChars[i] = c) - 1
Quote == "quote"
Space == "space"

WordChars == Letters \cup Digits
Chars == WordChars \cup Symbols \cup {Quote, Space}

\* A character is of one kind.
ASSUME LexAssumption ==
    /\ MaxTokens \in Nat
    /\ Letters \cap (Digits \cup {Quote, Space}) = {}
    /\ Symbols \cap (WordChars \cup {Quote, Space}) = {}

IdToken(name) == [type |-> "id", name |-> name]
NumToken(n) == [type |-> "number", value |-> n]
SymToken(c) == [type |-> "symbol", symbol |-> c]
StrToken(s) == [type |-> "string", string |-> s]

\* The value of a sequence of digits.
Value(ds) ==
    LET v[n \in 0 .. Len(ds)] ==
          IF n = 0 THEN 0 ELSE 10 * v[n - 1] + DigitValue(ds[n])
    IN  v[Len(ds)]

LexInit(t, ts) ==
    /\ text = t /\ index = 1
    /\ mode = "idle" /\ idBuffer = <<>> /\ numBuffer = <<>> /\ string = <<>>
    /\ tokens = ts

InText == at = "lexing" /\ index <= Len(text)
place == text[index]

\* Tokens beyond the last slot are lost.
Add(t) == tokens' = IF Len(tokens) < MaxTokens THEN Append(tokens, t) ELSE tokens

\* Ends the name or the number that is being read; there is one in these modes.
Flush ==
    CASE mode = "id" -> /\ Add(IdToken(idBuffer)) /\ idBuffer' = <<>>
                        /\ UNCHANGED numBuffer
      [] mode = "number" -> /\ Add(NumToken(Value(numBuffer))) /\ numBuffer' = <<>>
                            /\ UNCHANGED idBuffer
      [] OTHER -> UNCHANGED <<tokens, idBuffer, numBuffer>>

Consume == index' = index + 1 /\ UNCHANGED <<at, text>>

ReadString ==
    /\ InText /\ mode = "string"
    /\ IF place = Quote
         THEN Add(StrToken(string)) /\ mode' = "idle" /\ UNCHANGED string
         ELSE string' = Append(string, place) /\ UNCHANGED <<mode, tokens>>
    /\ Consume
    /\ UNCHANGED <<idBuffer, numBuffer>>

ReadSpace ==
    /\ InText /\ mode # "string" /\ place = Space
    /\ Flush
    /\ mode' = "idle"
    /\ Consume
    /\ UNCHANGED string

\* A quote does not end the name or number before it: what has been read of it
\* stays in its buffer, and the next name or number is added to it.
OpenString ==
    /\ InText /\ mode # "string" /\ place = Quote
    /\ mode' = "string" /\ string' = <<>>
    /\ Consume
    /\ UNCHANGED <<tokens, idBuffer, numBuffer>>

Continues == \/ mode = "id" /\ place \in Letters \cup Digits
             \/ mode = "number" /\ place \in Digits

ReadOn ==
    /\ InText /\ Continues
    /\ IF mode = "id"
         THEN idBuffer' = Append(idBuffer, place) /\ UNCHANGED numBuffer
         ELSE numBuffer' = Append(numBuffer, place) /\ UNCHANGED idBuffer
    /\ Consume
    /\ UNCHANGED <<mode, string, tokens>>

\* Faulty: the character that ends a name or a number is dropped.
EndWordDropping ==
    /\ InText /\ mode \in {"id", "number"}
    /\ place \notin {Space, Quote} /\ ~Continues
    /\ Flush
    /\ mode' = "idle"
    /\ Consume
    /\ UNCHANGED string

\* The character that ends a name or a number is looked at again.
EndWord ==
    /\ InText /\ mode \in {"id", "number"}
    /\ place \notin {Space, Quote} /\ ~Continues
    /\ Flush
    /\ mode' = "idle"
    /\ UNCHANGED <<at, text, index, string>>

Begin ==
    /\ InText /\ mode = "idle"
    /\ \/ /\ place \in Letters
          /\ mode' = "id" /\ idBuffer' = Append(idBuffer, place)
          /\ UNCHANGED <<numBuffer, tokens>>
       \/ /\ place \in Digits
          /\ mode' = "number" /\ numBuffer' = Append(numBuffer, place)
          /\ UNCHANGED <<idBuffer, tokens>>
       \/ /\ place \in Symbols
          /\ Add(SymToken(place))
          /\ UNCHANGED <<mode, idBuffer, numBuffer>>
    /\ Consume
    /\ UNCHANGED string

\* An unterminated string is reported and left out.
EndOfText ==
    /\ at = "lexing" /\ index > Len(text)
    /\ Flush
    /\ at' = "start"
    /\ UNCHANGED <<text, index, mode, string>>

Lex == ReadString \/ ReadSpace \/ OpenString \/ ReadOn \/ EndWord \/ Begin
         \/ EndOfText

\* The lexer on a text, until the interpreter starts.
LexSpec ==
    /\ at = "lexing" /\ \E t \in Seq(Chars) : LexInit(t, <<>>)
    /\ [][Lex]_<<at, lexVars>>

-----------------------------------------------------------------------------
(* The tokens a text stands for: s and e are places in a text t            *)

\* How many members of E are at most i.
Upto(E, i) == Cardinality(E \cap (1 .. i))

Quotes(t) == {i \in 1 .. Len(t) : t[i] = Quote}
InString(t, i) == Upto(Quotes(t), i - 1) % 2 = 1

AllIn(chars, t, s, e) == \A i \in s .. e : t[i] \in chars
EndsRun(chars, t, e) == e = Len(t) \/ t[e + 1] \notin chars

\* No name goes on to place s: letters and digits follow a letter in it.
NoNameBefore(t, s) == \A i \in 1 .. s - 1 : t[i] \in Letters => ~AllIn(WordChars, t, i, s)

SpellsName(t, s, e) ==
    /\ ~InString(t, s) /\ NoNameBefore(t, s)
    /\ t[s] \in Letters /\ AllIn(WordChars, t, s, e) /\ EndsRun(WordChars, t, e)

SpellsNumber(t, s, e) ==
    /\ ~InString(t, s) /\ NoNameBefore(t, s)
    /\ (s = 1 \/ t[s - 1] \notin Digits) /\ AllIn(Digits, t, s, e) /\ EndsRun(Digits, t, e)

SpellsString(t, s, e) ==
    /\ s < e /\ ~InString(t, s)
    /\ t[s] = Quote /\ t[e] = Quote /\ \A i \in s + 1 .. e - 1 : t[i] # Quote

SpellsSymbol(t, s, e) == s = e /\ ~InString(t, s) /\ t[s] \in Symbols

IsWord(t, s, e) ==
    \/ SpellsName(t, s, e) \/ SpellsNumber(t, s, e) \/ SpellsString(t, s, e) \/ SpellsSymbol(t, s, e)

WordEnds(t) == {e \in 1 .. Len(t) : \E s \in 1 .. e : IsWord(t, s, e)}

TokenOf(t, s, e) ==
    CASE t[s] = Quote -> StrToken(SubSeq(t, s + 1, e - 1))
      [] t[s] \in Symbols -> SymToken(t[s])
      [] t[s] \in Letters -> IdToken(SubSeq(t, s, e))
      [] OTHER -> NumToken(Value(SubSeq(t, s, e)))

\* Does a string open right behind a name or a number?
StringBehindWord(t) ==
    \E i \in 2 .. Len(t) : t[i] = Quote /\ t[i - 1] \in WordChars /\ ~InString(t, i)

\* A text is cut into its longest words, as many as there are token slots and in
\* their order; only a string right behind a name or a number is excepted, because
\* parse_line does not end the word at the quote.  (Tokens given without a text have
\* not been cut here.)
LexesWords ==
    at = "start" /\ text # <<>> /\ ~StringBehindWord(text)
      => LET ends == WordEnds(text)
             all == Cardinality(ends)
         IN  /\ Len(tokens) = IF all <= MaxTokens THEN all ELSE MaxTokens
             /\ \A e \in ends : \A s \in 1 .. e :
                   IsWord(text, s, e) /\ Upto(ends, e) <= MaxTokens
                     => tokens[Upto(ends, e)] = TokenOf(text, s, e)
=============================================================================
