---------------------------- MODULE BasicProofs ----------------------------
(***************************************************************************)
(* Proofs about the BASIC interpreter, whatever the letters, the symbols   *)
(* and the sizes of the tables are: parse_line cuts every text into its    *)
(* words; the interpreter's C stack and its tables are well formed; and    *)
(* only the turns of while loops and the nesting of calls can keep a       *)
(* program from its end.                                                   *)
(***************************************************************************)
EXTENDS Basic, SequenceTheorems, FiniteSetTheorems, WellFoundedInduction, NaturalsInduction, TLAPS

-----------------------------------------------------------------------------
(* Counting                                                                *)

LEMMA UptoNext ==
    ASSUME NEW E, NEW i \in Nat
    PROVE  /\ Upto(E, i) \in Nat
           /\ Upto(E, i + 1) = IF i + 1 \in E THEN Upto(E, i) + 1 ELSE Upto(E, i)
<1> DEFINE A == E \cap (1 .. i)
<1>1. IsFiniteSet(A) /\ Cardinality(A) \in Nat
  <2>1. IsFiniteSet(1 .. i)
    BY FS_Interval
  <2> QED
    BY <2>1, FS_Subset, FS_CardinalityType
<1>2. i + 1 \notin A /\ 1 .. i + 1 = (1 .. i) \cup {i + 1}
  OBVIOUS
<1>3. CASE i + 1 \in E
  <2>1. E \cap (1 .. i + 1) = A \cup {i + 1}
    BY <1>2, <1>3
  <2>2. Cardinality(A \cup {i + 1}) = Cardinality(A) + 1
    BY <1>1, <1>2, FS_AddElement
  <2> QED
    BY <1>1, <1>3, <2>1, <2>2 DEF Upto
<1>4. CASE i + 1 \notin E
  <2>1. E \cap (1 .. i + 1) = A
    BY <1>2, <1>4
  <2> QED
    BY <1>1, <1>4, <2>1 DEF Upto
<1> QED
  BY <1>3, <1>4

LEMMA UptoSame ==
    ASSUME NEW E, NEW i \in Nat, NEW j \in Nat, i <= j,
           \A k \in i + 1 .. j : k \notin E
    PROVE  Upto(E, i) = Upto(E, j)
<1>1. E \cap (1 .. i) = E \cap (1 .. j)
  OBVIOUS
<1> QED
  BY <1>1 DEF Upto

LEMMA UptoGrows ==
    ASSUME NEW E, NEW j \in Nat, NEW i \in E, i \in 1 .. j
    PROVE  Upto(E, i) \in 1 .. Upto(E, j)
<1>1. E \cap (1 .. i) \subseteq E \cap (1 .. j) /\ i \in E \cap (1 .. i)
  OBVIOUS
<1>2. IsFiniteSet(E \cap (1 .. j)) /\ IsFiniteSet(E \cap (1 .. i))
  <2>1. IsFiniteSet(1 .. j) /\ IsFiniteSet(1 .. i)
    BY FS_Interval
  <2> QED
    BY <2>1, FS_Subset
<1>3. Upto(E, i) <= Upto(E, j) /\ Upto(E, i) # 0
  BY <1>1, <1>2, FS_Subset, FS_EmptySet DEF Upto
<1>4. Upto(E, i) \in Nat /\ Upto(E, j) \in Nat
  BY <1>2, FS_CardinalityType DEF Upto
<1> QED
  BY <1>3, <1>4

LEMMA UptoAll ==
    ASSUME NEW n \in Nat, NEW E \in SUBSET (1 .. n)
    PROVE  Upto(E, n) = Cardinality(E)
<1>1. E \cap (1 .. n) = E
  OBVIOUS
<1> QED
  BY <1>1 DEF Upto

-----------------------------------------------------------------------------
(* Inside a string or outside                                              *)

LEMMA FirstIsOutside == \A t : ~InString(t, 1)
<1> SUFFICES ASSUME NEW t PROVE ~InString(t, 1)
  OBVIOUS
<1>1. Quotes(t) \cap (1 .. 1 - 1) = {}
  OBVIOUS
<1> QED
  BY <1>1, FS_EmptySet DEF InString, Upto

LEMMA SameSide ==
    ASSUME NEW t, NEW s \in Nat \ {0}, NEW e \in Nat, s <= e,
           \A k \in s .. e - 1 : t[k] # Quote
    PROVE  InString(t, s) <=> InString(t, e)
<1>1. s - 1 \in Nat /\ e - 1 \in Nat /\ s - 1 <= e - 1 /\ s - 1 + 1 = s
  OBVIOUS
<1>2. \A k \in s .. e - 1 : k \notin Quotes(t)
  BY DEF Quotes
<1>3. Upto(Quotes(t), s - 1) = Upto(Quotes(t), e - 1)
  BY <1>1, <1>2, UptoSame
<1> QED
  BY <1>3 DEF InString

LEMMA QuoteCrosses ==
    ASSUME NEW t, Len(t) \in Nat, NEW i \in 1 .. Len(t), t[i] = Quote
    PROVE  InString(t, i + 1) <=> ~InString(t, i)
<1>1. i - 1 \in Nat /\ i - 1 + 1 = i /\ i + 1 - 1 = i /\ i \in Quotes(t)
  BY DEF Quotes
<1>2. /\ Upto(Quotes(t), i - 1) \in Nat
      /\ Upto(Quotes(t), i) = Upto(Quotes(t), i - 1) + 1
  BY <1>1, UptoNext
<1>3. \A n \in Nat : (n + 1) % 2 = 1 <=> ~(n % 2 = 1)
  OBVIOUS
<1> QED
  BY <1>1, <1>2, <1>3 DEF InString

-----------------------------------------------------------------------------
(* Where a word ends                                                       *)

LEMMA Kinds ==
    /\ Quote # Space
    /\ Quote \notin WordChars /\ Space \notin WordChars
    /\ Quote \notin Symbols /\ Space \notin Symbols
    /\ \A c \in Letters : c \notin Digits /\ c \notin Symbols /\ c \in WordChars
    /\ \A c \in Digits : c \notin Symbols /\ c \in WordChars
<1>1. Quote # Space
  BY DEF Quote, Space
<1>2. \A c \in Digits : c # Quote /\ c # Space
  <2>1. \A i \in 1 .. 10 : DigitChars[i] # Quote /\ DigitChars[i] # Space
    BY DEF DigitChars, Quote, Space
  <2> QED
    BY <2>1 DEF Digits
<1> QED
  BY <1>1, <1>2, LexAssumption DEF WordChars

\* What has been read of a name or of a number.
NameTo(t, s, e) ==
    ~InString(t, s) /\ NoNameBefore(t, s) /\ t[s] \in Letters /\ AllIn(WordChars, t, s, e)
NumberTo(t, s, e) ==
    /\ ~InString(t, s) /\ NoNameBefore(t, s)
    /\ (s = 1 \/ t[s - 1] \notin Digits) /\ AllIn(Digits, t, s, e)

\* A letter or a digit ends a name or a number only.
LEMMA WordCharEnds ==
    ASSUME NEW t, NEW e \in Nat \ {0}, NEW r \in 1 .. e, t[e] \in WordChars, IsWord(t, r, e)
    PROVE  SpellsName(t, r, e) \/ SpellsNumber(t, r, e)
<1>1. t[e] # Quote /\ t[e] \notin Symbols
  BY Kinds DEF WordChars
<1> QED
  BY <1>1 DEF IsWord, SpellsString, SpellsSymbol

\* Where a name has been read, no number ends and no other name does.
LEMMA NameIsOne ==
    ASSUME NEW t, NEW e \in Nat \ {0}, NEW s \in 1 .. e, NameTo(t, s, e),
           NEW r \in 1 .. e, IsWord(t, r, e)
    PROVE  r = s /\ SpellsName(t, r, e)
<1>1. e \in s .. e /\ e \in r .. e
  OBVIOUS
<1>2. SpellsName(t, r, e) \/ SpellsNumber(t, r, e)
  BY <1>1, WordCharEnds DEF NameTo, AllIn
<1>3. ASSUME s < r PROVE FALSE
  <2>1. s \in 1 .. r - 1 /\ \A i \in s .. r : i \in s .. e
    BY <1>3
  <2>2. AllIn(WordChars, t, s, r) /\ t[s] \in Letters
    BY <2>1 DEF NameTo, AllIn
  <2>3. NoNameBefore(t, r)
    BY <1>2 DEF SpellsName, SpellsNumber
  <2> QED
    BY <2>1, <2>2, <2>3 DEF NoNameBefore
<1>4. ~SpellsNumber(t, r, e)
  <2> SUFFICES ASSUME SpellsNumber(t, r, e) PROVE FALSE
    OBVIOUS
  <2>1. s \in r .. e
    BY <1>3
  <2>2. t[s] \in Digits /\ t[s] \in Letters
    BY <2>1 DEF SpellsNumber, AllIn, NameTo
  <2> QED
    BY <2>2, Kinds
<1>5. ASSUME r < s PROVE FALSE
  <2>1. r \in 1 .. s - 1 /\ \A i \in r .. s : i \in r .. e
    BY <1>5
  <2>2. AllIn(WordChars, t, r, s) /\ t[r] \in Letters
    BY <1>2, <1>4, <2>1 DEF SpellsName, AllIn
  <2> QED
    BY <2>1, <2>2 DEF NameTo, NoNameBefore
<1> QED
  BY <1>2, <1>3, <1>4, <1>5

LEMMA NumberIsOne ==
    ASSUME NEW t, NEW e \in Nat \ {0}, NEW s \in 1 .. e, NumberTo(t, s, e),
           NEW r \in 1 .. e, IsWord(t, r, e)
    PROVE  r = s /\ SpellsNumber(t, r, e)
<1>1. e \in s .. e /\ e \in r .. e
  OBVIOUS
<1>2. SpellsName(t, r, e) \/ SpellsNumber(t, r, e)
  BY <1>1, Kinds, WordCharEnds DEF NumberTo, AllIn
<1>3. ~SpellsName(t, r, e)
  <2> SUFFICES ASSUME SpellsName(t, r, e) PROVE FALSE
    OBVIOUS
  <2>1. t[r] \in Letters
    BY DEF SpellsName
  <2>2. CASE r < s
    <3>1. r \in 1 .. s - 1 /\ \A i \in r .. s : i \in r .. e
      BY <2>2
    <3>2. AllIn(WordChars, t, r, s)
      BY <3>1 DEF SpellsName, AllIn
    <3> QED
      BY <2>1, <3>1, <3>2 DEF NumberTo, NoNameBefore
  <2>3. CASE s <= r
    <3>1. r \in s .. e
      BY <2>3
    <3>2. t[r] \in Digits
      BY <3>1 DEF NumberTo, AllIn
    <3> QED
      BY <2>1, <3>2, Kinds
  <2> QED
    BY <2>2, <2>3
<1>4. ASSUME r < s PROVE FALSE
  <2>1. s # 1 /\ s - 1 \in r .. e
    BY <1>4
  <2>2. t[s - 1] \in Digits
    BY <1>2, <1>3, <2>1 DEF SpellsNumber, AllIn
  <2> QED
    BY <2>1, <2>2 DEF NumberTo
<1>5. ASSUME s < r PROVE FALSE
  <2>1. r # 1 /\ r - 1 \in s .. e
    BY <1>5
  <2>2. t[r - 1] \in Digits
    BY <2>1 DEF NumberTo, AllIn
  <2> QED
    BY <1>2, <1>3, <2>1, <2>2 DEF SpellsNumber
<1> QED
  BY <1>2, <1>3, <1>4, <1>5

\* At a quote only a string ends, the one that the last quote opens.
LEMMA StringIsOne ==
    ASSUME NEW t, NEW e \in Nat \ {0}, t[e] = Quote, NEW r \in 1 .. e, IsWord(t, r, e)
    PROVE  /\ SpellsString(t, r, e)
           /\ \A s \in 1 .. e : SpellsString(t, s, e) => s = r
<1>1. e \in r .. e /\ t[e] \notin WordChars /\ t[e] \notin Digits /\ t[e] \notin Symbols
  BY Kinds DEF WordChars
<1>2. ~SpellsName(t, r, e) /\ ~SpellsNumber(t, r, e) /\ ~SpellsSymbol(t, r, e)
  BY <1>1 DEF SpellsName, SpellsNumber, SpellsSymbol, AllIn
<1>3. SpellsString(t, r, e)
  BY <1>2 DEF IsWord
<1>4. ASSUME NEW s \in 1 .. e, SpellsString(t, s, e) PROVE s = r
  <2>1. ASSUME s < r PROVE FALSE
    <3>1. r \in s + 1 .. e - 1
      BY <1>3, <2>1 DEF SpellsString
    <3> QED
      BY <1>3, <1>4, <3>1 DEF SpellsString
  <2>2. ASSUME r < s PROVE FALSE
    <3>1. s \in r + 1 .. e - 1
      BY <1>4, <2>2 DEF SpellsString
    <3> QED
      BY <1>3, <1>4, <3>1 DEF SpellsString
  <2> QED
    BY <2>1, <2>2
<1> QED
  BY <1>3, <1>4

LEMMA SymbolIsOne ==
    ASSUME NEW t, NEW e \in Nat \ {0}, t[e] \in Symbols, NEW r \in 1 .. e, IsWord(t, r, e)
    PROVE  r = e /\ SpellsSymbol(t, r, e)
<1>1. e \in r .. e /\ t[e] \notin WordChars /\ t[e] \notin Digits /\ t[e] # Quote
  BY Kinds DEF WordChars
<1> QED
  BY <1>1 DEF IsWord, SpellsName, SpellsNumber, SpellsString, SpellsSymbol, AllIn

\* No word ends at a space.
LEMMA SpaceEndsNone ==
    ASSUME NEW t, NEW e \in Nat \ {0}, t[e] = Space
    PROVE  e \notin WordEnds(t)
<1> SUFFICES ASSUME NEW r \in 1 .. e, IsWord(t, r, e) PROVE FALSE
  BY DEF WordEnds
<1>1. e \in r .. e /\ t[e] \notin WordChars /\ t[e] \notin Digits /\ t[e] # Quote
      /\ t[e] \notin Symbols
  BY Kinds DEF WordChars
<1> QED
  BY <1>1 DEF IsWord, SpellsName, SpellsNumber, SpellsString, SpellsSymbol, AllIn

\* No word ends at the quote that opens a string.
LEMMA QuoteOpens ==
    ASSUME NEW t, Len(t) \in Nat, NEW e \in 1 .. Len(t), t[e] = Quote, ~InString(t, e)
    PROVE  e \notin WordEnds(t)
<1> SUFFICES ASSUME NEW r \in 1 .. e, IsWord(t, r, e) PROVE FALSE
  BY DEF WordEnds
<1>1. SpellsString(t, r, e)
  BY StringIsOne
<1>2. r \in 1 .. Len(t) /\ r + 1 \in Nat \ {0} /\ r + 1 <= e
  BY <1>1 DEF SpellsString
<1>3. InString(t, r + 1)
  BY <1>1, <1>2, QuoteCrosses DEF SpellsString
<1>4. InString(t, r + 1) <=> InString(t, e)
  BY <1>1, <1>2, SameSide DEF SpellsString
<1> QED
  BY <1>3, <1>4

\* Within a string no word ends.
LEMMA InsideEndsNone ==
    ASSUME NEW t, NEW e \in Nat \ {0}, InString(t, e), t[e] # Quote
    PROVE  e \notin WordEnds(t)
<1> SUFFICES ASSUME NEW r \in 1 .. e, IsWord(t, r, e) PROVE FALSE
  BY DEF WordEnds
<1>1. ~InString(t, r) /\ r # e
  BY DEF IsWord, SpellsName, SpellsNumber, SpellsString, SpellsSymbol
<1>2. SpellsName(t, r, e) \/ SpellsNumber(t, r, e)
  BY <1>1 DEF IsWord, SpellsString, SpellsSymbol
<1>3. \A k \in r .. e - 1 : t[k] # Quote
  <2>1. \A k \in r .. e : t[k] \in WordChars
    BY <1>2, Kinds DEF SpellsName, SpellsNumber, AllIn
  <2>2. \A k \in r .. e - 1 : k \in r .. e
    OBVIOUS
  <2> QED
    BY <2>1, <2>2, Kinds
<1> QED
  BY <1>1, <1>3, SameSide

\* A name or a number that goes on has not ended.
LEMMA NameGoesOn ==
    ASSUME NEW t, NEW e \in Nat \ {0}, e # Len(t), NEW s \in 1 .. e, NameTo(t, s, e),
           t[e + 1] \in WordChars
    PROVE  e \notin WordEnds(t)
<1> SUFFICES ASSUME NEW r \in 1 .. e, IsWord(t, r, e) PROVE FALSE
  BY DEF WordEnds
<1> QED
  BY NameIsOne DEF SpellsName, EndsRun

LEMMA NumberGoesOn ==
    ASSUME NEW t, NEW e \in Nat \ {0}, e # Len(t), NEW s \in 1 .. e, NumberTo(t, s, e),
           t[e + 1] \in Digits
    PROVE  e \notin WordEnds(t)
<1> SUFFICES ASSUME NEW r \in 1 .. e, IsWord(t, r, e) PROVE FALSE
  BY DEF WordEnds
<1> QED
  BY NumberIsOne DEF SpellsNumber, EndsRun

-----------------------------------------------------------------------------
(* The tokens that a part of a text is cut into                            *)

TokensOf(t) == {TokenOf(t, s, e) : s \in 1 .. Len(t), e \in 1 .. Len(t)}

\* ts has the words of t that end up to place h.
Cut(t, ts, h) ==
    /\ Len(ts) = IF Upto(WordEnds(t), h) <= MaxTokens
                   THEN Upto(WordEnds(t), h) ELSE MaxTokens
    /\ \A e \in WordEnds(t) : \A s \in 1 .. e :
          e <= h /\ IsWord(t, s, e) /\ Upto(WordEnds(t), e) <= MaxTokens
            => ts[Upto(WordEnds(t), e)] = TokenOf(t, s, e)

\* The slots when a token is added.
Added(ts, token) == IF Len(ts) < MaxTokens THEN Append(ts, token) ELSE ts

LEMMA EndsArePlaces ==
    ASSUME NEW t, Len(t) \in Nat
    PROVE  \A e \in WordEnds(t) : e \in Nat \ {0} /\ e \in 1 .. Len(t)
BY DEF WordEnds

LEMMA NothingIsCut ==
    ASSUME NEW t, Len(t) \in Nat
    PROVE  Cut(t, <<>>, 0)
<1>1. Upto(WordEnds(t), 0) = 0
  <2>1. WordEnds(t) \cap (1 .. 0) = {}
    OBVIOUS
  <2> QED
    BY <2>1, FS_EmptySet DEF Upto
<1>2. \A e \in WordEnds(t) : ~(e <= 0)
  BY EndsArePlaces
<1> QED
  BY <1>1, <1>2, LexAssumption DEF Cut

LEMMA CutSkips ==
    ASSUME NEW t, NEW ts, NEW h \in Nat, Len(t) \in Nat, Cut(t, ts, h),
           h + 1 \notin WordEnds(t)
    PROVE  Cut(t, ts, h + 1)
<1>1. Upto(WordEnds(t), h + 1) = Upto(WordEnds(t), h)
  BY UptoNext
<1>2. \A e \in WordEnds(t) : e <= h + 1 => e <= h
  BY EndsArePlaces
<1> QED
  BY <1>1, <1>2 DEF Cut

LEMMA CutAdds ==
    ASSUME NEW t, NEW ts \in Seq(TokensOf(t)), NEW h \in Nat, Len(t) \in Nat,
           Cut(t, ts, h), h + 1 \in 1 .. Len(t),
           NEW s \in 1 .. h + 1, IsWord(t, s, h + 1),
           \A r \in 1 .. h + 1 : IsWord(t, r, h + 1) => r = s
    PROVE  /\ Cut(t, Added(ts, TokenOf(t, s, h + 1)), h + 1)
           /\ Added(ts, TokenOf(t, s, h + 1)) \in Seq(TokensOf(t))
<1> DEFINE E == WordEnds(t)
           token == TokenOf(t, s, h + 1)
           added == Added(ts, token)
<1>1. token \in TokensOf(t)
  <2>1. s \in 1 .. Len(t)
    OBVIOUS
  <2> QED
    BY <2>1 DEF TokensOf
<1>2. h + 1 \in E
  BY DEF WordEnds
<1>3. Upto(E, h) \in Nat /\ Upto(E, h + 1) = Upto(E, h) + 1
  BY <1>2, UptoNext
<1>4. /\ Len(ts) = IF Upto(E, h) <= MaxTokens THEN Upto(E, h) ELSE MaxTokens
      /\ \A e \in E : \A r \in 1 .. e :
            e <= h /\ IsWord(t, r, e) /\ Upto(E, e) <= MaxTokens
              => ts[Upto(E, e)] = TokenOf(t, r, e)
  BY DEF Cut
<1>5. MaxTokens \in Nat
  BY LexAssumption
<1>6. \A e \in E : e <= h + 1 => e = h + 1 \/ (e <= h /\ Upto(E, e) \in 1 .. Upto(E, h))
  <2> SUFFICES ASSUME NEW e \in E, e <= h + 1, e # h + 1
               PROVE  e <= h /\ Upto(E, e) \in 1 .. Upto(E, h)
    OBVIOUS
  <2>1. e \in 1 .. h
    BY EndsArePlaces
  <2> HIDE DEF E
  <2> QED
    BY <2>1, UptoGrows
<1> HIDE DEF E, token
<1>7. CASE Len(ts) < MaxTokens
  <2>1. /\ added = Append(ts, token)
        /\ Len(added) = Len(ts) + 1 /\ added \in Seq(TokensOf(t))
        /\ \A k \in 1 .. Len(ts) : added[k] = ts[k]
        /\ added[Len(ts) + 1] = token
    BY <1>1, <1>7, AppendProperties DEF Added
  <2>2. Len(ts) = Upto(E, h)
    BY <1>3, <1>4, <1>5, <1>7
  <2> HIDE DEF added
  <2>3. ASSUME NEW e \in E, NEW r \in 1 .. e,
               e <= h + 1, IsWord(t, r, e), Upto(E, e) <= MaxTokens
        PROVE  added[Upto(E, e)] = TokenOf(t, r, e)
    <3>1. CASE e = h + 1
      <4>1. r = s
        BY <2>3, <3>1
      <4> QED
        BY <1>3, <2>1, <2>2, <3>1, <4>1 DEF token
    <3>2. CASE e # h + 1
      <4>1. e <= h /\ Upto(E, e) \in 1 .. Len(ts)
        BY <1>6, <2>2, <2>3, <3>2
      <4> QED
        BY <1>4, <2>1, <2>3, <4>1
    <3> QED
      BY <3>1, <3>2
  <2>4. Len(added) = Upto(E, h + 1) /\ Upto(E, h + 1) <= MaxTokens
    BY <1>3, <1>5, <1>7, <2>1, <2>2
  <2>5. Cut(t, added, h + 1)
    BY <2>3, <2>4 DEF Cut, E
  <2> QED
    BY <2>1, <2>5 DEF added, token
<1>8. CASE ~(Len(ts) < MaxTokens)
  <2>1. added = ts /\ Len(ts) = MaxTokens /\ ~(Upto(E, h + 1) <= MaxTokens)
    BY <1>3, <1>4, <1>5, <1>8 DEF Added
  <2>2. \A e \in E : e <= h + 1 /\ Upto(E, e) <= MaxTokens => e <= h
    BY <1>6, <2>1
  <2>3. Cut(t, ts, h + 1)
    BY <1>4, <2>1, <2>2 DEF Cut, E
  <2> QED
    BY <2>1, <2>3 DEF token
<1> QED
  BY <1>7, <1>8

-----------------------------------------------------------------------------
(* What the lexer has done when it looks at place i, in mode m: the        *)
(* buffers have the word or the string that is being read, the tokens the  *)
(* words before it.                                                        *)

IsText(t) == t \in Seq(Chars) /\ ~StringBehindWord(t)

StringTo(t, s, e) ==
    ~InString(t, s) /\ t[s] = Quote /\ \A k \in s + 1 .. e : t[k] # Quote

\* A letter or a digit at place i does not go on with a word before it.
WordMayBegin(t, i) ==
    t[i] \in WordChars
      => NoNameBefore(t, i) /\ (t[i] \in Digits => i = 1 \/ t[i - 1] \notin Digits)

Lexed(t, i, m, id, num, str, ts) ==
    /\ i \in 1 .. Len(t) + 1
    /\ m \in {"idle", "id", "number", "string"}
    /\ ts \in Seq(TokensOf(t))
    /\ m = "string" <=> InString(t, i)
    /\ m = "idle" /\ i <= Len(t) => WordMayBegin(t, i)
    /\ m = "id" => \E s \in 1 .. i - 1 : NameTo(t, s, i - 1) /\ id = SubSeq(t, s, i - 1)
    /\ m = "number" => \E s \in 1 .. i - 1 :
                          NumberTo(t, s, i - 1) /\ num = SubSeq(t, s, i - 1)
    /\ m = "string" => \E s \in 1 .. i - 1 :
                          StringTo(t, s, i - 1) /\ str = SubSeq(t, s + 1, i - 1)
    /\ m # "id" => id = <<>>
    /\ m # "number" => num = <<>>
    /\ m \in {"idle", "string"} => Cut(t, ts, i - 1)
    /\ m \in {"id", "number"} => Cut(t, ts, i - 2)

LEMMA SubSeqGrows ==
    ASSUME NEW t \in Seq(Chars), NEW s \in 1 .. Len(t), NEW i \in s .. Len(t)
    PROVE  SubSeq(t, s, i) = Append(SubSeq(t, s, i - 1), t[i])
<1>1. SubSeq(t, s, i) = SubSeq(t, s, i - 1) \o <<t[i]>>
  BY SubSeqRecursiveSecond
<1>2. SubSeq(t, s, i - 1) \in Seq(Chars) /\ t[i] \in Chars
  <2>1. \A k \in s .. i : t[k] \in Chars
    <3>1. \A k \in s .. i : k \in 1 .. Len(t)
      OBVIOUS
    <3> QED
      BY <3>1, ElementOfSeq
  <2>2. s \in Int /\ i - 1 \in Int /\ \A k \in s .. i - 1 : k \in s .. i
    OBVIOUS
  <2> QED
    BY <2>1, <2>2, SubSeqProperties
<1> QED
  BY <1>1, <1>2, AppendIsConcat

LEMMA BeginsFirst == \A t : WordMayBegin(t, 1)
BY DEF WordMayBegin, NoNameBefore

LEMMA BeginsBehindOther ==
    ASSUME NEW t, NEW i \in Nat \ {0, 1}, t[i - 1] \notin WordChars
    PROVE  WordMayBegin(t, i)
<1>1. \A r \in 1 .. i - 1 : i - 1 \in r .. i
  OBVIOUS
<1>2. t[i - 1] \notin Digits
  BY DEF WordChars
<1> QED
  BY <1>1, <1>2 DEF WordMayBegin, NoNameBefore, AllIn

LEMMA BeginsBehindNumber ==
    ASSUME NEW t, NEW i \in Nat, NEW s \in 1 .. i - 1, NumberTo(t, s, i - 1),
           t[i] \notin Digits
    PROVE  WordMayBegin(t, i)
<1>1. ASSUME NEW r \in 1 .. i - 1, t[r] \in Letters, AllIn(WordChars, t, r, i)
      PROVE  FALSE
  <2>1. CASE r < s
    <3>1. r \in 1 .. s - 1 /\ \A k \in r .. s : k \in r .. i
      BY <2>1
    <3>2. AllIn(WordChars, t, r, s)
      BY <1>1, <3>1 DEF AllIn
    <3> QED
      BY <1>1, <3>1, <3>2 DEF NumberTo, NoNameBefore
  <2>2. CASE s <= r
    <3>1. r \in s .. i - 1
      BY <2>2
    <3> QED
      BY <1>1, <3>1, Kinds DEF NumberTo, AllIn
  <2> QED
    BY <2>1, <2>2
<1> QED
  BY <1>1 DEF WordMayBegin, NoNameBefore

LEMMA SideIsKept ==
    ASSUME NEW t, NEW i \in Nat \ {0}, t[i] # Quote
    PROVE  InString(t, i + 1) <=> InString(t, i)
<1>1. i + 1 \in Nat /\ i <= i + 1 /\ \A k \in i .. i + 1 - 1 : k = i
  OBVIOUS
<1> QED
  BY <1>1, SameSide

-----------------------------------------------------------------------------
(* One turn of the loop                                                    *)

LEMMA StringGoesOn ==
    ASSUME NEW t, NEW i, NEW id, NEW num, NEW str, NEW ts, IsText(t),
           Lexed(t, i, "string", id, num, str, ts), i \in 1 .. Len(t), t[i] # Quote
    PROVE  Lexed(t, i + 1, "string", id, num, Append(str, t[i]), ts)
<1>1. i + 1 \in 1 .. Len(t) + 1 /\ i + 1 - 1 = i /\ i - 1 + 1 = i
      /\ i \in Nat \ {0} /\ i - 1 \in Nat /\ t \in Seq(Chars) /\ Len(t) \in Nat
  BY LenProperties DEF IsText
<1>2. InString(t, i) /\ Cut(t, ts, i - 1) /\ ts \in Seq(TokensOf(t))
      /\ id = <<>> /\ num = <<>>
  BY DEF Lexed
<1>3. PICK s \in 1 .. i - 1 : StringTo(t, s, i - 1) /\ str = SubSeq(t, s + 1, i - 1)
  BY DEF Lexed
<1>4. InString(t, i + 1)
  BY <1>1, <1>2, SideIsKept
<1>5. Cut(t, ts, i)
  <2>1. i \notin WordEnds(t)
    BY <1>1, <1>2, InsideEndsNone
  <2> QED
    BY <1>1, <1>2, <2>1, CutSkips
<1>6. s \in 1 .. i /\ StringTo(t, s, i)
  BY <1>3 DEF StringTo
<1>7. Append(str, t[i]) = SubSeq(t, s + 1, i)
  <2>1. s + 1 \in 1 .. Len(t) /\ i \in s + 1 .. Len(t)
    BY <1>1
  <2> QED
    BY <1>1, <1>3, <2>1, SubSeqGrows
<1> QED
  BY <1>1, <1>2, <1>4, <1>5, <1>6, <1>7 DEF Lexed

LEMMA StringEnds ==
    ASSUME NEW t, NEW i, NEW id, NEW num, NEW str, NEW ts, IsText(t),
           Lexed(t, i, "string", id, num, str, ts), i \in 1 .. Len(t), t[i] = Quote
    PROVE  Lexed(t, i + 1, "idle", id, num, str, Added(ts, StrToken(str)))
<1>1. i + 1 \in 1 .. Len(t) + 1 /\ i + 1 - 1 = i /\ i - 1 + 1 = i
      /\ i \in Nat \ {0} /\ i - 1 \in Nat /\ t \in Seq(Chars) /\ Len(t) \in Nat
  BY LenProperties DEF IsText
<1>2. InString(t, i) /\ Cut(t, ts, i - 1) /\ ts \in Seq(TokensOf(t))
      /\ id = <<>> /\ num = <<>>
  BY DEF Lexed
<1>3. PICK s \in 1 .. i - 1 : StringTo(t, s, i - 1) /\ str = SubSeq(t, s + 1, i - 1)
  BY DEF Lexed
<1>4. ~InString(t, i + 1)
  BY <1>1, <1>2, QuoteCrosses
<1>5. s \in 1 .. i /\ SpellsString(t, s, i) /\ IsWord(t, s, i)
  BY <1>3 DEF StringTo, IsWord, SpellsString
<1>6. ASSUME NEW r \in 1 .. i, IsWord(t, r, i) PROVE r = s
  <2>1. \A q \in 1 .. i : SpellsString(t, q, i) => q = r
    BY <1>1, <1>6, StringIsOne
  <2> QED
    BY <1>5, <2>1
<1>7. TokenOf(t, s, i) = StrToken(str)
  <2>1. t[s] = Quote /\ t[s] \notin Symbols /\ t[s] \notin Letters
    BY <1>3, Kinds DEF StringTo, WordChars
  <2> QED
    BY <1>3, <2>1 DEF TokenOf
<1>8. Cut(t, Added(ts, StrToken(str)), i) /\ Added(ts, StrToken(str)) \in Seq(TokensOf(t))
  BY <1>1, <1>2, <1>5, <1>6, <1>7, CutAdds
<1>9. WordMayBegin(t, i + 1)
  <2>1. i + 1 \in Nat \ {0, 1} /\ t[i + 1 - 1] \notin WordChars
    BY <1>1, Kinds
  <2> QED
    BY <2>1, BeginsBehindOther
<1> QED
  BY <1>1, <1>2, <1>4, <1>8, <1>9 DEF Lexed

\* The tokens when the word that is being read is ended.
Flushed(m, id, num, ts) ==
    CASE m = "id" -> Added(ts, IdToken(id))
      [] m = "number" -> Added(ts, NumToken(Value(num)))
      [] OTHER -> ts

LEMMA WordEnded ==
    ASSUME NEW t, NEW i, NEW m, NEW id, NEW num, NEW str, NEW ts, IsText(t),
           Lexed(t, i, m, id, num, str, ts),
           i <= Len(t) => /\ m = "id" => t[i] \notin WordChars
                          /\ m = "number" => t[i] \notin Digits
    PROVE  /\ Cut(t, Flushed(m, id, num, ts), i - 1)
           /\ Flushed(m, id, num, ts) \in Seq(TokensOf(t))
<1>1. i \in Nat \ {0} /\ i \in 1 .. Len(t) + 1 /\ t \in Seq(Chars) /\ Len(t) \in Nat
      /\ ts \in Seq(TokensOf(t)) /\ i - 1 + 1 = i
  BY LenProperties DEF IsText, Lexed
<1>2. ASSUME NEW s \in 1 .. i - 1, IsWord(t, s, i - 1), Cut(t, ts, i - 2),
             \A r \in 1 .. i - 1 : IsWord(t, r, i - 1) => r = s
      PROVE  /\ Cut(t, Added(ts, TokenOf(t, s, i - 1)), i - 1)
             /\ Added(ts, TokenOf(t, s, i - 1)) \in Seq(TokensOf(t))
  <2>1. i - 2 \in Nat /\ i - 2 + 1 = i - 1 /\ i - 1 \in 1 .. Len(t)
    BY <1>1
  <2> QED
    BY <1>1, <1>2, <2>1, CutAdds
<1>3. CASE m = "id"
  <2>1. PICK s \in 1 .. i - 1 : NameTo(t, s, i - 1) /\ id = SubSeq(t, s, i - 1)
    BY <1>3 DEF Lexed
  <2>2. i - 1 \in Nat \ {0} /\ i - 1 + 1 = i /\ (i - 1 = Len(t) \/ i <= Len(t))
    BY <1>1
  <2>3. IsWord(t, s, i - 1)
    BY <1>3, <2>1, <2>2 DEF NameTo, IsWord, SpellsName, EndsRun
  <2>4. \A r \in 1 .. i - 1 : IsWord(t, r, i - 1) => r = s
    BY <2>1, <2>2, NameIsOne
  <2>5. TokenOf(t, s, i - 1) = IdToken(id)
    <3>1. t[s] \in Letters /\ t[s] # Quote /\ t[s] \notin Symbols
      BY <2>1, Kinds DEF NameTo
    <3> QED
      BY <2>1, <3>1 DEF TokenOf
  <2>6. Cut(t, ts, i - 2)
    BY <1>3 DEF Lexed
  <2> QED
    BY <1>2, <1>3, <2>3, <2>4, <2>5, <2>6 DEF Flushed
<1>4. CASE m = "number"
  <2>1. PICK s \in 1 .. i - 1 : NumberTo(t, s, i - 1) /\ num = SubSeq(t, s, i - 1)
    BY <1>4 DEF Lexed
  <2>2. i - 1 \in Nat \ {0} /\ i - 1 + 1 = i /\ (i - 1 = Len(t) \/ i <= Len(t))
    BY <1>1
  <2>3. IsWord(t, s, i - 1)
    BY <1>4, <2>1, <2>2 DEF NumberTo, IsWord, SpellsNumber, EndsRun
  <2>4. \A r \in 1 .. i - 1 : IsWord(t, r, i - 1) => r = s
    BY <2>1, <2>2, NumberIsOne
  <2>5. TokenOf(t, s, i - 1) = NumToken(Value(num))
    <3>1. s \in s .. i - 1
      OBVIOUS
    <3>2. t[s] \in Digits
      BY <2>1, <3>1 DEF NumberTo, AllIn
    <3>3. t[s] \notin Letters /\ t[s] # Quote /\ t[s] \notin Symbols
      BY <3>2, Kinds
    <3> QED
      BY <2>1, <3>3 DEF TokenOf
  <2>6. Cut(t, ts, i - 2)
    BY <1>4 DEF Lexed
  <2>7. Flushed(m, id, num, ts) = Added(ts, NumToken(Value(num)))
    BY <1>4 DEF Flushed
  <2> QED
    BY <1>2, <2>3, <2>4, <2>5, <2>6, <2>7
<1>5. CASE m \notin {"id", "number"}
  <2>1. Cut(t, ts, i - 1)
    BY <1>5 DEF Lexed
  <2> QED
    BY <1>1, <1>5, <2>1 DEF Flushed
<1> QED
  BY <1>3, <1>4, <1>5

LEMMA SpaceRead ==
    ASSUME NEW t, NEW i, NEW m, NEW id, NEW num, NEW str, NEW ts, IsText(t),
           Lexed(t, i, m, id, num, str, ts), i \in 1 .. Len(t), t[i] = Space,
           m # "string"
    PROVE  Lexed(t, i + 1, "idle", <<>>, <<>>, str, Flushed(m, id, num, ts))
<1> DEFINE flushed == Flushed(m, id, num, ts)
<1>1. i + 1 \in 1 .. Len(t) + 1 /\ i + 1 - 1 = i /\ i - 1 + 1 = i
      /\ i \in Nat \ {0} /\ i - 1 \in Nat /\ Len(t) \in Nat
  BY LenProperties DEF IsText
<1>2. t[i] # Quote /\ t[i] \notin WordChars /\ t[i] \notin Digits
  BY Kinds DEF WordChars
<1>3. Cut(t, flushed, i - 1) /\ flushed \in Seq(TokensOf(t))
  BY <1>2, WordEnded
<1> HIDE DEF flushed
<1>4. Cut(t, flushed, i)
  BY <1>1, <1>3, SpaceEndsNone, CutSkips
<1>5. ~InString(t, i + 1)
  BY <1>1, <1>2, SideIsKept DEF Lexed
<1>6. WordMayBegin(t, i + 1)
  BY <1>1, <1>2, BeginsBehindOther
<1>7. Lexed(t, i + 1, "idle", <<>>, <<>>, str, flushed)
  BY <1>1, <1>3, <1>4, <1>5, <1>6 DEF Lexed
<1> QED
  BY <1>7 DEF flushed

LEMMA WordEndRead ==
    ASSUME NEW t, NEW i, NEW m, NEW id, NEW num, NEW str, NEW ts, IsText(t),
           Lexed(t, i, m, id, num, str, ts), i \in 1 .. Len(t),
           \/ m = "id" /\ t[i] \notin WordChars
           \/ m = "number" /\ t[i] \notin Digits
    PROVE  Lexed(t, i, "idle", <<>>, <<>>, str, Flushed(m, id, num, ts))
<1> DEFINE flushed == Flushed(m, id, num, ts)
<1>1. Cut(t, flushed, i - 1) /\ flushed \in Seq(TokensOf(t))
  <2>1. i <= Len(t) => /\ m = "id" => t[i] \notin WordChars
                       /\ m = "number" => t[i] \notin Digits
    OBVIOUS
  <2> QED
    BY <2>1, WordEnded
<1> HIDE DEF flushed
<1>2. WordMayBegin(t, i)
  <2>1. CASE m = "id"
    BY <2>1 DEF WordMayBegin
  <2>2. CASE m = "number"
    <3>1. PICK s \in 1 .. i - 1 : NumberTo(t, s, i - 1)
      BY <2>2 DEF Lexed
    <3>2. i \in Nat /\ t[i] \notin Digits
      BY <2>2
    <3> QED
      BY <3>1, <3>2, BeginsBehindNumber
  <2> QED
    BY <2>1, <2>2
<1>3. ~InString(t, i) /\ i \in 1 .. Len(t) + 1
  BY DEF Lexed
<1>4. Lexed(t, i, "idle", <<>>, <<>>, str, flushed)
  BY <1>1, <1>2, <1>3 DEF Lexed
<1> QED
  BY <1>4 DEF flushed

LEMMA QuoteRead ==
    ASSUME NEW t, NEW i, NEW m, NEW id, NEW num, NEW str, NEW ts, IsText(t),
           Lexed(t, i, m, id, num, str, ts), i \in 1 .. Len(t), t[i] = Quote,
           m # "string"
    PROVE  Lexed(t, i + 1, "string", id, num, <<>>, ts)
<1>1. i + 1 \in 1 .. Len(t) + 1 /\ i + 1 - 1 = i /\ i - 1 + 1 = i
      /\ i \in Nat \ {0} /\ i - 1 \in Nat /\ Len(t) \in Nat
  BY LenProperties DEF IsText
<1>2. ~InString(t, i) /\ ts \in Seq(TokensOf(t))
  BY DEF Lexed
<1>3. m = "idle"
  <2> SUFFICES ASSUME m \in {"id", "number"} PROVE FALSE
    BY DEF Lexed
  <2>1. PICK s \in 1 .. i - 1 : NameTo(t, s, i - 1) \/ NumberTo(t, s, i - 1)
    BY DEF Lexed
  <2>2. i - 1 \in s .. i - 1 /\ i \in 2 .. Len(t)
    OBVIOUS
  <2>3. t[i - 1] \in WordChars
    BY <2>1, <2>2, Kinds DEF NameTo, NumberTo, AllIn
  <2> QED
    BY <1>2, <2>2, <2>3 DEF IsText, StringBehindWord
<1>4. id = <<>> /\ num = <<>> /\ Cut(t, ts, i - 1)
  BY <1>3 DEF Lexed
<1>5. Cut(t, ts, i)
  <2>1. i \notin WordEnds(t)
    BY <1>1, <1>2, QuoteOpens
  <2> QED
    BY <1>1, <1>4, <2>1, CutSkips
<1>6. InString(t, i + 1)
  BY <1>1, <1>2, QuoteCrosses
<1>7. i \in 1 .. i /\ StringTo(t, i, i) /\ <<>> = SubSeq(t, i + 1, i)
  <2>1. i + 1 \in Int /\ i \in Int /\ i < i + 1
    BY <1>1
  <2>2. SubSeq(t, i + 1, i) = <<>>
    BY <2>1, SubSeqEmpty
  <2> QED
    BY <1>1, <1>2, <2>2 DEF StringTo
<1> QED
  BY <1>1, <1>2, <1>4, <1>5, <1>6, <1>7 DEF Lexed

LEMMA NameRead ==
    ASSUME NEW t, NEW i, NEW id, NEW num, NEW str, NEW ts, IsText(t),
           Lexed(t, i, "id", id, num, str, ts), i \in 1 .. Len(t), t[i] \in WordChars
    PROVE  Lexed(t, i + 1, "id", Append(id, t[i]), num, str, ts)
<1>1. i + 1 \in 1 .. Len(t) + 1 /\ i + 1 - 1 = i /\ i + 1 - 2 = i - 1 /\ i - 1 + 1 = i
      /\ i \in Nat \ {0} /\ i - 2 + 1 = i - 1 /\ t \in Seq(Chars) /\ Len(t) \in Nat
  BY LenProperties DEF IsText
<1>2. ~InString(t, i) /\ ts \in Seq(TokensOf(t)) /\ Cut(t, ts, i - 2) /\ num = <<>>
  BY DEF Lexed
<1>3. PICK s \in 1 .. i - 1 : NameTo(t, s, i - 1) /\ id = SubSeq(t, s, i - 1)
  BY DEF Lexed
<1>4. ~InString(t, i + 1)
  BY <1>1, <1>2, Kinds, SideIsKept
<1>5. Cut(t, ts, i - 1)
  <2>1. i - 1 \in Nat \ {0} /\ i - 1 # Len(t) /\ i - 2 \in Nat
    BY <1>1
  <2>2. i - 1 \notin WordEnds(t)
    BY <1>1, <1>3, <2>1, NameGoesOn
  <2> QED
    BY <1>1, <1>2, <2>1, <2>2, CutSkips
<1>6. s \in 1 .. i /\ NameTo(t, s, i) /\ Append(id, t[i]) = SubSeq(t, s, i)
  <2>1. s \in 1 .. Len(t) /\ i \in s .. Len(t) /\ \A k \in s .. i : k \in s .. i - 1 \/ k = i
    BY <1>1
  <2> QED
    BY <1>1, <1>3, <2>1, SubSeqGrows DEF NameTo, AllIn
<1> QED
  BY <1>1, <1>2, <1>4, <1>5, <1>6 DEF Lexed

LEMMA NumberRead ==
    ASSUME NEW t, NEW i, NEW id, NEW num, NEW str, NEW ts, IsText(t),
           Lexed(t, i, "number", id, num, str, ts), i \in 1 .. Len(t), t[i] \in Digits
    PROVE  Lexed(t, i + 1, "number", id, Append(num, t[i]), str, ts)
<1>1. i + 1 \in 1 .. Len(t) + 1 /\ i + 1 - 1 = i /\ i + 1 - 2 = i - 1 /\ i - 1 + 1 = i
      /\ i \in Nat \ {0} /\ i - 2 + 1 = i - 1 /\ t \in Seq(Chars) /\ Len(t) \in Nat
  BY LenProperties DEF IsText
<1>2. ~InString(t, i) /\ ts \in Seq(TokensOf(t)) /\ Cut(t, ts, i - 2) /\ id = <<>>
  BY DEF Lexed
<1>3. PICK s \in 1 .. i - 1 : NumberTo(t, s, i - 1) /\ num = SubSeq(t, s, i - 1)
  BY DEF Lexed
<1>4. ~InString(t, i + 1)
  BY <1>1, <1>2, Kinds, SideIsKept
<1>5. Cut(t, ts, i - 1)
  <2>1. i - 1 \in Nat \ {0} /\ i - 1 # Len(t) /\ i - 2 \in Nat
    BY <1>1
  <2>2. i - 1 \notin WordEnds(t)
    BY <1>1, <1>3, <2>1, NumberGoesOn
  <2> QED
    BY <1>1, <1>2, <2>1, <2>2, CutSkips
<1>6. s \in 1 .. i /\ NumberTo(t, s, i) /\ Append(num, t[i]) = SubSeq(t, s, i)
  <2>1. s \in 1 .. Len(t) /\ i \in s .. Len(t) /\ \A k \in s .. i : k \in s .. i - 1 \/ k = i
    BY <1>1
  <2> QED
    BY <1>1, <1>3, <2>1, SubSeqGrows DEF NumberTo, AllIn
<1> QED
  BY <1>1, <1>2, <1>4, <1>5, <1>6 DEF Lexed

LEMMA WordBegun ==
    ASSUME NEW t, NEW i, NEW id, NEW num, NEW str, NEW ts, IsText(t),
           Lexed(t, i, "idle", id, num, str, ts), i \in 1 .. Len(t)
    PROVE  /\ t[i] \in Letters => Lexed(t, i + 1, "id", Append(id, t[i]), num, str, ts)
           /\ t[i] \in Digits => Lexed(t, i + 1, "number", id, Append(num, t[i]), str, ts)
<1>1. i + 1 \in 1 .. Len(t) + 1 /\ i + 1 - 1 = i /\ i + 1 - 2 = i - 1
      /\ i \in Nat \ {0} /\ t \in Seq(Chars) /\ Len(t) \in Nat
  BY LenProperties DEF IsText
<1>2. ~InString(t, i) /\ ts \in Seq(TokensOf(t)) /\ Cut(t, ts, i - 1)
      /\ id = <<>> /\ num = <<>> /\ WordMayBegin(t, i)
  BY DEF Lexed
<1>3. i \in 1 .. i /\ Append(<<>>, t[i]) = SubSeq(t, i, i) /\ \A k \in i .. i : k = i
  <2>1. SubSeq(t, i, i - 1) = <<>>
    <3>1. i \in Int /\ i - 1 \in Int /\ i - 1 < i
      BY <1>1
    <3> QED
      BY <3>1, SubSeqEmpty
  <2>2. SubSeq(t, i, i) = Append(SubSeq(t, i, i - 1), t[i])
    <3>1. i \in i .. Len(t)
      BY <1>1
    <3> QED
      BY <1>1, <3>1, SubSeqGrows
  <2> QED
    BY <1>1, <2>1, <2>2
<1>4. ASSUME t[i] \in Letters
      PROVE  Lexed(t, i + 1, "id", Append(id, t[i]), num, str, ts)
  <2>1. ~InString(t, i + 1)
    BY <1>1, <1>2, <1>4, Kinds, SideIsKept
  <2>2. NameTo(t, i, i)
    BY <1>2, <1>3, <1>4, Kinds DEF NameTo, AllIn, WordMayBegin
  <2> QED
    BY <1>1, <1>2, <1>3, <2>1, <2>2 DEF Lexed
<1>5. ASSUME t[i] \in Digits
      PROVE  Lexed(t, i + 1, "number", id, Append(num, t[i]), str, ts)
  <2>1. ~InString(t, i + 1)
    BY <1>1, <1>2, <1>5, Kinds, SideIsKept
  <2>2. NumberTo(t, i, i)
    BY <1>2, <1>3, <1>5, Kinds DEF NumberTo, AllIn, WordMayBegin
  <2> QED
    BY <1>1, <1>2, <1>3, <2>1, <2>2 DEF Lexed
<1> QED
  BY <1>4, <1>5

LEMMA SymbolRead ==
    ASSUME NEW t, NEW i, NEW id, NEW num, NEW str, NEW ts, IsText(t),
           Lexed(t, i, "idle", id, num, str, ts), i \in 1 .. Len(t), t[i] \in Symbols
    PROVE  Lexed(t, i + 1, "idle", id, num, str, Added(ts, SymToken(t[i])))
<1>1. i + 1 \in 1 .. Len(t) + 1 /\ i + 1 - 1 = i /\ i - 1 + 1 = i /\ i - 1 \in Nat
      /\ i \in Nat \ {0} /\ i + 1 \in Nat \ {0, 1} /\ i \in 1 .. i /\ Len(t) \in Nat
  BY LenProperties DEF IsText
<1>2. ~InString(t, i) /\ ts \in Seq(TokensOf(t)) /\ Cut(t, ts, i - 1)
      /\ id = <<>> /\ num = <<>>
  BY DEF Lexed
<1>3. t[i] # Quote /\ t[i] \notin WordChars
  BY Kinds DEF WordChars
<1>4. ~InString(t, i + 1) /\ WordMayBegin(t, i + 1)
  BY <1>1, <1>2, <1>3, SideIsKept, BeginsBehindOther
<1>5. IsWord(t, i, i) /\ \A r \in 1 .. i : IsWord(t, r, i) => r = i
  <2>1. IsWord(t, i, i)
    BY <1>2 DEF IsWord, SpellsSymbol
  <2>2. ASSUME NEW r \in 1 .. i, IsWord(t, r, i) PROVE r = i
    BY <1>1, <2>2, SymbolIsOne
  <2> QED
    BY <2>1, <2>2
<1>6. TokenOf(t, i, i) = SymToken(t[i])
  <2>1. t[i] \notin Letters
    BY <1>3 DEF WordChars
  <2> QED
    BY <1>3, <2>1 DEF TokenOf
<1>7. Cut(t, Added(ts, SymToken(t[i])), i) /\ Added(ts, SymToken(t[i])) \in Seq(TokensOf(t))
  BY <1>1, <1>2, <1>5, <1>6, CutAdds
<1> QED
  BY <1>1, <1>2, <1>4, <1>7 DEF Lexed

-----------------------------------------------------------------------------
(* The lexer                                                               *)

\* The inductive invariant: parse_line has cut the text up to the word it reads.
LexInv ==
    /\ text \in Seq(Chars)
    /\ ~StringBehindWord(text) =>
          /\ at = "lexing" => Lexed(text, index, mode, idBuffer, numBuffer, string, tokens)
          /\ at = "start" => Cut(text, tokens, Len(text))

LEMMA LexAtFirst ==
    ASSUME at = "lexing", NEW t \in Seq(Chars), LexInit(t, <<>>)
    PROVE  LexInv
<1>1. /\ text = t /\ index = 1 /\ mode = "idle" /\ idBuffer = <<>> /\ numBuffer = <<>>
      /\ tokens = <<>>
  BY DEF LexInit
<1>2. Len(t) \in Nat
  BY LenProperties
<1>3. 1 \in 1 .. Len(t) + 1 /\ 1 - 1 = 0 /\ <<>> \in Seq(TokensOf(t))
  BY <1>2, EmptySeq
<1>4. Cut(t, <<>>, 0) /\ ~InString(t, 1) /\ WordMayBegin(t, 1)
  BY <1>2, NothingIsCut, FirstIsOutside, BeginsFirst
<1>5. Lexed(t, 1, "idle", <<>>, <<>>, string, <<>>)
  BY <1>3, <1>4 DEF Lexed
<1> QED
  BY <1>1, <1>5 DEF LexInv

LEMMA FlushAdds ==
    ASSUME Flush, mode \in {"idle", "id", "number"},
           mode # "id" => idBuffer = <<>>, mode # "number" => numBuffer = <<>>
    PROVE  /\ tokens' = Flushed(mode, idBuffer, numBuffer, tokens)
           /\ idBuffer' = <<>> /\ numBuffer' = <<>>
<1>1. CASE mode = "id"
  BY <1>1 DEF Flush, Add, Added, Flushed
<1>2. CASE mode = "number"
  BY <1>2 DEF Flush, Add, Added, Flushed
<1>3. CASE mode = "idle"
  BY <1>3 DEF Flush, Flushed
<1> QED
  BY <1>1, <1>2, <1>3

LEMMA LexNext ==
    ASSUME LexInv, [Lex]_<<at, lexVars>>
    PROVE  LexInv'
<1>1. text' = text
  BY DEF Lex, ReadString, ReadSpace, OpenString, ReadOn, EndWord, Begin, EndOfText,
         Consume, lexVars
<1> SUFFICES ASSUME IsText(text)
             PROVE  /\ at' = "lexing" => Lexed(text, index', mode', idBuffer', numBuffer',
                                               string', tokens')
                    /\ at' = "start" => Cut(text, tokens', Len(text))
  BY <1>1 DEF LexInv, IsText
<1>2. CASE UNCHANGED <<at, lexVars>>
  BY <1>2 DEF LexInv, IsText, lexVars
<1>3. ASSUME Lex, at = "lexing"
      PROVE  /\ Lexed(text, index, mode, idBuffer, numBuffer, string, tokens)
             /\ index \in 1 .. Len(text) + 1 /\ Len(text) \in Nat
             /\ mode \in {"idle", "id", "number", "string"}
             /\ mode # "id" => idBuffer = <<>>
             /\ mode # "number" => numBuffer = <<>>
  <2>1. Lexed(text, index, mode, idBuffer, numBuffer, string, tokens)
    BY <1>3 DEF LexInv, IsText
  <2> QED
    BY <2>1, LenProperties DEF Lexed, IsText
<1>4. ASSUME Lex, InText
      PROVE  /\ at = "lexing" /\ index \in 1 .. Len(text) /\ place = text[index]
             /\ Lexed(text, index, mode, idBuffer, numBuffer, string, tokens)
             /\ mode \in {"idle", "id", "number", "string"}
             /\ mode # "id" => idBuffer = <<>>
             /\ mode # "number" => numBuffer = <<>>
  BY <1>3, <1>4 DEF InText, place
<1>5. CASE ReadString
  <2>1. /\ InText /\ Lex /\ mode = "string" /\ at' = at /\ index' = index + 1
        /\ UNCHANGED <<idBuffer, numBuffer>>
    BY <1>5 DEF ReadString, Consume, Lex
  <2>2. CASE place = Quote
    <3>1. /\ tokens' = Added(tokens, StrToken(string)) /\ mode' = "idle"
          /\ string' = string
      BY <1>5, <2>2 DEF ReadString, Add, Added
    <3> QED
      BY <1>4, <2>1, <2>2, <3>1, StringEnds
  <2>3. CASE place # Quote
    <3>1. string' = Append(string, place) /\ UNCHANGED <<mode, tokens>>
      BY <1>5, <2>3 DEF ReadString
    <3> QED
      BY <1>4, <2>1, <2>3, <3>1, StringGoesOn
  <2> QED
    BY <2>2, <2>3
<1>6. CASE ReadSpace
  <2>1. /\ InText /\ Lex /\ mode # "string" /\ place = Space /\ Flush /\ mode' = "idle"
        /\ at' = at /\ index' = index + 1 /\ string' = string
    BY <1>6 DEF ReadSpace, Consume, Lex
  <2>2. /\ tokens' = Flushed(mode, idBuffer, numBuffer, tokens)
        /\ idBuffer' = <<>> /\ numBuffer' = <<>>
    BY <1>4, <2>1, FlushAdds
  <2> QED
    BY <1>4, <2>1, <2>2, SpaceRead
<1>7. CASE OpenString
  <2>1. /\ InText /\ Lex /\ mode # "string" /\ place = Quote /\ mode' = "string"
        /\ string' = <<>> /\ at' = at /\ index' = index + 1
        /\ UNCHANGED <<tokens, idBuffer, numBuffer>>
    BY <1>7 DEF OpenString, Consume, Lex
  <2> QED
    BY <1>4, <2>1, QuoteRead
<1>8. CASE ReadOn
  <2>1. /\ InText /\ Lex /\ Continues /\ at' = at /\ index' = index + 1
        /\ UNCHANGED <<mode, string, tokens>>
    BY <1>8 DEF ReadOn, Consume, Lex
  <2>2. CASE mode = "id"
    <3>1. /\ place \in WordChars
          /\ idBuffer' = Append(idBuffer, place) /\ numBuffer' = numBuffer
      BY <1>8, <2>2 DEF ReadOn, Continues, WordChars
    <3> QED
      BY <1>4, <2>1, <2>2, <3>1, NameRead
  <2>3. CASE mode = "number"
    <3>1. /\ place \in Digits
          /\ numBuffer' = Append(numBuffer, place) /\ idBuffer' = idBuffer
      BY <1>8, <2>3 DEF ReadOn, Continues
    <3> QED
      BY <1>4, <2>1, <2>3, <3>1, NumberRead
  <2> QED
    BY <2>1, <2>2, <2>3 DEF Continues
<1>9. CASE EndWord
  <2>1. /\ InText /\ Lex /\ mode \in {"id", "number"} /\ ~Continues /\ Flush
        /\ mode' = "idle" /\ UNCHANGED <<at, index, string>>
    BY <1>9 DEF EndWord, Lex
  <2>2. /\ tokens' = Flushed(mode, idBuffer, numBuffer, tokens)
        /\ idBuffer' = <<>> /\ numBuffer' = <<>>
    BY <1>4, <2>1, FlushAdds
  <2>3. \/ mode = "id" /\ place \notin WordChars
        \/ mode = "number" /\ place \notin Digits
    BY <2>1 DEF Continues, WordChars
  <2> QED
    BY <1>4, <2>1, <2>2, <2>3, WordEndRead
<1>10. CASE Begin
  <2>1. /\ InText /\ Lex /\ mode = "idle" /\ at' = at /\ index' = index + 1
        /\ string' = string
    BY <1>10 DEF Begin, Consume, Lex
  <2>2. CASE /\ place \in Letters
             /\ mode' = "id" /\ idBuffer' = Append(idBuffer, place)
             /\ UNCHANGED <<numBuffer, tokens>>
    BY <1>4, <2>1, <2>2, WordBegun
  <2>3. CASE /\ place \in Digits
             /\ mode' = "number" /\ numBuffer' = Append(numBuffer, place)
             /\ UNCHANGED <<idBuffer, tokens>>
    BY <1>4, <2>1, <2>3, WordBegun
  <2>4. CASE place \in Symbols /\ Add(SymToken(place))
             /\ UNCHANGED <<mode, idBuffer, numBuffer>>
    <3>1. tokens' = Added(tokens, SymToken(place))
      BY <2>4 DEF Add, Added
    <3> QED
      BY <1>4, <2>1, <2>4, <3>1, SymbolRead
  <2> QED
    BY <1>10, <2>2, <2>3, <2>4 DEF Begin
<1>11. CASE EndOfText
  <2>1. /\ Lex /\ at = "lexing" /\ index > Len(text) /\ Flush /\ at' = "start"
    BY <1>11 DEF EndOfText, Lex
  <2>2. index = Len(text) + 1 /\ index - 1 = Len(text) /\ ~(index <= Len(text))
    BY <1>3, <2>1
  <2>3. CASE mode = "string"
    <3>1. tokens' = tokens
      BY <2>1, <2>3 DEF Flush
    <3>2. Cut(text, tokens, index - 1)
      BY <1>3, <2>1, <2>3 DEF Lexed
    <3> QED
      BY <2>1, <2>2, <3>1, <3>2
  <2>4. CASE mode # "string"
    <3>1. tokens' = Flushed(mode, idBuffer, numBuffer, tokens)
      BY <1>3, <2>1, <2>4, FlushAdds
    <3>2. Cut(text, Flushed(mode, idBuffer, numBuffer, tokens), index - 1)
      BY <1>3, <2>1, <2>2, WordEnded
    <3> QED
      BY <2>1, <2>2, <3>1, <3>2
  <2> QED
    BY <2>3, <2>4
<1> QED
  BY <1>2, <1>5, <1>6, <1>7, <1>8, <1>9, <1>10, <1>11 DEF Lex

LEMMA CutIsWords == LexInv => LexesWords
<1> SUFFICES ASSUME LexInv, at = "start", ~StringBehindWord(text)
             PROVE  /\ Len(tokens) = IF Cardinality(WordEnds(text)) <= MaxTokens
                                       THEN Cardinality(WordEnds(text)) ELSE MaxTokens
                    /\ \A e \in WordEnds(text) : \A s \in 1 .. e :
                          IsWord(text, s, e) /\ Upto(WordEnds(text), e) <= MaxTokens
                            => tokens[Upto(WordEnds(text), e)] = TokenOf(text, s, e)
  BY DEF LexesWords
<1>1. Cut(text, tokens, Len(text)) /\ Len(text) \in Nat
  BY LenProperties DEF LexInv
<1>2. Upto(WordEnds(text), Len(text)) = Cardinality(WordEnds(text))
  <2>1. WordEnds(text) \in SUBSET (1 .. Len(text))
    BY DEF WordEnds
  <2> QED
    BY <1>1, <2>1, UptoAll
<1>3. \A e \in WordEnds(text) : e <= Len(text)
  BY <1>1, EndsArePlaces
<1> QED
  BY <1>1, <1>2, <1>3 DEF Cut

\* For every text, every choice of letters and symbols and every number of slots:
\* when parse_line has ended, the tokens are the longest words of the text, in
\* their order, or as many of the first as there are slots.
THEOREM CutsIntoWords == LexSpec => []LexesWords
<1>1. at = "lexing" /\ (\E t \in Seq(Chars) : LexInit(t, <<>>)) => LexInv
  BY LexAtFirst
<1> QED
  BY <1>1, LexNext, CutIsWords, PTL DEF LexSpec

-----------------------------------------------------------------------------
(* The loop ends                                                           *)

LexTypeOK ==
    /\ Len(text) \in Nat
    /\ index \in 1 .. Len(text) + 1
    /\ mode \in {"idle", "id", "number", "string"}

\* A turn reads a character or ends a word.
TurnsLeft == 2 * (Len(text) + 1 - index) + (IF mode = "idle" THEN 0 ELSE 1)

\* Every turn of the loop brings its end nearer.
TurnsRunOut ==
    [][at = "lexing" =>
          at' = "start" \/ (TurnsLeft' \in Nat /\ TurnsLeft' < TurnsLeft)]_<<at, lexVars>>

LEMMA TurnStep ==
    ASSUME LexTypeOK, Lex
    PROVE  /\ LexTypeOK'
           /\ at' = "start" \/ (TurnsLeft' \in Nat /\ TurnsLeft' < TurnsLeft)
<1> DEFINE n == Len(text)
<1>1. n \in Nat /\ index \in 1 .. n + 1 /\ text' = text /\ n' = n
  BY DEF LexTypeOK, Lex, ReadString, ReadSpace, OpenString, ReadOn, EndWord, Begin,
         EndOfText, Consume
<1>2. /\ mode \in {"idle", "id", "number", "string"}
      /\ mode' \in {"idle", "id", "number", "string"}
  BY DEF LexTypeOK, Lex, ReadString, ReadSpace, OpenString, ReadOn, EndWord, Begin,
         EndOfText, Consume
<1>3. \/ index \in 1 .. n /\ index' = index + 1
      \/ index' = index /\ mode # "idle" /\ mode' = "idle"
      \/ index' = index /\ at' = "start"
  BY <1>1 DEF Lex, ReadString, ReadSpace, OpenString, ReadOn, EndWord, Begin,
              EndOfText, Consume, InText
<1>4. /\ TurnsLeft = 2 * (n + 1 - index) + (IF mode = "idle" THEN 0 ELSE 1)
      /\ TurnsLeft' = 2 * (n + 1 - index') + (IF mode' = "idle" THEN 0 ELSE 1)
  BY <1>1 DEF TurnsLeft
<1> HIDE DEF n
<1>5. index' \in 1 .. n + 1
  BY <1>1, <1>3
<1>6. LexTypeOK'
  BY <1>1, <1>2, <1>5 DEF LexTypeOK, n
<1>7. at' = "start" \/ (TurnsLeft' \in Nat /\ TurnsLeft' < TurnsLeft)
  <2>1. CASE index \in 1 .. n /\ index' = index + 1
    BY <1>1, <1>4, <2>1
  <2>2. CASE index' = index /\ mode # "idle" /\ mode' = "idle"
    BY <1>1, <1>4, <2>2
  <2> QED
    BY <1>3, <2>1, <2>2
<1> QED
  BY <1>6, <1>7

\* For every text: the loop of parse_line takes at most two turns for each
\* character.
THEOREM TextsEnd == LexSpec => TurnsRunOut
<1>1. at = "lexing" /\ (\E t \in Seq(Chars) : LexInit(t, <<>>)) => LexTypeOK
  BY LenProperties DEF LexInit, LexTypeOK
<1>2. LexTypeOK /\ [Lex]_<<at, lexVars>> => LexTypeOK'
  BY TurnStep DEF LexTypeOK, lexVars
<1>3. LexTypeOK /\ [Lex]_<<at, lexVars>>
        => [at = "lexing" =>
              at' = "start" \/ (TurnsLeft' \in Nat /\ TurnsLeft' < TurnsLeft)]_<<at, lexVars>>
  BY TurnStep
<1> QED
  BY <1>1, <1>2, <1>3, PTL DEF LexSpec, TurnsRunOut

-----------------------------------------------------------------------------
(* Numbers                                                                 *)

LEMMA LeastNatural ==
    ASSUME NEW S \in SUBSET Nat, S # {}
    PROVE  \E n \in S : \A m \in S : n <= m
<1> DEFINE R == {ss \in Nat \X Nat : ss[1] < ss[2]}
<1>1. IsWellFoundedOn(R, Nat)
  BY NatLessThanWellFounded DEF OpToRel
<1> HIDE DEF R
<1>2. PICK n \in S : \A m \in S : ~(<<m, n>> \in R)
  BY <1>1, WFMin
<1>3. \A m \in S : ~(m < n)
  BY <1>2 DEF R
<1> QED
  BY <1>3

\* A set that has 0 and every successor up to n has all numbers up to n.
LEMMA UpFromZero ==
    ASSUME NEW n \in Nat, NEW S, 0 \in S, \A k \in 1 .. n : k - 1 \in S => k \in S
    PROVE  \A k \in 0 .. n : k \in S
<1> DEFINE Missing == {k \in 0 .. n : k \notin S}
<1>1. ASSUME Missing # {} PROVE FALSE
  <2>1. PICK k \in Missing : \A j \in Missing : k <= j
    <3>1. Missing \in SUBSET Nat
      OBVIOUS
    <3> HIDE DEF Missing
    <3> QED
      BY <1>1, <3>1, LeastNatural
  <2>2. k \in 1 .. n /\ k \notin S
    OBVIOUS
  <2>3. k - 1 \in 0 .. n /\ k - 1 < k
    BY <2>2
  <2>4. k - 1 \notin Missing
    BY <2>1, <2>3
  <2> QED
    BY <2>2, <2>3, <2>4
<1> QED
  BY <1>1

LEMMA PowerType ==
    ASSUME NEW n \in Nat
    PROVE  2^n \in Nat \ {0}
<1> DEFINE S == SUBSET (1 .. n)
<1>1. IsFiniteSet(1 .. n) /\ Cardinality(1 .. n) = n
  BY FS_Interval
<1>2. IsFiniteSet(S) /\ Cardinality(S) = 2^n
  BY <1>1, FS_SUBSET
<1>3. S # {}
  BY {} \in S
<1> HIDE DEF S
<1>4. Cardinality(S) \in Nat /\ Cardinality(S) # 0
  BY <1>2, <1>3, FS_CardinalityType, FS_EmptySet
<1> QED
  BY <1>2, <1>4

\* g starts with first and goes on with step.
Follows(g, n, first, step) ==
    g[0] = first /\ \A k \in 1 .. n : g[k] = step[<<k, g[k - 1]>>]

\* A recursion over numbers has a solution.
LEMMA StepsExist ==
    ASSUME NEW n \in Nat, NEW V, NEW first \in V, NEW step \in [(1 .. n) \X V -> V]
    PROVE  \E g \in [0 .. n -> V] : Follows(g, n, first, step)
<1> DEFINE Good == {k \in 0 .. n : \E g \in [0 .. k -> V] :
                       g[0] = first /\ \A i \in 1 .. k : g[i] = step[<<i, g[i - 1]>>]}
<1>1. 0 \in Good
  <2> DEFINE g == [i \in 0 .. 0 |-> first]
  <2>1. g \in [0 .. 0 -> V] /\ g[0] = first /\ 1 .. 0 = {} /\ 0 \in 0 .. n
    OBVIOUS
  <2> QED
    BY <2>1
<1>2. ASSUME NEW k \in 1 .. n, k - 1 \in Good
      PROVE  k \in Good
  <2>1. PICK g \in [0 .. k - 1 -> V] :
           g[0] = first /\ \A i \in 1 .. k - 1 : g[i] = step[<<i, g[i - 1]>>]
    BY <1>2
  <2> DEFINE h == [i \in 0 .. k |-> IF i = k THEN step[<<k, g[k - 1]>>] ELSE g[i]]
  <2>2. g[k - 1] \in V /\ step[<<k, g[k - 1]>>] \in V
    <3>1. k - 1 \in 0 .. k - 1
      OBVIOUS
    <3>2. g[k - 1] \in V
      BY <2>1, <3>1
    <3>3. <<k, g[k - 1]>> \in (1 .. n) \X V
      BY <3>2
    <3> QED
      BY <3>2, <3>3
  <2>3. \A i \in 0 .. k - 1 : i \in 0 .. k /\ i # k /\ h[i] = g[i] /\ g[i] \in V
    BY <2>1
  <2>4. h \in [0 .. k -> V] /\ h[k] = step[<<k, g[k - 1]>>]
    BY <2>2, <2>3
  <2>5. 0 \in 0 .. k - 1 /\ k - 1 \in 0 .. k - 1
        /\ \A i \in 1 .. k - 1 : i \in 0 .. k - 1 /\ i - 1 \in 0 .. k - 1
    OBVIOUS
  <2> HIDE DEF h
  <2>6. h[0] = first /\ \A i \in 1 .. k : h[i] = step[<<i, h[i - 1]>>]
    <3>1. h[0] = first
      BY <2>1, <2>3, <2>5
    <3>2. \A i \in 1 .. k - 1 : h[i] = step[<<i, h[i - 1]>>]
      BY <2>1, <2>3, <2>5
    <3>3. h[k] = step[<<k, h[k - 1]>>]
      BY <2>3, <2>4, <2>5
    <3>4. \A i \in 1 .. k : i \in 1 .. k - 1 \/ i = k
      OBVIOUS
    <3> QED
      BY <3>1, <3>2, <3>3, <3>4
  <2>7. k \in 0 .. n
    OBVIOUS
  <2> QED
    BY <2>4, <2>6, <2>7
<1> HIDE DEF Good
<1>3. n \in Good
  <2>1. n \in 0 .. n
    OBVIOUS
  <2> QED
    BY <1>1, <1>2, <2>1, UpFromZero
<1> QED
  BY <1>3 DEF Good, Follows

\* g is the sums of the first numbers of term, up to n of them.
SumsOf(term, n, g) == g = [k \in 0 .. n |-> IF k = 0 THEN 0 ELSE g[k - 1] + term[k - 1]]

LEMMA SumsExist ==
    ASSUME NEW n \in Nat, NEW term \in [0 .. n - 1 -> Int]
    PROVE  \E g : SumsOf(term, n, g)
<1> DEFINE step == [ka \in (1 .. n) \X Int |-> ka[2] + term[ka[1] - 1]]
<1>1. step \in [(1 .. n) \X Int -> Int]
  <2> SUFFICES ASSUME NEW k \in 1 .. n, NEW a \in Int PROVE a + term[k - 1] \in Int
    OBVIOUS
  <2>1. k - 1 \in 0 .. n - 1
    OBVIOUS
  <2> QED
    BY <2>1
<1>2. \A k \in 1 .. n, a \in Int : step[<<k, a>>] = a + term[k - 1]
  OBVIOUS
<1> HIDE DEF step
<1>3. PICK g \in [0 .. n -> Int] :
         g[0] = 0 /\ \A k \in 1 .. n : g[k] = step[<<k, g[k - 1]>>]
  <2>1. \A zero \in Int : \E g \in [0 .. n -> Int] : Follows(g, n, zero, step)
    BY <1>1, StepsExist, Zenon
  <2>2. 0 \in Int
    OBVIOUS
  <2> QED
    BY <2>1, <2>2 DEF Follows
<1>4. \A k \in 0 .. n : k # 0 => k \in 1 .. n /\ k - 1 \in 0 .. n
  OBVIOUS
<1>5. \A k \in 0 .. n : g[k] = IF k = 0 THEN 0 ELSE g[k - 1] + term[k - 1]
  BY <1>2, <1>3, <1>4
<1> QED
  BY <1>5 DEF SumsOf

LEMMA TotalIsInt ==
    ASSUME NEW n \in Nat, NEW term \in [0 .. n - 1 -> Int]
    PROVE  Total(n, term) \in Int
<1> DEFINE g == CHOOSE h : SumsOf(term, n, h)
<1>1. Total(n, term) = g[n]
  BY Zenon DEF Total, SumsOf
<1>2. SumsOf(term, n, g)
  BY SumsExist, Zenon
<1> HIDE DEF g
<1>3. \A k \in 0 .. n : g[k] = IF k = 0 THEN 0 ELSE g[k - 1] + term[k - 1]
  BY <1>2 DEF SumsOf
<1> DEFINE Good == {k \in 0 .. n : g[k] \in Int}
<1>4. 0 \in Good
  BY <1>3
<1>5. ASSUME NEW k \in 1 .. n, k - 1 \in Good
      PROVE  k \in Good
  <2>1. k \in 0 .. n /\ k # 0 /\ k - 1 \in 0 .. n - 1
    OBVIOUS
  <2>2. term[k - 1] \in Int /\ g[k - 1] \in Int
    BY <1>5, <2>1
  <2> QED
    BY <1>3, <2>1, <2>2
<1> HIDE DEF Good
<1>6. n \in Good
  <2>1. n \in 0 .. n
    OBVIOUS
  <2> QED
    BY <1>4, <1>5, <2>1, UpFromZero
<1> QED
  BY <1>1, <1>6 DEF Good

LEMMA BitIsInt ==
    ASSUME NEW x \in Int, NEW i \in Nat
    PROVE  BitOf(x, i) \in Int
<1>1. 2^i \in Nat \ {0}
  BY PowerType
<1> DEFINE d == 2^i
<1> HIDE DEF d
<1>2. d \in Nat \ {0}
  BY <1>1 DEF d
<1>3. x \div d \in Int
  BY <1>2
<1>4. BitOf(x, i) = (x \div d) % 2
  BY DEF BitOf, d
<1> QED
  BY <1>3, <1>4

LEMMA OnBitsIsInt ==
    ASSUME NEW l \in Int, NEW r \in Int
    PROVE  OnBits(And, l, r) \in Int /\ OnBits(Or, l, r) \in Int
<1> DEFINE M == 2^LongBits
           H == 2^(LongBits - 1)
           x == l % M
           y == r % M
           ands == [i \in 0 .. LongBits - 1 |-> (BitOf(x, i) * BitOf(y, i)) * 2^i]
           ors == [i \in 0 .. LongBits - 1 |->
                     (BitOf(x, i) + BitOf(y, i) - BitOf(x, i) * BitOf(y, i)) * 2^i]
<1>1. M \in Nat \ {0} /\ H \in Nat \ {0} /\ LongBits \in Nat
  BY BasicAssumption, PowerType
<1>2. OnBits(And, l, r) = IF Total(LongBits, ands) >= H
                            THEN Total(LongBits, ands) - M ELSE Total(LongBits, ands)
  BY DEF OnBits, And, BitByBit
<1>3. OnBits(Or, l, r) = IF Total(LongBits, ors) >= H
                           THEN Total(LongBits, ors) - M ELSE Total(LongBits, ors)
  BY DEF OnBits, Or, BitByBit
<1> HIDE DEF M, H
<1>4. x \in Int /\ y \in Int
  BY <1>1
<1> HIDE DEF x, y
<1>5. ASSUME NEW i \in 0 .. LongBits - 1
      PROVE  BitOf(x, i) \in Int /\ BitOf(y, i) \in Int /\ 2^i \in Int
  <2>1. i \in Nat
    BY <1>1
  <2> QED
    BY <1>4, <2>1, BitIsInt, PowerType
<1>6. ands \in [0 .. LongBits - 1 -> Int] /\ ors \in [0 .. LongBits - 1 -> Int]
  BY <1>5
<1> HIDE DEF ands, ors
<1>7. Total(LongBits, ands) \in Int /\ Total(LongBits, ors) \in Int
  BY <1>1, <1>6, TotalIsInt
<1> QED
  BY <1>1, <1>2, <1>3, <1>7

\* g is the values of the first digits of ds, up to n of them.
ValuesOf(ds, n, g) ==
    g = [k \in 0 .. n |-> IF k = 0 THEN 0 ELSE 10 * g[k - 1] + DigitValue(ds[k])]

LEMMA ValueIsInt ==
    ASSUME NEW ds \in Seq(Digits)
    PROVE  Value(ds) \in Int
<1> DEFINE n == Len(ds)
           step == [ka \in (1 .. n) \X Int |-> 10 * ka[2] + DigitValue(ds[ka[1]])]
<1>1. n \in Nat
  OBVIOUS
<1>2. \A k \in 1 .. n : DigitValue(ds[k]) \in Int
  <2> SUFFICES ASSUME NEW k \in 1 .. n PROVE DigitValue(ds[k]) \in Int
    OBVIOUS
  <2>1. ds[k] \in Digits
    OBVIOUS
  <2> DEFINE c == CHOOSE i \in 1 .. 10 : DigitChars[i] = ds[k]
  <2>2. \E i \in 1 .. 10 : DigitChars[i] = ds[k]
    BY <2>1 DEF Digits
  <2>3. c \in 1 .. 10
    BY <2>2
  <2>4. DigitValue(ds[k]) = c - 1
    BY DEF DigitValue
  <2> HIDE DEF c
  <2> QED
    BY <2>3, <2>4
<1> HIDE DEF n
<1>3. step \in [(1 .. n) \X Int -> Int]
  BY <1>2
<1>4. \A k \in 1 .. n, a \in Int : step[<<k, a>>] = 10 * a + DigitValue(ds[k])
  OBVIOUS
<1> HIDE DEF step
<1>5. PICK h \in [0 .. n -> Int] :
         h[0] = 0 /\ \A k \in 1 .. n : h[k] = step[<<k, h[k - 1]>>]
  <2>1. \A zero \in Int : \E g \in [0 .. n -> Int] : Follows(g, n, zero, step)
    BY <1>1, <1>3, StepsExist, Zenon
  <2>2. 0 \in Int
    OBVIOUS
  <2> QED
    BY <2>1, <2>2 DEF Follows
<1>6. \A k \in 0 .. n : k # 0 => k \in 1 .. n /\ k - 1 \in 0 .. n
  BY <1>1
<1>7. \A k \in 0 .. n : h[k] = IF k = 0 THEN 0 ELSE 10 * h[k - 1] + DigitValue(ds[k])
  BY <1>4, <1>5, <1>6
<1>8. ValuesOf(ds, n, h)
  BY <1>7 DEF ValuesOf
<1> DEFINE g == CHOOSE f : ValuesOf(ds, n, f)
<1>9. Value(ds) = g[n]
  BY Zenon DEF Value, ValuesOf, n
<1>10. ValuesOf(ds, n, g)
  BY <1>8, Zenon
<1> HIDE DEF g
<1>11. \A k \in 0 .. n : g[k] = IF k = 0 THEN 0 ELSE 10 * g[k - 1] + DigitValue(ds[k])
  BY <1>10 DEF ValuesOf
<1> DEFINE Good == {k \in 0 .. n : g[k] \in Int}
<1>12. 0 \in Good
  BY <1>1, <1>11
<1>13. ASSUME NEW k \in 1 .. n, k - 1 \in Good
       PROVE  k \in Good
  <2>1. g[k - 1] \in Int /\ DigitValue(ds[k]) \in Int
    BY <1>2, <1>13
  <2>2. k \in 0 .. n /\ k # 0
    BY <1>1
  <2>3. g[k] = 10 * g[k - 1] + DigitValue(ds[k])
    BY <1>11, <2>2
  <2>4. g[k] \in Int
    BY <2>1, <2>3
  <2> QED
    BY <2>2, <2>4
<1> HIDE DEF Good
<1>14. n \in Good
  <2>1. n \in 0 .. n
    BY <1>1
  <2> QED
    BY <1>1, <1>12, <1>13, <2>1, UpFromZero
<1> QED
  BY <1>9, <1>14 DEF Good

-----------------------------------------------------------------------------
(* Moving forward in the tokens                                            *)

IsTable(env) == \A x \in DOMAIN env : env[x] \in Int

\* q is the parser at p, or further on.
Moves(p, q) == q \in Parser /\ p.pos <= q.pos

LEMMA LengthOfTokens == ASSUME IsTokens(tokens) PROVE Len(tokens) \in Nat
BY LenProperties DEF IsTokens, IsSeq

LEMMA NoTokenBehind ==
    ASSUME IsTokens(tokens), NEW p \in Parser
    PROVE  /\ Current(p) = EOF <=> p.pos > Len(tokens)
           /\ \A c : IsSym(p, c) => p.pos <= Len(tokens) /\ tokens[p.pos] = SymToken(c)
           /\ \A x : IsName(p, x) => p.pos <= Len(tokens)
           /\ IsId(p) => p.pos <= Len(tokens)
           /\ Current(p).type = "number" => Current(p).value \in Int
<1>1. Len(tokens) \in Nat /\ p.pos \in 1 .. Len(tokens) + 1
  BY LengthOfTokens DEF Parser
<1>2. CASE p.pos > Len(tokens)
  <2>1. Current(p) = EOF
    BY <1>2 DEF Current
  <2>2. EOF.type = "eof"
    BY DEF EOF
  <2>3. /\ \A c : SymToken(c).type = "symbol"
        /\ \A x : IdToken(x).type = "id"
    BY DEF SymToken, IdToken
  <2>4. /\ \A c : ~IsSym(p, c)
        /\ \A x : ~IsName(p, x)
        /\ ~IsId(p)
    BY <2>1, <2>2, <2>3 DEF IsSym, IsName, IsId
  <2> QED
    BY <1>2, <2>1, <2>2, <2>4
<1>3. CASE p.pos <= Len(tokens)
  <2>1. Current(p) = tokens[p.pos] /\ p.pos \in 1 .. Len(tokens)
    BY <1>1, <1>3 DEF Current
  <2>2. /\ tokens[p.pos].type # "eof"
        /\ tokens[p.pos].type = "number" => tokens[p.pos].value \in Int
    BY <2>1 DEF IsTokens
  <2>3. EOF.type = "eof"
    BY DEF EOF
  <2>4. \A c : IsSym(p, c) => tokens[p.pos] = SymToken(c)
    BY <2>1 DEF IsSym
  <2> QED
    BY <1>1, <1>3, <2>1, <2>2, <2>3, <2>4
<1> QED
  BY <1>1, <1>2, <1>3

LEMMA AdvanceMoves ==
    ASSUME IsTokens(tokens), NEW p \in Parser
    PROVE  /\ Moves(p, advanceToken(p))
           /\ advanceToken(p).pos = IF p.pos > Len(tokens) THEN p.pos ELSE p.pos + 1
           /\ advanceToken(p).error = p.error
           /\ advanceToken(p).val = p.val
BY LengthOfTokens DEF Moves, advanceToken, Parser

LEMMA ParserWith ==
    ASSUME NEW p \in Parser
    PROVE  /\ \A v \in Int : [p EXCEPT !.val = v] \in Parser
                              /\ [p EXCEPT !.val = v].pos = p.pos
           /\ Fail(p) \in Parser /\ Fail(p).pos = p.pos
           /\ Bad(p) \in Parser /\ Bad(p).pos = p.pos
           /\ \A i \in 1 .. Len(tokens) + 1 : From(p, i) \in Parser /\ From(p, i).pos = i
<1> DEFINE P == 1 .. Len(tokens) + 1
<1>1. p \in [pos : P, error : BOOLEAN, val : Int] /\ Parser = [pos : P, error : BOOLEAN, val : Int]
  BY DEF Parser
<1> HIDE DEF P
<1>2. \A v \in Int : [p EXCEPT !.val = v] \in Parser /\ [p EXCEPT !.val = v].pos = p.pos
  BY <1>1
<1>3. Fail(p) \in Parser /\ Fail(p).pos = p.pos
  <2>1. Fail(p) = [p EXCEPT !.error = TRUE]
    BY DEF Fail
  <2>2. [p EXCEPT !.error = TRUE] \in [pos : P, error : BOOLEAN, val : Int]
    BY <1>1
  <2>3. [p EXCEPT !.error = TRUE].pos = p.pos
    BY <1>1
  <2> QED
    BY <1>1, <2>1, <2>2, <2>3
<1>4. Bad(p) \in Parser /\ Bad(p).pos = p.pos
  <2>1. Fail(p) \in Parser /\ Fail(p).pos = p.pos /\ 0 \in Int
    BY <1>3
  <2> QED
    BY <1>1, <2>1 DEF Bad
<1>5. \A i \in P : From(p, i) \in Parser /\ From(p, i).pos = i
  BY <1>1 DEF From
<1> QED
  BY <1>2, <1>3, <1>4, <1>5 DEF P

LEMMA PrimaryMoves ==
    ASSUME IsTokens(tokens), NEW env, IsTable(env), NEW e, NEW p \in Parser,
           IsSym(p, "(") => Moves(advanceToken(p), e[advanceToken(p)])
    PROVE  Moves(p, evaluate_primary(e, env, p))
<1>1. /\ advanceToken(p) \in Parser /\ p.pos <= advanceToken(p).pos
      /\ p.pos \in Nat /\ advanceToken(p).pos \in Nat
  BY AdvanceMoves, LengthOfTokens DEF Moves, Parser
<1>2. ASSUME NEW v \in Int PROVE Moves(p, Read(p, v))
  BY <1>1, ParserWith DEF Moves, Read
<1>3. \A c : Current(p).type # "number" \/ ~IsSym(p, c)
  BY DEF IsSym, SymToken
<1>4. CASE IsId(p) /\ NameAt(p) \in DOMAIN env
  <2>1. Current(p).type = "id" /\ ~IsSym(p, "(")
    BY <1>4 DEF IsId, IsSym, SymToken
  <2>2. evaluate_primary(e, env, p) = Read(p, env[NameAt(p)])
    BY <1>4, <2>1, Zenon DEF evaluate_primary
  <2>3. env[NameAt(p)] \in Int
    BY <1>4 DEF IsTable
  <2> QED
    BY <1>2, <2>2, <2>3
<1>5. CASE ~(IsId(p) /\ NameAt(p) \in DOMAIN env) /\ Current(p).type = "number"
  <2>1. evaluate_primary(e, env, p) = Read(p, Current(p).value)
    BY <1>3, <1>5, Zenon DEF evaluate_primary
  <2>2. Current(p).value \in Int
    BY <1>5, NoTokenBehind
  <2> QED
    BY <1>2, <2>1, <2>2
<1>6. CASE /\ ~(IsId(p) /\ NameAt(p) \in DOMAIN env) /\ Current(p).type # "number"
           /\ IsSym(p, "(")
  <2> DEFINE q == e[advanceToken(p)]
  <2>1. evaluate_primary(e, env, p) = Parenthesis(e, p)
    BY <1>6, Zenon DEF evaluate_primary
  <2>2. Parenthesis(e, p) = IF IsSym(q, ")") THEN advanceToken(q) ELSE Bad(q)
    BY DEF Parenthesis
  <2>3. q \in Parser /\ advanceToken(p).pos <= q.pos
    BY <1>6 DEF Moves
  <2> HIDE DEF q
  <2>4. advanceToken(q) \in Parser /\ q.pos <= advanceToken(q).pos
    BY <2>3, AdvanceMoves DEF Moves
  <2>5. Bad(q) \in Parser /\ Bad(q).pos = q.pos
    BY <2>3, ParserWith
  <2>6. q.pos \in Nat /\ advanceToken(q).pos \in Nat
    BY <2>3, <2>4, LengthOfTokens DEF Parser
  <2> QED
    BY <1>1, <2>1, <2>2, <2>3, <2>4, <2>5, <2>6 DEF Moves
<1>7. CASE /\ ~(IsId(p) /\ NameAt(p) \in DOMAIN env) /\ Current(p).type # "number"
           /\ ~IsSym(p, "(")
  <2>1. evaluate_primary(e, env, p) = Bad(p)
    BY <1>7, Zenon DEF evaluate_primary
  <2>2. Bad(p) \in Parser /\ Bad(p).pos = p.pos
    BY ParserWith
  <2> QED
    BY <1>1, <2>1, <2>2 DEF Moves
<1> QED
  BY <1>4, <1>5, <1>6, <1>7

\* e has the values of expressions behind place i.
MovesBehind(e, i) == \A r \in Parser : r.pos > i => Moves(r, e[r])

LEMMA MovesFurther ==
    ASSUME IsTokens(tokens), NEW p \in Parser, NEW e, MovesBehind(e, p.pos),
           NEW q, Moves(p, q), IsSym(q, "(")
    PROVE  /\ advanceToken(q) \in Parser /\ advanceToken(q).pos > p.pos
           /\ Moves(advanceToken(q), e[advanceToken(q)])
<1>1. q \in Parser /\ q.pos <= Len(tokens) /\ p.pos <= q.pos
  BY NoTokenBehind DEF Moves
<1>2. advanceToken(q) \in Parser /\ advanceToken(q).pos = q.pos + 1
  BY <1>1, AdvanceMoves, LengthOfTokens DEF Moves, Parser
<1>3. advanceToken(q).pos > p.pos
  BY <1>1, <1>2, LengthOfTokens DEF Parser
<1> QED
  BY <1>2, <1>3 DEF MovesBehind

LEMMA ApplyIsInt ==
    ASSUME NEW op, NEW l \in Int, NEW r \in Int
    PROVE  Apply(op, l, r) \in Int
<1>1. OnBits(And, l, r) \in Int /\ OnBits(Or, l, r) \in Int
  BY OnBitsIsInt
<1>2. l - r \in Int /\ l * r \in Int /\ l + r \in Int /\ \A b : Truth(b) \in Int
  BY DEF Truth
<1> QED
  BY <1>1, <1>2, Zenon DEF Apply

\* The first operand of an expression and, where there is one, the second.
LEMMA OperandsMove ==
    ASSUME IsTokens(tokens), NEW env, IsTable(env), NEW p \in Parser, NEW e,
           MovesBehind(e, p.pos)
    PROVE  LET left == evaluate_primary(e, env, p)
               right == evaluate_primary(e, env, advanceToken(left))
           IN  Moves(p, left) /\ Moves(p, advanceToken(left)) /\ Moves(p, right)
<1> DEFINE left == evaluate_primary(e, env, p)
           q == advanceToken(left)
           right == evaluate_primary(e, env, q)
<1>1. Moves(p, p) /\ p.pos \in Nat
  BY LengthOfTokens DEF Moves, Parser
<1>2. Moves(p, left)
  BY <1>1, MovesFurther, PrimaryMoves
<1> HIDE DEF left
<1>3. Moves(left, q) /\ left \in Parser /\ q \in Parser
  BY <1>2, AdvanceMoves DEF Moves
<1>4. Moves(p, q)
  BY <1>2, <1>3, LengthOfTokens DEF Moves, Parser
<1> HIDE DEF q
<1>5. Moves(q, right)
  BY <1>3, <1>4, MovesFurther, PrimaryMoves
<1> HIDE DEF right
<1>6. Moves(p, right)
  BY <1>3, <1>4, <1>5, LengthOfTokens DEF Moves, Parser
<1> QED
  BY <1>2, <1>4, <1>6 DEF left, q, right

LEMMA OperationMoves ==
    ASSUME IsTokens(tokens), NEW env, IsTable(env), NEW p \in Parser, NEW e,
           MovesBehind(e, p.pos)
    PROVE  Moves(p, Operation(e, env, p))
<1> DEFINE left == evaluate_primary(e, env, p)
           right == evaluate_primary(e, env, advanceToken(left))
<1>1. Moves(p, left) /\ Moves(p, right)
  BY OperandsMove
<1>2. Operation(e, env, p) =
        IF left.error THEN [left EXCEPT !.val = 0]
        ELSE IF EndsExpression(left) THEN left
        ELSE IF right.error THEN [right EXCEPT !.val = 0]
        ELSE [right EXCEPT !.val = Apply(Current(left).symbol, left.val, right.val)]
  BY DEF Operation
<1> HIDE DEF left, right
<1>3. left.val \in Int /\ right.val \in Int
  BY <1>1 DEF Moves, Parser
<1>4. Apply(Current(left).symbol, left.val, right.val) \in Int
  BY <1>3, ApplyIsInt
<1>5. 0 \in Int
  OBVIOUS
<1>6. /\ Moves(p, [left EXCEPT !.val = 0]) /\ Moves(p, [right EXCEPT !.val = 0])
      /\ Moves(p, [right EXCEPT !.val = Apply(Current(left).symbol, left.val, right.val)])
  BY <1>1, <1>4, <1>5, ParserWith DEF Moves
<1> QED
  BY <1>1, <1>2, <1>6

LEMMA PrimaryAgrees ==
    ASSUME NEW env, NEW p, NEW e, NEW f,
           IsSym(p, "(") => e[advanceToken(p)] = f[advanceToken(p)]
    PROVE  evaluate_primary(e, env, p) = evaluate_primary(f, env, p)
<1>1. IsSym(p, "(") => Parenthesis(e, p) = Parenthesis(f, p)
  BY DEF Parenthesis
<1>2. CASE IsSym(p, "(")
  <2>1. Parenthesis(e, p) = Parenthesis(f, p)
    BY <1>1, <1>2
  <2> QED
    BY <1>2, <2>1, SMT DEF evaluate_primary
<1>3. CASE ~IsSym(p, "(")
  BY <1>3, SMT DEF evaluate_primary
<1> QED
  BY <1>2, <1>3

LEMMA OperationAgrees ==
    ASSUME IsTokens(tokens), NEW env, IsTable(env), NEW p \in Parser, NEW e, NEW f,
           MovesBehind(e, p.pos), \A r \in Parser : r.pos > p.pos => e[r] = f[r]
    PROVE  Operation(e, env, p) = Operation(f, env, p)
<1> DEFINE left == evaluate_primary(e, env, p)
           q == advanceToken(left)
<1>1. Moves(p, left) /\ Moves(p, q) /\ Moves(p, p)
  BY OperandsMove, LengthOfTokens DEF Moves, Parser
<1>2. left = evaluate_primary(f, env, p)
  BY <1>1, MovesFurther, PrimaryAgrees
<1> HIDE DEF left
<1> HIDE DEF q
<1>3. evaluate_primary(e, env, q) = evaluate_primary(f, env, q)
  BY <1>1, MovesFurther, PrimaryAgrees
<1> QED
  BY <1>2, <1>3, Zenon DEF Operation, left, q

ExpressionsOf(env, e) == e = [q \in Parser |-> Operation(e, env, q)]

LEMMA ExpressionsExist ==
    ASSUME IsTokens(tokens), NEW env, IsTable(env)
    PROVE  \E e : ExpressionsOf(env, e)
<1> DEFINE n == Len(tokens) + 1
           Good == {k \in 0 .. n : \E e :
                      /\ MovesBehind(e, n - k)
                      /\ \A q \in Parser : q.pos > n - k => e[q] = Operation(e, env, q)}
<1>1. n \in Nat \ {0} /\ \A q \in Parser : q.pos \in 1 .. n
  BY LengthOfTokens DEF Parser
<1> HIDE DEF n
<1>2. 0 \in Good
  <2>1. 0 \in 0 .. n /\ n - 0 = n
    BY <1>1
  <2>2. \A q \in Parser : ~(q.pos > n - 0)
    BY <1>1, <2>1
  <2>3. MovesBehind(<<>>, n - 0)
    BY <2>2 DEF MovesBehind
  <2> QED
    BY <2>1, <2>2, <2>3
<1>3. ASSUME NEW k \in 1 .. n, k - 1 \in Good
      PROVE  k \in Good
  <2>1. k \in 0 .. n /\ n - (k - 1) = n - k + 1 /\ n - k \in Nat
    BY <1>1
  <2>2. PICK e : /\ MovesBehind(e, n - k + 1)
                 /\ \A q \in Parser : q.pos > n - k + 1 => e[q] = Operation(e, env, q)
    BY <1>3, <2>1
  <2> DEFINE f == [q \in Parser |-> IF q.pos > n - k + 1 THEN e[q] ELSE Operation(e, env, q)]
  <2>3. \A q \in Parser : q.pos > n - k + 1 => f[q] = e[q]
    OBVIOUS
  <2>4. ASSUME NEW q \in Parser, q.pos = n - k + 1
        PROVE  f[q] = Operation(e, env, q)
    <3>1. ~(q.pos > n - k + 1)
      BY <2>1, <2>4
    <3> QED
      BY <3>1
  <2> HIDE DEF f
  <2>5. ASSUME NEW q \in Parser, q.pos > n - k
        PROVE  Moves(q, f[q]) /\ f[q] = Operation(f, env, q)
    <3>1. q.pos = n - k + 1 \/ q.pos > n - k + 1
      BY <1>1, <2>1, <2>5
    <3>2. \A r \in Parser : r.pos > q.pos => r.pos > n - k + 1
      BY <1>1, <2>1, <2>5
    <3>3. MovesBehind(e, q.pos)
      BY <2>2, <3>2 DEF MovesBehind
    <3>4. \A r \in Parser : r.pos > q.pos => e[r] = f[r]
      BY <2>3, <3>2
    <3>5. Operation(e, env, q) = Operation(f, env, q)
      BY <3>3, <3>4, OperationAgrees
    <3>6. Moves(q, Operation(e, env, q))
      BY <3>3, OperationMoves
    <3>7. f[q] = Operation(e, env, q)
      BY <2>2, <2>3, <2>4, <3>1
    <3> QED
      BY <3>5, <3>6, <3>7
  <2>6. MovesBehind(f, n - k)
    BY <2>5 DEF MovesBehind
  <2> QED
    BY <2>1, <2>5, <2>6
<1> HIDE DEF Good
<1>4. n \in Good
  <2>1. n \in 0 .. n /\ n \in Nat
    BY <1>1
  <2> QED
    BY <1>2, <1>3, <2>1, UpFromZero
<1>5. PICK e : /\ MovesBehind(e, n - n)
               /\ \A q \in Parser : q.pos > n - n => e[q] = Operation(e, env, q)
  BY <1>4 DEF Good
<1>6. \A q \in Parser : q.pos > n - n
  BY <1>1
<1> DEFINE f == [q \in Parser |-> e[q]]
<1>7. \A q \in Parser : f[q] = e[q]
  OBVIOUS
<1>8. ASSUME NEW q \in Parser PROVE f[q] = Operation(f, env, q)
  <2>1. MovesBehind(e, q.pos)
    BY <1>5, <1>6 DEF MovesBehind
  <2>2. Operation(e, env, q) = Operation(f, env, q)
    BY <1>7, <2>1, OperationAgrees
  <2> QED
    BY <1>5, <1>6, <1>7, <2>2
<1>9. f = [q \in Parser |-> Operation(f, env, q)]
  BY <1>8
<1> HIDE DEF f
<1> QED
  BY <1>9 DEF ExpressionsOf

\* An expression is read from its first token on and ends in the program, whatever
\* stands there, and its value is a number.
LEMMA ExpressionMoves ==
    ASSUME IsTokens(tokens), NEW env, IsTable(env), NEW p \in Parser
    PROVE  Moves(p, evaluate_expression(env, p))
<1> DEFINE e == CHOOSE f : ExpressionsOf(env, f)
           n == Len(tokens) + 1
<1>1. evaluate_expression(env, p) = e[p]
  BY Zenon DEF evaluate_expression, ExpressionsOf
<1>2. ExpressionsOf(env, e)
  BY ExpressionsExist, Zenon
<1> HIDE DEF e
<1>3. \A q \in Parser : e[q] = Operation(e, env, q)
  BY <1>2 DEF ExpressionsOf
<1>4. n \in Nat \ {0} /\ \A q \in Parser : q.pos \in 1 .. n
  BY LengthOfTokens DEF Parser
<1> HIDE DEF n
<1> DEFINE Good == {k \in 0 .. n : MovesBehind(e, n - k)}
<1>5. 0 \in Good
  <2>1. 0 \in 0 .. n /\ n - 0 = n
    BY <1>4
  <2> QED
    BY <1>4, <2>1 DEF MovesBehind
<1>6. ASSUME NEW k \in 1 .. n, k - 1 \in Good
      PROVE  k \in Good
  <2>1. k \in 0 .. n /\ n - (k - 1) = n - k + 1 /\ n - k \in Nat
    BY <1>4
  <2>2. MovesBehind(e, n - k + 1)
    BY <1>6, <2>1
  <2>3. ASSUME NEW q \in Parser, q.pos > n - k
        PROVE  Moves(q, e[q])
    <3>1. \A r \in Parser : r.pos > q.pos => r.pos > n - k + 1
      BY <1>4, <2>1, <2>3
    <3>2. MovesBehind(e, q.pos)
      BY <2>2, <3>1 DEF MovesBehind
    <3> QED
      BY <1>3, <3>2, OperationMoves
  <2> QED
    BY <2>1, <2>3 DEF MovesBehind
<1> HIDE DEF Good
<1>7. n \in Good
  <2>1. n \in 0 .. n /\ n \in Nat
    BY <1>4
  <2> QED
    BY <1>5, <1>6, <2>1, UpFromZero
<1>8. MovesBehind(e, n - n) /\ p.pos > n - n
  BY <1>4, <1>7 DEF Good
<1> QED
  BY <1>1, <1>8 DEF MovesBehind

LEMMA FirstMoves ==
    ASSUME IsTokens(tokens), NEW p \in Parser, NEW places \in SUBSET (p.pos .. Len(tokens))
    PROVE  First(places) \in p.pos .. Len(tokens) + 1
<1>1. CASE places = {}
  BY <1>1, LengthOfTokens DEF First, Parser
<1>2. CASE places # {}
  <2>1. places \in SUBSET Nat
    BY LengthOfTokens DEF Parser
  <2>2. \E i \in places : \A j \in places : i <= j
    BY <1>2, <2>1, LeastNatural
  <2> DEFINE c == CHOOSE i \in places : \A j \in places : i <= j
  <2>3. First(places) = c
    BY <1>2 DEF First
  <2>4. c \in places
    BY <2>2
  <2> HIDE DEF c
  <2>5. c \in p.pos .. Len(tokens)
    BY <2>4
  <2>6. c \in p.pos .. Len(tokens) + 1
    BY <2>5, LengthOfTokens DEF Parser
  <2> QED
    BY <2>3, <2>6
<1> QED
  BY <1>1, <1>2

LEMMA FromFirst ==
    ASSUME IsTokens(tokens), NEW p \in Parser, NEW places \in SUBSET (p.pos .. Len(tokens))
    PROVE  Moves(p, From(p, First(places))) /\ Moves(p, Fail(From(p, First(places))))
<1> DEFINE i == First(places)
<1>1. i \in 1 .. Len(tokens) + 1 /\ p.pos <= i
  BY FirstMoves, LengthOfTokens DEF Parser
<1> HIDE DEF i
<1>2. From(p, i) \in Parser /\ From(p, i).pos = i
  BY <1>1, ParserWith
<1> QED
  BY <1>1, <1>2, ParserWith DEF Moves, i

LEMMA SkipMoves ==
    ASSUME IsTokens(tokens), NEW p \in Parser
    PROVE  Moves(p, skip_block(p)) /\ Moves(p, recover_statement(p))
<1> DEFINE upTo(places, i) == Cardinality({j \in places : j <= i})
           closing == {i \in Ahead(p, "}") :
                         upTo(Ahead(p, "{"), i) = upTo(Ahead(p, "}"), i)}
           ends == Ahead(p, ";") \cup Ahead(p, "}")
<1>1. /\ closing \in SUBSET (p.pos .. Len(tokens)) /\ {} \in SUBSET (p.pos .. Len(tokens))
      /\ ends \in SUBSET (p.pos .. Len(tokens))
  BY DEF Ahead
<1>2. Moves(p, Fail(p))
  BY ParserWith, LengthOfTokens DEF Moves, Parser
<1>3. skip_block(p) \in {Fail(p), Fail(From(p, First({}))), From(p, First(closing))}
  BY DEF skip_block
<1>4. recover_statement(p) = From(p, First(ends))
  BY DEF recover_statement
<1> HIDE DEF closing, ends
<1> QED
  BY <1>1, <1>2, <1>3, <1>4, FromFirst

-----------------------------------------------------------------------------
(* The measure: n is the number of tokens, ctl a C stack.                  *)

\* Twice the tokens from place i on.
Rest(n, i) == 2 * (n + 1 - i)

\* The place a loop or a call comes back to.
Saved(f) ==
    CASE f.kind = "while" -> f.cond [] f.kind = "for" -> f.body [] OTHER -> f.return

\* How often a for loop still runs its body.
TurnsOf(f) == IF f.kind = "for" /\ f.counter <= f.end THEN f.end + 1 - f.counter ELSE 0

Weight(n, f) == <<Rest(n, Saved(f)) + 1, TurnsOf(f), 0>>

\* The weights of the loops and calls in progress; a block has none of its own.
Weights(n, ctl) ==
    LET w[k \in 0 .. Len(ctl)] ==
          IF k = 0 THEN <<>>
          ELSE IF ctl[k].kind = "block" THEN w[k - 1]
          ELSE Append(w[k - 1], Weight(n, ctl[k]))
    IN  w[Len(ctl)]

\* How far a statement is from its end.
Rank(n, where, i) ==
    CASE where \in {"start", "block"} -> (IF i > n THEN 1 ELSE 4)
      [] where = "statement" -> 3
      [] where = "done" -> 0
      [] OTHER -> 2

\* What is left where the interpreter is: a loop between two turns may go on anywhere.
Here(n, where, i, ctl) ==
    <<IF where = "loop" THEN Rest(n, 1) + 1 ELSE Rest(n, i), Len(ctl), Rank(n, where, i)>>

WorkOf(n, where, i, ctl) == Append(Weights(n, ctl), Here(n, where, i, ctl))

Triples == Nat \X Nat \X Nat

\* The lexicographic orders of three numbers and of sequences of them.
IsBelow(u, v) ==
    \/ u[1] < v[1]
    \/ u[1] = v[1] /\ u[2] < v[2]
    \/ u[1] = v[1] /\ u[2] = v[2] /\ u[3] < v[3]

IsLess(s, t) ==
    \E i \in 1 .. Len(s) :
       /\ i <= Len(t) /\ s[i] \in Triples /\ t[i] \in Triples /\ IsBelow(s[i], t[i])
       /\ \A j \in 1 .. i - 1 : s[j] = t[j]

\* Frames of a program of n tokens, as far as the measure looks at them.
Weighs(n, f) ==
    \/ f.kind = "block"
    \/ Saved(f) \in 1 .. n + 1 /\ (f.kind = "for" => f.counter \in Int /\ f.end \in Int)

LEMMA WeightType ==
    ASSUME NEW n \in Nat, NEW f, Weighs(n, f), f.kind # "block"
    PROVE  Weight(n, f) \in Triples
<1>1. Rest(n, Saved(f)) + 1 \in Nat
  BY DEF Weighs, Rest
<1>2. TurnsOf(f) \in Nat
  BY DEF Weighs, TurnsOf
<1> QED
  BY <1>1, <1>2 DEF Weight, Triples

\* w is the weights of the first frames of ctl, up to k of them.
WeightsUpTo(n, ctl, k, w) ==
    w = [j \in 0 .. k |-> IF j = 0 THEN <<>>
                          ELSE IF ctl[j].kind = "block" THEN w[j - 1]
                          ELSE Append(w[j - 1], Weight(n, ctl[j]))]

LEMMA WeightsExist ==
    ASSUME NEW n \in Nat, NEW S, \A f \in S : Weighs(n, f), NEW ctl \in Seq(S)
    PROVE  \E w \in [0 .. Len(ctl) -> Seq(Triples)] : WeightsUpTo(n, ctl, Len(ctl), w)
<1> DEFINE k == Len(ctl)
           T == Seq(Triples)
           step == [js \in (1 .. k) \X T |->
                      IF ctl[js[1]].kind = "block" THEN js[2]
                      ELSE Append(js[2], Weight(n, ctl[js[1]]))]
<1>1. k \in Nat /\ <<>> \in T
  BY EmptySeq
<1>2. \A j \in 1 .. k, s \in T :
         step[<<j, s>>] = IF ctl[j].kind = "block" THEN s ELSE Append(s, Weight(n, ctl[j]))
  OBVIOUS
<1>3. ASSUME NEW j \in 1 .. k, NEW s \in T
      PROVE  (IF ctl[j].kind = "block" THEN s ELSE Append(s, Weight(n, ctl[j]))) \in T
  <2>1. ctl[j] \in S
    OBVIOUS
  <2>2. ctl[j].kind # "block" => Weight(n, ctl[j]) \in Triples
    BY <2>1, WeightType
  <2> QED
    BY <2>2, AppendProperties
<1>4. step \in [(1 .. k) \X T -> T]
  BY <1>3
<1> HIDE DEF k, T, step
<1>5. PICK w \in [0 .. k -> T] : Follows(w, k, <<>>, step)
  BY <1>1, <1>4, StepsExist, Zenon
<1>6. \A j \in 0 .. k : j # 0 => j \in 1 .. k /\ j - 1 \in 0 .. k
  BY <1>1
<1>7. \A j \in 0 .. k : w[j] = IF j = 0 THEN <<>>
                               ELSE IF ctl[j].kind = "block" THEN w[j - 1]
                               ELSE Append(w[j - 1], Weight(n, ctl[j]))
  BY <1>2, <1>5, <1>6 DEF Follows
<1> QED
  BY <1>7 DEF WeightsUpTo, k, T

SameUpTo(k, a, b) == \A j \in 1 .. k : a[j] = b[j]

\* The weights are determined by the frames.
LEMMA WeightsAreOne ==
    ASSUME NEW n \in Nat, NEW a, NEW b, NEW k \in Nat, NEW l \in Nat,
           k <= l, SameUpTo(k, a, b),
           NEW v, WeightsUpTo(n, a, k, v), NEW w, WeightsUpTo(n, b, l, w)
    PROVE  v[k] = w[k]
<1> DEFINE Same == {j \in 0 .. k : v[j] = w[j]}
<1>1. \A j \in 0 .. k : v[j] = IF j = 0 THEN <<>>
                               ELSE IF a[j].kind = "block" THEN v[j - 1]
                               ELSE Append(v[j - 1], Weight(n, a[j]))
  BY DEF WeightsUpTo
<1>2. \A j \in 0 .. l : w[j] = IF j = 0 THEN <<>>
                               ELSE IF b[j].kind = "block" THEN w[j - 1]
                               ELSE Append(w[j - 1], Weight(n, b[j]))
  BY DEF WeightsUpTo
<1>3. 0 \in Same
  BY <1>1, <1>2
<1>4. ASSUME NEW j \in 1 .. k, j - 1 \in Same
      PROVE  j \in Same
  <2>1. j # 0 /\ j \in 0 .. l /\ j \in 0 .. k
    OBVIOUS
  <2>2. v[j - 1] = w[j - 1] /\ a[j] = b[j]
    BY <1>4 DEF SameUpTo
  <2>3. v[j] = IF a[j].kind = "block" THEN v[j - 1] ELSE Append(v[j - 1], Weight(n, a[j]))
    BY <1>1, <2>1
  <2>4. w[j] = IF b[j].kind = "block" THEN w[j - 1] ELSE Append(w[j - 1], Weight(n, b[j]))
    BY <1>2, <2>1
  <2> QED
    BY <2>1, <2>2, <2>3, <2>4
<1> HIDE DEF Same
<1>5. k \in Same
  <2>1. k \in 0 .. k
    OBVIOUS
  <2> QED
    BY <1>3, <1>4, <2>1, UpFromZero
<1> QED
  BY <1>5 DEF Same

LEMMA WeightsOfStack ==
    ASSUME NEW n \in Nat, NEW S, \A f \in S : Weighs(n, f), NEW ctl \in Seq(S)
    PROVE  \E w : /\ WeightsUpTo(n, ctl, Len(ctl), w)
                  /\ Weights(n, ctl) = w[Len(ctl)] /\ w[Len(ctl)] \in Seq(Triples)
<1> DEFINE v == CHOOSE w : WeightsUpTo(n, ctl, Len(ctl), w)
<1>1. Weights(n, ctl) = v[Len(ctl)]
  BY Zenon DEF Weights, WeightsUpTo
<1>2. PICK w : WeightsUpTo(n, ctl, Len(ctl), w) /\ w[Len(ctl)] \in Seq(Triples)
  <2>1. PICK w \in [0 .. Len(ctl) -> Seq(Triples)] : WeightsUpTo(n, ctl, Len(ctl), w)
    BY WeightsExist
  <2>2. Len(ctl) \in 0 .. Len(ctl)
    BY LenProperties
  <2> QED
    BY <2>1, <2>2
<1>3. WeightsUpTo(n, ctl, Len(ctl), v)
  BY <1>2, Zenon
<1> HIDE DEF v
<1>4. v[Len(ctl)] = w[Len(ctl)]
  <2>1. SameUpTo(Len(ctl), ctl, ctl) /\ Len(ctl) \in Nat /\ Len(ctl) <= Len(ctl)
    BY LenProperties DEF SameUpTo
  <2> QED
    BY <1>2, <1>3, <2>1, WeightsAreOne
<1> QED
  BY <1>1, <1>2, <1>4

LEMMA WeightsAppend ==
    ASSUME NEW n \in Nat, NEW S, \A f \in S : Weighs(n, f), NEW ctl \in Seq(S), NEW f \in S
    PROVE  /\ Weights(n, ctl) \in Seq(Triples)
           /\ Weights(n, Append(ctl, f)) =
                IF f.kind = "block" THEN Weights(n, ctl)
                ELSE Append(Weights(n, ctl), Weight(n, f))
<1> DEFINE more == Append(ctl, f)
           k == Len(ctl)
           m == k + 1
<1>1. /\ more \in Seq(S) /\ Len(more) = m /\ k \in Nat
      /\ more[m] = f /\ \A j \in 1 .. k : ctl[j] = more[j]
  BY AppendProperties, LenProperties
<1>2. m \in Nat /\ m # 0 /\ m - 1 = k /\ m \in 0 .. m /\ k <= m /\ k <= k /\ k \in 0 .. k
  BY <1>1
<1> HIDE DEF more, m
<1>3. PICK v : WeightsUpTo(n, ctl, k, v) /\ Weights(n, ctl) = v[k] /\ v[k] \in Seq(Triples)
  BY WeightsOfStack
<1>4. PICK w : WeightsUpTo(n, more, m, w) /\ Weights(n, more) = w[m]
  BY <1>1, WeightsOfStack
<1> HIDE DEF k
<1>5. v[k] = w[k]
  <2>1. SameUpTo(k, ctl, more)
    BY <1>1 DEF SameUpTo
  <2>2. WeightsUpTo(n, ctl, k, v)
    BY <1>3
  <2>3. WeightsUpTo(n, more, m, w)
    BY <1>4
  <2>4. k \in Nat /\ m \in Nat /\ k <= k /\ k <= m
    BY <1>1, <1>2
  <2> QED
    BY <2>1, <2>2, <2>3, <2>4, WeightsAreOne
<1>6. w[m] = IF more[m].kind = "block" THEN w[m - 1]
             ELSE Append(w[m - 1], Weight(n, more[m]))
  <2>1. \A j \in 0 .. m :
           w[j] = IF j = 0 THEN <<>>
                  ELSE IF more[j].kind = "block" THEN w[j - 1]
                  ELSE Append(w[j - 1], Weight(n, more[j]))
    BY <1>4 DEF WeightsUpTo
  <2> QED
    BY <1>2, <2>1
<1>7. v[k] \in Seq(Triples)
  BY <1>3
<1> QED
  BY <1>1, <1>2, <1>3, <1>4, <1>5, <1>6, <1>7 DEF more

-----------------------------------------------------------------------------
(* What makes it less                                                      *)

LEMMA AppendAt ==
    ASSUME NEW S, NEW s \in Seq(S), NEW x
    PROVE  /\ Len(Append(s, x)) = Len(s) + 1 /\ Append(s, x)[Len(s) + 1] = x
           /\ \A j \in 1 .. Len(s) : Append(s, x)[j] = s[j]
<1>1. s \in Seq(S \cup {x}) /\ x \in S \cup {x}
  <2>1. S \subseteq S \cup {x}
    OBVIOUS
  <2> QED
    BY <2>1, SeqMonotonic
<1> QED
  BY <1>1, AppendProperties

LEMMA HereType ==
    ASSUME NEW n \in Nat, NEW where, NEW i \in 1 .. n + 1, NEW S, NEW ctl \in Seq(S)
    PROVE  Here(n, where, i, ctl) \in Triples
<1>1. Rest(n, 1) + 1 \in Nat /\ Rest(n, i) \in Nat
  BY DEF Rest
<1>2. Len(ctl) \in Nat
  BY LenProperties
<1>3. Rank(n, where, i) \in Nat
  BY DEF Rank
<1> QED
  BY <1>1, <1>2, <1>3, Zenon DEF Here, Triples

\* The interpreter goes on with the same loops and calls.
LEMMA LessHere ==
    ASSUME NEW W \in Seq(Triples), NEW u \in Triples, NEW v \in Triples, IsBelow(u, v)
    PROVE  IsLess(Append(W, u), Append(W, v))
<1>1. /\ Len(Append(W, u)) = Len(W) + 1 /\ Append(W, u)[Len(W) + 1] = u
      /\ Len(Append(W, v)) = Len(W) + 1 /\ Append(W, v)[Len(W) + 1] = v
      /\ \A j \in 1 .. Len(W) : Append(W, u)[j] = W[j] /\ Append(W, v)[j] = W[j]
  BY AppendAt
<1>2. Len(W) \in Nat
  BY LenProperties
<1>3. Len(W) + 1 \in 1 .. Len(W) + 1 /\ 1 .. Len(W) + 1 - 1 = 1 .. Len(W)
  BY <1>2
<1> QED
  BY <1>1, <1>2, <1>3 DEF IsLess

\* A loop or a call begins.
LEMMA LessDown ==
    ASSUME NEW W \in Seq(Triples), NEW u \in Triples, NEW v \in Triples, IsBelow(u, v),
           NEW x \in Triples
    PROVE  IsLess(Append(Append(W, u), x), Append(W, v))
<1> DEFINE s == Append(Append(W, u), x)
           t == Append(W, v)
<1>0. Append(W, u) \in Seq(Triples)
  BY AppendProperties
<1>1. /\ Len(Append(W, u)) = Len(W) + 1 /\ Append(W, u)[Len(W) + 1] = u
      /\ Len(t) = Len(W) + 1 /\ t[Len(W) + 1] = v
      /\ \A j \in 1 .. Len(W) : Append(W, u)[j] = W[j] /\ t[j] = W[j]
  BY AppendAt
<1>2. Len(W) \in Nat
  BY LenProperties
<1>3. /\ Len(s) = Len(W) + 1 + 1
      /\ \A j \in 1 .. Len(W) + 1 : s[j] = Append(W, u)[j]
  BY <1>0, <1>1, AppendAt
<1> HIDE DEF s, t
<1>4. /\ Len(W) + 1 \in 1 .. Len(s) /\ 1 .. Len(W) + 1 - 1 = 1 .. Len(W)
      /\ Len(W) + 1 \in 1 .. Len(W) + 1
      /\ \A j \in 1 .. Len(W) : j \in 1 .. Len(W) + 1
  BY <1>2, <1>3
<1>5. s[Len(W) + 1] = u /\ \A j \in 1 .. Len(W) : s[j] = t[j]
  BY <1>1, <1>3, <1>4
<1>6. IsLess(s, t)
  BY <1>1, <1>4, <1>5, <1>2 DEF IsLess
<1> QED
  BY <1>6 DEF s, t

\* A loop or a call ends.
LEMMA LessUp ==
    ASSUME NEW W \in Seq(Triples), NEW u \in Triples, NEW v \in Triples, IsBelow(u, v),
           NEW x \in Triples
    PROVE  IsLess(Append(W, u), Append(Append(W, v), x))
<1> DEFINE s == Append(W, u)
           t == Append(Append(W, v), x)
<1>0. Append(W, v) \in Seq(Triples)
  BY AppendProperties
<1>1. /\ Len(Append(W, v)) = Len(W) + 1 /\ Append(W, v)[Len(W) + 1] = v
      /\ Len(s) = Len(W) + 1 /\ s[Len(W) + 1] = u
      /\ \A j \in 1 .. Len(W) : Append(W, v)[j] = W[j] /\ s[j] = W[j]
  BY AppendAt
<1>2. Len(W) \in Nat
  BY LenProperties
<1>3. /\ Len(t) = Len(W) + 1 + 1
      /\ \A j \in 1 .. Len(W) + 1 : t[j] = Append(W, v)[j]
  BY <1>0, <1>1, AppendAt
<1> HIDE DEF s, t
<1>4. /\ Len(W) + 1 \in 1 .. Len(s) /\ 1 .. Len(W) + 1 - 1 = 1 .. Len(W)
      /\ Len(W) + 1 \in 1 .. Len(W) + 1 /\ Len(W) + 1 <= Len(t)
      /\ \A j \in 1 .. Len(W) : j \in 1 .. Len(W) + 1
  BY <1>1, <1>2, <1>3
<1>5. t[Len(W) + 1] = v /\ \A j \in 1 .. Len(W) : s[j] = t[j]
  BY <1>1, <1>3, <1>4
<1>6. IsLess(s, t)
  BY <1>1, <1>4, <1>5, <1>2 DEF IsLess
<1> QED
  BY <1>6 DEF s, t

\* A loop takes its next turn.
LEMMA LessTurn ==
    ASSUME NEW W \in Seq(Triples), NEW u \in Triples, NEW v \in Triples, IsBelow(u, v),
           NEW x \in Triples, NEW y \in Triples
    PROVE  IsLess(Append(Append(W, u), x), Append(Append(W, v), y))
<1> DEFINE s == Append(Append(W, u), x)
           t == Append(Append(W, v), y)
<1>0. Append(W, u) \in Seq(Triples) /\ Append(W, v) \in Seq(Triples)
  BY AppendProperties
<1>1. /\ Len(Append(W, u)) = Len(W) + 1 /\ Append(W, u)[Len(W) + 1] = u
      /\ Len(Append(W, v)) = Len(W) + 1 /\ Append(W, v)[Len(W) + 1] = v
      /\ \A j \in 1 .. Len(W) : Append(W, u)[j] = W[j] /\ Append(W, v)[j] = W[j]
  BY AppendAt
<1>2. Len(W) \in Nat
  BY LenProperties
<1>3. /\ Len(s) = Len(W) + 1 + 1 /\ Len(t) = Len(W) + 1 + 1
      /\ \A j \in 1 .. Len(W) + 1 : s[j] = Append(W, u)[j] /\ t[j] = Append(W, v)[j]
  BY <1>0, <1>1, AppendAt
<1> HIDE DEF s, t
<1>4. /\ Len(W) + 1 \in 1 .. Len(s) /\ 1 .. Len(W) + 1 - 1 = 1 .. Len(W)
      /\ Len(W) + 1 \in 1 .. Len(W) + 1 /\ Len(W) + 1 <= Len(t)
      /\ \A j \in 1 .. Len(W) : j \in 1 .. Len(W) + 1
  BY <1>2, <1>3
<1>5. s[Len(W) + 1] = u /\ t[Len(W) + 1] = v /\ \A j \in 1 .. Len(W) : s[j] = t[j]
  BY <1>1, <1>3, <1>4
<1>6. IsLess(s, t)
  BY <1>3, <1>4, <1>5, <1>2 DEF IsLess
<1> QED
  BY <1>6 DEF s, t

-----------------------------------------------------------------------------
(* Types                                                                   *)

Places == 1 .. Len(tokens) + 1
PlacesOf(c) == {i \in 1 .. Len(tokens) : tokens[i] = SymToken(c)}
Names == {tokens[i].name : i \in {j \in 1 .. Len(tokens) : tokens[j].type = "id"}}

\* A loop or a call that comes back to what it has seen there.
Block == [kind |-> "block"]
Frame ==
    [kind : {"block"}] \cup [kind : {"while"}, cond : Places]
      \cup [kind : {"for"}, var : Names, counter : Int, end : Int, body : PlacesOf("{")]
      \cup [kind : {"call"}, return : PlacesOf(";")]
Declared == [name : Names, body : Places]

RunTypeOK ==
    /\ IsTokens(tokens)
    /\ parser \in Parser
    /\ IsTable(vars)
    /\ funcs \in Seq(Declared)
    /\ control \in Seq(Frame)

\* No for loop has counted beyond its end.
Counted(ctl) ==
    \A i \in 1 .. Len(ctl) : ctl[i].kind = "for" => ctl[i].counter <= ctl[i].end

\* Only a for loop that is to take its next turn may have counted one too far.
StackOK ==
    /\ at \in {"lexing", "start", "statement", "block", "loop", "returned", "done"}
    /\ at = "block" => OnTop("block")
    /\ at = "loop" => OnTop("while") \/ OnTop("for")
    /\ Counted(IF at = "loop" THEN Popped ELSE control)

FreshUntilStart ==
    /\ at \in {"lexing", "start"} => BasicInit
    /\ at = "lexing" => numBuffer \in Seq(Digits)

RunInv == RunTypeOK /\ StackOK /\ FreshUntilStart

\* q is a parser at place i or further on.
Behind(q, i) == q \in Parser /\ i <= q.pos

LEMMA Further ==
    ASSUME IsTokens(tokens), NEW i \in Nat, NEW q, Behind(q, i)
    PROVE  /\ Behind(advanceToken(q), i) /\ Behind(Fail(q), i)
           /\ Behind(skip_block(q), i) /\ Behind(recover_statement(q), i)
           /\ \A env : IsTable(env) => Behind(evaluate_expression(env, q), i)
           /\ \A env, x : Behind(AfterSet(env, x, q), i)
           /\ Behind([q EXCEPT !.error = FALSE], i)
<1>1. q \in Parser /\ q.pos \in Nat /\ i <= q.pos
  BY LengthOfTokens DEF Behind, Parser
<1>2. ASSUME NEW r, Moves(q, r)
      PROVE  Behind(r, i)
  <2>1. r \in Parser /\ r.pos \in Nat /\ q.pos <= r.pos
    BY <1>2, LengthOfTokens DEF Moves, Parser
  <2> QED
    BY <1>1, <2>1 DEF Behind
<1>3. Moves(q, advanceToken(q)) /\ Moves(q, skip_block(q)) /\ Moves(q, recover_statement(q))
  BY <1>1, AdvanceMoves, SkipMoves
<1>4. Moves(q, Fail(q)) /\ Moves(q, q)
  <2>1. Fail(q) \in Parser /\ Fail(q).pos = q.pos
    BY <1>1, ParserWith
  <2> QED
    BY <1>1, <2>1 DEF Moves
<1>5. \A env : IsTable(env) => Moves(q, evaluate_expression(env, q))
  BY <1>1, ExpressionMoves
<1>6. \A env, x : AfterSet(env, x, q) = q \/ AfterSet(env, x, q) = Fail(q)
  BY DEF AfterSet
<1>7. Moves(q, [q EXCEPT !.error = FALSE])
  <2>1. [q EXCEPT !.error = FALSE] \in Parser /\ [q EXCEPT !.error = FALSE].pos = q.pos
    BY <1>1 DEF Parser
  <2> QED
    BY <1>1, <2>1 DEF Moves
<1> QED
  BY <1>2, <1>3, <1>4, <1>5, <1>6, <1>7

\* Where the current token is known, the next place is further on.
LEMMA NextIsFurther ==
    ASSUME IsTokens(tokens), NEW i \in Nat, NEW q, Behind(q, i),
           IsId(q) \/ \E c : IsSym(q, c)
    PROVE  Behind(advanceToken(q), i + 1) /\ q.pos \in 1 .. Len(tokens)
<1>1. q \in Parser /\ q.pos \in 1 .. Len(tokens) + 1 /\ i <= q.pos
  BY DEF Behind, Parser
<1>2. q.pos <= Len(tokens)
  BY <1>1, NoTokenBehind
<1>3. advanceToken(q) \in Parser /\ advanceToken(q).pos = q.pos + 1
  BY <1>1, <1>2, AdvanceMoves, LengthOfTokens DEF Moves
<1> QED
  BY <1>1, <1>2, <1>3, LengthOfTokens DEF Behind

LEMMA SymbolPlace ==
    ASSUME IsTokens(tokens), NEW q \in Parser, NEW c, IsSym(q, c)
    PROVE  q.pos \in PlacesOf(c)
BY NoTokenBehind, LengthOfTokens DEF Parser, PlacesOf

LEMMA NamePlace ==
    ASSUME IsTokens(tokens), NEW q \in Parser, IsId(q)
    PROVE  NameAt(q) \in Names
<1>1. q.pos \in 1 .. Len(tokens)
  BY NoTokenBehind, LengthOfTokens DEF Parser
<1>2. Current(q) = tokens[q.pos] /\ tokens[q.pos].type = "id"
  BY <1>1, LengthOfTokens DEF Current, IsId
<1> QED
  BY <1>1, <1>2 DEF NameAt, Names

LEMMA MarkedPlace ==
    ASSUME IsTokens(tokens), tokens # <<>>, NEW q \in Parser
    PROVE  Marked(q) \in Places /\ \A i \in 1 .. Len(tokens) : i < q.pos => i <= Marked(q)
<1>1. Len(tokens) \in Nat \ {0}
  BY EmptySeq, LenProperties DEF IsTokens, IsSeq
<1> QED
  BY <1>1 DEF Marked, Places, Parser

LEMMA SetTable ==
    ASSUME NEW env, IsTable(env), NEW x, NEW v \in Int
    PROVE  IsTable(Set(env, x, v))
BY DEF IsTable, Set

LEMMA ClearedParser ==
    ASSUME parser \in Parser
    PROVE  /\ Cleared \in Parser /\ Cleared.pos = parser.pos
           /\ Current(Cleared) = Current(parser)
BY DEF Cleared, Parser, Current

-----------------------------------------------------------------------------
(* What a step does to the place and to the C stack                        *)

DataOK == tokens' = tokens /\ IsTable(vars') /\ funcs' \in Seq(Declared)

\* A statement has ended where it began or further on.
Returns == at' = "returned" /\ control' = control /\ Behind(parser', parser.pos)

\* execute_block at q, with the frames ctl below it.
Enters(q, i, ctl) ==
    /\ Behind(q, i)
    /\ \/ /\ at' = "block" /\ control' = Append(ctl, Block) /\ Behind(parser', i)
       \/ /\ at' = "returned" /\ control' = ctl /\ Behind(parser', i)

EntersBlock == \E q : Enters(q, parser.pos + 1, control)

EntersLoop ==
    \E f \in Frame : /\ f.kind \in {"while", "for"} /\ Saved(f) > parser.pos
                     /\ at' = "loop" /\ control' = Append(control, f) /\ parser' \in Parser

Calls ==
    \E f \in Frame : /\ f.kind = "call" /\ Saved(f) > parser.pos
                     /\ \E q : Enters(q, 1, Append(control, f))

StatementDone ==
    at = "statement" /\ DataOK /\ (Returns \/ EntersBlock \/ EntersLoop \/ Calls)

LEMMA EnterBlock ==
    ASSUME IsTokens(tokens), NEW i \in Nat, NEW q, Behind(q, i), NEW ctl,
           execute_block(q, ctl)
    PROVE  Enters(q, i, ctl)
<1>1. Behind(advanceToken(q), i) /\ Behind(Fail(q), i)
  BY Further
<1> QED
  BY <1>1 DEF Enters, execute_block, Return, Block

LEMMA KeepDataOK ==
    ASSUME RunTypeOK, KeepData
    PROVE  DataOK
BY DEF RunTypeOK, KeepData, DataOK, lexVars

LEMMA Here1 ==
    ASSUME RunTypeOK
    PROVE  /\ IsTokens(tokens) /\ parser.pos \in Nat /\ parser \in Parser
           /\ Behind(parser, parser.pos) /\ Behind(Cleared, parser.pos)
<1>1. IsTokens(tokens) /\ parser \in Parser /\ parser.pos \in 1 .. Len(tokens) + 1
  BY DEF RunTypeOK, Parser
<1> QED
  BY <1>1, ClearedParser, LengthOfTokens DEF Behind

LEMMA NameIsId ==
    ASSUME NEW q, NEW x, IsName(q, x)
    PROVE  IsId(q) /\ \A c : ~IsSym(q, c)
BY DEF IsName, IsId, IdToken, IsSym, SymToken

\* The keyword or name that a statement begins with.
LEMMA Begins ==
    ASSUME RunTypeOK, IsId(parser)
    PROVE  /\ Behind(advanceToken(Cleared), parser.pos + 1)
           /\ parser.pos \in 1 .. Len(tokens) /\ tokens # <<>>
<1>1. IsTokens(tokens) /\ parser.pos \in Nat /\ Behind(Cleared, parser.pos) /\ parser \in Parser
  BY Here1
<1>2. IsId(Cleared) /\ Cleared.pos = parser.pos
  BY <1>1, ClearedParser DEF IsId
<1>3. Behind(advanceToken(Cleared), parser.pos + 1) /\ parser.pos \in 1 .. Len(tokens)
  BY <1>1, <1>2, NextIsFurther
<1>4. tokens # <<>>
  BY <1>3, EmptySeq
<1> QED
  BY <1>3, <1>4

LEMMA NearerIsFurther ==
    ASSUME NEW i \in Nat, NEW q, Behind(q, i + 1)
    PROVE  Behind(q, i)
<1>1. q.pos \in Int /\ i + 1 <= q.pos
  BY DEF Behind, Parser
<1> QED
  BY <1>1 DEF Behind

LEMMA NoStatement ==
    ASSUME RunTypeOK, NotAStatement
    PROVE  StatementDone
<1>1. Behind(Fail(parser), parser.pos) /\ Behind(Cleared, parser.pos)
  BY Here1, Further
<1>2. DataOK
  BY KeepDataOK DEF NotAStatement
<1>3. at = "statement" /\ at' = "returned" /\ parser' \in {Cleared, Fail(parser)}
      /\ control' = control
  BY DEF NotAStatement, Return
<1> QED
  BY <1>1, <1>2, <1>3 DEF StatementDone, Returns

LEMMA Printed ==
    ASSUME RunTypeOK, execute_print_statement
    PROVE  StatementDone
<1> DEFINE i == parser.pos
           p == advanceToken(Cleared)
           q == advanceToken(p)
<1>1. IsTokens(tokens) /\ i \in Nat /\ Behind(Cleared, i)
  BY Here1
<1>2. Behind(p, i)
  BY <1>1, Further
<1>3. Behind(Fail(p), i) /\ Behind(q, i)
  BY <1>1, <1>2, Further
<1>4. Behind(Fail(q), i)
  BY <1>1, <1>3, Further
<1>5. /\ at = "statement" /\ at' = "returned" /\ control' = control
      /\ parser' \in {Fail(p), q, Fail(q)}
      /\ tokens' = tokens /\ vars' = vars /\ funcs' = funcs
  BY DEF execute_print_statement, Return, Starts, lexVars
<1>6. DataOK
  BY <1>5 DEF RunTypeOK, DataOK
<1> QED
  BY <1>3, <1>4, <1>5, <1>6 DEF StatementDone, Returns

LEMMA Assigned ==
    ASSUME RunTypeOK, execute_assignment
    PROVE  StatementDone
<1> DEFINE i == parser.pos
           name == NameAt(parser)
           p == advanceToken(Cleared)
           s == advanceToken(p)
           e == evaluate_expression(vars, s)
           q == AfterSet(vars, name, e)
<1>1. IsTokens(tokens) /\ i \in Nat /\ Behind(Cleared, i) /\ IsTable(vars)
  BY Here1 DEF RunTypeOK
<1>2. Behind(p, i)
  BY <1>1, Further
<1>3. Behind(Fail(p), i) /\ Behind(s, i)
  BY <1>1, <1>2, Further
<1>4. Behind(e, i)
  BY <1>1, <1>3, Further
<1>5. Behind(q, i)
  BY <1>1, <1>4, Further
<1>6. Behind(Fail(q), i)
  BY <1>1, <1>5, Further
<1>7. /\ at = "statement" /\ at' = "returned" /\ control' = control
      /\ parser' \in {Fail(p), e, q, Fail(q)}
      /\ tokens' = tokens /\ vars' \in {vars, Set(vars, name, e.val)} /\ funcs' = funcs
  BY DEF execute_assignment, Return, lexVars
<1>8. e.val \in Int
  BY <1>4 DEF Behind, Parser
<1>9. DataOK
  BY <1>1, <1>7, <1>8, SetTable DEF RunTypeOK, DataOK
<1> QED
  BY <1>3, <1>4, <1>5, <1>6, <1>7, <1>9 DEF StatementDone, Returns

LEMMA IfDone ==
    ASSUME RunTypeOK, compile_if_statement
    PROVE  StatementDone
<1> DEFINE i == parser.pos
           p == advanceToken(Cleared)
           s == advanceToken(p)
           c == evaluate_expression(vars, s)
           b == advanceToken(c)
<1>1. IsTokens(tokens) /\ i \in Nat /\ i + 1 \in Nat /\ IsTable(vars) /\ IsId(parser)
  BY Here1, NameIsId DEF RunTypeOK, compile_if_statement, Starts
<1>2. Behind(p, i + 1)
  BY <1>1, Begins
<1>3. Behind(Fail(p), i + 1) /\ Behind(s, i + 1)
  BY <1>1, <1>2, Further
<1>4. Behind(c, i + 1)
  BY <1>1, <1>3, Further
<1>5. Behind(Fail(c), i + 1) /\ Behind(b, i + 1)
  BY <1>1, <1>4, Further
<1>6. Behind(skip_block(b), i + 1)
  BY <1>1, <1>5, Further
<1>7. at = "statement" /\ DataOK
  BY KeepDataOK DEF compile_if_statement, Starts
<1>8. \/ execute_block(b, control)
      \/ at' = "returned" /\ control' = control /\ parser' \in {Fail(p), Fail(c), skip_block(b)}
  BY DEF compile_if_statement, Return
<1>9. CASE execute_block(b, control)
  BY <1>1, <1>5, <1>7, <1>9, EnterBlock DEF StatementDone, EntersBlock
<1>10. CASE at' = "returned" /\ control' = control /\ parser' \in {Fail(p), Fail(c), skip_block(b)}
  BY <1>1, <1>3, <1>5, <1>6, <1>7, <1>10, NearerIsFurther DEF StatementDone, Returns
<1> QED
  BY <1>8, <1>9, <1>10

LEMMA WhileBegun ==
    ASSUME RunTypeOK, compile_while_loop
    PROVE  StatementDone
<1> DEFINE i == parser.pos
           p == advanceToken(Cleared)
           c == advanceToken(p)
           f == [kind |-> "while", cond |-> Marked(c)]
<1>1. IsTokens(tokens) /\ i \in Nat /\ i + 1 \in Nat /\ IsId(parser)
  BY Here1, NameIsId DEF RunTypeOK, compile_while_loop, Starts
<1>2. Behind(p, i + 1) /\ i \in 1 .. Len(tokens) /\ tokens # <<>>
  BY <1>1, Begins
<1>3. Behind(Fail(p), i + 1)
  BY <1>1, <1>2, Further
<1>4. at = "statement" /\ DataOK
  BY KeepDataOK DEF compile_while_loop, Starts
<1>5. CASE ~IsSym(p, "(")
  <2>1. at' = "returned" /\ control' = control /\ parser' = Fail(p)
    BY <1>5 DEF compile_while_loop, Return
  <2> QED
    BY <1>1, <1>3, <1>4, <2>1, NearerIsFurther DEF StatementDone, Returns
<1>6. CASE IsSym(p, "(")
  <2>1. at' = "loop" /\ control' = Append(control, f) /\ parser' = c
    BY <1>6 DEF compile_while_loop
  <2>2. Behind(c, i + 1 + 1) /\ p.pos \in 1 .. Len(tokens)
    BY <1>1, <1>2, <1>6, NextIsFurther
  <2>3. c \in Parser /\ c.pos >= i + 1 + 1
    BY <2>2 DEF Behind
  <2>4. p.pos >= i + 1
    BY <1>2 DEF Behind
  <2>5. i + 1 \in 1 .. Len(tokens) /\ i + 1 < c.pos
    BY <1>1, <2>2, <2>3, <2>4, LengthOfTokens DEF Parser
  <2>6. Marked(c) \in Places /\ i + 1 <= Marked(c)
    BY <1>1, <1>2, <2>3, <2>5, MarkedPlace
  <2>7. f \in Frame /\ f.kind = "while" /\ Saved(f) = Marked(c)
    BY <2>6 DEF Frame, Saved
  <2>8. Saved(f) > i
    BY <1>1, <1>2, <2>6, <2>7, LengthOfTokens DEF Places
  <2> QED
    BY <1>4, <2>1, <2>3, <2>7, <2>8 DEF StatementDone, EntersLoop
<1> QED
  BY <1>5, <1>6

LEMMA ForBegun ==
    ASSUME RunTypeOK, compile_for_loop
    PROVE  StatementDone
<1> DEFINE i == parser.pos
           v == advanceToken(Cleared)
           s == advanceToken(v)
           a == advanceToken(s)
           start == evaluate_expression(vars, a)
           env == Set(vars, NameAt(v), start.val)
           t == AfterSet(vars, NameAt(v), start)
           b == advanceToken(t)
           end == evaluate_expression(env, b)
           f == [kind |-> "for", var |-> NameAt(v), counter |-> start.val,
                 end |-> end.val, body |-> end.pos]
<1>1. IsTokens(tokens) /\ i \in Nat /\ i + 1 \in Nat /\ IsTable(vars) /\ IsId(parser)
  <2>1. IsName(parser, Keyword.for)
    BY DEF compile_for_loop, Starts
  <2> QED
    BY <2>1, Here1, NameIsId DEF RunTypeOK
<1>2. Behind(v, i + 1)
  BY <1>1, Begins
<1>3. Behind(Fail(v), i + 1) /\ Behind(s, i + 1)
  BY <1>1, <1>2, Further
<1>4. Behind(Fail(s), i + 1) /\ Behind(a, i + 1)
  BY <1>1, <1>3, Further
<1>5. Behind(start, i + 1)
  BY <1>1, <1>4, Further
<1>6. start.val \in Int /\ IsTable(env)
  BY <1>1, <1>5, SetTable DEF Behind, Parser
<1>7. Behind(t, i + 1)
  BY <1>1, <1>5, Further
<1>8. Behind(Fail(t), i + 1) /\ Behind(b, i + 1)
  BY <1>1, <1>7, Further
<1>9. Behind(end, i + 1)
  BY <1>1, <1>6, <1>8, Further
<1>10. Behind(Fail(end), i + 1)
  BY <1>1, <1>9, Further
<1>11. at = "statement" /\ tokens' = tokens /\ funcs' = funcs /\ vars' \in {vars, env}
  BY DEF compile_for_loop, Starts, lexVars
<1>12. DataOK
  BY <1>1, <1>6, <1>11 DEF RunTypeOK, DataOK
<1>13. \/ at' = "returned" /\ control' = control
          /\ parser' \in {Fail(v), Fail(s), Fail(t), Fail(end)}
       \/ /\ IsId(v) /\ IsSym(end, "{")
          /\ parser' = end /\ control' = Append(control, f) /\ at' = "loop"
  BY DEF compile_for_loop, Return
<1> HIDE DEF v, s, a, start, env, t, b, end
<1>14. CASE at' = "returned" /\ control' = control
            /\ parser' \in {Fail(v), Fail(s), Fail(t), Fail(end)}
  BY <1>1, <1>3, <1>4, <1>8, <1>10, <1>11, <1>12, <1>14, NearerIsFurther DEF StatementDone, Returns
<1>15. CASE /\ IsId(v) /\ IsSym(end, "{")
            /\ parser' = end /\ control' = Append(control, f) /\ at' = "loop"
  <2>1. v \in Parser /\ end \in Parser /\ i + 1 <= end.pos
    BY <1>2, <1>9 DEF Behind
  <2>2. NameAt(v) \in Names /\ end.pos \in PlacesOf("{")
    BY <1>1, <1>15, <2>1, NamePlace, SymbolPlace
  <2>3. end.val \in Int /\ end.pos \in Nat
    BY <1>1, <2>1, LengthOfTokens DEF Parser
  <2>4. f \in Frame /\ f.kind = "for" /\ Saved(f) = end.pos
    BY <1>6, <2>2, <2>3 DEF Frame, Saved
  <2>5. Saved(f) > i
    BY <1>1, <2>1, <2>3, <2>4
  <2> HIDE DEF f
  <2> QED
    BY <1>11, <1>12, <1>15, <2>1, <2>4, <2>5 DEF StatementDone, EntersLoop
<1> QED
  BY <1>13, <1>14, <1>15

LEMMA FunctionDeclared ==
    ASSUME RunTypeOK, parse_function_declaration
    PROVE  StatementDone
<1> DEFINE i == parser.pos
           name == advanceToken(Cleared)
           o == advanceToken(name)
           c == advanceToken(o)
           b == advanceToken(c)
           d == [name |-> NameAt(name), body |-> Marked(b)]
<1>1. IsTokens(tokens) /\ i \in Nat /\ i + 1 \in Nat /\ IsId(parser)
  BY Here1, NameIsId DEF RunTypeOK, parse_function_declaration, Starts
<1>2. Behind(name, i + 1) /\ tokens # <<>>
  BY <1>1, Begins
<1>3. Behind(Fail(name), i + 1) /\ Behind(o, i + 1)
  BY <1>1, <1>2, Further
<1>4. Behind(Fail(o), i + 1) /\ Behind(c, i + 1)
  BY <1>1, <1>3, Further
<1>5. Behind(Fail(c), i + 1) /\ Behind(b, i + 1)
  BY <1>1, <1>4, Further
<1>6. Behind(Fail(b), i + 1) /\ Behind(skip_block(b), i + 1)
  BY <1>1, <1>5, Further
<1>7. Behind(skip_block(Fail(b)), i + 1)
  BY <1>1, <1>6, Further
<1>8. at = "statement" /\ tokens' = tokens /\ vars' = vars /\ control' = control /\ at' = "returned"
  BY DEF parse_function_declaration, Starts, lexVars, Return
<1>9. \/ funcs' = funcs
      \/ IsId(name) /\ funcs' = Append(funcs, d)
  BY DEF parse_function_declaration
<1>10. parser' \in {Fail(name), Fail(o), Fail(c), skip_block(b), skip_block(Fail(b))}
  BY DEF parse_function_declaration, Return
<1> HIDE DEF name, o, c, b
<1>11. funcs' \in Seq(Declared)
  <2>1. funcs \in Seq(Declared)
    BY DEF RunTypeOK
  <2>2. IsId(name) => d \in Declared
    <3>1. name \in Parser /\ b \in Parser
      BY <1>2, <1>5 DEF Behind
    <3>2. Marked(b) \in Places /\ (IsId(name) => NameAt(name) \in Names)
      BY <1>1, <1>2, <3>1, MarkedPlace, NamePlace
    <3> QED
      BY <3>2 DEF Declared
  <2> HIDE DEF d
  <2> QED
    BY <1>9, <2>1, <2>2, AppendProperties
<1>12. DataOK
  BY <1>8, <1>11 DEF RunTypeOK, DataOK
<1> QED
  BY <1>1, <1>3, <1>4, <1>5, <1>6, <1>7, <1>8, <1>10, <1>12, NearerIsFurther
     DEF StatementDone, Returns

\* Some declaration has the name that is called.
LEMMA Found ==
    ASSUME RunTypeOK, NEW name, FunctionsNamed(name) # {}
    PROVE  funcs[find_function(name)].body \in Places
<1> DEFINE places == FunctionsNamed(name)
           k == CHOOSE i \in places : \A j \in places : i <= j
<1>1. funcs \in Seq(Declared) /\ Len(funcs) \in Nat
  BY LenProperties DEF RunTypeOK
<1>2. places \in SUBSET (1 .. Len(funcs)) /\ places \in SUBSET Nat
  BY <1>1 DEF FunctionsNamed
<1>3. find_function(name) = k
  BY DEF find_function, First
<1> HIDE DEF places
<1>4. \E i \in places : \A j \in places : i <= j
  BY <1>2, LeastNatural DEF places
<1>5. k \in places
  BY <1>4
<1> HIDE DEF k
<1>6. funcs[k] \in Declared
  BY <1>1, <1>2, <1>5
<1> QED
  BY <1>3, <1>6 DEF Declared

LEMMA FunctionCalled ==
    ASSUME RunTypeOK, compile_function_call
    PROVE  StatementDone
<1> DEFINE i == parser.pos
           name == NameAt(parser)
           o == advanceToken(Cleared)
           c == advanceToken(o)
           s == advanceToken(c)
           body == funcs[find_function(name)].body
           f == [kind |-> "call", return |-> s.pos]
           q == From(s, body)
<1>1. IsTokens(tokens) /\ i \in Nat /\ i + 1 \in Nat /\ IsId(parser)
  <2>1. IsId(parser)
    BY DEF compile_function_call
  <2> QED
    BY <2>1, Here1
<1>2. Behind(o, i + 1)
  BY <1>1, Begins
<1>3. Behind(Fail(o), i + 1) /\ Behind(c, i + 1)
  BY <1>1, <1>2, Further
<1>4. Behind(Fail(c), i + 1) /\ Behind(s, i + 1)
  BY <1>1, <1>3, Further
<1>5. Behind(Fail(s), i + 1)
  BY <1>1, <1>4, Further
<1>6. at = "statement" /\ DataOK /\ FunctionsNamed(name) # {}
  BY KeepDataOK DEF compile_function_call
<1>7. \/ at' = "returned" /\ control' = control /\ parser' \in {Fail(o), Fail(c), Fail(s)}
      \/ IsSym(s, ";") /\ execute_block(q, Append(control, f))
  BY DEF compile_function_call, Return
<1>8. body \in Places
  BY <1>6, Found
<1> HIDE DEF o, c, s, body, name
<1>9. CASE at' = "returned" /\ control' = control /\ parser' \in {Fail(o), Fail(c), Fail(s)}
  BY <1>1, <1>3, <1>4, <1>5, <1>6, <1>9, NearerIsFurther DEF StatementDone, Returns
<1>10. CASE IsSym(s, ";") /\ execute_block(q, Append(control, f))
  <2>1. s \in Parser /\ i + 1 <= s.pos
    BY <1>4 DEF Behind
  <2>2. s.pos \in PlacesOf(";")
    BY <1>1, <1>10, <2>1, SymbolPlace
  <2>3. f \in Frame
    BY <2>2 DEF Frame
  <2>4. f.kind = "call" /\ Saved(f) = s.pos
    BY DEF Saved
  <2>5. s.pos \in Nat
    BY <1>1, <2>1, LengthOfTokens DEF Parser
  <2>6. Saved(f) > i
    BY <1>1, <2>1, <2>4, <2>5
  <2>7. Behind(q, 1)
    <3>1. body \in 1 .. Len(tokens) + 1
      BY <1>8 DEF Places
    <3>2. q \in Parser /\ q.pos = body
      BY <2>1, <3>1, ParserWith
    <3> QED
      BY <3>1, <3>2 DEF Behind
  <2> HIDE DEF f, q
  <2>8. Enters(q, 1, Append(control, f))
    BY <1>1, <1>10, <2>7, EnterBlock
  <2> QED
    BY <1>6, <2>3, <2>4, <2>6, <2>8 DEF StatementDone, Calls
<1> QED
  BY <1>7, <1>9, <1>10

LEMMA StatementStep ==
    ASSUME RunTypeOK, parser_statement_dispatcher
    PROVE  StatementDone
BY NoStatement, Printed, Assigned, IfDone, WhileBegun, ForBegun, FunctionDeclared,
   FunctionCalled DEF parser_statement_dispatcher

LEMMA Stacked ==
    ASSUME NEW S, NEW ctl \in Seq(S), NEW f \in S
    PROVE  /\ Append(ctl, f) \in Seq(S) /\ Append(ctl, f) # <<>>
           /\ Len(Append(ctl, f)) = Len(ctl) + 1
           /\ Append(ctl, f)[Len(Append(ctl, f))] = f
           /\ SubSeq(Append(ctl, f), 1, Len(Append(ctl, f)) - 1) = ctl
<1> DEFINE more == Append(ctl, f)
           k == Len(ctl)
           front == SubSeq(more, 1, k)
<1>1. /\ more \in Seq(S) /\ Len(more) = k + 1 /\ k \in Nat /\ more # <<>>
      /\ more[k + 1] = f /\ \A j \in 1 .. k : more[j] = ctl[j] /\ ctl[j] \in S
  BY AppendProperties, LenProperties, ElementOfSeq
<1> HIDE DEF more, k
<1>2. \A j \in 1 .. k : more[j] \in S
  BY <1>1
<1>3. /\ front \in Seq(S) /\ Len(front) = IF 1 <= k THEN k - 1 + 1 ELSE 0
      /\ \A j \in 1 .. k - 1 + 1 : front[j] = more[1 + j - 1]
  BY <1>1, <1>2, SubSeqProperties
<1>4. Len(front) = k
  BY <1>1, <1>3
<1>5. ASSUME NEW j \in 1 .. k PROVE front[j] = ctl[j]
  <2>1. j \in 1 .. k - 1 + 1 /\ 1 + j - 1 = j
    BY <1>1
  <2> QED
    BY <1>1, <1>3, <2>1
<1>6. front = ctl
  BY <1>3, <1>4, <1>5, SeqEqual DEF k
<1>7. Len(more) - 1 = k
  BY <1>1
<1> QED
  BY <1>1, <1>6, <1>7 DEF more, k

LEMMA Unstacked ==
    ASSUME NEW S, NEW ctl \in Seq(S), ctl # <<>>
    PROVE  /\ Len(ctl) \in Nat \ {0} /\ ctl[Len(ctl)] \in S
           /\ SubSeq(ctl, 1, Len(ctl) - 1) \in Seq(S)
           /\ ctl = Append(SubSeq(ctl, 1, Len(ctl) - 1), ctl[Len(ctl)])
<1> DEFINE k == Len(ctl)
           front == SubSeq(ctl, 1, k - 1)
           last == ctl[k]
<1>1. k \in Nat \ {0} /\ \A j \in 1 .. k : ctl[j] \in S
  BY EmptySeq, LenProperties, ElementOfSeq
<1>2. last \in S /\ k - 1 \in Nat /\ \A j \in 1 .. k - 1 : ctl[j] \in S
  BY <1>1
<1>3. /\ front \in Seq(S) /\ Len(front) = IF 1 <= k - 1 THEN k - 1 - 1 + 1 ELSE 0
      /\ \A j \in 1 .. k - 1 - 1 + 1 : front[j] = ctl[1 + j - 1]
  BY <1>1, <1>2, SubSeqProperties
<1>4. Len(front) = k - 1
  <2> HIDE DEF front, k
  <2>1. CASE k = 1
    BY <1>3, <2>1
  <2>2. CASE k > 1
    BY <1>1, <1>3, <2>2
  <2> QED
    BY <1>1, <2>1, <2>2
<1> HIDE DEF front, last
<1>5. /\ Append(front, last) \in Seq(S) /\ Len(Append(front, last)) = k
      /\ \A j \in 1 .. k - 1 : Append(front, last)[j] = front[j]
      /\ Append(front, last)[k] = last
  <2>1. Len(front) + 1 = k
    BY <1>1, <1>4
  <2> QED
    BY <1>2, <1>3, <1>4, <2>1, AppendProperties
<1>6. ASSUME NEW j \in 1 .. k PROVE Append(front, last)[j] = ctl[j]
  <2>1. CASE j = k
    BY <1>5, <2>1 DEF last
  <2>2. CASE j # k
    <3>1. j \in 1 .. k - 1 /\ j \in 1 .. k - 1 - 1 + 1 /\ 1 + j - 1 = j
      BY <1>1, <2>2
    <3> QED
      BY <1>3, <1>5, <3>1
  <2> QED
    BY <2>1, <2>2
<1>7. Append(front, last) = ctl
  BY <1>5, <1>6, SeqEqual
<1> QED
  BY <1>1, <1>2, <1>3, <1>7 DEF front, last

LEMMA TopFrame ==
    ASSUME RunTypeOK, NEW kind, OnTop(kind)
    PROVE  /\ Top \in Frame /\ Top.kind = kind
           /\ Popped \in Seq(Frame) /\ control = Append(Popped, Top)
BY Unstacked DEF RunTypeOK, OnTop, Top, Popped

LEMMA CountedAppend ==
    ASSUME NEW S, NEW ctl \in Seq(S), NEW f \in S, Counted(ctl),
           f.kind = "for" => f.counter <= f.end
    PROVE  Counted(Append(ctl, f))
<1>1. Len(ctl) \in Nat /\ Len(Append(ctl, f)) = Len(ctl) + 1
  BY LenProperties, AppendProperties
<1>2. ASSUME NEW i \in 1 .. Len(Append(ctl, f))
      PROVE  i = Len(ctl) + 1 \/ i \in 1 .. Len(ctl)
  BY <1>1, <1>2
<1> QED
  BY <1>2, AppendProperties DEF Counted

LEMMA CountedFront ==
    ASSUME NEW S, NEW ctl \in Seq(S), NEW f \in S, Counted(Append(ctl, f))
    PROVE  Counted(ctl) /\ (f.kind = "for" => f.counter <= f.end)
<1>1. /\ Len(ctl) \in Nat /\ Len(Append(ctl, f)) = Len(ctl) + 1
      /\ Append(ctl, f)[Len(ctl) + 1] = f
      /\ \A i \in 1 .. Len(ctl) : Append(ctl, f)[i] = ctl[i]
  BY LenProperties, AppendProperties
<1>2. \A i \in 1 .. Len(ctl) : i \in 1 .. Len(Append(ctl, f))
  BY <1>1
<1>3. Len(ctl) + 1 \in 1 .. Len(Append(ctl, f))
  BY <1>1
<1> QED
  BY <1>1, <1>2, <1>3 DEF Counted

LEMMA FramesWeigh ==
    ASSUME IsTokens(tokens)
    PROVE  Len(tokens) \in Nat /\ (\A f \in Frame : Weighs(Len(tokens), f)) /\ Block \in Frame
<1>1. Len(tokens) \in Nat
  BY LengthOfTokens
<1>2. ASSUME NEW f \in Frame
      PROVE  Weighs(Len(tokens), f)
  <2>1. CASE f \in [kind : {"block"}]
    BY <2>1 DEF Weighs
  <2>2. CASE f \in [kind : {"while"}, cond : Places]
    <3>1. f.kind = "while" /\ f.cond \in Places
      BY <2>2
    <3> QED
      BY <3>1 DEF Weighs, Saved, Places
  <2>3. CASE f \in [kind : {"for"}, var : Names, counter : Int, end : Int, body : PlacesOf("{")]
    <3>1. f.kind = "for" /\ f.counter \in Int /\ f.end \in Int /\ f.body \in 1 .. Len(tokens)
      BY <2>3 DEF PlacesOf
    <3> QED
      BY <1>1, <3>1 DEF Weighs, Saved
  <2>4. CASE f \in [kind : {"call"}, return : PlacesOf(";")]
    <3>1. f.kind = "call" /\ f.return \in 1 .. Len(tokens)
      BY <2>4 DEF PlacesOf
    <3> QED
      BY <1>1, <3>1 DEF Weighs, Saved
  <2> QED
    BY <2>1, <2>2, <2>3, <2>4 DEF Frame
<1>3. Block \in Frame
  BY DEF Block, Frame
<1> QED
  BY <1>1, <1>2, <1>3

-----------------------------------------------------------------------------
(* What a turn of a loop does                                              *)

EndsLoop == at' = "returned" /\ control' = Popped /\ Behind(parser', Saved(Top))

\* A for loop's body runs as long as the loop has not counted beyond its end.
RunsBody ==
    /\ \E q : Enters(q, 1, control)
    /\ Top.kind = "for" => Top.counter <= Top.end

LoopDone == at = "loop" /\ DataOK /\ (EndsLoop \/ RunsBody)

LEMMA FrameFields ==
    ASSUME NEW f \in Frame
    PROVE  /\ f.kind \in {"block", "while", "for", "call"}
           /\ f.kind = "while" => f.cond \in Places
           /\ f.kind = "for" => /\ f.counter \in Int /\ f.end \in Int
                                /\ f.body \in PlacesOf("{")
           /\ f.kind = "call" => f.return \in PlacesOf(";")
BY DEF Frame

LEMMA PlacesAreHere ==
    ASSUME IsTokens(tokens)
    PROVE  /\ \A c : PlacesOf(c) \in SUBSET Places
           /\ Places \in SUBSET (Nat \ {0})
           /\ \A q \in Parser, i \in Places : Behind(From(q, i), i) /\ From(q, i) \in Parser
           /\ \A q \in Parser : Behind(q, 1)
           /\ \A q, i : Behind(q, i) => q \in Parser
<1>1. Len(tokens) \in Nat
  BY LengthOfTokens
<1>2. \A q \in Parser, i \in Places : From(q, i) \in Parser /\ From(q, i).pos = i
  BY ParserWith DEF Places
<1> QED
  BY <1>1, <1>2 DEF Places, PlacesOf, Behind, Parser

LEMMA WhileTurned ==
    ASSUME RunTypeOK, WhileTurn
    PROVE  LoopDone
<1> DEFINE i == Top.cond
           w == From(parser, i)
           c == evaluate_expression(vars, w)
           b == advanceToken(c)
<1>1. IsTokens(tokens) /\ parser \in Parser /\ IsTable(vars) /\ at = "loop" /\ OnTop("while")
  BY DEF RunTypeOK, WhileTurn
<1>2. i \in Places /\ i \in Nat /\ Top.kind = "while" /\ Saved(Top) = i
  <2>1. Top \in Frame /\ Top.kind = "while"
    BY <1>1, TopFrame
  <2>2. i \in Places
    BY <2>1, FrameFields
  <2> QED
    BY <1>1, <2>1, <2>2, PlacesAreHere DEF Saved
<1>3. Behind(w, i)
  BY <1>1, <1>2, PlacesAreHere
<1>4. Behind(c, i)
  BY <1>1, <1>2, <1>3, Further
<1>5. Behind(Fail(c), i) /\ Behind(b, i)
  BY <1>1, <1>2, <1>4, Further
<1>6. Behind(skip_block(b), i)
  BY <1>1, <1>2, <1>5, Further
<1>7. DataOK
  BY KeepDataOK DEF WhileTurn
<1>8. \/ at' = "returned" /\ control' = Popped /\ parser' \in {Fail(c), skip_block(b)}
      \/ execute_block(b, control)
  BY DEF WhileTurn, Leave, Return
<1> HIDE DEF w, c, b, i
<1>9. CASE at' = "returned" /\ control' = Popped /\ parser' \in {Fail(c), skip_block(b)}
  BY <1>1, <1>2, <1>5, <1>6, <1>7, <1>9 DEF LoopDone, EndsLoop
<1>10. CASE execute_block(b, control)
  <2>1. Behind(b, 1)
    BY <1>1, <1>5, PlacesAreHere
  <2>2. Enters(b, 1, control)
    BY <1>1, <1>10, <2>1, EnterBlock
  <2> QED
    BY <1>1, <1>2, <1>7, <2>2 DEF LoopDone, RunsBody
<1> QED
  BY <1>8, <1>9, <1>10

LEMMA ForTurned ==
    ASSUME RunTypeOK, ForTurn
    PROVE  LoopDone
<1> DEFINE i == Top.body
           env == Set(vars, Top.var, Top.counter)
           p == From(parser, i)
           r == AfterSet(vars, Top.var, parser)
           q == From(r, i)
<1>1. IsTokens(tokens) /\ parser \in Parser /\ IsTable(vars) /\ at = "loop" /\ OnTop("for")
  BY DEF RunTypeOK, ForTurn
<1>2. /\ i \in Places /\ i \in Nat /\ Top.kind = "for" /\ Saved(Top) = i
      /\ Top.counter \in Int /\ Top.end \in Int
  <2>1. Top \in Frame /\ Top.kind = "for"
    BY <1>1, TopFrame
  <2>2. i \in PlacesOf("{") /\ Top.counter \in Int /\ Top.end \in Int
    BY <2>1, FrameFields
  <2> QED
    BY <1>1, <2>1, <2>2, PlacesAreHere DEF Saved
<1>3. Behind(p, i)
  BY <1>1, <1>2, PlacesAreHere
<1>4. Behind(skip_block(p), i)
  BY <1>1, <1>2, <1>3, Further
<1>5. Behind(q, 1)
  <2>1. Behind(parser, 1)
    BY <1>1, PlacesAreHere
  <2>2. Behind(r, 1)
    BY <1>1, <2>1, Further
  <2> QED
    BY <1>1, <1>2, <2>2, PlacesAreHere
<1>6. tokens' = tokens /\ funcs' = funcs
  BY DEF ForTurn, lexVars
<1>7. \/ /\ at' = "returned" /\ control' = Popped /\ parser' = skip_block(p) /\ vars' = vars
      \/ ~(Top.counter > Top.end) /\ vars' = env /\ execute_block(q, control)
  BY DEF ForTurn, Leave, Return
<1>8. DataOK
  BY <1>1, <1>2, <1>6, <1>7, SetTable DEF RunTypeOK, DataOK
<1> HIDE DEF i, env, p, r, q
<1>9. CASE at' = "returned" /\ control' = Popped /\ parser' = skip_block(p) /\ vars' = vars
  BY <1>1, <1>2, <1>4, <1>8, <1>9 DEF LoopDone, EndsLoop
<1>10. CASE ~(Top.counter > Top.end) /\ vars' = env /\ execute_block(q, control)
  <2>1. Enters(q, 1, control)
    BY <1>1, <1>5, <1>10, EnterBlock
  <2>2. Top.counter <= Top.end
    BY <1>2, <1>10
  <2> QED
    BY <1>1, <1>8, <2>1, <2>2 DEF LoopDone, RunsBody
<1> QED
  BY <1>7, <1>9, <1>10

WorkLeft == WorkOf(Len(tokens), at, parser.pos, control)

\* Every step but the return to a while loop leaves less to do.
Lessens == IsLess(WorkLeft', WorkLeft)

LEMMA SameTokens ==
    ASSUME tokens' = tokens
    PROVE  Parser' = Parser /\ Frame' = Frame /\ Declared' = Declared
BY DEF Parser, Frame, Declared, Places, PlacesOf, Names

\* The new place, stack and phase.
Shape ==
    /\ parser' \in Parser /\ control' \in Seq(Frame) /\ StackOK'
    /\ at' \notin {"lexing", "start"}

LEMMA Kept ==
    ASSUME RunInv, DataOK, Shape
    PROVE  RunInv'
<1>1. tokens' = tokens /\ Parser' = Parser /\ Frame' = Frame /\ Declared' = Declared
  BY SameTokens DEF DataOK
<1>2. RunTypeOK'
  BY <1>1 DEF RunInv, RunTypeOK, DataOK, Shape
<1>3. FreshUntilStart'
  BY DEF FreshUntilStart, Shape
<1> QED
  BY <1>2, <1>3 DEF RunInv, Shape

LEMMA Pushed ==
    ASSUME NEW ctl \in Seq(Frame), NEW f \in Frame, control' = Append(ctl, f)
    PROVE  control' \in Seq(Frame) /\ OnTop(f.kind)' /\ Popped' = ctl /\ Top' = f
<1>1. /\ control' \in Seq(Frame) /\ control' # <<>> /\ control'[Len(control')] = f
      /\ SubSeq(control', 1, Len(control') - 1) = ctl
  BY Stacked
<1> QED
  BY <1>1 DEF OnTop, Top, Popped

LEMMA StackWeights ==
    ASSUME IsTokens(tokens), NEW ctl \in Seq(Frame), NEW f \in Frame
    PROVE  /\ Weights(Len(tokens), ctl) \in Seq(Triples)
           /\ Weights(Len(tokens), Append(ctl, f)) =
                IF f.kind = "block" THEN Weights(Len(tokens), ctl)
                ELSE Append(Weights(Len(tokens), ctl), Weight(Len(tokens), f))
           /\ f.kind # "block" => Weight(Len(tokens), f) \in Triples
<1>1. Len(tokens) \in Nat /\ (\A g \in Frame : Weighs(Len(tokens), g))
  BY FramesWeigh
<1>2. f.kind # "block" => Weight(Len(tokens), f) \in Triples
  BY <1>1, WeightType
<1> QED
  BY <1>1, <1>2, WeightsAppend

\* An execute_block begins or fails.
LEMMA Entered ==
    ASSUME IsTokens(tokens), NEW i \in Nat, NEW q, NEW ctl \in Seq(Frame), Counted(ctl),
           Enters(q, i, ctl)
    PROVE  /\ Shape /\ i <= parser'.pos /\ at' \in {"block", "returned"}
           /\ Weights(Len(tokens), control') = Weights(Len(tokens), ctl)
<1>1. Block \in Frame /\ Block.kind = "block"
  BY FramesWeigh DEF Block
<1>2. parser' \in Parser /\ i <= parser'.pos
  BY DEF Enters, Behind
<1>3. CASE at' = "block" /\ control' = Append(ctl, Block)
  <2>1. control' \in Seq(Frame) /\ OnTop("block")'
    BY <1>1, <1>3, Pushed
  <2>2. Counted(control')
    BY <1>1, <1>3, CountedAppend
  <2>3. StackOK'
    BY <1>3, <2>1, <2>2 DEF StackOK
  <2>4. Weights(Len(tokens), control') = Weights(Len(tokens), ctl)
    BY <1>1, <1>3, StackWeights
  <2> QED
    BY <1>2, <1>3, <2>1, <2>3, <2>4 DEF Shape
<1>4. CASE at' = "returned" /\ control' = ctl
  BY <1>2, <1>4 DEF Shape, StackOK
<1> QED
  BY <1>3, <1>4 DEF Enters

LEMMA WorkNow ==
    ASSUME RunTypeOK
    PROVE  /\ WorkLeft = Append(Weights(Len(tokens), control),
                                Here(Len(tokens), at, parser.pos, control))
           /\ Here(Len(tokens), at, parser.pos, control) \in Triples
           /\ Weights(Len(tokens), control) \in Seq(Triples)
           /\ Len(control) \in Nat /\ Len(tokens) \in Nat /\ parser.pos \in 1 .. Len(tokens) + 1
<1>1. IsTokens(tokens) /\ parser \in Parser /\ control \in Seq(Frame)
  BY DEF RunTypeOK
<1>2. parser.pos \in 1 .. Len(tokens) + 1 /\ Len(tokens) \in Nat /\ Len(control) \in Nat
  BY <1>1, LengthOfTokens, LenProperties DEF Parser
<1>3. Here(Len(tokens), at, parser.pos, control) \in Triples
  BY <1>1, <1>2, HereType
<1>4. Weights(Len(tokens), control) \in Seq(Triples)
  BY <1>1, FramesWeigh, StackWeights
<1> QED
  BY <1>2, <1>3, <1>4 DEF WorkLeft, WorkOf

LEMMA WorkNext ==
    ASSUME RunTypeOK, tokens' = tokens, parser' \in Parser, control' \in Seq(Frame)
    PROVE  /\ WorkLeft' = Append(Weights(Len(tokens), control'),
                                 Here(Len(tokens), at', parser'.pos, control'))
           /\ Here(Len(tokens), at', parser'.pos, control') \in Triples
           /\ Len(control') \in Nat /\ parser'.pos \in 1 .. Len(tokens) + 1
<1>1. IsTokens(tokens)
  BY DEF RunTypeOK
<1>2. parser'.pos \in 1 .. Len(tokens) + 1 /\ Len(tokens) \in Nat /\ Len(control') \in Nat
  BY <1>1, LengthOfTokens, LenProperties DEF Parser
<1>3. Here(Len(tokens), at', parser'.pos, control') \in Triples
  BY <1>2, HereType
<1> QED
  BY <1>2, <1>3 DEF WorkLeft, WorkOf

\* With the same loops and calls, the place goes on or the statement nears its end.
LEMMA LessAt ==
    ASSUME RunTypeOK, tokens' = tokens, parser' \in Parser, control' \in Seq(Frame),
           Weights(Len(tokens), control') = Weights(Len(tokens), control),
           IsBelow(Here(Len(tokens), at', parser'.pos, control'),
                   Here(Len(tokens), at, parser.pos, control))
    PROVE  Lessens
BY WorkNow, WorkNext, LessHere DEF Lessens

LEMMA SavedInside ==
    ASSUME IsTokens(tokens), NEW f \in Frame, f.kind # "block"
    PROVE  Saved(f) \in 1 .. Len(tokens) + 1
<1>1. CASE f.kind = "while"
  BY <1>1, FrameFields DEF Saved, Places
<1>2. CASE f.kind = "for"
  <2>1. f.body \in 1 .. Len(tokens)
    BY <1>2, FrameFields DEF PlacesOf
  <2> QED
    BY <1>2, <2>1, LengthOfTokens DEF Saved
<1>3. CASE f.kind = "call"
  <2>1. f.return \in 1 .. Len(tokens)
    BY <1>3, FrameFields DEF PlacesOf
  <2> QED
    BY <1>3, <2>1, LengthOfTokens DEF Saved
<1> QED
  BY <1>1, <1>2, <1>3, FrameFields

\* A loop or a call begins that comes back further on.
LEMMA LessBegun ==
    ASSUME RunTypeOK, at = "statement", tokens' = tokens,
           parser' \in Parser, control' \in Seq(Frame),
           NEW f \in Frame, f.kind # "block", Saved(f) > parser.pos,
           Weights(Len(tokens), control') = Weights(Len(tokens), Append(control, f))
    PROVE  Lessens
<1> DEFINE W == Weights(Len(tokens), control)
           h == Here(Len(tokens), at, parser.pos, control)
           x == Here(Len(tokens), at', parser'.pos, control')
           u == Weight(Len(tokens), f)
<1>1. /\ WorkLeft = Append(W, h) /\ h \in Triples /\ W \in Seq(Triples)
      /\ Len(tokens) \in Nat /\ parser.pos \in 1 .. Len(tokens) + 1
  BY WorkNow
<1>2. WorkLeft' = Append(Weights(Len(tokens), control'), x) /\ x \in Triples
  BY WorkNext
<1>3. IsTokens(tokens) /\ control \in Seq(Frame)
  BY DEF RunTypeOK
<1>4. Weights(Len(tokens), control') = Append(W, u) /\ u \in Triples
  BY <1>3, StackWeights
<1>5. IsBelow(u, h)
  <2>1. Saved(f) \in 1 .. Len(tokens) + 1
    BY <1>3, SavedInside
  <2>2. Rest(Len(tokens), Saved(f)) + 1 < Rest(Len(tokens), parser.pos)
    <3>1. \A n \in Nat : \A i, j \in 1 .. n + 1 : j > i => Rest(n, j) + 1 < Rest(n, i)
      BY DEF Rest
    <3> QED
      BY <1>1, <2>1, <3>1
  <2>3. u[1] = Rest(Len(tokens), Saved(f)) + 1
    BY DEF Weight
  <2>4. h[1] = Rest(Len(tokens), parser.pos)
    BY DEF Here
  <2> QED
    BY <2>2, <2>3, <2>4 DEF IsBelow
<1> HIDE DEF W, h, x, u
<1> QED
  BY <1>1, <1>2, <1>4, <1>5, LessDown DEF Lessens

\* A loop or a call ends and goes on where it has to or further on.
LEMMA LessEnded ==
    ASSUME RunTypeOK, tokens' = tokens, parser' \in Parser,
           control # <<>>, Top.kind # "block", control' = Popped,
           at' = "returned", Saved(Top) <= parser'.pos
    PROVE  Lessens
<1> DEFINE N == Len(tokens)
           W == Weights(N, Popped)
           h == Here(N, at, parser.pos, control)
           x == Here(N, at', parser'.pos, control')
           v == Weight(N, Top)
<1>1. IsTokens(tokens) /\ OnTop(Top.kind)
  BY DEF RunTypeOK, OnTop
<1>2. Top \in Frame /\ Popped \in Seq(Frame) /\ control = Append(Popped, Top)
  BY <1>1, TopFrame
<1>3. W \in Seq(Triples) /\ Weights(N, control) = Append(W, v) /\ v \in Triples
  BY <1>1, <1>2, StackWeights
<1>4. WorkLeft = Append(Append(W, v), h) /\ h \in Triples /\ N \in Nat
  BY <1>3, WorkNow
<1>5. /\ WorkLeft' = Append(W, x) /\ x \in Triples /\ parser'.pos \in 1 .. N + 1
  BY <1>2, WorkNext
<1>6. IsBelow(x, v)
  <2>1. Saved(Top) \in 1 .. N + 1
    BY <1>1, <1>2, SavedInside
  <2>2. Rest(N, parser'.pos) < Rest(N, Saved(Top)) + 1
    BY <1>4, <1>5, <2>1 DEF Rest
  <2>3. v[1] = Rest(N, Saved(Top)) + 1
    BY DEF Weight
  <2>4. x[1] = Rest(N, parser'.pos)
    BY DEF Here
  <2> QED
    BY <2>2, <2>3, <2>4 DEF IsBelow
<1> HIDE DEF W, h, x, v
<1> QED
  BY <1>3, <1>4, <1>5, <1>6, LessUp DEF Lessens

LEMMA StatementGoesOn ==
    ASSUME RunInv, StatementDone
    PROVE  Shape /\ Lessens
<1> DEFINE N == Len(tokens)
<1>1. /\ RunTypeOK /\ IsTokens(tokens) /\ control \in Seq(Frame) /\ at = "statement"
      /\ Counted(control) /\ DataOK /\ tokens' = tokens
  BY DEF RunInv, RunTypeOK, StackOK, StatementDone, DataOK
<1>2. parser.pos \in 1 .. N + 1 /\ N \in Nat /\ Len(control) \in Nat
  BY <1>1, WorkNow
<1>3. CASE Returns
  <2>1. at' = "returned" /\ control' = control /\ parser' \in Parser /\ parser.pos <= parser'.pos
    BY <1>3 DEF Returns, Behind
  <2>2. Shape
    BY <1>1, <2>1 DEF Shape, StackOK
  <2>3. parser'.pos \in 1 .. N + 1
    BY <2>1 DEF Parser
  <2>4. IsBelow(Here(N, at', parser'.pos, control'), Here(N, at, parser.pos, control))
    BY <1>1, <1>2, <2>1, <2>3 DEF IsBelow, Here, Rest, Rank
  <2> QED
    BY <1>1, <2>1, <2>2, <2>4, LessAt
<1>4. CASE EntersBlock
  <2>1. PICK q : Enters(q, parser.pos + 1, control)
    BY <1>4 DEF EntersBlock
  <2>2. /\ Shape /\ parser.pos + 1 <= parser'.pos /\ at' \in {"block", "returned"}
        /\ Weights(N, control') = Weights(N, control)
    BY <1>1, <1>2, <2>1, Entered
  <2>3. parser' \in Parser /\ control' \in Seq(Frame)
    BY <2>2 DEF Shape
  <2>4. parser'.pos \in 1 .. N + 1
    BY <2>3 DEF Parser
  <2>5. IsBelow(Here(N, at', parser'.pos, control'), Here(N, at, parser.pos, control))
    BY <1>1, <1>2, <2>2, <2>4 DEF IsBelow, Here, Rest
  <2> QED
    BY <1>1, <2>2, <2>3, <2>5, LessAt
<1>5. CASE EntersLoop
  <2>1. PICK f \in Frame : /\ f.kind \in {"while", "for"} /\ Saved(f) > parser.pos
                           /\ at' = "loop" /\ control' = Append(control, f) /\ parser' \in Parser
    BY <1>5 DEF EntersLoop
  <2>2. control' \in Seq(Frame) /\ OnTop(f.kind)' /\ Popped' = control
    BY <1>1, <2>1, Pushed
  <2>3. Shape
    BY <1>1, <2>1, <2>2 DEF Shape, StackOK
  <2>4. f.kind # "block"
    BY <2>1
  <2> QED
    BY <1>1, <2>1, <2>2, <2>3, <2>4, LessBegun
<1>6. CASE Calls
  <2>1. PICK f \in Frame : /\ f.kind = "call" /\ Saved(f) > parser.pos
                           /\ \E q : Enters(q, 1, Append(control, f))
    BY <1>6 DEF Calls
  <2>2. PICK q : Enters(q, 1, Append(control, f))
    BY <2>1
  <2>3. Append(control, f) \in Seq(Frame)
    BY <1>1, <2>1, AppendProperties
  <2>4. Counted(Append(control, f))
    BY <1>1, <2>1, CountedAppend
  <2>5. Shape /\ Weights(N, control') = Weights(N, Append(control, f))
    BY <1>1, <2>2, <2>3, <2>4, Entered
  <2>6. parser' \in Parser /\ control' \in Seq(Frame) /\ f.kind # "block"
    BY <2>1, <2>5 DEF Shape
  <2> QED
    BY <1>1, <2>1, <2>5, <2>6, LessBegun
<1> QED
  BY <1>3, <1>4, <1>5, <1>6 DEF StatementDone

LEMMA LoopGoesOn ==
    ASSUME RunInv, LoopDone
    PROVE  Shape /\ Lessens
<1> DEFINE N == Len(tokens)
<1>1. /\ RunTypeOK /\ IsTokens(tokens) /\ control \in Seq(Frame) /\ at = "loop"
      /\ Counted(Popped) /\ DataOK /\ tokens' = tokens
      /\ (OnTop("while") \/ OnTop("for"))
  BY DEF RunInv, RunTypeOK, StackOK, LoopDone, DataOK
<1>2. /\ Top \in Frame /\ Popped \in Seq(Frame) /\ control = Append(Popped, Top)
      /\ control # <<>> /\ Top.kind # "block"
  <2>1. control # <<>> /\ Top.kind \in {"while", "for"} /\ OnTop(Top.kind)
    BY <1>1 DEF OnTop
  <2>2. Top \in Frame /\ Popped \in Seq(Frame) /\ control = Append(Popped, Top)
    BY <1>1, <2>1, TopFrame
  <2> QED
    BY <2>1, <2>2
<1>3. parser.pos \in 1 .. N + 1 /\ N \in Nat /\ Len(control) \in Nat
  BY <1>1, WorkNow
<1>4. CASE EndsLoop
  <2>1. /\ at' = "returned" /\ control' = Popped /\ parser' \in Parser
        /\ Saved(Top) <= parser'.pos
    BY <1>4 DEF EndsLoop, Behind
  <2>2. Shape
    BY <1>1, <1>2, <2>1 DEF Shape, StackOK
  <2> QED
    BY <1>1, <1>2, <2>1, <2>2, LessEnded
<1>5. CASE RunsBody
  <2>1. PICK q : Enters(q, 1, control)
    BY <1>5 DEF RunsBody
  <2>2. Counted(control)
    BY <1>1, <1>2, <1>5, CountedAppend DEF RunsBody
  <2>3. /\ Shape /\ 1 <= parser'.pos /\ at' \in {"block", "returned"}
        /\ Weights(N, control') = Weights(N, control)
    BY <1>1, <2>1, <2>2, Entered
  <2>4. parser' \in Parser /\ control' \in Seq(Frame)
    BY <2>3 DEF Shape
  <2>5. parser'.pos \in 1 .. N + 1
    BY <2>4 DEF Parser
  <2>6. IsBelow(Here(N, at', parser'.pos, control'), Here(N, at, parser.pos, control))
    BY <1>1, <1>3, <2>3, <2>5 DEF IsBelow, Here, Rest
  <2> QED
    BY <1>1, <2>3, <2>4, <2>6, LessAt
<1> QED
  BY <1>4, <1>5 DEF LoopDone

LEMMA ProgramBegins ==
    ASSUME RunInv, parse_program
    PROVE  DataOK /\ parser' \in Parser /\ control' \in Seq(Frame) /\ StackOK'
           /\ at' \notin {"lexing", "start"} /\ Lessens
<1> DEFINE N == Len(tokens)
<1>1. /\ RunTypeOK /\ IsTokens(tokens) /\ at = "start" /\ control = <<>> /\ parser \in Parser
      /\ parser.pos = 1
  BY DEF RunInv, RunTypeOK, FreshUntilStart, BasicInit, parse_program
<1>2. N \in Nat /\ Len(control) \in Nat /\ control \in Seq(Frame) /\ Counted(control)
  <2>1. control \in Seq(Frame) /\ Len(control) = 0
    BY <1>1, EmptySeq
  <2> QED
    BY <1>1, <2>1, LengthOfTokens DEF Counted
<1>3. /\ parser' = [parser EXCEPT !.pos = 1] /\ control' = control
      /\ at' = IF tokens = <<>> THEN "done" ELSE "statement"
  BY DEF parse_program
<1>4. parser' \in Parser /\ parser'.pos = 1
  BY <1>1, <1>3 DEF Parser
<1>5. DataOK
  BY <1>1, KeepDataOK DEF parse_program
<1>6. StackOK' /\ at' \notin {"lexing", "start"}
  BY <1>2, <1>3 DEF StackOK
<1>7. tokens = <<>> \/ 1 <= N
  <2>1. tokens # <<>> => N # 0
    BY <1>1, EmptySeq DEF IsTokens, IsSeq
  <2> QED
    BY <1>2, <2>1
<1>8. IsBelow(Here(N, at', parser'.pos, control'), Here(N, at, parser.pos, control))
  <2>1. /\ Here(N, at', parser'.pos, control')[1] = Here(N, at, parser.pos, control)[1]
        /\ Here(N, at', parser'.pos, control')[2] = Here(N, at, parser.pos, control)[2]
    BY <1>1, <1>3, <1>4 DEF Here
  <2>2. Rank(N, at', 1) < Rank(N, at, 1)
    <3>1. CASE tokens = <<>>
      BY <1>1, <1>3, <3>1 DEF Rank
    <3>2. CASE tokens # <<>>
      <4>1. ~(1 > N)
        BY <1>2, <1>7, <3>2
      <4> QED
        BY <1>1, <1>3, <3>2, <4>1 DEF Rank
    <3> QED
      BY <3>1, <3>2
  <2> QED
    BY <1>1, <1>4, <2>1, <2>2 DEF Here, IsBelow
<1> QED
  BY <1>1, <1>2, <1>3, <1>4, <1>5, <1>6, <1>8, LessAt DEF DataOK

LEMMA BlockGoesOn ==
    ASSUME RunInv, BlockTurn
    PROVE  DataOK /\ Shape /\ Lessens
<1> DEFINE N == Len(tokens)
<1>1. /\ RunTypeOK /\ IsTokens(tokens) /\ control \in Seq(Frame) /\ at = "block"
      /\ Counted(control) /\ parser \in Parser /\ OnTop("block")
  BY DEF RunInv, RunTypeOK, StackOK, BlockTurn
<1>2. DataOK
  BY <1>1, KeepDataOK DEF BlockTurn
<1>3. parser.pos \in 1 .. N + 1 /\ N \in Nat /\ Len(control) \in Nat
  BY <1>1, WorkNow
<1>4. \/ at' = "returned" /\ control' = Popped /\ parser' \in {parser, Fail(parser)}
      \/ /\ at' = "statement" /\ control' = control /\ parser' = parser
         /\ Current(parser) # EOF
  BY DEF BlockTurn, Leave, Return
<1>5. Fail(parser) \in Parser /\ Fail(parser).pos = parser.pos
  BY <1>1, ParserWith
<1>6. CASE at' = "returned" /\ control' = Popped /\ parser' \in {parser, Fail(parser)}
  <2>1. parser' \in Parser /\ parser'.pos = parser.pos
    BY <1>1, <1>5, <1>6
  <2>2. /\ Top \in Frame /\ Top.kind = "block" /\ Popped \in Seq(Frame)
        /\ control = Append(Popped, Top)
    BY <1>1, TopFrame
  <2>3. Counted(Popped)
    BY <1>1, <2>2, CountedFront
  <2>4. Shape
    BY <1>6, <2>1, <2>2, <2>3 DEF Shape, StackOK
  <2>5. Weights(N, control') = Weights(N, control)
    BY <1>1, <1>6, <2>2, StackWeights
  <2>6. Len(control) = Len(control') + 1 /\ Len(control') \in Nat
    BY <1>6, <2>2, Stacked, LenProperties
  <2>7. IsBelow(Here(N, at', parser'.pos, control'), Here(N, at, parser.pos, control))
    BY <1>1, <1>6, <2>1, <2>6 DEF IsBelow, Here
  <2>8. control' \in Seq(Frame)
    BY <1>6, <2>2
  <2> QED
    BY <1>1, <1>2, <2>1, <2>4, <2>5, <2>7, <2>8, LessAt DEF DataOK
<1>7. CASE /\ at' = "statement" /\ control' = control /\ parser' = parser
           /\ Current(parser) # EOF
  <2>1. Shape
    BY <1>1, <1>7 DEF Shape, StackOK
  <2>2. ~(parser.pos > N)
    BY <1>7 DEF Current
  <2>3. IsBelow(Here(N, at', parser'.pos, control'), Here(N, at, parser.pos, control))
    BY <1>1, <1>7, <2>2 DEF IsBelow, Here, Rank
  <2> QED
    BY <1>1, <1>2, <1>7, <2>1, <2>3, LessAt DEF DataOK
<1> QED
  BY <1>4, <1>6, <1>7

LEMMA BlockReturned ==
    ASSUME RunInv, ReturnToBlock
    PROVE  DataOK /\ Shape /\ Lessens
<1> DEFINE N == Len(tokens)
<1>1. /\ RunTypeOK /\ IsTokens(tokens) /\ control \in Seq(Frame) /\ at = "returned"
      /\ Counted(control) /\ parser \in Parser /\ OnTop("block")
  BY DEF RunInv, RunTypeOK, StackOK, ReturnToBlock
<1>2. DataOK
  BY <1>1, KeepDataOK DEF ReturnToBlock
<1>3. parser.pos \in 1 .. N + 1 /\ N \in Nat /\ Len(control) \in Nat
  BY <1>1, WorkNow
<1>4. at' = "block" /\ control' = control /\ parser' = advanceToken(parser)
  BY DEF ReturnToBlock
<1>5. /\ parser' \in Parser
      /\ parser'.pos = IF parser.pos > N THEN parser.pos ELSE parser.pos + 1
  <2>1. parser' \in Parser
    BY <1>1, <1>4, AdvanceMoves DEF Moves
  <2> QED
    BY <1>1, <1>4, <2>1 DEF advanceToken, Parser
<1>6. Shape
  BY <1>1, <1>4, <1>5 DEF Shape, StackOK, OnTop, Top
<1>7. IsBelow(Here(N, at', parser'.pos, control'), Here(N, at, parser.pos, control))
  <2>1. CASE parser.pos > N
    BY <1>1, <1>4, <1>5, <2>1 DEF IsBelow, Here, Rank
  <2>2. CASE ~(parser.pos > N)
    BY <1>1, <1>3, <1>4, <1>5, <2>2 DEF IsBelow, Here, Rest
  <2> QED
    BY <2>1, <2>2
<1> QED
  BY <1>1, <1>2, <1>4, <1>5, <1>6, <1>7, LessAt DEF DataOK

\* The one step that the measure does not see: the condition is read again.
LEMMA WhileReturned ==
    ASSUME RunInv, ReturnToWhile
    PROVE  DataOK /\ Shape
<1>1. /\ RunTypeOK /\ control \in Seq(Frame) /\ at = "returned"
      /\ Counted(control) /\ parser \in Parser /\ OnTop("while")
      /\ at' = "loop" /\ parser' = parser /\ control' = control
  BY DEF RunInv, RunTypeOK, StackOK, ReturnToWhile
<1>2. DataOK
  BY <1>1, KeepDataOK DEF ReturnToWhile
<1>3. Top \in Frame /\ Popped \in Seq(Frame) /\ control = Append(Popped, Top)
  BY <1>1, TopFrame
<1>4. Counted(Popped)
  BY <1>1, <1>3, CountedFront
<1>5. StackOK'
  BY <1>1, <1>4 DEF StackOK, OnTop, Top, Popped
<1> QED
  BY <1>1, <1>2, <1>5 DEF Shape

LEMMA CallReturned ==
    ASSUME RunInv, ReturnToCall
    PROVE  DataOK /\ Shape /\ Lessens
<1>1. /\ RunTypeOK /\ IsTokens(tokens) /\ control \in Seq(Frame) /\ at = "returned"
      /\ Counted(control) /\ parser \in Parser /\ OnTop("call")
  BY DEF RunInv, RunTypeOK, StackOK, ReturnToCall
<1>2. DataOK
  BY <1>1, KeepDataOK DEF ReturnToCall
<1>3. at' = "returned" /\ control' = Popped /\ parser' = From(parser, Top.return)
  BY DEF ReturnToCall, Leave, Return
<1>4. /\ Top \in Frame /\ Top.kind = "call" /\ Popped \in Seq(Frame)
      /\ control = Append(Popped, Top) /\ control # <<>>
  <2>1. control # <<>>
    BY <1>1 DEF OnTop
  <2> QED
    BY <1>1, <2>1, TopFrame
<1>5. Counted(Popped)
  BY <1>1, <1>4, CountedFront
<1>6. Top.return \in Places /\ Saved(Top) = Top.return
  <2>1. Top.return \in PlacesOf(";")
    BY <1>4, FrameFields
  <2> QED
    BY <1>1, <1>4, <2>1, PlacesAreHere DEF Saved
<1>7. parser' \in Parser /\ Saved(Top) <= parser'.pos
  BY <1>1, <1>3, <1>6, PlacesAreHere DEF Behind
<1>8. Shape
  BY <1>3, <1>4, <1>5, <1>7 DEF Shape, StackOK
<1>9. Top.kind # "block"
  BY <1>4
<1> QED
  BY <1>1, <1>2, <1>3, <1>4, <1>7, <1>8, <1>9, LessEnded DEF DataOK

LEMMA ProgramReturned ==
    ASSUME RunInv, ReturnToProgram
    PROVE  DataOK /\ Shape /\ Lessens
<1> DEFINE N == Len(tokens)
           r == recover_statement(parser)
           p == IF parser.error THEN [r EXCEPT !.error = FALSE] ELSE parser
           q == advanceToken(p)
<1>1. /\ RunTypeOK /\ IsTokens(tokens) /\ control \in Seq(Frame) /\ at = "returned"
      /\ Counted(control) /\ parser \in Parser /\ control = <<>>
      /\ parser.pos \in Nat /\ Behind(parser, parser.pos)
  BY Here1 DEF RunInv, RunTypeOK, StackOK, ReturnToProgram
<1>2. DataOK
  BY <1>1, KeepDataOK DEF ReturnToProgram
<1>3. parser.pos \in 1 .. N + 1 /\ N \in Nat /\ Len(control) \in Nat
  BY <1>1, WorkNow
<1>4. /\ at' = IF Current(q) = EOF THEN "done" ELSE "statement"
      /\ control' = control /\ parser' = q
  BY DEF ReturnToProgram
<1>5. p \in Parser /\ parser.pos <= p.pos
  <2>1. Behind(r, parser.pos)
    BY <1>1, Further
  <2>2. Behind([r EXCEPT !.error = FALSE], parser.pos)
    BY <1>1, <2>1, Further
  <2> QED
    BY <1>1, <2>2 DEF Behind
<1> HIDE DEF r, p
<1>6. q \in Parser /\ q.pos = IF p.pos > N THEN p.pos ELSE p.pos + 1
  <2>1. q \in Parser
    BY <1>1, <1>5, AdvanceMoves DEF Moves
  <2> QED
    BY <1>5, <2>1 DEF advanceToken, Parser
<1>7. p.pos \in 1 .. N + 1 /\ (Current(q) # EOF => ~(q.pos > N))
  BY <1>5 DEF Parser, Current
<1> HIDE DEF q
<1>8. Shape
  BY <1>1, <1>4, <1>6 DEF Shape, StackOK
<1>9. IsBelow(Here(N, at', parser'.pos, control'), Here(N, at, parser.pos, control))
  <2>1. CASE p.pos > N
    <3>1. at' = "done" /\ q.pos = p.pos
      BY <1>4, <1>6, <1>7, <2>1
    <3> QED
      BY <1>1, <1>3, <1>4, <1>5, <1>7, <3>1 DEF IsBelow, Here, Rest, Rank
  <2>2. CASE ~(p.pos > N)
    BY <1>1, <1>3, <1>4, <1>5, <1>6, <1>7, <2>2 DEF IsBelow, Here, Rest
  <2> QED
    BY <2>1, <2>2
<1> QED
  BY <1>1, <1>2, <1>4, <1>6, <1>8, <1>9, LessAt DEF DataOK

LEMMA ForReturned ==
    ASSUME RunInv, ReturnToFor
    PROVE  DataOK /\ Shape /\ Lessens
<1> DEFINE N == Len(tokens)
           k == Len(control)
           g == [Top EXCEPT !.counter = @ + 1]
           W == Weights(N, Popped)
           u == Weight(N, g)
           v == Weight(N, Top)
           h == Here(N, at, parser.pos, control)
           x == Here(N, at', parser'.pos, control')
<1>1. /\ RunTypeOK /\ IsTokens(tokens) /\ control \in Seq(Frame) /\ at = "returned"
      /\ Counted(control) /\ parser \in Parser /\ OnTop("for")
  BY DEF RunInv, RunTypeOK, StackOK, ReturnToFor
<1>2. DataOK
  BY <1>1, KeepDataOK DEF ReturnToFor
<1>3. /\ at' = "loop" /\ parser' = parser
      /\ control' = [control EXCEPT ![Len(control)].counter = @ + 1]
  BY DEF ReturnToFor
<1>4. /\ Top \in Frame /\ Top.kind = "for" /\ Popped \in Seq(Frame)
      /\ control = Append(Popped, Top) /\ control # <<>>
  <2>1. control # <<>>
    BY <1>1 DEF OnTop
  <2> QED
    BY <1>1, <2>1, TopFrame
<1>5. Counted(Popped) /\ Top.counter <= Top.end
  BY <1>1, <1>4, CountedFront
<1>6. /\ Top \in [kind : {"for"}, var : Names, counter : Int, end : Int, body : PlacesOf("{")]
      /\ Top.counter \in Int /\ Top.end \in Int
  BY <1>4 DEF Frame
<1>7. /\ g \in Frame /\ g.kind = "for" /\ g.counter = Top.counter + 1
      /\ g.end = Top.end /\ g.body = Top.body
  <2> DEFINE B == PlacesOf("{")
             f == Top
  <2>1. f \in [kind : {"for"}, var : Names, counter : Int, end : Int, body : B]
    BY <1>6
  <2> HIDE DEF B, f
  <2>2. [f EXCEPT !.counter = @ + 1]
          \in [kind : {"for"}, var : Names, counter : Int, end : Int, body : B]
    BY <2>1
  <2>3. /\ [f EXCEPT !.counter = @ + 1].kind = "for"
        /\ [f EXCEPT !.counter = @ + 1].counter = f.counter + 1
        /\ [f EXCEPT !.counter = @ + 1].end = f.end /\ [f EXCEPT !.counter = @ + 1].body = f.body
    BY <2>1
  <2> QED
    BY <2>2, <2>3 DEF Frame, B, f
<1>8. control' = Append(Popped, g)
  <2>1. k \in Nat \ {0} /\ Len(Popped) = k - 1
    BY <1>1, <1>4, Unstacked, Stacked
  <2>2. /\ Append(Popped, g) \in Seq(Frame) /\ Len(Append(Popped, g)) = k
        /\ Append(Popped, g)[k] = g
        /\ \A j \in 1 .. k - 1 : Append(Popped, g)[j] = Popped[j]
    BY <1>4, <1>7, <2>1, AppendProperties
  <2>3. \A j \in 1 .. k - 1 : control[j] = Popped[j]
    BY <1>4, <2>1, AppendProperties
  <2>4. control' = [control EXCEPT ![k] = g]
    BY <1>3 DEF Top
  <2>5. /\ control' \in Seq(Frame) /\ Len(control') = k /\ control'[k] = g
        /\ \A j \in 1 .. k - 1 : control'[j] = control[j]
    BY <1>1, <1>7, <2>1, <2>4
  <2>6. ASSUME NEW j \in 1 .. k PROVE control'[j] = Append(Popped, g)[j]
    <3>1. CASE j = k
      BY <2>2, <2>5, <3>1
    <3>2. CASE j # k
      <4>1. j \in 1 .. k - 1
        BY <2>1, <3>2
      <4> QED
        BY <2>2, <2>3, <2>5, <4>1
    <3> QED
      BY <3>1, <3>2
  <2> HIDE DEF k, g
  <2> QED
    BY <2>2, <2>5, <2>6, SeqEqual
<1>9. control' \in Seq(Frame) /\ OnTop("for")' /\ Popped' = Popped
  BY <1>4, <1>7, <1>8, Pushed
<1>10. Shape
  BY <1>1, <1>3, <1>5, <1>9 DEF Shape, StackOK
<1>11. /\ W \in Seq(Triples) /\ Weights(N, control) = Append(W, v) /\ v \in Triples
       /\ Weights(N, control') = Append(W, u) /\ u \in Triples
  BY <1>1, <1>4, <1>7, <1>8, StackWeights
<1>12. WorkLeft = Append(Append(W, v), h) /\ h \in Triples
  BY <1>1, <1>11, WorkNow
<1>13. WorkLeft' = Append(Append(W, u), x) /\ x \in Triples
  BY <1>1, <1>2, <1>3, <1>9, <1>11, WorkNext DEF DataOK
<1>14. IsBelow(u, v)
  <2>1. Saved(g) = Saved(Top)
    BY <1>4, <1>7 DEF Saved
  <2>2. TurnsOf(g) < TurnsOf(Top)
    <3>1. TurnsOf(Top) = Top.end + 1 - Top.counter
      BY <1>4, <1>5 DEF TurnsOf
    <3>2. TurnsOf(g) = IF Top.counter + 1 <= Top.end THEN Top.end + 1 - (Top.counter + 1) ELSE 0
      BY <1>7 DEF TurnsOf
    <3>3. \A a, e \in Int :
             a <= e => (IF a + 1 <= e THEN e + 1 - (a + 1) ELSE 0) < e + 1 - a
      OBVIOUS
    <3>4. (IF Top.counter + 1 <= Top.end THEN Top.end + 1 - (Top.counter + 1) ELSE 0)
            < Top.end + 1 - Top.counter
      BY <1>5, <1>6, <3>3
    <3> QED
      BY <3>1, <3>2, <3>4, Zenon
  <2>3. u[1] = v[1] /\ u[2] = TurnsOf(g) /\ v[2] = TurnsOf(Top)
    BY <2>1 DEF Weight
  <2> QED
    BY <2>2, <2>3 DEF IsBelow
<1> HIDE DEF W, u, v, h, x
<1>15. Lessens
  BY <1>11, <1>12, <1>13, <1>14, LessTurn DEF Lessens
<1> QED
  BY <1>2, <1>10, <1>15

LEMMA RunStep ==
    ASSUME RunInv, Run
    PROVE  RunInv' /\ at' \notin {"lexing", "start"} /\ (~ReturnToWhile => Lessens)
<1>1. CASE parse_program
  BY <1>1, ProgramBegins, Kept DEF Shape
<1>2. CASE parser_statement_dispatcher
  <2>1. StatementDone
    BY <1>2, StatementStep DEF RunInv
  <2>2. DataOK
    BY <2>1 DEF StatementDone
  <2> QED
    BY <2>1, <2>2, StatementGoesOn, Kept DEF Shape
<1>3. CASE WhileTurn \/ ForTurn
  <2>1. LoopDone
    BY <1>3, WhileTurned, ForTurned DEF RunInv
  <2>2. DataOK
    BY <2>1 DEF LoopDone
  <2> QED
    BY <2>1, <2>2, LoopGoesOn, Kept DEF Shape
<1>4. CASE BlockTurn
  BY <1>4, BlockGoesOn, Kept DEF Shape
<1>5. CASE ReturnToBlock
  BY <1>5, BlockReturned, Kept DEF Shape
<1>6. CASE ReturnToWhile
  BY <1>6, WhileReturned, Kept DEF Shape
<1>7. CASE ReturnToFor
  BY <1>7, ForReturned, Kept DEF Shape
<1>8. CASE ReturnToCall
  BY <1>8, CallReturned, Kept DEF Shape
<1>9. CASE ReturnToProgram
  BY <1>9, ProgramReturned, Kept DEF Shape
<1> QED
  BY <1>1, <1>2, <1>3, <1>4, <1>5, <1>6, <1>7, <1>8, <1>9 DEF Run

-----------------------------------------------------------------------------
(* The lexer leaves tokens                                                 *)

LEMMA TokenAdded ==
    ASSUME IsTokens(tokens), NEW t, Add(t), t.type # "eof",
           t.type = "number" => t.value \in Int
    PROVE  IsTokens(tokens')
<1>1. CASE tokens' = tokens
  BY <1>1
<1>2. CASE tokens' = Append(tokens, t)
  <2>1. PICK S : tokens \in Seq(S)
    BY DEF IsTokens, IsSeq
  <2>2. tokens \in Seq(S \cup {t})
    <3>1. S \subseteq S \cup {t}
      OBVIOUS
    <3> QED
      BY <2>1, <3>1, SeqMonotonic
  <2>3. Append(tokens, t) \in Seq(S \cup {t})
    BY <2>2, AppendProperties
  <2>4. /\ Len(tokens') = Len(tokens) + 1 /\ tokens'[Len(tokens) + 1] = t
        /\ \A j \in 1 .. Len(tokens) : tokens'[j] = tokens[j]
    BY <1>2, <2>1, AppendAt
  <2>5. Len(tokens) \in Nat
    BY <2>1, LenProperties
  <2>6. ASSUME NEW j \in 1 .. Len(tokens')
        PROVE  tokens'[j].type # "eof" /\ (tokens'[j].type = "number" => tokens'[j].value \in Int)
    <3>1. j \in 1 .. Len(tokens) \/ j = Len(tokens) + 1
      BY <2>4, <2>5
    <3>2. CASE j \in 1 .. Len(tokens)
      BY <2>4, <3>2 DEF IsTokens
    <3>3. CASE j = Len(tokens) + 1
      BY <2>4, <3>3
    <3> QED
      BY <3>1, <3>2, <3>3
  <2>7. IsSeq(tokens')
    BY <1>2, <2>3 DEF IsSeq
  <2> QED
    BY <2>6, <2>7 DEF IsTokens
<1> QED
  BY <1>1, <1>2 DEF Add

LEMMA TokensFlushed ==
    ASSUME IsTokens(tokens), numBuffer \in Seq(Digits), Flush
    PROVE  IsTokens(tokens') /\ numBuffer' \in Seq(Digits)
<1>1. CASE mode = "id"
  <2>1. Add(IdToken(idBuffer)) /\ numBuffer' = numBuffer
    BY <1>1 DEF Flush
  <2>2. IdToken(idBuffer).type = "id"
    BY DEF IdToken
  <2> QED
    BY <2>1, <2>2, TokenAdded
<1>2. CASE mode = "number"
  <2>1. Add(NumToken(Value(numBuffer))) /\ numBuffer' = <<>>
    BY <1>2 DEF Flush
  <2>2. Value(numBuffer) \in Int
    BY ValueIsInt
  <2>3. /\ NumToken(Value(numBuffer)).type = "number"
        /\ NumToken(Value(numBuffer)).value = Value(numBuffer)
    BY DEF NumToken
  <2>4. IsTokens(tokens')
    BY <2>1, <2>2, <2>3, TokenAdded
  <2> QED
    BY <2>1, <2>4, EmptySeq
<1>3. CASE mode \notin {"id", "number"}
  <2>1. tokens' = tokens /\ numBuffer' = numBuffer
    BY <1>3 DEF Flush
  <2> QED
    BY <2>1
<1> QED
  BY <1>1, <1>2, <1>3

LEMMA LexStep ==
    ASSUME RunInv, Lex, UNCHANGED runVars
    PROVE  RunInv'
<1>1. at = "lexing" /\ IsTokens(tokens) /\ numBuffer \in Seq(Digits) /\ BasicInit
  BY DEF RunInv, RunTypeOK, FreshUntilStart, Lex, ReadString, ReadSpace, OpenString,
         ReadOn, EndWord, Begin, EndOfText, InText
<1>2. at' \in {"lexing", "start"}
  BY <1>1 DEF Lex, ReadString, ReadSpace, OpenString,
              ReadOn, EndWord, Begin, EndOfText, Consume
<1>3. BasicInit'
  BY <1>1 DEF BasicInit, runVars
<1>4. IsTokens(tokens') /\ numBuffer' \in Seq(Digits)
  <2>1. CASE ReadString
    <3>1. numBuffer' = numBuffer /\ (tokens' = tokens \/ Add(StrToken(string)))
      BY <2>1 DEF ReadString
    <3>2. StrToken(string).type = "string"
      BY DEF StrToken
    <3> QED
      BY <1>1, <3>1, <3>2, TokenAdded
  <2>2. CASE ReadSpace
    BY <1>1, <2>2, TokensFlushed DEF ReadSpace
  <2>3. CASE OpenString
    BY <1>1, <2>3 DEF OpenString
  <2>4. CASE ReadOn
    <3>1. tokens' = tokens
      BY <2>4 DEF ReadOn
    <3>2. numBuffer' = numBuffer \/ (numBuffer' = Append(numBuffer, place) /\ place \in Digits)
      BY <2>4 DEF ReadOn, Continues
    <3> QED
      BY <1>1, <3>1, <3>2, AppendProperties
  <2>5. CASE EndWord
    BY <1>1, <2>5, TokensFlushed DEF EndWord
  <2>6. CASE Begin
    <3>1. \/ numBuffer' = numBuffer /\ (tokens' = tokens \/ Add(SymToken(place)))
          \/ tokens' = tokens /\ numBuffer' = Append(numBuffer, place) /\ place \in Digits
      BY <2>6 DEF Begin
    <3>2. SymToken(place).type = "symbol"
      BY DEF SymToken
    <3> QED
      BY <1>1, <3>1, <3>2, TokenAdded, AppendProperties
  <2>7. CASE EndOfText
    BY <1>1, <2>7, TokensFlushed DEF EndOfText
  <2> QED
    BY <2>1, <2>2, <2>3, <2>4, <2>5, <2>6, <2>7 DEF Lex
<1>5. RunTypeOK'
  <2>1. Len(tokens') \in Nat
    BY <1>4, LenProperties DEF IsTokens, IsSeq
  <2>2. parser' \in Parser'
    <3>1. parser' = [pos |-> 1, error |-> FALSE, val |-> 0]
      BY <1>3 DEF BasicInit
    <3> QED
      BY <2>1, <3>1 DEF Parser
  <2>3. IsTable(vars')
    <3>1. vars' = <<>>
      BY <1>3 DEF BasicInit
    <3> QED
      BY <3>1 DEF IsTable
  <2>4. funcs' \in Seq(Declared') /\ control' \in Seq(Frame')
    BY <1>3, EmptySeq DEF BasicInit
  <2> QED
    BY <1>4, <2>2, <2>3, <2>4 DEF RunTypeOK
<1>6. StackOK'
  <2>1. control' = <<>>
    BY <1>3 DEF BasicInit
  <2>2. Counted(control')
    BY <2>1 DEF Counted
  <2> QED
    BY <1>2, <2>2 DEF StackOK
<1>7. FreshUntilStart'
  BY <1>3, <1>4 DEF FreshUntilStart
<1> QED
  BY <1>5, <1>6, <1>7 DEF RunInv

LEMMA RunStarts ==
    ASSUME BasicInit,
           \/ at = "lexing" /\ \E t \in Seq(Chars) : LexInit(t, <<>>)
           \/ at = "start" /\ \E ts : IsTokens(ts) /\ LexInit(<<>>, ts)
    PROVE  RunInv
<1>1. IsTokens(tokens) /\ numBuffer = <<>>
  <2>1. CASE at = "lexing" /\ \E t \in Seq(Chars) : LexInit(t, <<>>)
    <3>1. tokens = <<>> /\ numBuffer = <<>>
      BY <2>1 DEF LexInit
    <3>2. tokens \in Seq({}) /\ Len(tokens) = 0
      BY <3>1, EmptySeq
    <3> QED
      BY <3>1, <3>2 DEF IsTokens, IsSeq
  <2>2. CASE at = "start" /\ \E ts : IsTokens(ts) /\ LexInit(<<>>, ts)
    BY <2>2 DEF LexInit
  <2> QED
    BY <2>1, <2>2
<1>2. RunTypeOK
  <2>1. parser \in Parser
    BY <1>1, LengthOfTokens DEF BasicInit, Parser
  <2>2. IsTable(vars)
    BY DEF BasicInit, IsTable
  <2>3. funcs \in Seq(Declared) /\ control \in Seq(Frame)
    BY EmptySeq DEF BasicInit
  <2> QED
    BY <1>1, <2>1, <2>2, <2>3 DEF RunTypeOK
<1>3. StackOK
  BY DEF StackOK, BasicInit, Counted
<1>4. FreshUntilStart
  BY <1>1, EmptySeq DEF FreshUntilStart
<1> QED
  BY <1>2, <1>3, <1>4 DEF RunInv

LEMMA BasicStep ==
    ASSUME RunInv, [BasicNext]_basicVars
    PROVE  RunInv' /\ (Run /\ ~ReturnToWhile => IsLess(WorkLeft', WorkLeft))
<1>1. ASSUME Run PROVE RunInv' /\ (~ReturnToWhile => IsLess(WorkLeft', WorkLeft))
  BY <1>1, RunStep DEF Lessens
<1>2. CASE Lex /\ UNCHANGED runVars
  BY <1>1, <1>2, LexStep
<1>3. CASE UNCHANGED basicVars
  <2>1. RunInv'
    <3>1. /\ at' = at /\ parser' = parser /\ vars' = vars /\ funcs' = funcs
          /\ control' = control /\ printed' = printed /\ tokens' = tokens
          /\ numBuffer' = numBuffer
      BY <1>3 DEF basicVars, runVars, lexVars
    <3>2. RunTypeOK'
      BY <3>1, SameTokens DEF RunInv, RunTypeOK
    <3>3. StackOK'
      BY <3>1 DEF RunInv, StackOK, OnTop, Top, Popped
    <3>4. FreshUntilStart'
      BY <3>1 DEF RunInv, FreshUntilStart, BasicInit
    <3> QED
      BY <3>2, <3>3, <3>4 DEF RunInv
  <2> QED
    BY <1>1, <2>1
<1> QED
  BY <1>1, <1>2, <1>3 DEF BasicNext, Ended

\* For every text and every tokens: a variable's value is a number, a loop or a
\* call comes back to a place of the program, a for loop and a call to their brace
\* and their semicolon, every turn is taken by the frame on top that it belongs to,
\* and no for loop runs its body beyond its end.
THEOREM InterpreterInv == BasicSpec => []RunInv
<1>1. BasicInit /\ (\/ at = "lexing" /\ \E t \in Seq(Chars) : LexInit(t, <<>>)
                    \/ at = "start" /\ \E ts : IsTokens(ts) /\ LexInit(<<>>, ts))
        => RunInv
  BY RunStarts
<1>2. RunInv /\ [BasicNext]_basicVars => RunInv'
  BY BasicStep
<1> QED
  BY <1>1, <1>2, PTL DEF BasicSpec

\* A step other than the one from the body of a while loop to its condition leaves
\* less to do: a program that does not end takes the turns of a while loop for ever
\* or calls functions within functions without bound.
StepsRunOut == [][Run /\ ~ReturnToWhile => IsLess(WorkLeft', WorkLeft)]_basicVars

\* For every text and every tokens: the interpreter is lost in nothing but the
\* program's own while loops and recursion, whatever its errors.
THEOREM ProgramsRunOut == BasicSpec => StepsRunOut
<1>1. RunInv /\ [BasicNext]_basicVars
        => [Run /\ ~ReturnToWhile => IsLess(WorkLeft', WorkLeft)]_basicVars
  BY BasicStep
<1> QED
  BY <1>1, InterpreterInv, PTL DEF BasicSpec, StepsRunOut

-----------------------------------------------------------------------------
(* The words are cut before the program runs                               *)

\* Tokens that are given without a text have not been cut here.
WordsInv == text # <<>> /\ at \in {"lexing", "start"} => LexInv

LEMMA WordsStep ==
    ASSUME RunInv, WordsInv, [BasicNext]_basicVars
    PROVE  WordsInv'
<1>1. CASE Lex /\ UNCHANGED runVars
  <2>1. text' = text /\ at = "lexing"
    BY <1>1 DEF Lex, ReadString, ReadSpace, OpenString, ReadOn, EndWord, Begin, EndOfText,
                Consume, InText
  <2>2. text # <<>> => LexInv'
    BY <1>1, <2>1, LexNext DEF WordsInv
  <2> QED
    BY <2>1, <2>2 DEF WordsInv
<1>2. CASE Run
  <2>1. at' \notin {"lexing", "start"}
    BY <1>2, RunStep
  <2> QED
    BY <2>1 DEF WordsInv
<1>3. CASE UNCHANGED basicVars
  <2>1. UNCHANGED <<at, lexVars>>
    BY <1>3 DEF basicVars
  <2>2. text' = text /\ at' = at
    BY <2>1 DEF lexVars
  <2>3. LexInv => LexInv'
    BY <2>1, LexNext
  <2> QED
    BY <2>2, <2>3 DEF WordsInv
<1> QED
  BY <1>1, <1>2, <1>3 DEF BasicNext, Ended

\* For every text: when the interpreter starts, the tokens are the text's words.
THEOREM InterpretsWords == BasicSpec => []LexesWords
<1>1. BasicInit /\ (\/ at = "lexing" /\ \E t \in Seq(Chars) : LexInit(t, <<>>)
                    \/ at = "start" /\ \E ts : IsTokens(ts) /\ LexInit(<<>>, ts))
        => WordsInv
  BY LexAtFirst DEF WordsInv, LexInit
<1>2. RunInv /\ WordsInv /\ [BasicNext]_basicVars => WordsInv'
  BY WordsStep
<1>3. WordsInv => LexesWords
  BY CutIsWords DEF WordsInv, LexesWords
<1> QED
  BY <1>1, <1>2, <1>3, InterpreterInv, PTL DEF BasicSpec

-----------------------------------------------------------------------------
(* The tables                                                              *)

\* No table grows beyond its end.
TablesFit ==
    /\ IsFiniteSet(DOMAIN vars) /\ Cardinality(DOMAIN vars) <= MaxVars
    /\ Len(funcs) <= MaxFuncs

\* What a step may do to the tables.
TablesStep ==
    /\ vars' = vars \/ \E x, v : vars' = Set(vars, x, v)
    /\ funcs' = funcs \/ (Len(funcs) < MaxFuncs /\ \E d : funcs' = Append(funcs, d))

LEMMA TablesChange ==
    ASSUME [BasicNext]_basicVars
    PROVE  TablesStep
<1>1. CASE UNCHANGED <<vars, funcs>>
  BY <1>1 DEF TablesStep
<1>2. CASE execute_assignment
  BY <1>2 DEF execute_assignment, TablesStep
<1>3. CASE compile_for_loop
  BY <1>3 DEF compile_for_loop, TablesStep
<1>4. CASE ForTurn
  BY <1>4 DEF ForTurn, TablesStep
<1>5. CASE parse_function_declaration
  BY <1>5 DEF parse_function_declaration, TablesStep
<1>6. \/ UNCHANGED <<vars, funcs>> \/ execute_assignment \/ compile_for_loop \/ ForTurn
      \/ parse_function_declaration
  <2>1. KeepData => UNCHANGED <<vars, funcs>>
    BY DEF KeepData
  <2>2. parser_statement_dispatcher
          => \/ UNCHANGED <<vars, funcs>> \/ execute_assignment \/ compile_for_loop
             \/ parse_function_declaration
    BY <2>1 DEF parser_statement_dispatcher, NotAStatement, execute_print_statement,
                compile_if_statement, compile_while_loop, compile_function_call
  <2>3. Run => \/ UNCHANGED <<vars, funcs>> \/ ForTurn \/ parser_statement_dispatcher
    BY <2>1 DEF Run, parse_program, BlockTurn, WhileTurn, ReturnToBlock, ReturnToWhile,
                ReturnToFor, ReturnToCall, ReturnToProgram
  <2>4. UNCHANGED runVars => UNCHANGED <<vars, funcs>>
    BY DEF runVars
  <2>5. UNCHANGED basicVars => UNCHANGED <<vars, funcs>>
    BY DEF basicVars, runVars
  <2> QED
    BY <2>2, <2>3, <2>4, <2>5 DEF BasicNext, Ended
<1> QED
  BY <1>1, <1>2, <1>3, <1>4, <1>5, <1>6

\* A variable, once set, and a function, once declared, stay, and the functions
\* stay where they are: the first declaration of a name is always the one called.
NothingForgotten ==
    [][/\ DOMAIN vars \subseteq DOMAIN vars'
       /\ \A i \in 1 .. Len(funcs) : i \in 1 .. Len(funcs') /\ funcs'[i] = funcs[i]]_basicVars

LEMMA TablesKeep ==
    ASSUME TablesFit, funcs \in Seq(Declared), TablesStep
    PROVE  /\ TablesFit' /\ DOMAIN vars \subseteq DOMAIN vars'
           /\ \A i \in 1 .. Len(funcs) : i \in 1 .. Len(funcs') /\ funcs'[i] = funcs[i]
<1>1. /\ DOMAIN vars \subseteq DOMAIN vars' /\ IsFiniteSet(DOMAIN vars')
      /\ Cardinality(DOMAIN vars') <= MaxVars
  <2>1. CASE vars' = vars
    BY <2>1 DEF TablesFit
  <2>2. CASE \E x, v : vars' = Set(vars, x, v)
    <3>1. PICK x, v : vars' = Set(vars, x, v)
      BY <2>2
    <3>2. CASE ~HasRoom(vars, x)
      BY <3>1, <3>2 DEF TablesFit, Set
    <3>3. CASE HasRoom(vars, x)
      <4>1. DOMAIN vars' = DOMAIN vars \cup {x}
        BY <3>1, <3>3 DEF Set
      <4>2. /\ IsFiniteSet(DOMAIN vars')
            /\ Cardinality(DOMAIN vars') = IF x \in DOMAIN vars THEN Cardinality(DOMAIN vars)
                                           ELSE Cardinality(DOMAIN vars) + 1
        BY <4>1, FS_AddElement DEF TablesFit
      <4>3. Cardinality(DOMAIN vars) \in Nat
        BY FS_CardinalityType DEF TablesFit
      <4>4. Cardinality(DOMAIN vars') <= MaxVars
        BY <3>3, <4>2, <4>3, BasicAssumption DEF HasRoom, TablesFit
      <4> QED
        BY <4>1, <4>2, <4>4
    <3> QED
      BY <3>2, <3>3
  <2> QED
    BY <2>1, <2>2 DEF TablesStep
<1>2. /\ Len(funcs') <= MaxFuncs
      /\ \A i \in 1 .. Len(funcs) : i \in 1 .. Len(funcs') /\ funcs'[i] = funcs[i]
  <2>1. CASE funcs' = funcs
    BY <2>1 DEF TablesFit
  <2>2. CASE Len(funcs) < MaxFuncs /\ \E d : funcs' = Append(funcs, d)
    <3>1. PICK d : funcs' = Append(funcs, d)
      BY <2>2
    <3>2. /\ Len(funcs') = Len(funcs) + 1
          /\ \A i \in 1 .. Len(funcs) : funcs'[i] = funcs[i]
      BY <3>1, AppendAt
    <3>3. Len(funcs) \in Nat
      BY LenProperties
    <3> QED
      BY <2>2, <3>2, <3>3, BasicAssumption
  <2> QED
    BY <2>1, <2>2 DEF TablesStep
<1> QED
  BY <1>1, <1>2 DEF TablesFit

LEMMA TablesAtFirst == BasicInit => TablesFit
<1> SUFFICES ASSUME BasicInit PROVE TablesFit
  OBVIOUS
<1>1. DOMAIN vars = {} /\ Len(funcs) = 0
  BY EmptySeq DEF BasicInit
<1>2. IsFiniteSet(DOMAIN vars) /\ Cardinality(DOMAIN vars) = 0
  BY <1>1, FS_EmptySet
<1> QED
  BY <1>1, <1>2, BasicAssumption DEF TablesFit

\* For every program: set_variable and the declaration of a function stay within
\* MAX_VARS and MAX_FUNCS, whatever errors came before.
THEOREM TablesAreBounded == BasicSpec => []TablesFit
<1>1. BasicInit => TablesFit
  BY TablesAtFirst
<1>2. RunInv /\ TablesFit /\ [BasicNext]_basicVars => TablesFit'
  BY TablesChange, TablesKeep DEF RunInv, RunTypeOK
<1> QED
  BY <1>1, <1>2, InterpreterInv, PTL DEF BasicSpec

\* For every program: no step takes a variable or a function back.
THEOREM DeclarationsStay == BasicSpec => NothingForgotten
<1>1. RunInv /\ TablesFit /\ [BasicNext]_basicVars
        => [/\ DOMAIN vars \subseteq DOMAIN vars'
            /\ \A i \in 1 .. Len(funcs) :
                  i \in 1 .. Len(funcs') /\ funcs'[i] = funcs[i]]_basicVars
  BY TablesChange, TablesKeep DEF RunInv, RunTypeOK
<1> QED
  BY <1>1, InterpreterInv, TablesAreBounded, PTL DEF BasicSpec, NothingForgotten
=============================================================================
