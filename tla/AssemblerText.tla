--------------------------- MODULE AssemblerText ----------------------------
(***************************************************************************)
(* What the expansion of includes should be, said without a stack: the     *)
(* text that a tree of files stands for.                                   *)
(***************************************************************************)
EXTENDS Includes, FiniteSets

IncludeLines(f) == {i \in 1 .. Len(files[f]) : files[f][i].kind = "include"}
Included(f, i) == files[f][i].file

\* The files that can be reached from the main file: the least set that has it
\* and all that its members include.  They need not exist.
Named == DOMAIN files \cup
            UNION {{Included(f, i) : i \in IncludeLines(f)} : f \in DOMAIN files}
IsClosed(S) ==
    /\ MainFile \in S
    /\ \A f \in S \cap DOMAIN files : \A i \in IncludeLines(f) : Included(f, i) \in S
Reachable == {f \in Named : \A S \in SUBSET Named : IsClosed(S) => f \in S}

\* Every include line names a file that exists, that is not the main file, and
\* that no other line includes; no more than MaxIncludeDepth files are read.
IsTree ==
    LET all == Reachable IN
    /\ all \subseteq DOMAIN files
    /\ \A f \in all : \A i \in IncludeLines(f) :
          /\ Included(f, i) # MainFile
          /\ \A g \in all : \A j \in IncludeLines(g) :
                Included(f, i) = Included(g, j) => f = g /\ i = j
    /\ IsFiniteSet(all) /\ Cardinality(all) <= MaxIncludeDepth

\* What a line stands for when text[g] is the text of file g.
LineText(text, l) ==
    CASE l.kind = "include" -> IF l.file \in DOMAIN files THEN text[l.file] ELSE <<>>
      [] l.kind = "malformed include" -> <<>>
      [] OTHER -> <<l>>

\* What the first n lines of file f stand for.
TextOfLines(text, f, n) ==
    LET upTo[k \in 0 .. n] ==
          IF k = 0 THEN <<>> ELSE upTo[k - 1] \o LineText(text, files[f][k])
    IN  upTo[n]

\* The text of every file when files are read within files d deep.
TextsWithin(d) ==
    LET within[n \in 0 .. d] ==
          [f \in DOMAIN files |->
              IF n = 0 THEN <<>>
              ELSE TextOfLines(within[n - 1], f, Len(files[f]))]
    IN  within[d]

\* Expansion succeeds exactly when the includes form a tree of at most
\* MaxIncludeDepth files, and then every include has been replaced by the text
\* it stands for, wherever it stood and however deep (expand_includes).
ExpansionIsText ==
    /\ phase \in {"pass 1", "pass 2", "saved"} =>
          IsTree /\ expanded = TextsWithin(MaxIncludeDepth)[MainFile]
    /\ failure \in {"missing", "repeated", "too deep"} => ~IsTree
=============================================================================
