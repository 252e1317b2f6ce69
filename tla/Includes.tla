------------------------------ MODULE Includes ------------------------------
(***************************************************************************)
(* expand_includes of hybrid_assembler.c: the source file and the files it *)
(* names in .include lines are copied, line by line, into one temporary    *)
(* file, which the two passes of the assembler then read.                  *)
(*                                                                         *)
(* The function calls itself for every .include; `reading` is its stack of *)
(* activations.  include_stack is the array of the same name: it grows     *)
(* with every file opened and never shrinks, because include_depth is      *)
(* never decremented.                                                      *)
(***************************************************************************)
EXTENDS Integers, Sequences

CONSTANTS
    Sources,            \* the file systems to start from: names to lines
    MainFile,           \* the file the user names
    MaxIncludeDepth     \* MAX_INCLUDE_DEPTH: 64 in the code

VARIABLES
    files,              \* the file system
    phase,              \* what main is doing
    failure,            \* why it exited, if it did
    reading,            \* the files being read, the innermost one last
    include_stack,      \* every file opened so far
    expanded            \* the temporary file

incVars == <<files, phase, failure, reading, include_stack, expanded>>

ASSUME IncludeAssumption ==
    /\ MaxIncludeDepth \in Nat \ {0}
    /\ \A fs \in Sources : MainFile \in DOMAIN fs

Frame(f) == [file |-> f, next |-> 1]

\* main has opened the user's file and called expand_includes for it.
IncInit ==
    /\ files \in Sources
    /\ phase = "expand"
    /\ failure = "none"
    /\ reading = <<Frame(MainFile)>>
    /\ include_stack = <<MainFile>>
    /\ expanded = <<>>

Top == reading[Len(reading)]
HasLine == phase = "expand" /\ Top.next <= Len(files[Top.file])
NextLine == files[Top.file][Top.next]
Behind == [reading EXCEPT ![Len(reading)].next = @ + 1]

\* Faulty: only the file that is being read is looked for.
already_included_by_itself(f) == f = Top.file

\* Has the file been opened before, now or at any time?
already_included(f) == \E i \in 1 .. Len(include_stack) : include_stack[i] = f

Exit(reason) == phase' = "failed" /\ failure' = reason

CopyLine ==
    /\ HasLine
    /\ NextLine.kind \notin {"include", "malformed include"}
    /\ expanded' = Append(expanded, NextLine)
    /\ reading' = Behind
    /\ UNCHANGED <<files, phase, failure, include_stack>>

\* An .include whose name is not in double quotes is dropped without a word.
DropInclude ==
    /\ HasLine
    /\ NextLine.kind = "malformed include"
    /\ reading' = Behind
    /\ UNCHANGED <<files, phase, failure, include_stack, expanded>>

Include ==
    /\ HasLine
    /\ NextLine.kind = "include"
    /\ NextLine.file \in DOMAIN files
    /\ ~already_included(NextLine.file)
    /\ Len(include_stack) < MaxIncludeDepth
    /\ reading' = Append(Behind, Frame(NextLine.file))
    /\ include_stack' = Append(include_stack, NextLine.file)
    /\ UNCHANGED <<files, phase, failure, expanded>>

RejectInclude ==
    /\ HasLine
    /\ NextLine.kind = "include"
    /\ \/ NextLine.file \notin DOMAIN files /\ Exit("missing")
       \/ /\ NextLine.file \in DOMAIN files
          /\ already_included(NextLine.file)
          /\ Exit("repeated")
       \/ /\ NextLine.file \in DOMAIN files
          /\ ~already_included(NextLine.file)
          /\ Len(include_stack) >= MaxIncludeDepth
          /\ Exit("too deep")
    /\ UNCHANGED <<files, reading, include_stack, expanded>>

\* Faulty: the rest of the including file is forgotten.
EndOfFileOfAll ==
    /\ phase = "expand" /\ ~HasLine
    /\ reading' = <<>>
    /\ phase' = "pass 1"
    /\ UNCHANGED <<files, failure, include_stack, expanded>>

\* The function returns; when main's call returns, pass 1 begins.
EndOfFile ==
    /\ phase = "expand" /\ ~HasLine
    /\ reading' = SubSeq(reading, 1, Len(reading) - 1)
    /\ phase' = IF Len(reading) = 1 THEN "pass 1" ELSE phase
    /\ UNCHANGED <<files, failure, include_stack, expanded>>

Expand == CopyLine \/ DropInclude \/ Include \/ RejectInclude \/ EndOfFile
-----------------------------------------------------------------------------
(* What expansion promises                                                 *)

\* No file is opened twice and the array of open files does not overflow,
\* whatever the files include: expansion cannot go on for ever (the tests at
\* the head of expand_includes).
OpenedOnce ==
    /\ Len(include_stack) \in 1 .. MaxIncludeDepth
    /\ \A i, j \in 1 .. Len(include_stack) :
          include_stack[i] = include_stack[j] => i = j
=============================================================================
