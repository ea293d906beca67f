---------------------------- MODULE ModelDriver ----------------------------
(***************************************************************************)
(* The program of src/g_modelformat_compiler as its user runs it: a source *)
(* is compiled to a file, the file is turned back into a source, and that  *)
(* is compiled again.  Each run of driver.c writes what it has to its      *)
(* file, also after an error.                                              *)
(***************************************************************************)
EXTENDS ModelFormat

CONSTANTS Documents,     \* the sources of the format considered
          Sources        \* the sources given to the compiler, well formed or not

ASSUME ModelDriverAssumption == Documents \subseteq Sources

VARIABLES source, binary, text, again,   \* the files
          exit,                          \* how the last run ended
          phase

vars == <<source, binary, text, again, exit, phase>>

Init == /\ source \in Sources
        /\ binary = <<>>
        /\ text = <<>>
        /\ again = <<>>
        /\ exit = "none"
        /\ phase = "compile"

\* An assertion ends the program before it writes to its file.
Written(status, content) == IF status = "abort" THEN <<>> ELSE content
CompileExit(status) == CASE status = "going" -> "success" [] status = "panic" -> "error" [] OTHER -> "abort"

Compile ==
  /\ phase = "compile"
  /\ phase' = "decompile"
  /\ LET c == compile(source)
     IN binary' = Written(c.status, c.chunk) /\ exit' = CompileExit(c.status)
  /\ UNCHANGED <<source, text, again>>

\* decompile sets its result after an error only: driver.c reads an uninitialised
\* one after a success and may end with either exit code.
Decompile ==
  /\ phase = "decompile"
  /\ exit = "success"
  /\ phase' = "recompile"
  /\ LET d == decompile(binary)
     IN /\ text' = Written(d.status, d.out)
        /\ exit' \in IF d.status = "going" THEN {"success", "error"} ELSE {CompileExit(d.status)}
  /\ UNCHANGED <<source, binary, again>>

Recompile ==
  /\ phase = "recompile"
  /\ phase' = "done"
  /\ LET c == compile(text)
     IN again' = Written(c.status, c.chunk) /\ exit' = CompileExit(c.status)
  /\ UNCHANGED <<source, binary, text>>

Next == Compile \/ Decompile \/ Recompile

Spec == Init /\ [][Next]_vars

-----------------------------------------------------------------------------
\* No list of the source has more elements than its memory holds.
FitsMemory(tokens) ==
  \A i \in 1 .. Len(tokens) - ListCapacity + 1 :
    \E j \in i .. i + ListCapacity - 1 : tokens[j].type \notin {"S32", "R32"}

\* A number as it is printed after the chunk it stands in has converted it.
InPositions(tokens, i) ==
  \E k \in 1 .. i : /\ tokens[k].type = "positions"
                    /\ \A j \in k + 1 .. i : tokens[j].type \in {"(", ")", "S32", "R32"}
InItsList(tokens, i) ==
  IF tokens[i].type \notin {"S32", "R32"} THEN tokens[i]
  ELSE IF InPositions(tokens, i) THEN Number("R32", Converted(tokens[i], R32))
  ELSE Number("S32", Converted(tokens[i], S32))

\* No real number has more decimals than are printed: the compiler reads them up to
\* the first zero.
PrintsItsReals(tokens) ==
  \A i \in DOMAIN tokens :
    tokens[i].type = "R32" /\ InPositions(tokens, i) => \E k \in 1 .. Decimals + 1 : Decimal(tokens[i].value, k) = 0


\* The compiler accepts the documents of the format and nothing else: a token
\* missing, left over or exchanged is met at whatever depth, although the end of
\* a chunk is found by looking at the token before or behind.
AcceptsGrammar ==
  (phase = "decompile") => ((exit = "success") <=> (source \in Documents))
=============================================================================
