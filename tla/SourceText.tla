----------------------------- MODULE SourceText -----------------------------
(***************************************************************************)
(* Translation phases 1 and 2 (file_storage.c): a file that has been read  *)
(* is rewritten three times in its own buffer, by a read and a write       *)
(* pointer: line ends become \n, trigraphs the character they stand for,   *)
(* and a backslash before a line end joins the line with the next, the     *)
(* line ends taken out being put back after the joined line.  One action   *)
(* is one turn of one of the three loops.                                  *)
(*                                                                         *)
(* A cell of the buffer is a character together with "at", which is not in *)
(* the code: the place in the file that it was read from; 0 for a line end *)
(* that is put back.                                                       *)
(***************************************************************************)
EXTENDS Naturals, Sequences, FiniteSets

CONSTANT Texts        \* the contents of files, as sequences of characters
ASSUME TextsAssumption == Texts \subseteq Seq(STRING)

Nl  == "nl"
Cr  == "cr"
Nul == "nul"
Bom == "bom"          \* the three bytes of a byte order mark

VARIABLES
  text,               \* the file's contents
  buf,                \* the buffer
  start,              \* where the text in the buffer begins
  phase,              \* the loop that runs
  read, write,
  n                   \* line ends taken out of the current line

textVars == <<text, buf, start, phase, read, write, n>>

\* What each trigraph stands for, by its third character.
Trigraph ==
  [c \in {"<", ">", "(", ")", "=", "/", "'", "!", "-"} |->
     CASE c = "<" -> "{" [] c = ">" -> "}" [] c = "(" -> "[" [] c = ")" -> "]"
       [] c = "=" -> "#" [] c = "/" -> "\\" [] c = "'" -> "^" [] c = "!" -> "|"
       [] c = "-" -> "~"]

-----------------------------------------------------------------------------
(* What the phases are to make of a text, from its positions alone.         *)

IsTrigraph(t, i) ==
  /\ i + 2 <= Len(t) /\ t[i] = "?" /\ t[i + 1] = "?"
  /\ t[i + 2] \in DOMAIN Trigraph

Meant(t, i)     == IF IsTrigraph(t, i) THEN Trigraph[t[i + 2]] ELSE t[i]
After(t, i)     == IF IsTrigraph(t, i) THEN i + 3 ELSE i + 1
InTrigraph(t, i) == \E k \in {1, 2} : i > k /\ IsTrigraph(t, i - k)

EndsLine(t, i) == t[i] = Nl \/ (t[i] = Cr /\ (i < Len(t) => t[i + 1] # Nl))

\* A line end that a backslash stands before; a CR LF begins at its CR.
Begins(t, i) == IF i > 1 /\ t[i] = Nl /\ t[i - 1] = Cr THEN i - 1 ELSE i
Joined(t, i) ==
  \E k \in 1..(i - 1) : After(t, k) = Begins(t, i) /\ Meant(t, k) = "\\" /\ ~InTrigraph(t, k)

\* The line a character is counted on: the first of the lines joined with its own.
Ends(t, i)   == {k \in 1..(i - 1) : EndsLine(t, k)}
LineOf(t, i) ==
  1 + Cardinality({k \in Ends(t, i) : \E m \in Ends(t, i) : k <= m /\ ~Joined(t, m)})

\* What is not taken out with a line end or with what a trigraph is written with.
Stays(t, i) ==
  /\ ~InTrigraph(t, i) /\ t[i] \notin {Nl, Cr}
  /\ ~(Meant(t, i) = "\\" /\ After(t, i) <= Len(t) /\ t[After(t, i)] \in {Nl, Cr})

\* The texts this is true of: a NUL ends a text for the loops, and of three question
\* marks replace_trigraphs takes the first two, though the others may be a trigraph's.
Plain(t) ==
  /\ \A i \in DOMAIN t : t[i] # Nul
  /\ ~\E i \in 1..(Len(t) - 2) : \A k \in 0..2 : t[i + k] = "?"

-----------------------------------------------------------------------------
(* fs_get_file, after the file has been read.  The order mark is looked for *)
(* with strcmp: it is only skipped where nothing follows it.                *)

Cell(c, at) == [c |-> c, at |-> at]

Init ==
  /\ text \in Texts
  /\ buf = [i \in 1..(Len(text) + 1) |->
              Cell(IF i <= Len(text) THEN text[i] ELSE Nul, i)]
  /\ start = IF text = <<Bom>> THEN 2 ELSE 1
  /\ phase = "newlines"
  /\ read = start /\ write = start
  /\ n = 0

C(i)     == buf[i].c
In(p)    == phase = p /\ C(read) # Nul
AtEnd(p) == phase = p /\ C(read) = Nul

\* *write++ = c, after "taken" characters have been read
Put(c, taken) ==
  /\ buf' = [buf EXCEPT ![write] = Cell(c, buf[read].at)]
  /\ read' = read + taken
  /\ write' = write + 1
  /\ UNCHANGED <<text, start, phase, n>>

\* *write++ = *read++, k times
Copy(k) ==
  /\ buf' = [i \in DOMAIN buf |->
               IF i \in write..(write + k - 1) THEN buf[i - write + read] ELSE buf[i]]
  /\ read' = read + k
  /\ write' = write + k
  /\ UNCHANGED <<text, start, phase, n>>

\* The text ends at "write"; the next loop starts from the beginning.
NextPhase(p) ==
  /\ buf' = [buf EXCEPT ![write] = buf[read]]
  /\ phase' = p
  /\ read' = start /\ write' = start
  /\ UNCHANGED <<text, start, n>>

\* canonicalize_newline
IsCrLf == C(read) = Cr /\ C(read + 1) = Nl

NewlineCrLf  == In("newlines") /\ IsCrLf /\ Put(Nl, 2)
NewlineCr    == In("newlines") /\ C(read) = Cr /\ ~IsCrLf /\ Put(Nl, 1)
NewlineOther == In("newlines") /\ C(read) # Cr /\ Copy(1)
NewlinesEnd  == AtEnd("newlines") /\ NextPhase("trigraphs")

\* replace_trigraphs: two question marks that begin no trigraph are both copied,
\* so that a trigraph that begins at the second is missed.
TwoMarks == C(read) = "?" /\ C(read + 1) = "?"

\* Plausible bug: the third character is not taken.
TrigraphReadShort == /\ In("trigraphs") /\ TwoMarks /\ C(read + 2) \in DOMAIN Trigraph
                     /\ Put(Trigraph[C(read + 2)], 2)

TrigraphRead == /\ In("trigraphs") /\ TwoMarks /\ C(read + 2) \in DOMAIN Trigraph
                /\ Put(Trigraph[C(read + 2)], 3)
TrigraphNone == /\ In("trigraphs") /\ TwoMarks /\ C(read + 2) \notin DOMAIN Trigraph
                /\ Copy(2)
TrigraphOther == In("trigraphs") /\ ~TwoMarks /\ Copy(1)
TrigraphsEnd  == AtEnd("trigraphs") /\ NextPhase("splices")

\* remove_backslash_newline
IsSplice == C(read) = "\\" /\ C(read + 1) = Nl

\* Plausible bug: the line end taken out is not counted.
SpliceUncounted ==
  /\ In("splices") /\ IsSplice
  /\ read' = read + 2
  /\ UNCHANGED <<text, buf, start, phase, write, n>>

Splice ==
  /\ In("splices") /\ IsSplice
  /\ read' = read + 2
  /\ n' = n + 1
  /\ UNCHANGED <<text, buf, start, phase, write>>

\* Plausible bug: one line end too many is put back.
SpliceLineEndExtra ==
  /\ In("splices") /\ C(read) = Nl
  /\ buf' = [i \in DOMAIN buf |->
               IF i = write THEN buf[read]
               ELSE IF i \in (write + 1)..(write + n + 1) THEN Cell(Nl, 0) ELSE buf[i]]
  /\ read' = read + 1
  /\ write' = write + 2 + n
  /\ n' = 0
  /\ UNCHANGED <<text, start, phase>>

\* The line end of a joined line is followed by those that were taken out.
SpliceLineEnd ==
  /\ In("splices") /\ C(read) = Nl
  /\ buf' = [i \in DOMAIN buf |->
               IF i = write THEN buf[read]
               ELSE IF i \in (write + 1)..(write + n) THEN Cell(Nl, 0) ELSE buf[i]]
  /\ read' = read + 1
  /\ write' = write + 1 + n
  /\ n' = 0
  /\ UNCHANGED <<text, start, phase>>

SpliceOther == In("splices") /\ ~IsSplice /\ C(read) # Nl /\ Copy(1)

\* n is not used after the loop and left as it is here.
SplicesEnd ==
  /\ AtEnd("splices")
  /\ buf' = [i \in DOMAIN buf |->
               IF i \in write..(write + n - 1) THEN Cell(Nl, 0)
               ELSE IF i = write + n THEN Cell(Nul, 0) ELSE buf[i]]
  /\ phase' = "text"
  /\ UNCHANGED <<text, start, read, write, n>>

TextNext ==
  \/ NewlineCrLf \/ NewlineCr \/ NewlineOther \/ NewlinesEnd
  \/ TrigraphRead \/ TrigraphNone \/ TrigraphOther \/ TrigraphsEnd
  \/ Splice \/ SpliceLineEnd \/ SpliceOther \/ SplicesEnd

-----------------------------------------------------------------------------
(* Properties. *)

\* The rewriting in place never writes over a character it has still to read,
\* though a line end can be followed by several that are put back, and never
\* writes past the end of the buffer.
InPlace == write + n <= read /\ read \in DOMAIN buf

\* The text the loops leave.
EndOf == CHOOSE i \in DOMAIN buf : C(i) = Nul /\ \A k \in start..(i - 1) : C(k) # Nul
Text  == [i \in 1..(EndOf - start) |-> buf[i + start - 1]]

\* Every character of the file stays, in its place, except for the line ends and
\* the backslashes before them, with trigraphs replaced.
KeepsText ==
  phase = "text" /\ Plain(text) =>
    LET left == {i \in DOMAIN Text : Text[i].c # Nl}
    IN  /\ {Text[i].at : i \in left} = {i \in start..Len(text) : Stays(text, i)}
        /\ \A i \in left : Text[i].c = Meant(text, Text[i].at)
        /\ \A i, k \in left : i < k => Text[i].at < Text[k].at

\* A character is on the line of the buffer that has the number of the line of the
\* file it is counted on.  file_storage.h:44: "Removes \ followed by \n, while
\* keeping original logical lines".
KeepsLines ==
  phase = "text" /\ Plain(text) =>
    \A i \in DOMAIN Text : Text[i].c # Nl =>
      LineOf(text, Text[i].at) = 1 + Cardinality({k \in 1..(i - 1) : Text[k].c = Nl})
=============================================================================
