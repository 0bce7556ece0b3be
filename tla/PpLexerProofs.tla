--------------------------- MODULE PpLexerProofs ---------------------------
(***************************************************************************)
(* Everything the runs of PpLexer check, for every set of texts and every  *)
(* choice of the characters.                                               *)
(*                                                                         *)
(* InPlace.  What the invariant (Rewriting) needs beside it is that a NUL  *)
(* lies at or after the read pointer: the loops stop at it, look at most   *)
(* two characters ahead, and only past characters that are not it; and     *)
(* what they write lies before what they have read.                        *)
(*                                                                         *)
(* KeepsText and KeepsLines.  What a loop has still to read and what it    *)
(* has written is, for the first two, a chain through the places of the    *)
(* file: each cell is linked to the place of the next (Chained).  For the  *)
(* third, Kept says of what is written before w that it holds the          *)
(* characters that stay, in order, each behind as many line ends as its    *)
(* line has before it, n being those still owed (Spliced, Rewritten).      *)
(* Translated is the invariant of the three.                               *)
(*                                                                         *)
(* TokensAreTheCode and LineStarts.  The lexer takes stretches, the reader *)
(* they are compared with (Mode) one character after the other.  The       *)
(* lemmas on stretches say, for any text, what the modes are over one the  *)
(* lexer takes; Lexer says what holds between two tokens, of the place, of *)
(* the flags and of all tokens before it; and LexInv is that it holds      *)
(* wherever the lexer is.                                                  *)
(*                                                                         *)
(* TokensOnTheirLine.  The lexer counts the line ends it passes (Counts),  *)
(* but not those within strings, where the loops can only have left one    *)
(* behind a backslash if another follows it (Doubling), so that only the   *)
(* last character of a token is a line end.  LineInv is the invariant, and *)
(* with Kept it gives the line of the file.                                *)
(***************************************************************************)
EXTENDS PpLexer, TLAPS, FiniteSetTheorems, WellFoundedInduction

Shape ==
  /\ DOMAIN buf \subseteq Nat
  /\ \A i, k \in DOMAIN buf : \A m \in i..k : m \in DOMAIN buf
  /\ start \in Nat /\ read \in Nat /\ write \in Nat /\ n \in Nat
  /\ start <= write
  /\ start \in DOMAIN buf
  /\ phase \in {"newlines", "trigraphs", "splices", "text"}

EndAhead == \E z \in DOMAIN buf : read <= z /\ C(z) = Nul

Rewriting ==
  /\ Shape
  /\ EndAhead
  /\ write + n <= read
  /\ phase # "splices" /\ phase # "text" => n = 0

\* A loop starts with both pointers at the beginning of a text that ends.
LEMMA InitRewriting == ASSUME Init PROVE Rewriting
<1>1. /\ text \in Seq(STRING)
      /\ DOMAIN buf = 1..(Len(text) + 1)
      /\ buf[Len(text) + 1].c = Nul
  BY TextsAssumption DEF Init, Cell
<1>2. Len(text) \in Nat
  BY <1>1
<1>3. start \in 1..(Len(text) + 1)
  <2>1. CASE text = <<Bom>>
    BY <1>2, <2>1 DEF Init
  <2>2. CASE text # <<Bom>>
    BY <1>2, <2>2 DEF Init
  <2> QED  BY <2>1, <2>2
<1>4. C(Len(text) + 1) = Nul
  BY <1>1 DEF C
<1>5. EndAhead
  BY <1>1, <1>2, <1>3, <1>4 DEF EndAhead, Init
<1>6. Shape
  BY <1>1, <1>2, <1>3 DEF Shape, Init
<1> QED  BY <1>3, <1>5, <1>6 DEF Rewriting, Shape, Init

\* The read pointer is in the buffer.
LEMMA RewritingInPlace == ASSUME Rewriting PROVE InPlace
<1>1. PICK z \in DOMAIN buf : read <= z /\ C(z) = Nul
  BY DEF Rewriting, EndAhead
<1>2. read \in start..z
  BY <1>1 DEF Rewriting, Shape
<1> QED  BY <1>1, <1>2 DEF Rewriting, Shape, InPlace

-----------------------------------------------------------------------------
(* The steps.                                                               *)

\* Where k characters are not NUL, the end lies beyond them.
LEMMA EndBeyond ==
  ASSUME Rewriting, NEW k \in Nat, \A j \in 0..(k - 1) : C(read + j) # Nul
  PROVE  \E z \in DOMAIN buf : read + k <= z /\ C(z) = Nul
<1>1. PICK z \in DOMAIN buf : read <= z /\ C(z) = Nul
  BY DEF Rewriting, EndAhead
<1>2. z \in Nat /\ read \in Nat
  BY <1>1 DEF Rewriting, Shape
<1>3. ~(z < read + k)
  <2>1. SUFFICES ASSUME z < read + k PROVE FALSE
    OBVIOUS
  <2>2. z - read \in 0..(k - 1) /\ read + (z - read) = z
    BY <1>1, <1>2, <2>1
  <2> QED  BY <1>1, <2>2
<1> QED  BY <1>1, <1>2, <1>3

\* Writing one character for one or more that have been read.
LEMMA PutRewriting ==
  ASSUME Rewriting, NEW c, NEW taken \in Nat, taken >= 1, Put(c, taken),
         \E z \in DOMAIN buf : read + taken <= z /\ C(z) = Nul
  PROVE  Rewriting'
<1>1. PICK z \in DOMAIN buf : read + taken <= z /\ C(z) = Nul
  OBVIOUS
<1>2. z \in DOMAIN buf' /\ DOMAIN buf' = DOMAIN buf
  BY <1>1 DEF Put
<1>3. z # write
  BY <1>1 DEF Rewriting, Shape
<1>4. C(z)' = Nul
  BY <1>1, <1>3 DEF Put, C
<1>5. EndAhead'
  BY <1>1, <1>2, <1>4 DEF EndAhead, Put
<1>6. Shape'
  BY <1>2 DEF Rewriting, Shape, Put
<1> QED  BY <1>5, <1>6 DEF Rewriting, Shape, Put

\* Copying characters that are not the end.
LEMMA CopyRewriting ==
  ASSUME Rewriting, NEW k \in Nat, Copy(k),
         \E z \in DOMAIN buf : read + k <= z /\ C(z) = Nul
  PROVE  Rewriting'
<1>1. PICK z \in DOMAIN buf : read + k <= z /\ C(z) = Nul
  OBVIOUS
<1>2. z \in DOMAIN buf' /\ DOMAIN buf' = DOMAIN buf
  BY <1>1 DEF Copy
<1>3. z \notin write..(write + k - 1)
  BY <1>1 DEF Rewriting, Shape
<1>4. C(z)' = Nul
  BY <1>1, <1>3 DEF Copy, C
<1>5. EndAhead'
  BY <1>1, <1>2, <1>4 DEF EndAhead, Copy
<1>6. Shape'
  BY <1>2 DEF Rewriting, Shape, Copy
<1> QED  BY <1>5, <1>6 DEF Rewriting, Shape, Copy

\* The next loop finds the end where this one has put it.
LEMMA NextPhaseRewriting ==
  ASSUME Rewriting, NEW p \in {"trigraphs", "splices"}, NextPhase(p),
         phase = "newlines" \/ phase = "trigraphs", C(read) = Nul
  PROVE  Rewriting'
<1>1. PICK z \in DOMAIN buf : read <= z /\ C(z) = Nul
  BY DEF Rewriting, EndAhead
<1>2. write \in start..z
  BY <1>1 DEF Rewriting, Shape
<1>3. write \in DOMAIN buf
  BY <1>1, <1>2 DEF Rewriting, Shape
<1>4. DOMAIN buf' = DOMAIN buf /\ buf'[write].c = Nul
  <2>1. buf'[write] = buf[read]
    BY <1>3 DEF NextPhase
  <2> QED  BY <2>1 DEF NextPhase, C
<1>5. EndAhead'
  <2>1. write \in DOMAIN buf' /\ read' <= write /\ buf'[write].c = Nul
    BY <1>2, <1>3, <1>4 DEF NextPhase, Rewriting, Shape
  <2> QED  BY <2>1 DEF EndAhead, C
<1>6. Shape'
  BY <1>4 DEF Rewriting, Shape, NextPhase
<1> QED  BY <1>5, <1>6 DEF Rewriting, Shape, NextPhase

\* Taking a backslash and its line end out makes room for the line end put back.
LEMMA SpliceRewriting ==
  ASSUME Rewriting, Splice
  PROVE  Rewriting'
<1>1. \A j \in 0..1 : C(read + j) # Nul
  <2>1. C(read + 0) # Nul /\ C(read + 1) # Nul
    BY DEF Splice, IsSplice, Nl, Nul, Rewriting, Shape
  <2> QED  BY <2>1
<1>2. \E z \in DOMAIN buf : read + 2 <= z /\ C(z) = Nul
  BY <1>1, EndBeyond
<1>3. EndAhead'
  BY <1>2 DEF EndAhead, Splice, C
<1> QED  BY <1>3 DEF Rewriting, Shape, Splice, In

\* The line ends put back stay before the read pointer.
LEMMA LineEndRewriting ==
  ASSUME Rewriting, SpliceLineEnd
  PROVE  Rewriting'
<1>1. \A j \in 0..0 : C(read + j) # Nul
  BY DEF SpliceLineEnd, In, Rewriting, Shape
<1>2. PICK z \in DOMAIN buf : read + 1 <= z /\ C(z) = Nul
  BY <1>1, EndBeyond
<1>3. z # write /\ z \notin (write + 1)..(write + n)
  BY <1>2 DEF Rewriting, Shape
<1>4. C(z)' = Nul /\ DOMAIN buf' = DOMAIN buf
  BY <1>2, <1>3 DEF SpliceLineEnd, C
<1>5. EndAhead'
  BY <1>2, <1>4 DEF EndAhead, SpliceLineEnd
<1> QED  BY <1>4, <1>5 DEF Rewriting, Shape, SpliceLineEnd

\* After the last loop a NUL is put where the read pointer is, or before it.
LEMMA SplicesEndRewriting ==
  ASSUME Rewriting, SplicesEnd
  PROVE  Rewriting'
<1>1. read \in DOMAIN buf
  BY RewritingInPlace DEF InPlace
<1>2. read \notin write..(write + n - 1)
  BY DEF Rewriting, Shape
<1>3. C(read)' = Nul /\ DOMAIN buf' = DOMAIN buf
  BY <1>1, <1>2 DEF SplicesEnd, AtEnd, C, Cell
<1>4. EndAhead'
  BY <1>1, <1>3 DEF EndAhead, SplicesEnd, C, Rewriting, Shape
<1> QED  BY <1>3, <1>4 DEF Rewriting, Shape, SplicesEnd

\* Every turn of a loop preserves the invariant.
LEMMA TextNextRewriting ==
  ASSUME Rewriting, TextNext
  PROVE  Rewriting'
<1> DEFINE Beyond(k) == \E z \in DOMAIN buf : read + k <= z /\ C(z) = Nul
<1>0. read \in Nat
  BY DEF Rewriting, Shape
<1>1. C(read) # Nul => Beyond(1)
  <2>1. \A j \in 0..0 : read + j = read
    BY <1>0
  <2> QED  BY <2>1, EndBeyond
<1>2. C(read) # Nul /\ C(read + 1) # Nul => Beyond(2)
  <2>1. \A j \in 0..1 : read + j = read \/ read + j = read + 1
    BY <1>0
  <2> QED  BY <2>1, EndBeyond
<1>3. C(read) # Nul /\ C(read + 1) # Nul /\ C(read + 2) # Nul => Beyond(3)
  <2>1. \A j \in 0..2 : read + j = read \/ read + j = read + 1 \/ read + j = read + 2
    BY <1>0
  <2> QED  BY <2>1, EndBeyond
<1> HIDE DEF Beyond
<1>4. CASE NewlineCrLf
  <2>1. Beyond(2)
    BY <1>2, <1>4 DEF NewlineCrLf, In, IsCrLf, Nl, Nul
  <2> QED  BY <1>4, <2>1, PutRewriting DEF NewlineCrLf, Beyond
<1>5. CASE NewlineCr
  <2>1. Beyond(1)
    BY <1>1, <1>5 DEF NewlineCr, In
  <2> QED  BY <1>5, <2>1, PutRewriting DEF NewlineCr, Beyond
<1>6. CASE NewlineOther \/ TrigraphOther \/ SpliceOther
  <2>1. Beyond(1)
    BY <1>1, <1>6 DEF NewlineOther, TrigraphOther, SpliceOther, In
  <2> QED  BY <1>6, <2>1, CopyRewriting DEF NewlineOther, TrigraphOther, SpliceOther, Beyond
<1>7. CASE NewlinesEnd
  BY <1>7, NextPhaseRewriting DEF NewlinesEnd, AtEnd
<1>8. CASE TrigraphRead
  <2>1. C(read + 2) # Nul
    BY <1>8 DEF TrigraphRead, Trigraph, Nul
  <2>2. Beyond(3)
    BY <1>3, <1>8, <2>1 DEF TrigraphRead, In, TwoMarks, Nul
  <2> QED  BY <1>8, <2>2, PutRewriting DEF TrigraphRead, Beyond
<1>9. CASE TrigraphNone
  <2>1. Beyond(2)
    BY <1>2, <1>9 DEF TrigraphNone, In, TwoMarks, Nul
  <2> QED  BY <1>9, <2>1, CopyRewriting DEF TrigraphNone, Beyond
<1>10. CASE TrigraphsEnd
  BY <1>10, NextPhaseRewriting DEF TrigraphsEnd, AtEnd
<1> QED
  BY <1>4, <1>5, <1>6, <1>7, <1>8, <1>9, <1>10, SpliceRewriting, LineEndRewriting,
     SplicesEndRewriting DEF TextNext

\* The lexer only reads the buffer.
LEMMA LexingKeepsText ==
  ASSUME Space \/ LineComment \/ BlockComment \/ Other \/ String \/ Number \/ Ident \/ Punct
  PROVE  UNCHANGED textVars
BY DEF Space, LineComment, BlockComment, Other, String, Number, Ident, Punct, Token

\* Whatever the files hold, the three loops never write over a character they have
\* still to read and never leave the buffer, and lexing keeps it so: InPlace is an
\* invariant for every set of texts (canonicalize_newline, replace_trigraphs and
\* remove_backslash_newline, file_storage.c:50-151).
THEOREM LexerInPlace == Spec => []InPlace
<1>1. LexInit => Rewriting
  BY InitRewriting DEF LexInit
<1>2. Rewriting /\ [Next]_vars => Rewriting'
  <2>1. SUFFICES ASSUME Rewriting, [Next]_vars PROVE Rewriting'
    OBVIOUS
  <2>2. CASE TextNext
    BY <2>1, <2>2, TextNextRewriting
  <2>3. CASE UNCHANGED textVars
    BY <2>1, <2>3 DEF Rewriting, Shape, EndAhead, C, textVars
  <2> QED  BY <2>1, <2>2, <2>3, LexingKeepsText DEF Next, vars
<1>3. Rewriting => InPlace
  BY RewritingInPlace
<1> QED  BY <1>1, <1>2, <1>3, PTL DEF Spec

-----------------------------------------------------------------------------
(* Where the characters of a text stand. *)

CrLf(t, i) == i < Len(t) /\ t[i] = Cr /\ t[i + 1] = Nl

\* The loop after p, the character it finds for the one at place a of the text, the
\* place of the one after that, and what is known of a place it finds one for.
Later(p) == IF p = "newlines" THEN "trigraphs" ELSE "splices"

Seen(t, p, a) ==
  IF p = "newlines" THEN t[a]
  ELSE IF t[a] = Cr THEN Nl
  ELSE IF p = "trigraphs" THEN t[a] ELSE Meant(t, a)

NextAt(t, p, a) ==
  IF p = "newlines" THEN a + 1
  ELSE IF CrLf(t, a) THEN a + 2
  ELSE IF p = "trigraphs" THEN a + 1 ELSE After(t, a)

Stands(t, p, a) ==
  a <= Len(t) =>
    /\ p # "newlines" => ~(t[a] = Nl /\ a > 1 /\ t[a - 1] = Cr)
    /\ p = "splices" => ~InTrigraph(t, a)

Loops == {"newlines", "trigraphs", "splices"}

\* What every state has: the file, and where its text begins.
Given(t, st) ==
  /\ t \in Seq(STRING) /\ Plain(t)
  /\ st = 1 \/ (st = 2 /\ t = <<Bom>>)

\* The characters that a trigraph is written with and those it stands for.
LEMMA TrigraphChars ==
  /\ \A c \in DOMAIN Trigraph : /\ c \notin {"?", Nl, Cr, Nul}
                                /\ Trigraph[c] \notin {"?", Nl, Cr, Nul}
  /\ Nl # Cr /\ Nl # Nul /\ Cr # Nul /\ "?" \notin {Nl, Cr, Nul} /\ "\\" \notin {Nl, Cr, Nul}
BY DEF Trigraph, Nl, Cr, Nul

\* A trigraph is three characters, and none of them but the first begins one.
LEMMA TrigraphPlace ==
  ASSUME NEW t, NEW st, Given(t, st), NEW a \in 1..Len(t), IsTrigraph(t, a)
  PROVE  /\ a + 2 <= Len(t) /\ t[a] = "?" /\ t[a + 1] = "?"
         /\ t[a + 2] \in DOMAIN Trigraph /\ t[a + 2] \notin {"?", Nl, Cr, Nul}
         /\ ~IsTrigraph(t, a + 1) /\ ~IsTrigraph(t, a + 2)
<1>1. Len(t) \in Nat
  BY DEF Given
<1>2. /\ a + 2 <= Len(t) /\ t[a] = "?" /\ t[a + 1] = "?"
      /\ t[a + 2] \in DOMAIN Trigraph /\ t[a + 2] \notin {"?", Nl, Cr, Nul}
  BY TrigraphChars DEF IsTrigraph
<1>3. ~IsTrigraph(t, a + 1) /\ ~IsTrigraph(t, a + 2)
  BY <1>1, <1>2 DEF IsTrigraph
<1> QED  BY <1>2, <1>3

\* The place of the next character is further on, and at most at the end.
LEMMA NextAtOn ==
  ASSUME NEW t, NEW st, Given(t, st), NEW p \in Loops, NEW a \in 1..Len(t)
  PROVE  /\ NextAt(t, p, a) \in (a + 1)..(Len(t) + 1)
<1>1. Len(t) \in Nat
  BY DEF Given
<1>2. CrLf(t, a) => a + 2 <= Len(t) + 1
  BY <1>1 DEF CrLf
<1>3. After(t, a) \in (a + 1)..(Len(t) + 1)
  BY <1>1, TrigraphPlace DEF After
<1> QED  BY <1>1, <1>2, <1>3 DEF NextAt

\* Characters that stand are followed by ones that stand.
LEMMA StandsNext ==
  ASSUME NEW t, NEW st, Given(t, st), NEW p \in Loops, NEW a \in 1..Len(t), Stands(t, p, a)
  PROVE  Stands(t, p, NextAt(t, p, a))
<1> DEFINE b == NextAt(t, p, a)
<1>1. Len(t) \in Nat /\ b \in (a + 1)..(Len(t) + 1)
  BY NextAtOn DEF Given
<1>2. SUFFICES ASSUME b <= Len(t), p # "newlines"
               PROVE  /\ ~(t[b] = Nl /\ b > 1 /\ t[b - 1] = Cr)
                      /\ p = "splices" => ~InTrigraph(t, b)
  BY DEF Stands, Loops
<1>3. CASE CrLf(t, a)
  <2>1. b = a + 2 /\ b - 1 = a + 1 /\ t[a] = Cr /\ t[b - 1] = Nl
    BY <1>2, <1>3 DEF NextAt, CrLf
  <2>2. ~IsTrigraph(t, b - 1) /\ ~IsTrigraph(t, b - 2)
    BY <1>1, <2>1, TrigraphChars DEF IsTrigraph
  <2> QED  BY <2>1, <2>2, TrigraphChars DEF InTrigraph
<1>4. CASE ~CrLf(t, a) /\ p = "splices" /\ IsTrigraph(t, a)
  <2>1. b = a + 3 /\ b - 1 = a + 2 /\ b - 2 = a + 1
    BY <1>1, <1>2, <1>4 DEF NextAt, After
  <2> QED  BY <2>1, TrigraphPlace, <1>4, TrigraphChars DEF InTrigraph
<1>5. CASE ~CrLf(t, a) /\ ~(p = "splices" /\ IsTrigraph(t, a))
  <2>1. b = a + 1
    BY <1>2, <1>5 DEF NextAt, After, Loops
  <2>2. ~(t[b] = Nl /\ t[b - 1] = Cr)
    BY <1>1, <1>2, <1>5, <2>1 DEF CrLf
  <2>3. ASSUME p = "splices" PROVE ~InTrigraph(t, b)
    <3>1. ~IsTrigraph(t, b - 1)
      BY <1>5, <2>1, <2>3
    <3>2. ~(b > 2 /\ IsTrigraph(t, b - 2))
      <4>1. SUFFICES ASSUME b > 2, IsTrigraph(t, b - 2) PROVE FALSE
        OBVIOUS
      <4>2. b - 2 = a - 1 /\ a > 1
        BY <1>1, <2>1, <4>1
      <4>3. InTrigraph(t, a)
        BY <4>1, <4>2 DEF InTrigraph
      <4> QED  BY <4>3, <2>3 DEF Stands
    <3> QED  BY <3>1, <3>2 DEF InTrigraph
  <2> QED  BY <2>2, <2>3
<1> QED  BY <1>3, <1>4, <1>5

\* The first character stands.
LEMMA StandsFirst ==
  ASSUME NEW t, NEW st, Given(t, st), NEW p \in Loops
  PROVE  Stands(t, p, st)
<1>1. CASE st = 1
  BY <1>1 DEF Stands, InTrigraph
<1>2. CASE st = 2 /\ t = <<Bom>>
  BY <1>2 DEF Stands
<1> QED  BY <1>1, <1>2 DEF Given

-----------------------------------------------------------------------------
(* What the first two loops leave is a chain through the text.             *)

\* A cell that the loop p finds, when the next one comes from place a.
Linked(t, st, p, cell, a) ==
  /\ cell.at \in st..Len(t)
  /\ cell.c = Seen(t, p, cell.at)
  /\ a = NextAt(t, p, cell.at)
  /\ Stands(t, p, cell.at)

\* From r on the buffer holds what the loop p has to read; its end is at z.
ToRead(t, st, b, r, z, p) ==
  /\ r \in Nat /\ z \in Nat /\ st <= r /\ r <= z
  /\ \A i \in st..z : i \in DOMAIN b
  /\ b[z].c = Nul /\ b[z].at = Len(t) + 1
  /\ \A i \in r..(z - 1) : Linked(t, st, p, b[i], b[i + 1].at)

\* What has been written before w is what the next loop is to read.
Chain(t, st, b, r, w, z, p) ==
  /\ ToRead(t, st, b, r, z, p)
  /\ w \in st..r
  /\ \A i \in st..(w - 1) :
       Linked(t, st, Later(p), b[i], IF i + 1 < w THEN b[i + 1].at ELSE b[r].at)
  /\ (IF st < w THEN b[st].at ELSE b[r].at) = st
  /\ Stands(t, Later(p), b[r].at)

\* Only the end is a NUL.
LEMMA ReadsToEnd ==
  ASSUME NEW t, NEW st, Given(t, st), NEW b, NEW r, NEW z, NEW p \in Loops, ToRead(t, st, b, r, z, p)
  PROVE  /\ \A i \in r..z : b[i].c = Nul => i = z
         /\ \A i \in r..z : b[i].at = Len(t) + 1 => i = z
         /\ \A i \in r..z : b[i].at \in st..(Len(t) + 1)
<1>1. Len(t) \in Nat /\ st \in Nat /\ st >= 1 /\ st <= Len(t) + 1
  <2>1. Len(t) \in Nat
    BY DEF Given
  <2>2. t = <<Bom>> => Len(t) = 1
    OBVIOUS
  <2>3. st = 1 \/ (st = 2 /\ t = <<Bom>>)
    BY DEF Given
  <2>4. CASE st = 1
    BY <2>1, <2>4
  <2>5. CASE st = 2 /\ t = <<Bom>>
    BY <2>2, <2>5
  <2> QED  BY <2>3, <2>4, <2>5
<1>2. ASSUME NEW i \in r..z, i # z
      PROVE  b[i].c # Nul /\ b[i].at \in st..Len(t)
  <2>1. Linked(t, st, p, b[i], b[i + 1].at)
    BY <1>2 DEF ToRead
  <2>2. b[i].at \in 1..Len(t) /\ b[i].c = Seen(t, p, b[i].at)
    BY <1>1, <2>1 DEF Linked
  <2>3. t[b[i].at] # Nul
    BY <2>2 DEF Given, Plain
  <2>4. Meant(t, b[i].at) # Nul
    BY <2>3, <2>2, TrigraphPlace, TrigraphChars DEF Meant
  <2> QED  BY <2>1, <2>2, <2>3, <2>4, TrigraphChars DEF Seen, Linked
<1> QED  BY <1>1, <1>2 DEF ToRead

\* A cell is written for one or more that are read.
LEMMA WriteCell ==
  ASSUME NEW t, NEW st, Given(t, st), NEW b, NEW r, NEW w, NEW z, NEW p \in Loops, Chain(t, st, b, r, w, z, p), r < z,
         NEW cell, cell.at = b[r].at, cell.c = Seen(t, Later(p), b[r].at),
         NEW k \in Nat, k >= 1, r + k <= z, b[r + k].at = NextAt(t, Later(p), b[r].at)
  PROVE  Chain(t, st, [b EXCEPT ![w] = cell], r + k, w + 1, z, p)
<1> DEFINE c == [b EXCEPT ![w] = cell]
<1>0. /\ r \in Nat /\ w \in Nat /\ z \in Nat /\ st \in Nat /\ st >= 1 /\ st <= w /\ w <= r
      /\ Later(p) \in Loops /\ Len(t) \in Nat
  BY DEF Chain, ToRead, Given, Later, Loops
<1>1. /\ DOMAIN c = DOMAIN b /\ w \in DOMAIN b /\ c[w] = cell
      /\ \A i \in st..z : i # w => c[i] = b[i]
  BY <1>0 DEF Chain, ToRead
<1> HIDE DEF c
<1>2. b[r].at \in st..Len(t)
  BY <1>0 DEF Chain, ToRead, Linked
<1>3. b[r].at \in 1..Len(t) /\ Stands(t, Later(p), b[r].at)
  BY <1>0, <1>2 DEF Chain
<1>4. Stands(t, Later(p), b[r + k].at)
  BY <1>0, <1>3, StandsNext
<1>5. ToRead(t, st, c, r + k, z, p)
  <2>1. \A i \in (r + k)..z : c[i] = b[i]
    BY <1>0, <1>1
  <2>2. \A i \in (r + k)..(z - 1) : i \in r..(z - 1) /\ i \in (r + k)..z /\ i + 1 \in (r + k)..z
    BY <1>0
  <2>3. \A i \in (r + k)..(z - 1) : Linked(t, st, p, c[i], c[i + 1].at)
    BY <2>1, <2>2 DEF Chain, ToRead
  <2>4. z \in (r + k)..z
    BY <1>0
  <2> QED  BY <1>0, <1>1, <2>1, <2>3, <2>4 DEF Chain, ToRead
<1>6. c[r + k] = b[r + k]
  BY <1>0, <1>1
<1>7. ASSUME NEW i \in st..((w + 1) - 1)
      PROVE  Linked(t, st, Later(p), c[i], IF i + 1 < w + 1 THEN c[i + 1].at ELSE c[r + k].at)
  <2>1. CASE i = w
    BY <1>0, <1>1, <1>2, <1>3, <1>6, <2>1 DEF Linked
  <2>2. CASE i # w
    <3>1. i \in st..(w - 1) /\ i + 1 < w + 1 /\ c[i] = b[i]
      BY <1>0, <1>1, <2>2
    <3>2. c[i + 1].at = IF i + 1 < w THEN b[i + 1].at ELSE b[r].at
      BY <1>0, <1>1, <3>1
    <3>3. Linked(t, st, Later(p), b[i], IF i + 1 < w THEN b[i + 1].at ELSE b[r].at)
      BY <3>1 DEF Chain
    <3> QED  BY <3>1, <3>2, <3>3
  <2> QED  BY <2>1, <2>2
<1>8. c[st].at = st
  BY <1>0, <1>1 DEF Chain
<1>9. Chain(t, st, c, r + k, w + 1, z, p)
  BY <1>0, <1>4, <1>5, <1>6, <1>7, <1>8 DEF Chain
<1> QED  BY <1>9 DEF c

\* At the end the next loop begins.
LEMMA NextLoop ==
  ASSUME NEW t, NEW st, Given(t, st), NEW b, NEW w, NEW z, NEW p \in Loops,
         Chain(t, st, b, z, w, z, p), NEW c,
         DOMAIN c = DOMAIN b, w \in DOMAIN b, c[w] = b[z],
         \A i \in st..z : i # w => c[i] = b[i]
  PROVE  ToRead(t, st, c, st, w, Later(p)) /\ c[st].at = st
<1>0. /\ w \in Nat /\ z \in Nat /\ st \in Nat /\ st <= w /\ w <= z
      /\ Later(p) \in Loops /\ Len(t) \in Nat
  BY DEF Chain, ToRead, Given, Later, Loops
<1>1. /\ DOMAIN c = DOMAIN b /\ w \in DOMAIN b /\ c[w] = b[z]
      /\ \A i \in st..z : i # w => c[i] = b[i]
  OBVIOUS
<1>2. ASSUME NEW i \in st..(w - 1) PROVE Linked(t, st, Later(p), c[i], c[i + 1].at)
  <2>1. c[i] = b[i] /\ c[i + 1].at = IF i + 1 < w THEN b[i + 1].at ELSE b[z].at
    BY <1>0, <1>1
  <2> QED  BY <2>1 DEF Chain
<1>3. c[w].c = Nul /\ c[w].at = Len(t) + 1
  BY <1>1 DEF Chain, ToRead
<1>4. \A i \in st..w : i \in DOMAIN c
  BY <1>0, <1>1 DEF Chain, ToRead
<1>5. c[st].at = st
  BY <1>0, <1>1 DEF Chain
<1>6. ToRead(t, st, c, st, w, Later(p))
  BY <1>0, <1>2, <1>3, <1>4 DEF ToRead
<1> QED  BY <1>5, <1>6

\* A loop that begins has a chain.
LEMMA LoopBegins ==
  ASSUME NEW t, NEW st, Given(t, st), NEW b, NEW z, NEW p \in Loops, ToRead(t, st, b, st, z, p), b[st].at = st
  PROVE  Chain(t, st, b, st, st, z, p)
<1>1. st \in Nat /\ Later(p) \in Loops
  BY DEF Given, Later, Loops
<1> QED  BY <1>1, StandsFirst DEF Chain, ToRead

Chained == \E z \in Nat : Chain(text, start, buf, read, write, z, phase)

\* Copying is writing what is read, one cell after the other.
LEMMA CopyWrites ==
  ASSUME Rewriting
  PROVE  /\ Copy(1) => buf' = [buf EXCEPT ![write] = buf[read]]
         /\ Copy(2) => LET b == [buf EXCEPT ![write] = buf[read]]
                       IN  read + 1 \in DOMAIN buf =>
                             buf' = [b EXCEPT ![write + 1] = b[read + 1]]
<1>1. /\ DOMAIN buf \subseteq Nat /\ write \in Nat /\ read \in Nat /\ write <= read
      /\ start \in Nat /\ start <= write
  BY DEF Rewriting, Shape
<1>2. \A i \in DOMAIN buf : i \in write..(write + 1 - 1) <=> i = write
  BY <1>1
<1>3. \A i \in DOMAIN buf : i \in write..(write + 2 - 1) <=> i = write \/ i = write + 1
  BY <1>1
<1>4. ASSUME Copy(1) PROVE buf' = [buf EXCEPT ![write] = buf[read]]
  <2>1. \A i \in DOMAIN buf : i = write => i - write + read = read
    BY <1>1
  <2> QED  BY <1>2, <1>4, <2>1 DEF Copy
<1>5. ASSUME Copy(2), read + 1 \in DOMAIN buf
      PROVE  buf' = [[buf EXCEPT ![write] = buf[read]] EXCEPT ![write + 1] = [buf EXCEPT ![write] = buf[read]][read + 1]]
  <2>1. [buf EXCEPT ![write] = buf[read]][read + 1] = buf[read + 1]
    BY <1>1, <1>5
  <2>2. \A i \in DOMAIN buf : /\ i = write => i - write + read = read
                              /\ i = write + 1 => i - write + read = read + 1
                              /\ write + 1 # write
    BY <1>1
  <2>3. buf' = [i \in DOMAIN buf |-> IF i = write THEN buf[read]
                                     ELSE IF i = write + 1 THEN buf[read + 1] ELSE buf[i]]
    BY <1>3, <1>5, <2>2 DEF Copy
  <2> QED  BY <2>1, <2>2, <2>3
<1> QED  BY <1>4, <1>5

\* One cell written for k that are read.
LEMMA OneWritten ==
  ASSUME Given(text, start), phase \in Loops,
         NEW z, Chain(text, start, buf, read, write, z, phase), read < z,
         NEW cell, cell.at = buf[read].at, cell.c = Seen(text, Later(phase), buf[read].at),
         NEW k \in Nat, k >= 1, read + k <= z,
         buf[read + k].at = NextAt(text, Later(phase), buf[read].at),
         buf' = [buf EXCEPT ![write] = cell], read' = read + k, write' = write + 1,
         UNCHANGED <<text, start, phase>>
  PROVE  Chain(text, start, buf, read, write, z, phase)'
<1>1. Chain(text, start, [buf EXCEPT ![write] = cell], read + k, write + 1, z, phase)
  BY WriteCell
<1> QED  BY <1>1

\* The first loop: a line end of two characters is one, and so is a lone CR.
LEMMA NewlinesChain ==
  ASSUME Rewriting, Given(text, start), Chained, phase = "newlines",
         NewlineCrLf \/ NewlineCr \/ NewlineOther
  PROVE  Chained'
<1>1. PICK z \in Nat : Chain(text, start, buf, read, write, z, phase)
  BY DEF Chained
<1> DEFINE a == buf[read].at
<1>2. /\ read \in Nat /\ write \in Nat /\ write <= read /\ read <= z /\ start <= read
      /\ ToRead(text, start, buf, read, z, "newlines") /\ "newlines" \in Loops /\ Len(text) \in Nat
      /\ Later("newlines") = "trigraphs" /\ start \in Nat /\ start >= 1
  BY <1>1 DEF Chain, ToRead, Loops, Later, Given
<1>3. C(read) # Nul
  BY DEF NewlineCrLf, NewlineCr, NewlineOther, In
<1>4. read < z /\ read \in read..(z - 1)
  BY <1>2, <1>3 DEF C, ToRead
<1>5. a \in 1..Len(text) /\ C(read) = text[a] /\ buf[read + 1].at = a + 1
  BY <1>2, <1>4 DEF ToRead, Linked, Seen, NextAt, C
<1>6. C(read + 1) # Nul => /\ read + 1 < z
                           /\ a + 1 <= Len(text) /\ C(read + 1) = text[a + 1]
                           /\ buf[read + 2].at = a + 2
  <2>1. SUFFICES ASSUME C(read + 1) # Nul
                 PROVE  /\ read + 1 < z
                        /\ a + 1 <= Len(text) /\ C(read + 1) = text[a + 1]
                        /\ buf[read + 2].at = a + 2
    OBVIOUS
  <2>2. read + 1 < z /\ read + 1 \in read..(z - 1)
    BY <1>2, <1>4, <2>1 DEF C, ToRead
  <2>3. Linked(text, start, "newlines", buf[read + 1], buf[(read + 1) + 1].at)
    BY <1>2, <2>2 DEF ToRead
  <2>4. buf[read + 1].at <= Len(text)
    BY <1>2, <2>3 DEF Linked
  <2>5. C(read + 1) = text[a + 1] /\ buf[(read + 1) + 1].at = (a + 1) + 1
    BY <1>5, <2>3 DEF Linked, Seen, NextAt, C
  <2> QED  BY <1>2, <1>5, <2>2, <2>4, <2>5
<1>7. a + 1 <= Len(text) => C(read + 1) = text[a + 1]
  <2>1. SUFFICES ASSUME a + 1 <= Len(text) PROVE C(read + 1) = text[a + 1]
    OBVIOUS
  <2>2. read + 1 \in read..(z - 1)
    <3>1. buf[z].at = Len(text) + 1 /\ z \in Nat
      BY <1>2 DEF ToRead
    <3>2. read + 1 # z
      BY <1>2, <1>5, <2>1, <3>1
    <3> QED  BY <1>2, <1>4, <3>1, <3>2
  <2> QED  BY <1>2, <1>5, <2>2 DEF ToRead, Linked, Seen, C
<1> HIDE DEF a
<1>8. CASE NewlineCrLf
  <2> DEFINE cell == Cell(Nl, a)
  <2>1. C(read + 1) = Nl /\ text[a] = Cr /\ CrLf(text, a)
    BY <1>2, <1>5, <1>6, <1>8, TrigraphChars DEF NewlineCrLf, IsCrLf, CrLf
  <2>2. buf[read + 2].at = NextAt(text, "trigraphs", a) /\ read + 2 <= z
    BY <1>2, <1>6, <2>1, TrigraphChars DEF NextAt
  <2>3. cell.c = Seen(text, "trigraphs", a) /\ cell.at = a
    BY <2>1 DEF Seen, Cell
  <2>4. /\ buf' = [buf EXCEPT ![write] = cell] /\ read' = read + 2
        /\ write' = write + 1 /\ UNCHANGED <<text, start, phase>>
    BY <1>8 DEF NewlineCrLf, Put, a
  <2> HIDE DEF cell
  <2>5. Chain(text, start, buf, read, write, z, phase)'
    <3>1. 2 \in Nat /\ 2 >= 1
      OBVIOUS
    <3> QED  BY <1>1, <1>2, <1>4, <2>2, <2>3, <2>4, <3>1, OneWritten, Zenon DEF a
  <2> QED  BY <2>5 DEF Chained
<1>9. CASE NewlineCr
  <2> DEFINE cell == Cell(Nl, a)
  <2>1. text[a] = Cr /\ ~CrLf(text, a)
    BY <1>2, <1>5, <1>7, <1>9 DEF NewlineCr, IsCrLf, CrLf
  <2>2. buf[read + 1].at = NextAt(text, "trigraphs", a) /\ read + 1 <= z
    BY <1>2, <1>4, <1>5, <2>1 DEF NextAt
  <2>3. cell.c = Seen(text, "trigraphs", a) /\ cell.at = a
    BY <2>1 DEF Seen, Cell
  <2>4. /\ buf' = [buf EXCEPT ![write] = cell] /\ read' = read + 1
        /\ write' = write + 1 /\ UNCHANGED <<text, start, phase>>
    BY <1>9 DEF NewlineCr, Put, a
  <2> HIDE DEF cell
  <2>5. Chain(text, start, buf, read, write, z, phase)'
    <3>1. 1 \in Nat /\ 1 >= 1
      OBVIOUS
    <3> QED  BY <1>1, <1>2, <1>4, <2>2, <2>3, <2>4, <3>1, OneWritten, Zenon DEF a
  <2> QED  BY <2>5 DEF Chained
<1>10. CASE NewlineOther
  <2>1. text[a] # Cr /\ ~CrLf(text, a)
    BY <1>5, <1>10 DEF NewlineOther, CrLf
  <2>2. buf[read + 1].at = NextAt(text, "trigraphs", a) /\ read + 1 <= z
    BY <1>2, <1>4, <1>5, <2>1 DEF NextAt
  <2>3. buf[read].c = Seen(text, "trigraphs", a)
    BY <1>5, <2>1 DEF Seen, C
  <2>4. /\ buf' = [buf EXCEPT ![write] = buf[read]] /\ read' = read + 1
        /\ write' = write + 1 /\ UNCHANGED <<text, start, phase>>
    BY <1>10, CopyWrites DEF NewlineOther, Copy
  <2>5. Chain(text, start, buf, read, write, z, phase)'
    <3>1. 1 \in Nat /\ 1 >= 1
      OBVIOUS
    <3> QED  BY <1>1, <1>2, <1>4, <2>2, <2>3, <2>4, <3>1, OneWritten, Zenon DEF a
  <2> QED  BY <2>5 DEF Chained
<1> QED  BY <1>8, <1>9, <1>10

\* What the loop reads.
LEMMA Reads ==
  ASSUME Given(text, start), NEW r \in Nat, NEW z, NEW p \in Loops,
         ToRead(text, start, buf, r, z, p), C(r) # Nul
  PROVE  /\ r < z /\ r + 1 \in Nat
         /\ ToRead(text, start, buf, r + 1, z, p)
         /\ buf[r].at \in 1..Len(text) /\ buf[r].at \in start..Len(text)
         /\ C(r) = Seen(text, p, buf[r].at)
         /\ buf[r + 1].at = NextAt(text, p, buf[r].at)
         /\ Stands(text, p, buf[r].at)
<1>1. z \in Nat /\ start \in Nat /\ start >= 1 /\ start <= r /\ r <= z
  BY DEF ToRead, Given
<1>2. r < z /\ r \in r..(z - 1)
  BY <1>1 DEF ToRead, C
<1>3. Linked(text, start, p, buf[r], buf[r + 1].at)
  BY <1>2 DEF ToRead
<1>4. buf[r].at \in 1..Len(text)
  BY <1>1, <1>3 DEF Linked, Given
<1>5. ToRead(text, start, buf, r + 1, z, p)
  BY <1>1, <1>2 DEF ToRead
<1> QED  BY <1>1, <1>2, <1>3, <1>4, <1>5 DEF Linked, C

\* The second loop.
LEMMA TrigraphsChain ==
  ASSUME Rewriting, Given(text, start), Chained, phase = "trigraphs",
         TrigraphRead \/ TrigraphNone \/ TrigraphOther
  PROVE  Chained'
<1>1. PICK z \in Nat : Chain(text, start, buf, read, write, z, phase)
  BY DEF Chained
<1> DEFINE a == buf[read].at
<1>2. /\ read \in Nat /\ write \in Nat /\ write <= read /\ read <= z /\ start <= read
      /\ ToRead(text, start, buf, read, z, "trigraphs") /\ "trigraphs" \in Loops
      /\ Len(text) \in Nat /\ phase \in Loops
      /\ Later("trigraphs") = "splices" /\ start \in Nat /\ start >= 1 /\ start <= write
      /\ \A i \in start..z : i \in DOMAIN buf
  BY <1>1 DEF Chain, ToRead, Loops, Later, Given
<1>3. C(read) # Nul
  BY DEF TrigraphRead, TrigraphNone, TrigraphOther, In
<1>4. /\ read < z /\ a \in 1..Len(text) /\ C(read) = Seen(text, "trigraphs", a)
      /\ buf[read + 1].at = NextAt(text, "trigraphs", a)
      /\ ToRead(text, start, buf, read + 1, z, "trigraphs")
  BY <1>2, <1>3, Reads
<1> HIDE DEF a
<1>5. text[a] = "?" => C(read) = "?" /\ buf[read + 1].at = a + 1
  BY <1>2, <1>4, TrigraphChars DEF Seen, NextAt, CrLf
<1>6. C(read) = "?" => text[a] = "?"
  BY <1>2, <1>4, TrigraphChars DEF Seen
<1>7. ASSUME text[a] = "?", a + 1 <= Len(text)
      PROVE  /\ read + 1 < z
             /\ text[a + 1] = "?" <=> C(read + 1) = "?"
             /\ text[a + 1] = "?" => buf[read + 2].at = a + 2
             /\ ToRead(text, start, buf, read + 2, z, "trigraphs")
  <2>1. C(read + 1) # Nul
    <3>1. read + 1 # z
      BY <1>2, <1>4, <1>5, <1>7 DEF ToRead
    <3>2. read + 1 \in (read + 1)..z
      BY <1>2, <1>4
    <3> QED  BY <1>2, <1>4, <3>1, <3>2, ReadsToEnd DEF C
  <2>2. /\ read + 1 < z /\ C(read + 1) = Seen(text, "trigraphs", a + 1)
        /\ buf[(read + 1) + 1].at = NextAt(text, "trigraphs", a + 1)
        /\ ToRead(text, start, buf, (read + 1) + 1, z, "trigraphs")
    <3>1. read + 1 \in Nat
      BY <1>2
    <3> QED  BY <1>2, <1>4, <1>5, <1>7, <2>1, <3>1, Reads
  <2>3. (read + 1) + 1 = read + 2 /\ (a + 1) + 1 = a + 2
    BY <1>2, <1>4
  <2> QED  BY <1>2, <1>4, <2>2, <2>3, TrigraphChars DEF Seen, NextAt, CrLf
<1>8. ASSUME text[a] = "?", a + 2 <= Len(text), text[a + 1] = "?"
      PROVE  /\ read + 2 < z
             /\ C(read + 2) = Seen(text, "trigraphs", a + 2)
             /\ buf[read + 3].at = NextAt(text, "trigraphs", a + 2)
  <2>1. a + 1 <= Len(text)
    BY <1>2, <1>4, <1>8
  <2>2. buf[read + 2].at = a + 2 /\ ToRead(text, start, buf, read + 2, z, "trigraphs") /\ read + 1 < z
    BY <1>7, <1>8, <2>1
  <2>3. C(read + 2) # Nul
    <3>1. read + 2 # z
      <4>1. buf[z].at = Len(text) + 1
        BY <1>2 DEF ToRead
      <4> QED  BY <1>2, <1>4, <2>2, <1>8, <4>1
    <3>2. read + 2 \in (read + 2)..z
      BY <1>2, <2>2
    <3> QED  BY <1>2, <2>2, <3>1, <3>2, ReadsToEnd DEF C
  <2>4. /\ read + 2 < z /\ C(read + 2) = Seen(text, "trigraphs", a + 2)
        /\ buf[(read + 2) + 1].at = NextAt(text, "trigraphs", a + 2)
    <3>1. read + 2 \in Nat
      BY <1>2
    <3> QED  BY <1>2, <2>2, <2>3, <3>1, Reads
  <2>5. (read + 2) + 1 = read + 3
    BY <1>2
  <2> QED  BY <2>4, <2>5
<1>9. TwoMarks => a + 1 <= Len(text) /\ text[a] = "?" /\ text[a + 1] = "?"
  <2>1. SUFFICES ASSUME TwoMarks PROVE a + 1 <= Len(text) /\ text[a] = "?" /\ text[a + 1] = "?"
    OBVIOUS
  <2>2. text[a] = "?" /\ buf[read + 1].at = a + 1 /\ C(read + 1) = "?"
    BY <1>5, <1>6, <2>1 DEF TwoMarks
  <2>3. buf[read + 1].at \in 1..Len(text)
    <3>1. read + 1 \in Nat /\ C(read + 1) # Nul
      BY <1>2, <2>2, TrigraphChars
    <3> QED  BY <1>2, <1>4, <3>1, Reads
  <2> QED  BY <1>2, <1>4, <1>7, <2>2, <2>3
<1>10. CASE TrigraphRead
  <2> DEFINE cell == Cell(Trigraph[C(read + 2)], a)
  <2>1. /\ a + 1 <= Len(text) /\ text[a] = "?" /\ text[a + 1] = "?"
        /\ C(read + 2) \in DOMAIN Trigraph
    BY <1>9, <1>10 DEF TrigraphRead
  <2>2. a + 2 <= Len(text)
    <3>1. /\ read + 2 \in Nat /\ C(read + 2) # Nul /\ buf[read + 2].at = a + 2
          /\ ToRead(text, start, buf, read + 2, z, "trigraphs")
      BY <1>2, <1>7, <2>1, TrigraphChars
    <3>2. buf[read + 2].at \in 1..Len(text)
      BY <1>2, <3>1, Reads
    <3> QED  BY <3>1, <3>2
  <2>3. read + 2 < z /\ C(read + 2) = Seen(text, "trigraphs", a + 2)
        /\ buf[read + 3].at = NextAt(text, "trigraphs", a + 2)
    BY <1>8, <2>1, <2>2
  <2>4. C(read + 2) = text[a + 2] /\ buf[read + 3].at = a + 3
    BY <1>2, <1>4, <2>1, <2>3, TrigraphChars DEF Seen, NextAt, CrLf
  <2>5. IsTrigraph(text, a)
    BY <2>1, <2>2, <2>4 DEF IsTrigraph
  <2>6. /\ buf[read + 3].at = NextAt(text, "splices", a) /\ read + 3 <= z
        /\ cell.c = Seen(text, "splices", a) /\ cell.at = a
    BY <1>2, <2>1, <2>3, <2>4, <2>5, TrigraphChars DEF NextAt, After, CrLf, Seen, Meant, Cell
  <2>7. /\ buf' = [buf EXCEPT ![write] = cell] /\ read' = read + 3
        /\ write' = write + 1 /\ UNCHANGED <<text, start, phase>>
    BY <1>10 DEF TrigraphRead, Put, a
  <2> HIDE DEF cell
  <2>8. Chain(text, start, buf, read, write, z, phase)'
    <3>1. 3 \in Nat /\ 3 >= 1
      OBVIOUS
    <3> QED  BY <1>1, <1>2, <1>4, <2>6, <2>7, <3>1, OneWritten, Zenon DEF a
  <2> QED  BY <2>8 DEF Chained
<1>11. CASE TrigraphOther
  <2>1. ~IsTrigraph(text, a)
    <3>1. SUFFICES ASSUME IsTrigraph(text, a) PROVE FALSE
      OBVIOUS
    <3>2. a + 1 <= Len(text) /\ text[a] = "?" /\ text[a + 1] = "?"
      BY <1>2, <1>4, <3>1 DEF IsTrigraph
    <3>3. C(read) = "?" /\ C(read + 1) = "?"
      BY <1>5, <1>7, <3>2
    <3> QED  BY <1>11, <3>3 DEF TrigraphOther, TwoMarks
  <2>2. /\ buf[read + 1].at = NextAt(text, "splices", a) /\ read + 1 <= z
        /\ buf[read].c = Seen(text, "splices", a)
    BY <1>2, <1>4, <2>1 DEF NextAt, After, Seen, Meant, C
  <2>3. /\ buf' = [buf EXCEPT ![write] = buf[read]] /\ read' = read + 1
        /\ write' = write + 1 /\ UNCHANGED <<text, start, phase>>
    BY <1>11, CopyWrites DEF TrigraphOther, Copy
  <2>4. Chain(text, start, buf, read, write, z, phase)'
    <3>1. 1 \in Nat /\ 1 >= 1
      OBVIOUS
    <3> QED  BY <1>1, <1>2, <1>4, <2>2, <2>3, <3>1, OneWritten, Zenon DEF a
  <2> QED  BY <2>4 DEF Chained
<1>12. CASE TrigraphNone
  <2>1. /\ a + 1 <= Len(text) /\ text[a] = "?" /\ text[a + 1] = "?"
        /\ C(read + 2) \notin DOMAIN Trigraph
    BY <1>9, <1>12 DEF TrigraphNone
  <2>2. ~IsTrigraph(text, a)
    BY <1>2, <1>4, <1>8, <2>1, TrigraphChars DEF IsTrigraph, Seen
  <2>3. ~IsTrigraph(text, a + 1)
    <3>1. SUFFICES ASSUME IsTrigraph(text, a + 1) PROVE FALSE
      OBVIOUS
    <3>2. (a + 1) + 2 <= Len(text) /\ text[(a + 1) + 1] = "?"
      BY <3>1 DEF IsTrigraph
    <3>3. a + 2 <= Len(text) /\ text[a + 2] = "?" /\ a \in 1..(Len(text) - 2)
      BY <1>2, <1>4, <3>2
    <3>4. \A k \in 0..2 : text[a + k] = "?"
      <4>1. \A k \in 0..2 : a + k = a \/ a + k = a + 1 \/ a + k = a + 2
        BY <1>4
      <4> QED  BY <2>1, <3>3, <4>1
    <3> QED  BY <3>3, <3>4 DEF Given, Plain
  <2>4. /\ buf[read + 1].at = NextAt(text, "splices", a) /\ read + 1 <= z /\ read + 1 < z
        /\ buf[read].c = Seen(text, "splices", a)
        /\ buf[read + 1].at = a + 1 /\ buf[read + 2].at = a + 2
    BY <1>2, <1>4, <1>5, <1>7, <2>1, <2>2 DEF NextAt, After, Seen, Meant, C
  <2> DEFINE b == [buf EXCEPT ![write] = buf[read]]
  <2>5. Chain(text, start, b, read + 1, write + 1, z, phase)
    <3>1. 1 \in Nat /\ 1 >= 1
      OBVIOUS
    <3> QED  BY <1>1, <1>2, <1>4, <2>4, <3>1, WriteCell, Zenon DEF a
  <2>6. read + 1 \in start..z /\ read + 2 \in start..z /\ write # read + 1 /\ write # read + 2
    BY <1>2, <2>4
  <2>7. b[read + 1] = buf[read + 1] /\ b[read + 2] = buf[read + 2]
    BY <1>2, <2>6
  <2>8. /\ buf' = [b EXCEPT ![write + 1] = b[read + 1]] /\ read' = read + 2
        /\ write' = write + 2 /\ UNCHANGED <<text, start, phase>>
    <3>1. read + 1 \in DOMAIN buf
      BY <1>2, <2>6
    <3> QED  BY <1>12, <3>1, CopyWrites DEF TrigraphNone, Copy
  <2> HIDE DEF b
  <2>9. /\ C(read + 1) = "?" /\ b[read + 1].c = Seen(text, "splices", a + 1)
        /\ b[(read + 1) + 1].at = NextAt(text, "splices", a + 1)
        /\ b[read + 1].at = a + 1
    <3>1. (a + 1) + 1 = a + 2 /\ (read + 1) + 1 = read + 2
      BY <1>2, <1>4
    <3>2. C(read + 1) = "?"
      BY <1>7, <2>1
    <3> QED  BY <2>1, <2>3, <2>4, <2>7, <3>1, <3>2, TrigraphChars
               DEF Seen, NextAt, CrLf, After, Meant, C
  <2>10. (read + 1) + 1 <= z /\ (read + 1) + 1 = read + 2 /\ (write + 1) + 1 = write + 2
    BY <1>2, <2>4
  <2>11. Chain(text, start, [b EXCEPT ![write + 1] = b[read + 1]], (read + 1) + 1, (write + 1) + 1, z, phase)
    <3>1. 1 \in Nat /\ 1 >= 1
      OBVIOUS
    <3> QED  BY <1>2, <2>4, <2>5, <2>9, <2>10, <3>1, WriteCell, Zenon
  <2>12. Chain(text, start, buf, read, write, z, phase)'
    BY <2>8, <2>10, <2>11
  <2> QED  BY <2>12 DEF Chained
<1> QED  BY <1>10, <1>11, <1>12

\* A loop ends, and the next begins with what it leaves.
LEMMA EndChain ==
  ASSUME Rewriting, Given(text, start), Chained, NewlinesEnd \/ TrigraphsEnd
  PROVE  Chained'
<1>1. PICK z \in Nat : Chain(text, start, buf, read, write, z, phase)
  BY DEF Chained
<1>2. phase \in {"newlines", "trigraphs"} /\ phase \in Loops /\ C(read) = Nul
  BY DEF NewlinesEnd, TrigraphsEnd, AtEnd, Loops
<1>3. read = z
  <2>1. read \in read..z /\ ToRead(text, start, buf, read, z, phase)
    BY <1>1 DEF Chain, ToRead
  <2> QED  BY <1>2, <2>1, ReadsToEnd DEF C
<1> DEFINE b == [buf EXCEPT ![write] = buf[read]]
<1>4. /\ buf' = b /\ phase' = Later(phase) /\ read' = start /\ write' = start
      /\ UNCHANGED <<text, start>>
  BY DEF NewlinesEnd, TrigraphsEnd, AtEnd, NextPhase, Later
<1>5. ToRead(text, start, b, start, write, Later(phase)) /\ b[start].at = start
  <2>1. Chain(text, start, buf, read, write, read, phase)
    BY <1>1, <1>3
  <2>2. /\ DOMAIN b = DOMAIN buf /\ write \in DOMAIN buf /\ b[write] = buf[read]
        /\ \A i \in start..read : i # write => b[i] = buf[i]
    BY <1>3, <2>1 DEF Chain, ToRead
  <2>3. phase \in Loops
    BY <1>2
  <2> HIDE DEF b
  <2> QED  BY <2>1, <2>2, <2>3, NextLoop
<1> HIDE DEF b
<1>6. Later(phase) \in Loops /\ write \in Nat
  BY DEF Later, Loops, Rewriting, Shape
<1>7. Chain(text, start, b, start, start, write, Later(phase))
  BY <1>5, <1>6, LoopBegins
<1> QED  BY <1>4, <1>6, <1>7 DEF Chained

\* A backslash stands directly before place a.
Hidden(t, a) ==
  \E k \in 1..(a - 1) : After(t, k) = a /\ Meant(t, k) = "\\" /\ ~InTrigraph(t, k)

\* What stands at the places that a loop goes over with one character.
LEMMA Passed ==
  ASSUME NEW t, NEW st, Given(t, st), NEW a \in 1..Len(t), Stands(t, "splices", a)
  PROVE  LET b == NextAt(t, "splices", a) IN
         /\ b \in (a + 1)..(Len(t) + 1)
         /\ CrLf(t, a) => b = a + 2
         /\ t[a] \in {Nl, Cr} => /\ ~CrLf(t, a) => b = a + 1
                                 /\ t[b - 1] \in {Nl, Cr}
                                 /\ EndsLine(t, b - 1) /\ Begins(t, b - 1) = a
                                 /\ \A i \in a..(b - 2) : ~EndsLine(t, i)
         /\ t[a] \notin {Nl, Cr} => /\ b = After(t, a)
                                    /\ \A i \in a..(b - 1) : ~EndsLine(t, i)
                                    /\ \A i \in (a + 1)..(b - 1) : InTrigraph(t, i)
<1> DEFINE b == NextAt(t, "splices", a)
<1>1. Len(t) \in Nat /\ a \in Nat /\ a >= 1 /\ b \in (a + 1)..(Len(t) + 1)
  <2>1. Len(t) \in Nat /\ "splices" \in Loops
    BY DEF Given, Loops
  <2> QED  BY <2>1, NextAtOn
<1>2. CrLf(t, a) => b = a + 2
  BY DEF NextAt
<1>3. ASSUME t[a] \in {Nl, Cr}
      PROVE  /\ ~CrLf(t, a) => b = a + 1
             /\ t[b - 1] \in {Nl, Cr}
             /\ EndsLine(t, b - 1) /\ Begins(t, b - 1) = a
             /\ \A i \in a..(b - 2) : ~EndsLine(t, i)
  <2>1. ~IsTrigraph(t, a)
    BY <1>3, TrigraphChars DEF IsTrigraph
  <2>2. CASE CrLf(t, a)
    <3>1. b = a + 2 /\ b - 1 = a + 1 /\ b - 2 = a
      BY <1>1, <1>2, <2>2
    <3>2. t[a] = Cr /\ t[b - 1] = Nl /\ t[(b - 1) - 1] = Cr /\ a < Len(t) /\ t[a + 1] = Nl
      BY <1>1, <2>2, <3>1 DEF CrLf
    <3>3. ~EndsLine(t, a)
      BY <3>2, TrigraphChars DEF EndsLine
    <3>4. \A i \in a..(b - 2) : i = a
      BY <1>1, <3>1
    <3>5. EndsLine(t, b - 1) /\ Begins(t, b - 1) = a
      BY <1>1, <3>1, <3>2 DEF EndsLine, Begins
    <3> QED  BY <2>2, <3>2, <3>3, <3>4, <3>5
  <2>3. CASE ~CrLf(t, a)
    <3>1. b = a + 1 /\ b - 1 = a
      BY <1>1, <2>1, <2>3 DEF NextAt, After
    <3>2. EndsLine(t, a)
      BY <1>1, <1>3, <2>3 DEF EndsLine, CrLf
    <3>3. Begins(t, a) = a
      BY <1>1, TrigraphChars DEF Begins, Stands
    <3>4. \A i \in a..(b - 2) : FALSE
      BY <1>1, <3>1
    <3> QED  BY <1>3, <3>1, <3>2, <3>3, <3>4
  <2> QED  BY <2>2, <2>3
<1>4. ASSUME t[a] \notin {Nl, Cr}
      PROVE  /\ b = After(t, a)
             /\ \A i \in a..(b - 1) : ~EndsLine(t, i)
             /\ \A i \in (a + 1)..(b - 1) : InTrigraph(t, i)
  <2>1. b = After(t, a)
    BY <1>4 DEF NextAt, CrLf
  <2>2. ~EndsLine(t, a)
    BY <1>4 DEF EndsLine
  <2>3. CASE IsTrigraph(t, a)
    <3>1. b = a + 3
      BY <2>1, <2>3 DEF After
    <3>2. ~EndsLine(t, a + 1) /\ ~EndsLine(t, a + 2)
      BY <2>3, TrigraphPlace, TrigraphChars DEF EndsLine
    <3>3. InTrigraph(t, a + 1) /\ InTrigraph(t, a + 2)
      <4>1. (a + 1) - 1 = a /\ (a + 2) - 2 = a /\ a + 1 > 1 /\ a + 2 > 2
        BY <1>1
      <4> QED  BY <2>3, <4>1 DEF InTrigraph
    <3>4. \A i \in a..(b - 1) : i = a \/ i = a + 1 \/ i = a + 2
      BY <1>1, <3>1
    <3>5. \A i \in (a + 1)..(b - 1) : i = a + 1 \/ i = a + 2
      BY <1>1, <3>1
    <3> QED  BY <2>1, <2>2, <3>2, <3>3, <3>4, <3>5
  <2>4. CASE ~IsTrigraph(t, a)
    <3>1. b = a + 1
      BY <2>1, <2>4 DEF After
    <3>2. (\A i \in a..(b - 1) : i = a) /\ \A i \in (a + 1)..(b - 1) : FALSE
      BY <1>1, <3>1
    <3> QED  BY <2>1, <2>2, <3>2
  <2> QED  BY <2>3, <2>4
<1> QED  BY <1>1, <1>2, <1>3, <1>4

\* What a backslash stands before comes after the character that it is read from.
LEMMA HiddenBy ==
  ASSUME NEW t, NEW st, Given(t, st), NEW a \in 1..Len(t), Stands(t, "splices", a),
         Hidden(t, NextAt(t, "splices", a))
  PROVE  t[a] \notin {Nl, Cr} /\ Meant(t, a) = "\\"
<1> DEFINE b == NextAt(t, "splices", a)
<1>1. Len(t) \in Nat /\ a \in Nat /\ a >= 1 /\ b \in (a + 1)..(Len(t) + 1)
  <2>1. Len(t) \in Nat
    BY DEF Given
  <2> QED  BY <2>1, Passed
<1>2. PICK k \in 1..(b - 1) : After(t, k) = b /\ Meant(t, k) = "\\" /\ ~InTrigraph(t, k)
  BY DEF Hidden
<1>3. k \in 1..Len(t)
  BY <1>1, <1>2
<1>4. CASE t[a] \in {Nl, Cr}
  <2>1. t[b - 1] \in {Nl, Cr}
    BY <1>4, Passed
  <2>2. CASE IsTrigraph(t, k)
    <3>1. b - 1 = k + 2
      BY <1>1, <1>2, <1>3, <2>2 DEF After
    <3> QED  BY <1>3, <2>1, <2>2, <3>1, TrigraphPlace
  <2>3. CASE ~IsTrigraph(t, k)
    <3>1. b - 1 = k /\ t[k] = "\\"
      BY <1>1, <1>2, <1>3, <2>3 DEF After, Meant
    <3> QED  BY <2>1, <3>1, TrigraphChars
  <2> QED  BY <2>2, <2>3
<1>5. CASE t[a] \notin {Nl, Cr}
  <2>1. b = After(t, a)
    BY <1>5, Passed
  <2>2. k = a
    <3>1. SUFFICES ASSUME k # a PROVE FALSE
      OBVIOUS
    <3>2. CASE IsTrigraph(t, a)
      <4>1. b = a + 3
        BY <2>1, <3>2 DEF After
      <4>2. CASE IsTrigraph(t, k)
        BY <1>1, <1>2, <1>3, <3>1, <4>1, <4>2 DEF After
      <4>3. CASE ~IsTrigraph(t, k)
        <5>1. k = a + 2
          BY <1>1, <1>2, <1>3, <3>1, <4>1, <4>3 DEF After
        <5>2. k > 2 /\ k - 2 = a
          BY <1>1, <5>1
        <5> QED  BY <1>2, <3>2, <5>2 DEF InTrigraph
      <4> QED  BY <4>2, <4>3
    <3>3. CASE ~IsTrigraph(t, a)
      <4>1. b = a + 1
        BY <2>1, <3>3 DEF After
      <4>2. CASE IsTrigraph(t, k)
        <5>1. a > 2 /\ a - 2 = k
          BY <1>1, <1>2, <1>3, <4>1, <4>2 DEF After
        <5>2. InTrigraph(t, a)
          BY <4>2, <5>1 DEF InTrigraph
        <5> QED  BY <5>2 DEF Stands
      <4>3. CASE ~IsTrigraph(t, k)
        BY <1>1, <1>2, <1>3, <3>1, <4>1, <4>3 DEF After
      <4> QED  BY <4>2, <4>3
    <3> QED  BY <3>2, <3>3
  <2> QED  BY <1>2, <1>5, <2>2
<1> QED  BY <1>4, <1>5

\* The line ends before a place are few.
LEMMA EndsFinite ==
  ASSUME NEW t, NEW a \in Nat
  PROVE  IsFiniteSet(Ends(t, a)) /\ Cardinality(Ends(t, a)) \in Nat
<1>1. IsFiniteSet(1..(a - 1))
  BY FS_Interval
<1>2. Ends(t, a) \in SUBSET (1..(a - 1))
  BY DEF Ends
<1>3. IsFiniteSet(Ends(t, a))
  BY <1>1, <1>2, FS_Subset
<1> QED  BY <1>3, FS_CardinalityType

\* One character further on there is one line end more, or none.
LEMMA EndsNext ==
  ASSUME NEW t, NEW st, Given(t, st), NEW a \in 1..Len(t), Stands(t, "splices", a)
  PROVE  LET b == NextAt(t, "splices", a) IN
         /\ t[a] \notin {Nl, Cr} => Ends(t, b) = Ends(t, a)
         /\ t[a] \in {Nl, Cr} =>
              /\ Ends(t, b) = Ends(t, a) \cup {b - 1}
              /\ b - 1 \notin Ends(t, a) /\ \A k \in Ends(t, a) : k < b - 1
              /\ Joined(t, b - 1) <=> Hidden(t, a)
<1> DEFINE b == NextAt(t, "splices", a)
<1>1. Len(t) \in Nat /\ a \in Nat /\ a >= 1 /\ b \in (a + 1)..(Len(t) + 1)
  <2>1. Len(t) \in Nat
    BY DEF Given
  <2> QED  BY <2>1, Passed
<1>2. ASSUME t[a] \notin {Nl, Cr} PROVE Ends(t, b) = Ends(t, a)
  <2>1. \A i \in a..(b - 1) : ~EndsLine(t, i)
    BY <1>2, Passed
  <2>2. \A i : i \in 1..(b - 1) <=> i \in 1..(a - 1) \/ i \in a..(b - 1)
    BY <1>1
  <2> QED  BY <2>1, <2>2 DEF Ends
<1>3. ASSUME t[a] \in {Nl, Cr}
      PROVE  /\ Ends(t, b) = Ends(t, a) \cup {b - 1}
             /\ b - 1 \notin Ends(t, a) /\ \A k \in Ends(t, a) : k < b - 1
             /\ Joined(t, b - 1) <=> Hidden(t, a)
  <2>1. EndsLine(t, b - 1) /\ Begins(t, b - 1) = a /\ \A i \in a..(b - 2) : ~EndsLine(t, i)
    BY <1>3, Passed
  <2>2. \A i : i \in 1..(b - 1) <=> i \in 1..(a - 1) \/ i \in a..(b - 2) \/ i = b - 1
    BY <1>1
  <2>3. \A i \in 1..(a - 1) : i < b - 1
    BY <1>1
  <2>4. Ends(t, b) = Ends(t, a) \cup {b - 1}
    BY <2>1, <2>2 DEF Ends
  <2>5. \A k \in Ends(t, a) : k < b - 1
    BY <2>3 DEF Ends
  <2>6. \A k \in 1..((b - 1) - 1) : After(t, k) = a => k \in 1..(a - 1)
    BY <1>1 DEF After
  <2>7. \A k \in 1..(a - 1) : k \in 1..((b - 1) - 1)
    BY <1>1
  <2>8. Joined(t, b - 1) <=> Hidden(t, a)
    BY <2>1, <2>6, <2>7 DEF Joined, Hidden
  <2> QED  BY <1>1, <2>4, <2>5, <2>8
<1> QED  BY <1>2, <1>3

\* A character that stands for itself stays, unless it is a backslash before a line end.
LEMMA StaysNext ==
  ASSUME NEW t, NEW st, Given(t, st), NEW a \in 1..Len(t), Stands(t, "splices", a),
         NEW i \in a..(NextAt(t, "splices", a) - 1)
  PROVE  Stays(t, i) <=>
           /\ i = a /\ t[a] \notin {Nl, Cr}
           /\ ~(Meant(t, a) = "\\" /\ After(t, a) <= Len(t) /\ t[After(t, a)] \in {Nl, Cr})
<1> DEFINE b == NextAt(t, "splices", a)
<1>1. Len(t) \in Nat /\ a \in Nat /\ a >= 1 /\ b \in (a + 1)..(Len(t) + 1)
  <2>1. Len(t) \in Nat
    BY DEF Given
  <2> QED  BY <2>1, Passed
<1>2. CASE t[a] \in {Nl, Cr}
  <2>1. i = a \/ i = b - 1
    BY <1>1, <1>2, Passed
  <2> QED  BY <1>2, <2>1, Passed DEF Stays
<1>3. CASE t[a] \notin {Nl, Cr}
  <2>1. i # a => InTrigraph(t, i)
    BY <1>1, <1>3, Passed
  <2>2. ~InTrigraph(t, a)
    BY DEF Stands
  <2> QED  BY <1>3, <2>1, <2>2 DEF Stays
<1> QED  BY <1>2, <1>3

\* A line end that is joined is not counted; one that is not counts those before it, too.
LEMMA LineNext ==
  ASSUME NEW t, NEW st, Given(t, st), NEW a \in 1..Len(t), Stands(t, "splices", a)
  PROVE  LET b == NextAt(t, "splices", a) IN
         /\ t[a] \notin {Nl, Cr} => LineOf(t, b) = LineOf(t, a)
         /\ t[a] \in {Nl, Cr} =>
              /\ Cardinality(Ends(t, b)) = Cardinality(Ends(t, a)) + 1
              /\ Hidden(t, a)  => LineOf(t, b) = LineOf(t, a)
              /\ ~Hidden(t, a) => LineOf(t, b) = 1 + Cardinality(Ends(t, b))
<1> DEFINE b == NextAt(t, "splices", a)
           e == b - 1
<1>1. Len(t) \in Nat /\ a \in Nat /\ a >= 1 /\ b \in (a + 1)..(Len(t) + 1)
  <2>1. Len(t) \in Nat
    BY DEF Given
  <2> QED  BY <2>1, Passed
<1>2. t[a] \notin {Nl, Cr} => LineOf(t, b) = LineOf(t, a)
  BY EndsNext DEF LineOf
<1>3. ASSUME t[a] \in {Nl, Cr}
      PROVE  /\ Cardinality(Ends(t, b)) = Cardinality(Ends(t, a)) + 1
             /\ Hidden(t, a)  => LineOf(t, b) = LineOf(t, a)
             /\ ~Hidden(t, a) => LineOf(t, b) = 1 + Cardinality(Ends(t, b))
  <2>1. /\ Ends(t, b) = Ends(t, a) \cup {e} /\ e \notin Ends(t, a)
        /\ \A k \in Ends(t, a) : k < e
        /\ Joined(t, e) <=> Hidden(t, a)
    BY <1>3, EndsNext
  <2>2. Cardinality(Ends(t, b)) = Cardinality(Ends(t, a)) + 1
    BY <2>1, EndsFinite, FS_AddElement
  <2>3. \A k \in Ends(t, a) : k \in Nat
    BY DEF Ends
  <2>4. e \in Nat
    BY <1>1
  <2> HIDE DEF e, b
  <2>5. ASSUME Hidden(t, a)
        PROVE  {k \in Ends(t, b) : \E m \in Ends(t, b) : k <= m /\ ~Joined(t, m)}
               = {k \in Ends(t, a) : \E m \in Ends(t, a) : k <= m /\ ~Joined(t, m)}
    BY <2>1, <2>3, <2>4, <2>5
  <2>6. ASSUME ~Hidden(t, a)
        PROVE  {k \in Ends(t, b) : \E m \in Ends(t, b) : k <= m /\ ~Joined(t, m)} = Ends(t, b)
    <3>1. \A k \in Ends(t, b) : k <= e /\ e \in Ends(t, b)
      BY <2>1, <2>3, <2>4
    <3> QED  BY <2>1, <2>6, <3>1
  <2> QED  BY <2>2, <2>5, <2>6 DEF LineOf
<1> QED  BY <1>2, <1>3

-----------------------------------------------------------------------------
(* What the third loop has written.                                         *)

LineEnds(b, i, j) == {k \in i..j : b[k].c = Nl}

\* Before w the buffer has, of the characters of the text before place a, those that
\* stay, in their order and each on its line.
Kept(t, st, b, w, a) ==
  /\ \A k \in st..(w - 1) : b[k].c # Nul
  /\ \A k \in st..(w - 1) : b[k].c # Nl =>
       /\ b[k].at \in st..(a - 1) /\ Stays(t, b[k].at) /\ b[k].c = Meant(t, b[k].at)
       /\ LineOf(t, b[k].at) = 1 + Cardinality(LineEnds(b, st, k - 1))
  /\ \A k, m \in st..(w - 1) : k < m /\ b[k].c # Nl /\ b[m].c # Nl => b[k].at < b[m].at
  /\ \A i \in st..(a - 1) : Stays(t, i) => \E k \in st..(w - 1) : b[k].c # Nl /\ b[k].at = i

Agree(b, c, st, w) == \A k \in st..(w - 1) : c[k] = b[k]

\* Line ends among the cells that agree are as many.
LEMMA AgreeEnds ==
  ASSUME NEW st \in Nat, NEW w \in Nat, NEW b, NEW c, Agree(b, c, st, w),
         NEW k \in Nat, k < w
  PROVE  LineEnds(c, st, k) = LineEnds(b, st, k)
<1>1. \A i \in st..k : i \in st..(w - 1)
  OBVIOUS
<1> QED  BY <1>1 DEF Agree, LineEnds

\* There are finitely many.
LEMMA LineEndsFinite ==
  ASSUME NEW st \in Nat, NEW w \in Int, NEW b
  PROVE  IsFiniteSet(LineEnds(b, st, w)) /\ Cardinality(LineEnds(b, st, w)) \in Nat
<1>1. IsFiniteSet(st..w)
  BY FS_Interval
<1>2. LineEnds(b, st, w) \in SUBSET (st..w)
  BY DEF LineEnds
<1>3. IsFiniteSet(LineEnds(b, st, w))
  BY <1>1, <1>2, FS_Subset
<1> QED  BY <1>3, FS_CardinalityType

\* What is kept depends on what has been written only.
LEMMA KeptSame ==
  ASSUME NEW t, NEW st \in Nat, st >= 1, NEW b, NEW c, NEW w \in Nat, st <= w, NEW a,
         Kept(t, st, b, w, a), Agree(b, c, st, w)
  PROVE  /\ Kept(t, st, c, w, a)
         /\ LineEnds(c, st, w - 1) = LineEnds(b, st, w - 1)
<1>1. \A k \in st..(w - 1) : c[k] = b[k]
  BY DEF Agree
<1>2. \A k \in st..(w - 1) : k - 1 \in Nat /\ k - 1 < w
  OBVIOUS
<1>3. \A k \in st..(w - 1) : LineEnds(c, st, k - 1) = LineEnds(b, st, k - 1)
  BY <1>2, AgreeEnds
<1>4. Kept(t, st, c, w, a)
  BY <1>1, <1>3 DEF Kept
<1>5. w - 1 \in Nat /\ w - 1 < w
  OBVIOUS
<1> QED  BY <1>4, <1>5, AgreeEnds

\* Places that nothing stays of can be passed.
LEMMA KeptSkip ==
  ASSUME NEW t, NEW st \in Nat, NEW b, NEW w \in Nat, NEW a \in Nat, NEW a2 \in Nat, a <= a2,
         Kept(t, st, b, w, a), \A i \in a..(a2 - 1) : ~Stays(t, i)
  PROVE  Kept(t, st, b, w, a2)
<1>1. \A i \in st..(a2 - 1) : i \in st..(a - 1) \/ i \in a..(a2 - 1)
  OBVIOUS
<1>2. \A i \in st..(a - 1) : i \in st..(a2 - 1)
  OBVIOUS
<1> QED  BY <1>1, <1>2 DEF Kept

\* Line ends can be written.
LEMMA KeptEnds ==
  ASSUME NEW t, NEW st \in Nat, st >= 1, NEW b, NEW c, NEW w \in Nat, st <= w, NEW a \in Nat,
         Kept(t, st, b, w, a), Agree(b, c, st, w),
         NEW m \in Nat, \A i \in w..(w + m - 1) : c[i].c = Nl
  PROVE  Kept(t, st, c, w + m, a)
<1>1. Kept(t, st, c, w, a)
  BY KeptSame
<1>2. \A i : i \in st..(w + m - 1) <=> i \in st..(w - 1) \/ i \in w..(w + m - 1)
  OBVIOUS
<1> QED  BY <1>1, <1>2, TrigraphChars DEF Kept

\* They are counted.
LEMMA MoreEnds ==
  ASSUME NEW st \in Nat, NEW b, NEW c, NEW w \in Nat, st <= w, Agree(b, c, st, w),
         NEW e \in Int, e >= w - 1, \A i \in w..e : c[i].c = Nl
  PROVE  Cardinality(LineEnds(c, st, e)) = Cardinality(LineEnds(b, st, w - 1)) + (e - w + 1)
<1>1. LineEnds(c, st, w - 1) = LineEnds(b, st, w - 1)
  BY DEF Agree, LineEnds
<1>2. \A i : i \in st..e <=> i \in st..(w - 1) \/ i \in w..e
  OBVIOUS
<1>4. LineEnds(c, st, e) = LineEnds(c, st, w - 1) \cup (w..e)
  BY <1>2 DEF LineEnds
<1>5. LineEnds(c, st, w - 1) \cap (w..e) = {}
  <2>1. \A i \in st..(w - 1) : i \notin w..e
    OBVIOUS
  <2> QED  BY <2>1 DEF LineEnds
<1>6. IsFiniteSet(w..e) /\ Cardinality(w..e) = e - w + 1
  <2>1. w \in Int /\ (w > e => e - w + 1 = 0)
    OBVIOUS
  <2> QED  BY <2>1, FS_Interval
<1>7. IsFiniteSet(LineEnds(c, st, w - 1)) /\ Cardinality(LineEnds(c, st, w - 1)) \in Nat
  <2>1. w - 1 \in Int
    OBVIOUS
  <2> QED  BY <2>1, LineEndsFinite
<1>8. Cardinality(LineEnds(c, st, e))
        = Cardinality(LineEnds(c, st, w - 1)) + (e - w + 1) - Cardinality({})
  <2>1. Cardinality(LineEnds(c, st, w - 1) \cup (w..e))
          = Cardinality(LineEnds(c, st, w - 1)) + Cardinality(w..e)
              - Cardinality(LineEnds(c, st, w - 1) \cap (w..e))
    BY <1>6, <1>7, FS_Union, Zenon
  <2> QED  BY <1>4, <1>5, <1>6, <2>1
<1>9. Cardinality({}) = 0
  BY FS_EmptySet
<1> QED  BY <1>1, <1>7, <1>8, <1>9

\* A character that stays can be written.
LEMMA KeptCell ==
  ASSUME NEW t, NEW st \in Nat, st >= 1, NEW b, NEW c, NEW w \in Nat, st <= w,
         NEW a \in Nat, NEW a2 \in Nat, st <= a, a < a2,
         Kept(t, st, b, w, a), Agree(b, c, st, w),
         c[w].at = a, c[w].c = Meant(t, a), c[w].c \notin {Nl, Nul}, Stays(t, a),
         \A i \in (a + 1)..(a2 - 1) : ~Stays(t, i),
         LineOf(t, a) = 1 + Cardinality(LineEnds(b, st, w - 1))
  PROVE  /\ Kept(t, st, c, w + 1, a2)
         /\ LineEnds(c, st, w) = LineEnds(b, st, w - 1)
<1>1. Kept(t, st, c, w, a) /\ LineEnds(c, st, w - 1) = LineEnds(b, st, w - 1)
  BY KeptSame
<1>2. \A i : i \in st..w <=> i \in st..(w - 1) \/ i = w
  OBVIOUS
<1>3. LineEnds(c, st, w) = LineEnds(b, st, w - 1)
  <2>1. LineEnds(c, st, w) = LineEnds(c, st, w - 1)
    BY <1>2 DEF LineEnds
  <2> QED  BY <1>1, <2>1
<1>4. ASSUME NEW k \in st..w, c[k].c # Nl
      PROVE  /\ c[k].at \in st..(a2 - 1) /\ Stays(t, c[k].at) /\ c[k].c = Meant(t, c[k].at)
             /\ LineOf(t, c[k].at) = 1 + Cardinality(LineEnds(c, st, k - 1))
  <2>1. CASE k = w
    BY <1>1, <2>1
  <2>2. CASE k # w
    <3>1. k \in st..(w - 1)
      BY <2>2
    <3> QED  BY <1>1, <1>4, <3>1 DEF Kept
  <2> QED  BY <2>1, <2>2
<1>5. ASSUME NEW k \in st..w, NEW m \in st..w, k < m, c[k].c # Nl, c[m].c # Nl
      PROVE  c[k].at < c[m].at
  <2>0. k \in st..(w - 1)
    BY <1>5
  <2>1. CASE m = w
    BY <1>1, <1>5, <2>0, <2>1 DEF Kept
  <2>2. CASE m # w
    <3>1. m \in st..(w - 1)
      BY <2>2
    <3> QED  BY <1>1, <1>5, <2>0, <3>1 DEF Kept
  <2> QED  BY <2>1, <2>2
<1>6. ASSUME NEW i \in st..(a2 - 1), Stays(t, i)
      PROVE  \E k \in st..w : c[k].c # Nl /\ c[k].at = i
  <2>1. i \in st..(a - 1) \/ i = a \/ i \in (a + 1)..(a2 - 1)
    OBVIOUS
  <2>2. CASE i = a
    BY <2>2
  <2>3. CASE i \in st..(a - 1)
    BY <1>1, <1>2, <1>6, <2>3 DEF Kept
  <2> QED  BY <1>6, <2>1, <2>2, <2>3
<1>7. \A k \in st..w : c[k].c # Nul
  BY <1>1, <1>2 DEF Kept
<1>8. (w + 1) - 1 = w
  OBVIOUS
<1>9. Kept(t, st, c, w + 1, a2)
  BY <1>4, <1>5, <1>6, <1>7, <1>8 DEF Kept
<1> QED  BY <1>3, <1>9

\* The third loop: m line ends have been taken out.
Splicing(t, st, b, r, w, z, m) ==
  /\ ToRead(t, st, b, r, z, "splices")
  /\ w \in st..r /\ m \in Nat /\ w + m <= r
  /\ Kept(t, st, b, w, b[r].at)
  /\ Cardinality(LineEnds(b, st, w - 1)) + m = Cardinality(Ends(t, b[r].at))
  /\ LineOf(t, b[r].at) = 1 + Cardinality(LineEnds(b, st, w - 1))
  /\ b[r].c = Nl => ~Hidden(t, b[r].at)

\* What is read in the third loop.
LEMMA SplicingReads ==
  ASSUME NEW t, NEW st, Given(t, st), NEW b, NEW r, NEW w, NEW z, NEW m,
         Splicing(t, st, b, r, w, z, m), b[r].c # Nul
  PROVE  /\ r \in Nat /\ w \in Nat /\ z \in Nat /\ st \in Nat /\ st >= 1 /\ st <= w /\ r < z
         /\ Len(t) \in Nat
         /\ ToRead(t, st, b, r + 1, z, "splices")
         /\ b[r].at \in 1..Len(t) /\ b[r].at \in st..Len(t)
         /\ b[r].c = Seen(t, "splices", b[r].at)
         /\ b[r + 1].at = NextAt(t, "splices", b[r].at)
         /\ Stands(t, "splices", b[r].at)
         /\ b[r].c = Nl <=> t[b[r].at] \in {Nl, Cr}
         /\ b[r].c # Nl => b[r].c = Meant(t, b[r].at) /\ b[r + 1].at = After(t, b[r].at)
<1>1. /\ z \in Nat /\ r \in Nat /\ w \in Nat /\ st \in Nat /\ st >= 1 /\ st <= r /\ r <= z
      /\ Len(t) \in Nat /\ st <= w
  BY DEF Splicing, ToRead, Given
<1>2. r < z /\ r \in r..(z - 1)
  BY <1>1 DEF Splicing, ToRead
<1>3. Linked(t, st, "splices", b[r], b[r + 1].at)
  BY <1>2 DEF Splicing, ToRead
<1>4. b[r].at \in 1..Len(t)
  BY <1>1, <1>3 DEF Linked
<1>5. ToRead(t, st, b, r + 1, z, "splices")
  BY <1>1, <1>2 DEF Splicing, ToRead
<1>6. b[r].c = Nl <=> t[b[r].at] \in {Nl, Cr}
  <2>1. b[r].c = Seen(t, "splices", b[r].at)
    BY <1>3 DEF Linked
  <2>2. IsTrigraph(t, b[r].at) => t[b[r].at] = "?" /\ Meant(t, b[r].at) # Nl
    BY <1>4, TrigraphPlace, TrigraphChars DEF Meant
  <2>3. ~IsTrigraph(t, b[r].at) => Meant(t, b[r].at) = t[b[r].at]
    BY DEF Meant
  <2> QED  BY <2>1, <2>2, <2>3, TrigraphChars DEF Seen
<1>7. b[r].c # Nl => b[r].c = Meant(t, b[r].at) /\ b[r + 1].at = After(t, b[r].at)
  BY <1>3, <1>6 DEF Linked, Seen, NextAt, CrLf
<1> QED  BY <1>1, <1>2, <1>3, <1>4, <1>5, <1>6, <1>7 DEF Linked

\* A line end with a backslash before it is passed.
LEMMA SplicingPasses ==
  ASSUME NEW t, NEW st, Given(t, st), NEW b, NEW r, NEW w, NEW z, NEW m,
         Splicing(t, st, b, r, w, z, m), b[r].c = "\\", b[r + 1].c = Nl
  PROVE  Splicing(t, st, b, r + 2, w, z, m + 1)
<1> DEFINE a == b[r].at
           e == b[r + 1].at
           a2 == b[(r + 1) + 1].at
<1>1. /\ r \in Nat /\ w \in Nat /\ z \in Nat /\ st \in Nat /\ st >= 1 /\ st <= w /\ r < z
      /\ Len(t) \in Nat
      /\ ToRead(t, st, b, r + 1, z, "splices")
      /\ a \in 1..Len(t) /\ a \in st..Len(t)
      /\ Stands(t, "splices", a) /\ t[a] \notin {Nl, Cr} /\ Meant(t, a) = "\\"
      /\ e = NextAt(t, "splices", a) /\ e = After(t, a)
  BY SplicingReads, TrigraphChars
<1>2. r + 1 < z /\ Linked(t, st, "splices", b[r + 1], a2)
      /\ ToRead(t, st, b, (r + 1) + 1, z, "splices")
  <2>1. r + 1 # z
    BY <1>1, TrigraphChars DEF ToRead
  <2>2. r + 1 \in (r + 1)..(z - 1)
    BY <1>1, <2>1
  <2>3. Linked(t, st, "splices", b[r + 1], a2)
    BY <1>1, <2>2 DEF ToRead
  <2>4. \A i \in ((r + 1) + 1)..(z - 1) : i \in (r + 1)..(z - 1)
    BY <1>1
  <2>5. (r + 1) + 1 <= z /\ (r + 1) + 1 \in Nat /\ st <= (r + 1) + 1
    BY <1>1, <2>1 DEF ToRead
  <2>6. /\ z \in Nat /\ \A i \in st..z : i \in DOMAIN b
        /\ b[z].c = Nul /\ b[z].at = Len(t) + 1
        /\ \A i \in (r + 1)..(z - 1) : Linked(t, st, "splices", b[i], b[i + 1].at)
    BY <1>1 DEF ToRead
  <2>7. \A i \in ((r + 1) + 1)..(z - 1) : Linked(t, st, "splices", b[i], b[i + 1].at)
    BY <2>4, <2>6
  <2>8. ToRead(t, st, b, (r + 1) + 1, z, "splices")
    BY <2>5, <2>6, <2>7 DEF ToRead
  <2>9. r + 1 < z
    BY <2>2, <1>1
  <2> QED  BY <2>3, <2>8, <2>9
<1>3. /\ e \in st..Len(t) /\ e \in 1..Len(t) /\ Stands(t, "splices", e)
      /\ a2 = NextAt(t, "splices", e) /\ Seen(t, "splices", e) = Nl
  BY <1>1, <1>2 DEF Linked
<1>4. t[e] \in {Nl, Cr}
  <2>1. IsTrigraph(t, e) => Meant(t, e) # Nl
    BY <1>3, TrigraphPlace, TrigraphChars DEF Meant
  <2>2. ~IsTrigraph(t, e) => Meant(t, e) = t[e]
    BY DEF Meant
  <2> QED  BY <1>3, <2>1, <2>2 DEF Seen
<1>5. e \in (a + 1)..(Len(t) + 1) /\ a2 \in (e + 1)..(Len(t) + 1)
  <2>1. e \in (a + 1)..(Len(t) + 1)
    BY <1>1, Passed
  <2>2. a2 \in (e + 1)..(Len(t) + 1)
    BY <1>3, Passed
  <2> QED  BY <2>1, <2>2
<1> HIDE DEF a, e, a2
<1>6. Hidden(t, e)
  <2>1. a \in 1..(e - 1) /\ ~InTrigraph(t, a)
    BY <1>1, <1>5 DEF Stands
  <2> QED  BY <1>1, <2>1 DEF Hidden
<1>7. LineOf(t, e) = LineOf(t, a) /\ Ends(t, e) = Ends(t, a)
  BY <1>1, LineNext, EndsNext
<1>8. LineOf(t, a2) = LineOf(t, e) /\ Cardinality(Ends(t, a2)) = Cardinality(Ends(t, e)) + 1
  BY <1>3, <1>4, <1>6, LineNext
<1>9. \A i \in a..(a2 - 1) : ~Stays(t, i)
  <2>1. \A i \in a..(e - 1) : ~Stays(t, i)
    <3>1. Meant(t, a) = "\\" /\ After(t, a) <= Len(t) /\ t[After(t, a)] \in {Nl, Cr}
      BY <1>1, <1>3, <1>4
    <3>2. \A i \in a..(NextAt(t, "splices", a) - 1) : ~Stays(t, i)
      BY <1>1, <3>1, StaysNext
    <3> QED  BY <1>1, <3>2
  <2>2. \A i \in e..(a2 - 1) : ~Stays(t, i)
    BY <1>3, <1>4, StaysNext
  <2>3. \A i \in a..(a2 - 1) : i \in a..(e - 1) \/ i \in e..(a2 - 1)
    BY <1>1, <1>5
  <2> QED  BY <2>1, <2>2, <2>3
<1>10. Kept(t, st, b, w, a2)
  <2>1. a \in Nat /\ a2 \in Nat /\ a <= a2
    BY <1>1, <1>3, <1>5
  <2>2. Kept(t, st, b, w, a)
    BY DEF Splicing, a
  <2> QED  BY <1>1, <1>9, <2>1, <2>2, KeptSkip
<1>11. ~Hidden(t, a2)
  BY <1>3, <1>4, HiddenBy
<1>12. (r + 1) + 1 = r + 2 /\ r + 2 <= z /\ r + 2 \in Nat
  BY <1>1, <1>2
<1>13. /\ Cardinality(LineEnds(b, st, w - 1)) + m = Cardinality(Ends(t, a)) /\ m \in Nat
       /\ LineOf(t, a) = 1 + Cardinality(LineEnds(b, st, w - 1)) /\ w + m <= r
  BY DEF Splicing, a
<1>14. Cardinality(LineEnds(b, st, w - 1)) \in Nat
  <2>1. w - 1 \in Int
    BY <1>1
  <2> QED  BY <1>1, <2>1, LineEndsFinite
<1>15. Cardinality(LineEnds(b, st, w - 1)) + (m + 1) = Cardinality(Ends(t, a2))
  BY <1>7, <1>8, <1>13, <1>14
<1>16. a2 = b[r + 2].at /\ w \in st..(r + 2) /\ m + 1 \in Nat /\ w + (m + 1) <= r + 2
  BY <1>1, <1>12, <1>13 DEF a2
<1>17. LineOf(t, a2) = 1 + Cardinality(LineEnds(b, st, w - 1))
  BY <1>7, <1>8, <1>13
<1> QED  BY <1>2, <1>10, <1>11, <1>12, <1>15, <1>16, <1>17 DEF Splicing

\* A line end is written, and those that were taken out after it.
LEMMA SplicingEnds ==
  ASSUME NEW t, NEW st, Given(t, st), NEW b, NEW r, NEW w, NEW z, NEW m,
         Splicing(t, st, b, r, w, z, m), b[r].c = Nl,
         NEW c, DOMAIN c = DOMAIN b, Agree(b, c, st, w),
         \A i \in w..(w + m) : c[i].c = Nl, \A i \in (r + 1)..z : c[i] = b[i]
  PROVE  Splicing(t, st, c, r + 1, w + 1 + m, z, 0)
<1> DEFINE a == b[r].at
           a2 == b[r + 1].at
<1>1. /\ r \in Nat /\ w \in Nat /\ z \in Nat /\ st \in Nat /\ st >= 1 /\ st <= w /\ r < z
      /\ Len(t) \in Nat
      /\ ToRead(t, st, b, r + 1, z, "splices")
      /\ a \in 1..Len(t) /\ a \in st..Len(t)
      /\ Stands(t, "splices", a) /\ t[a] \in {Nl, Cr}
      /\ a2 = NextAt(t, "splices", a)
  BY SplicingReads, TrigraphChars
<1>2. a2 \in (a + 1)..(Len(t) + 1)
  BY <1>1, Passed
<1>3. /\ Cardinality(LineEnds(b, st, w - 1)) + m = Cardinality(Ends(t, a)) /\ m \in Nat
      /\ LineOf(t, a) = 1 + Cardinality(LineEnds(b, st, w - 1)) /\ w + m <= r
      /\ Kept(t, st, b, w, a) /\ ~Hidden(t, a)
  BY DEF Splicing
<1> HIDE DEF a, a2
<1>4. /\ Cardinality(Ends(t, a2)) = Cardinality(Ends(t, a)) + 1
      /\ LineOf(t, a2) = 1 + Cardinality(Ends(t, a2))
  BY <1>1, <1>3, LineNext
<1>5. \A i \in a..(a2 - 1) : ~Stays(t, i)
  BY <1>1, StaysNext
<1>6. Kept(t, st, b, w, a2)
  <2>1. a \in Nat /\ a2 \in Nat /\ a <= a2
    BY <1>1, <1>2
  <2> QED  BY <1>1, <1>3, <1>5, <2>1, KeptSkip
<1>7. /\ Kept(t, st, c, w + (m + 1), a2)
      /\ Cardinality(LineEnds(c, st, w + m)) = Cardinality(LineEnds(b, st, w - 1)) + (m + 1)
  <2>1. m + 1 \in Nat /\ w + (m + 1) - 1 = w + m /\ a2 \in Nat
    BY <1>1, <1>2, <1>3
  <2>2. \A i \in w..(w + (m + 1) - 1) : c[i].c = Nl
    BY <2>1
  <2>3. st \in Nat /\ st >= 1 /\ w \in Nat /\ st <= w
    BY <1>1
  <2>4. Agree(b, c, st, w)
    OBVIOUS
  <2>5. Kept(t, st, c, w + (m + 1), a2)
    BY <1>6, <2>1, <2>2, <2>3, <2>4, KeptEnds
  <2>6. Cardinality(LineEnds(c, st, w + m)) = Cardinality(LineEnds(b, st, w - 1)) + (m + 1)
    <3>1. w + m \in Int /\ w + m >= w - 1 /\ (w + m) - w + 1 = m + 1
      BY <2>1, <2>3, <1>3
    <3>2. Cardinality(LineEnds(c, st, w + m)) = Cardinality(LineEnds(b, st, w - 1)) + ((w + m) - w + 1)
      BY <2>3, <2>4, <3>1, MoreEnds
    <3> QED  BY <3>1, <3>2
  <2> QED  BY <2>5, <2>6
<1>8. ~Hidden(t, a2)
  BY <1>1, HiddenBy
<1>9. ToRead(t, st, c, r + 1, z, "splices") /\ a2 = c[r + 1].at
  <2>1. r + 1 \in (r + 1)..z /\ z \in (r + 1)..z
    BY <1>1
  <2>2. \A i \in (r + 1)..(z - 1) : i \in (r + 1)..z /\ i + 1 \in (r + 1)..z
    BY <1>1
  <2>3. \A i \in (r + 1)..(z - 1) : c[i] = b[i] /\ c[i + 1] = b[i + 1]
    BY <2>2
  <2> QED  BY <1>1, <2>1, <2>3 DEF ToRead, a2
<1>10. /\ w + 1 + m = w + (m + 1) /\ w + 1 + m \in st..(r + 1) /\ (w + 1 + m) + 0 <= r + 1
       /\ (w + 1 + m) - 1 = w + m
  BY <1>1, <1>3
<1>11. Cardinality(LineEnds(b, st, w - 1)) \in Nat
  <2>1. w - 1 \in Int
    BY <1>1
  <2> QED  BY <1>1, <2>1, LineEndsFinite
<1>12. /\ Cardinality(LineEnds(c, st, (w + 1 + m) - 1)) + 0 = Cardinality(Ends(t, a2))
       /\ LineOf(t, a2) = 1 + Cardinality(LineEnds(c, st, (w + 1 + m) - 1))
  BY <1>3, <1>4, <1>7, <1>10, <1>11
<1> QED  BY <1>7, <1>8, <1>9, <1>10, <1>12 DEF Splicing

\* Any other character is written.
LEMMA SplicingWrites ==
  ASSUME NEW t, NEW st, Given(t, st), NEW b, NEW r, NEW w, NEW z, NEW m,
         Splicing(t, st, b, r, w, z, m), b[r].c \notin {Nl, Nul},
         ~(b[r].c = "\\" /\ b[r + 1].c = Nl),
         NEW c, DOMAIN c = DOMAIN b, Agree(b, c, st, w),
         c[w] = b[r], \A i \in (r + 1)..z : c[i] = b[i]
  PROVE  Splicing(t, st, c, r + 1, w + 1, z, m)
<1> DEFINE a == b[r].at
           a2 == b[r + 1].at
<1>1. /\ r \in Nat /\ w \in Nat /\ z \in Nat /\ st \in Nat /\ st >= 1 /\ st <= w /\ r < z
      /\ Len(t) \in Nat
      /\ ToRead(t, st, b, r + 1, z, "splices")
      /\ a \in 1..Len(t) /\ a \in st..Len(t)
      /\ Stands(t, "splices", a) /\ t[a] \notin {Nl, Cr} /\ b[r].c = Meant(t, a)
      /\ a2 = NextAt(t, "splices", a) /\ a2 = After(t, a)
  BY SplicingReads, TrigraphChars
<1>2. a2 \in (a + 1)..(Len(t) + 1)
  BY <1>1, Passed
<1>3. /\ Cardinality(LineEnds(b, st, w - 1)) + m = Cardinality(Ends(t, a)) /\ m \in Nat
      /\ LineOf(t, a) = 1 + Cardinality(LineEnds(b, st, w - 1)) /\ w + m <= r
      /\ Kept(t, st, b, w, a)
  BY DEF Splicing
<1>4. a2 <= Len(t) => /\ Linked(t, st, "splices", b[r + 1], b[(r + 1) + 1].at)
                      /\ t[a2] \in {Nl, Cr} => b[r + 1].c = Nl
  <2>1. SUFFICES ASSUME a2 <= Len(t)
                 PROVE  /\ Linked(t, st, "splices", b[r + 1], b[(r + 1) + 1].at)
                        /\ t[a2] \in {Nl, Cr} => b[r + 1].c = Nl
    OBVIOUS
  <2>2. r + 1 # z
    BY <1>1, <2>1 DEF ToRead
  <2>3. r + 1 \in (r + 1)..(z - 1)
    BY <1>1, <2>2
  <2>4. Linked(t, st, "splices", b[r + 1], b[(r + 1) + 1].at)
    BY <1>1, <2>3 DEF ToRead
  <2>5. ASSUME t[a2] \in {Nl, Cr} PROVE b[r + 1].c = Nl
    <3>1. ~IsTrigraph(t, a2)
      BY <2>5, TrigraphChars DEF IsTrigraph
    <3>2. Seen(t, "splices", a2) = Nl
      BY <2>5, <3>1 DEF Seen, Meant
    <3> QED  BY <2>4, <3>2 DEF Linked
  <2> QED  BY <2>4, <2>5
<1> HIDE DEF a, a2
<1>5. ~(Meant(t, a) = "\\" /\ After(t, a) <= Len(t) /\ t[After(t, a)] \in {Nl, Cr})
  BY <1>1, <1>4
<1>6. Stays(t, a) /\ \A i \in (a + 1)..(a2 - 1) : ~Stays(t, i)
  <2>1. \A i \in a..(a2 - 1) : Stays(t, i) <=> i = a
    <3>1. \A i \in a..(NextAt(t, "splices", a) - 1) : Stays(t, i) <=> i = a
      BY <1>1, <1>5, StaysNext
    <3> QED  BY <1>1, <3>1
  <2>2. a \in a..(a2 - 1) /\ \A i \in (a + 1)..(a2 - 1) : i \in a..(a2 - 1) /\ i # a
    BY <1>1, <1>2
  <2> QED  BY <2>1, <2>2
<1>7. LineOf(t, a2) = LineOf(t, a) /\ Ends(t, a2) = Ends(t, a)
  BY <1>1, LineNext, EndsNext
<1>8. Kept(t, st, c, w + 1, a2) /\ LineEnds(c, st, w) = LineEnds(b, st, w - 1)
  <2>1. a \in Nat /\ a2 \in Nat /\ a < a2 /\ st <= a
    BY <1>1, <1>2
  <2>2. c[w].at = a /\ c[w].c = Meant(t, a) /\ c[w].c \notin {Nl, Nul}
    BY <1>1 DEF a
  <2>3. st \in Nat /\ st >= 1 /\ w \in Nat /\ st <= w /\ Kept(t, st, b, w, a)
        /\ LineOf(t, a) = 1 + Cardinality(LineEnds(b, st, w - 1))
    BY <1>1, <1>3
  <2>4. Agree(b, c, st, w)
    OBVIOUS
  <2>5. Kept(t, st, c, w + 1, a2)
    BY <1>6, <2>1, <2>2, <2>3, <2>4, KeptCell
  <2>6. LineEnds(c, st, w) = LineEnds(b, st, w - 1)
    BY <1>6, <2>1, <2>2, <2>3, <2>4, KeptCell
  <2> QED  BY <2>5, <2>6
<1>9. b[r + 1].c = Nl => ~Hidden(t, a2)
  <2>1. Hidden(t, a2) => Meant(t, a) = "\\"
    BY <1>1, HiddenBy
  <2> QED  BY <1>1, <2>1
<1>10. ToRead(t, st, c, r + 1, z, "splices") /\ c[r + 1] = b[r + 1]
  <2>1. r + 1 \in (r + 1)..z /\ z \in (r + 1)..z
    BY <1>1
  <2>2. \A i \in (r + 1)..(z - 1) : i \in (r + 1)..z /\ i + 1 \in (r + 1)..z
    BY <1>1
  <2>3. \A i \in (r + 1)..(z - 1) : c[i] = b[i] /\ c[i + 1] = b[i + 1]
    BY <2>2
  <2> QED  BY <1>1, <2>1, <2>3 DEF ToRead
<1>11. w + 1 \in st..(r + 1) /\ (w + 1) + m <= r + 1 /\ (w + 1) - 1 = w
  BY <1>1, <1>3
<1>12. /\ Cardinality(LineEnds(c, st, (w + 1) - 1)) + m = Cardinality(Ends(t, a2))
       /\ LineOf(t, a2) = 1 + Cardinality(LineEnds(c, st, (w + 1) - 1))
  BY <1>3, <1>7, <1>8, <1>11
<1>13. a2 = c[r + 1].at
  BY <1>10 DEF a2
<1> QED  BY <1>3, <1>8, <1>9, <1>10, <1>11, <1>12, <1>13 DEF Splicing

\* It begins with nothing written and nothing taken out.
LEMMA SplicingBegins ==
  ASSUME NEW t, NEW st, Given(t, st), NEW b, NEW z, Chain(t, st, b, st, st, z, "splices")
  PROVE  Splicing(t, st, b, st, st, z, 0)
<1>1. st \in Nat /\ st >= 1 /\ b[st].at = st /\ ToRead(t, st, b, st, z, "splices")
      /\ \A k \in 1..(st - 1) : t = <<Bom>> /\ k = 1
  BY DEF Chain, Given
<1>2. \A k \in st..(st - 1) : FALSE
  BY <1>1
<1>3. Kept(t, st, b, st, st)
  BY <1>2 DEF Kept
<1>4. Ends(t, st) = {}
  BY <1>1 DEF Ends, EndsLine, Bom, Nl, Cr
<1>5. ~Hidden(t, st)
  <2>1. t = <<Bom>> => ~IsTrigraph(t, 1) /\ t[1] # "\\"
    BY DEF IsTrigraph, Bom
  <2> QED  BY <1>1, <2>1 DEF Hidden, Meant
<1>6. LineEnds(b, st, st - 1) = {}
  BY <1>2 DEF LineEnds
<1>7. LineOf(t, st) = 1 + Cardinality({})
  BY <1>4 DEF LineOf
<1>8. Cardinality({}) = 0
  BY FS_EmptySet
<1>9. /\ Cardinality(LineEnds(b, st, st - 1)) + 0 = Cardinality(Ends(t, st))
      /\ LineOf(t, st) = 1 + Cardinality(LineEnds(b, st, st - 1))
  BY <1>4, <1>6, <1>7, <1>8
<1>10. st \in st..st /\ 0 \in Nat /\ st + 0 <= st
  BY <1>1
<1> QED  BY <1>1, <1>3, <1>5, <1>9, <1>10 DEF Splicing

Spliced == \E z \in Nat : Splicing(text, start, buf, read, write, z, n)

\* What the third loop leaves.
Rewritten ==
  /\ write + n \in DOMAIN buf /\ C(write + n) = Nul
  /\ Kept(text, start, buf, write + n, Len(text) + 1)

\* The turns of the third loop.
LEMMA SplicesStep ==
  ASSUME Rewriting, Given(text, start), Spliced, Splice \/ SpliceLineEnd \/ SpliceOther
  PROVE  Spliced'
<1>1. PICK z \in Nat : Splicing(text, start, buf, read, write, z, n)
  BY DEF Spliced
<1>2. C(read) # Nul /\ buf[read].c # Nul
  BY DEF Splice, SpliceLineEnd, SpliceOther, In, C
<1>3. /\ read \in Nat /\ write \in Nat /\ start \in Nat /\ start <= write /\ write <= read /\ read < z
      /\ n \in Nat /\ write + n <= read
  <2>1. /\ read \in Nat /\ write \in Nat /\ start \in Nat /\ start <= write /\ read < z
    BY <1>1, <1>2, SplicingReads
  <2>2. write \in start..read /\ n \in Nat /\ write + n <= read
    BY <1>1 DEF Splicing
  <2> QED  BY <2>1, <2>2
<1>4. \A i \in start..z : i \in DOMAIN buf
  BY <1>1 DEF Splicing, ToRead
<1>5. CASE Splice
  <2>1. buf[read].c = "\\" /\ buf[read + 1].c = Nl
    BY <1>5 DEF Splice, IsSplice, C
  <2>2. Splicing(text, start, buf, read + 2, write, z, n + 1)
    BY <1>1, <2>1, SplicingPasses
  <2>3. Splicing(text, start, buf, read, write, z, n)'
    BY <1>5, <2>2 DEF Splice
  <2> QED  BY <2>3 DEF Spliced
<1>6. CASE SpliceLineEnd
  <2>1. buf[read].c = Nl
    BY <1>6 DEF SpliceLineEnd, C
  <2>2. /\ DOMAIN buf' = DOMAIN buf
        /\ \A i \in DOMAIN buf : i < write => buf'[i] = buf[i]
        /\ \A i \in DOMAIN buf : i > write + n => buf'[i] = buf[i]
        /\ \A i \in DOMAIN buf : i \in write..(write + n) => buf'[i].c = Nl
    <3>1. \A i \in DOMAIN buf : i \in Nat
      BY DEF Rewriting, Shape
    <3>2. \A i \in DOMAIN buf : /\ i < write => i # write /\ i \notin (write + 1)..(write + n)
                                /\ i > write + n => i # write /\ i \notin (write + 1)..(write + n)
                                /\ i \in write..(write + n) => i = write \/ i \in (write + 1)..(write + n)
      BY <1>3, <3>1
    <3> QED  BY <1>6, <2>1, <3>2 DEF SpliceLineEnd, Cell
  <2>3. /\ \A i \in start..(write - 1) : i \in DOMAIN buf /\ i < write
        /\ \A i \in write..(write + n) : i \in DOMAIN buf
        /\ \A i \in (read + 1)..z : i \in DOMAIN buf /\ i > write + n
    <3>1. /\ \A i \in start..(write - 1) : i \in start..z /\ i < write
          /\ \A i \in write..(write + n) : i \in start..z
          /\ \A i \in (read + 1)..z : i \in start..z /\ i > write + n
      BY <1>3
    <3> QED  BY <1>4, <3>1
  <2> DEFINE c == buf'
  <2>4. /\ Agree(buf, c, start, write) /\ DOMAIN c = DOMAIN buf
        /\ \A i \in write..(write + n) : c[i].c = Nl
        /\ \A i \in (read + 1)..z : c[i] = buf[i]
    BY <2>2, <2>3 DEF Agree
  <2> HIDE DEF c
  <2>5. Splicing(text, start, c, read + 1, write + 1 + n, z, 0)
    BY <1>1, <2>1, <2>4, SplicingEnds
  <2>6. Splicing(text, start, buf, read, write, z, n)'
    BY <1>6, <2>5 DEF SpliceLineEnd, c
  <2> QED  BY <2>6 DEF Spliced
<1>7. CASE SpliceOther
  <2>1. buf[read].c \notin {Nl, Nul} /\ ~(buf[read].c = "\\" /\ buf[read + 1].c = Nl)
    BY <1>2, <1>7 DEF SpliceOther, IsSplice, C
  <2>2. buf' = [buf EXCEPT ![write] = buf[read]]
    BY <1>7, CopyWrites DEF SpliceOther
  <2>3. /\ \A i \in start..(write - 1) : i \in DOMAIN buf /\ i # write
        /\ write \in DOMAIN buf
        /\ \A i \in (read + 1)..z : i \in DOMAIN buf /\ i # write
    <3>1. /\ \A i \in start..(write - 1) : i \in start..z /\ i # write
          /\ write \in start..z
          /\ \A i \in (read + 1)..z : i \in start..z /\ i # write
      BY <1>3
    <3> QED  BY <1>4, <3>1
  <2> DEFINE c == buf'
  <2>4. /\ Agree(buf, c, start, write) /\ DOMAIN c = DOMAIN buf
        /\ c[write] = buf[read]
        /\ \A i \in (read + 1)..z : c[i] = buf[i]
    BY <2>2, <2>3 DEF Agree
  <2> HIDE DEF c
  <2>5. Splicing(text, start, c, read + 1, write + 1, z, n)
    BY <1>1, <2>1, <2>4, SplicingWrites
  <2>6. Splicing(text, start, buf, read, write, z, n)'
    BY <1>7, <2>5 DEF SpliceOther, Copy, c
  <2> QED  BY <2>6 DEF Spliced
<1> QED  BY <1>5, <1>6, <1>7

\* Its end.
LEMMA SplicesEndStep ==
  ASSUME Rewriting, Given(text, start), Spliced, SplicesEnd
  PROVE  Rewritten'
<1>1. PICK z \in Nat : Splicing(text, start, buf, read, write, z, n)
  BY DEF Spliced
<1>2. read = z /\ buf[read].at = Len(text) + 1
  <2>1. read \in read..z /\ ToRead(text, start, buf, read, z, "splices") /\ "splices" \in Loops
    BY <1>1 DEF Splicing, ToRead, Loops
  <2>2. read = z
    BY <2>1, ReadsToEnd DEF SplicesEnd, AtEnd, C
  <2> QED  BY <2>1, <2>2 DEF ToRead
<1>3. /\ read \in Nat /\ write \in Nat /\ start \in Nat /\ start >= 1 /\ start <= write
      /\ n \in Nat /\ write + n <= read /\ Len(text) + 1 \in Nat
      /\ \A i \in start..read : i \in DOMAIN buf
      /\ Kept(text, start, buf, write, Len(text) + 1)
  BY <1>1, <1>2 DEF Splicing, ToRead, Rewriting, Shape, Given
<1>4. \A i \in start..(write + n) : i \in DOMAIN buf
  BY <1>3
<1> DEFINE c == buf'
<1>5. /\ \A i \in start..(write - 1) : c[i] = buf[i]
      /\ \A i \in write..(write + n - 1) : c[i].c = Nl
      /\ write + n \in DOMAIN c /\ c[write + n].c = Nul
  <2>1. /\ \A i \in start..(write - 1) : i \in start..(write + n) /\ i # write + n /\ i \notin write..(write + n - 1)
        /\ \A i \in write..(write + n - 1) : i \in start..(write + n)
        /\ write + n \in start..(write + n) /\ write + n \notin write..(write + n - 1)
    BY <1>3
  <2> QED  BY <1>4, <2>1 DEF SplicesEnd, Cell
<1>6. Agree(buf, c, start, write)
  BY <1>5 DEF Agree
<1> HIDE DEF c
<1>7. Kept(text, start, c, write + n, Len(text) + 1)
  BY <1>3, <1>5, <1>6, KeptEnds
<1> QED  BY <1>5, <1>7 DEF SplicesEnd, Rewritten, C, c

-----------------------------------------------------------------------------
(* What the three loops make of a text.                                     *)

\* The buffer is the file's and a NUL; where its text does not begin with the file,
\* it has been skipped an order mark.
Opened ==
  /\ text \in Seq(STRING) /\ DOMAIN buf = 1..(Len(text) + 1)
  /\ start = 1 \/ (start = 2 /\ text = <<Bom>>)
  /\ \A i \in DOMAIN buf : i < start => C(i) # Nul

Translating ==
  Plain(text) =>
    /\ phase \in {"newlines", "trigraphs"} => Chained
    /\ phase = "splices" => Spliced
    /\ phase = "text" => Rewritten

Translated == Rewriting /\ Opened /\ Translating

\* fs_get_file leaves the file and a NUL behind it.
LEMMA InitOpened == ASSUME Init PROVE Opened
<1>1. text \in Seq(STRING) /\ DOMAIN buf = 1..(Len(text) + 1) /\ Len(text) \in Nat
  BY TextsAssumption DEF Init
<1>2. ASSUME text = <<Bom>> PROVE C(1) = Bom
  BY <1>2 DEF Init, Cell, C
<1>3. CASE text = <<Bom>>
  BY <1>1, <1>2, <1>3 DEF Init, Opened, Bom, Nul
<1>4. CASE text # <<Bom>>
  <2>1. start = 1
    BY <1>4 DEF Init
  <2>2. \A i \in DOMAIN buf : ~(i < start)
    BY <1>1, <2>1
  <2> QED  BY <1>1, <2>1, <2>2 DEF Opened
<1> QED  BY <1>3, <1>4

\* The first loop is to read the file.
LEMMA InitChained == ASSUME Init, Plain(text) PROVE Chained
<1>1. text \in Seq(STRING) /\ DOMAIN buf = 1..(Len(text) + 1) /\ Len(text) \in Nat
  BY TextsAssumption DEF Init
<1>2. start \in 1..(Len(text) + 1)
  <2>1. CASE text = <<Bom>>
    BY <2>1 DEF Init
  <2>2. CASE text # <<Bom>>
    BY <1>1, <2>2 DEF Init
  <2> QED  BY <2>1, <2>2
<1> DEFINE z == Len(text) + 1
<1>3. Given(text, start)
  <2>1. start = 1 \/ (start = 2 /\ text = <<Bom>>)
    <3>1. start = IF text = <<Bom>> THEN 2 ELSE 1
      BY DEF Init
    <3> QED  BY <3>1, Zenon
  <2> QED  BY <1>1, <2>1 DEF Given
<1>4. \A i \in start..z : i \in DOMAIN buf /\ buf[i].at = i
  <2>1. \A i \in start..z : i \in 1..z
    BY <1>1, <1>2
  <2> QED  BY <1>1, <2>1 DEF Init, Cell
<1>5. buf[z].c = Nul
  BY <1>1 DEF Init, Cell
<1>6. \A i \in start..(z - 1) : Linked(text, start, "newlines", buf[i], buf[i + 1].at)
  <2>1. \A i \in start..(z - 1) : /\ i \in start..z /\ i + 1 \in start..z /\ i \in 1..z
                                 /\ i \in start..Len(text) /\ i <= Len(text)
    BY <1>1, <1>2
  <2>2. \A i \in start..(z - 1) : buf[i].c = text[i]
    BY <1>1, <2>1 DEF Init, Cell
  <2>3. \A i \in start..(z - 1) : Stands(text, "newlines", i)
    BY DEF Stands
  <2> QED  BY <1>4, <2>1, <2>2, <2>3 DEF Linked, Seen, NextAt
<1>7. z \in Nat /\ start \in Nat /\ start <= z /\ start \in start..z /\ z \in start..z
  BY <1>1, <1>2
<1>8. ToRead(text, start, buf, start, z, "newlines") /\ buf[start].at = start
  BY <1>4, <1>5, <1>6, <1>7 DEF ToRead
<1> HIDE DEF z
<1>9. "newlines" \in Loops
  BY DEF Loops
<1>10. Chain(text, start, buf, start, start, z, "newlines")
  BY <1>3, <1>8, <1>9, LoopBegins
<1>11. Chain(text, start, buf, read, write, z, phase)
  BY <1>10 DEF Init
<1> QED  BY <1>7, <1>11 DEF Chained

\* No loop writes before the start of the text.
LEMMA StepOpened ==
  ASSUME Rewriting, Opened, TextNext
  PROVE  Opened'
<1>1. start \in Nat /\ write \in Nat /\ start <= write /\ n \in Nat /\ Len(text) \in Nat
  BY DEF Rewriting, Shape, Opened
<1>2. UNCHANGED <<text, start>> /\ DOMAIN buf' = DOMAIN buf
  BY DEF TextNext, NewlineCrLf, NewlineCr, NewlineOther, NewlinesEnd, TrigraphRead, TrigraphNone,
     TrigraphOther, TrigraphsEnd, Splice, SpliceLineEnd, SpliceOther, SplicesEnd, Put, Copy, NextPhase
<1>3. ASSUME NEW i \in DOMAIN buf, i < start PROVE buf'[i] = buf[i]
  <2>1. i \in Nat /\ i # write /\ i # write + n /\ i \notin (write + 1)..(write + n)
        /\ \A k \in Nat : i \notin write..(write + k - 1)
    BY <1>1, <1>3 DEF Opened
  <2>2. i \notin write..(write + n - 1) /\ i \notin write..(write + 1 - 1) /\ i \notin write..(write + 2 - 1)
    BY <1>1, <1>3, <2>1
  <2> QED  BY <2>1, <2>2
           DEF TextNext, NewlineCrLf, NewlineCr, NewlineOther, NewlinesEnd, TrigraphRead, TrigraphNone,
           TrigraphOther, TrigraphsEnd, Splice, SpliceLineEnd, SpliceOther, SplicesEnd, Put, Copy, NextPhase
<1> QED  BY <1>2, <1>3 DEF Opened, C

\* A loop does its part.
LEMMA StepTranslating ==
  ASSUME Rewriting, Opened, Translating, TextNext
  PROVE  Translating'
<1>1. UNCHANGED <<text, start>>
  BY DEF TextNext, NewlineCrLf, NewlineCr, NewlineOther, NewlinesEnd, TrigraphRead, TrigraphNone,
     TrigraphOther, TrigraphsEnd, Splice, SpliceLineEnd, SpliceOther, SplicesEnd, Put, Copy, NextPhase
<1>2. SUFFICES ASSUME Plain(text)
               PROVE  /\ phase' \in {"newlines", "trigraphs"} => Chained'
                      /\ phase' = "splices" => Spliced'
                      /\ phase' = "text" => Rewritten'
  BY <1>1 DEF Translating
<1>3. Given(text, start)
  BY <1>2 DEF Given, Opened
<1>4. CASE NewlineCrLf \/ NewlineCr \/ NewlineOther
  <2>1. phase = "newlines" /\ phase' = phase
    BY <1>4 DEF NewlineCrLf, NewlineCr, NewlineOther, In, Put, Copy
  <2> QED  BY <1>2, <1>3, <1>4, <2>1, NewlinesChain DEF Translating
<1>5. CASE TrigraphRead \/ TrigraphNone \/ TrigraphOther
  <2>1. phase = "trigraphs" /\ phase' = phase
    BY <1>5 DEF TrigraphRead, TrigraphNone, TrigraphOther, In, Put, Copy
  <2> QED  BY <1>2, <1>3, <1>5, <2>1, TrigraphsChain DEF Translating
<1>6. CASE NewlinesEnd \/ TrigraphsEnd
  <2>1. /\ phase \in {"newlines", "trigraphs"}
        /\ phase' = "trigraphs" \/ (TrigraphsEnd /\ phase' = "splices")
    <3>1. CASE NewlinesEnd
      <4>1. phase = "newlines" /\ phase' = "trigraphs"
        BY <3>1 DEF NewlinesEnd, AtEnd, NextPhase
      <4> QED  BY <4>1
    <3>2. CASE TrigraphsEnd
      BY <3>2 DEF TrigraphsEnd, AtEnd, NextPhase
    <3> QED  BY <1>6, <3>1, <3>2
  <2>2. Chained'
    BY <1>2, <1>3, <1>6, <2>1, EndChain DEF Translating
  <2>3. CASE phase' = "trigraphs"
    BY <2>2, <2>3
  <2>4. CASE TrigraphsEnd /\ phase' = "splices"
    <3>1. PICK z \in Nat : Chain(text', start', buf', read', write', z, phase')
      BY <2>2 DEF Chained
    <3>2. read' = start /\ write' = start /\ n' = 0
      BY <2>4 DEF TrigraphsEnd, AtEnd, NextPhase, Rewriting
    <3> DEFINE b == buf'
    <3>3. Chain(text, start, b, start, start, z, "splices")
      BY <1>1, <2>4, <3>1, <3>2
    <3> HIDE DEF b
    <3>4. Splicing(text, start, b, start, start, z, 0)
      BY <1>3, <3>3, SplicingBegins
    <3>5. Splicing(text', start', buf', read', write', z, n')
      BY <1>1, <3>2, <3>4 DEF b
    <3>6. Spliced'
      BY <3>5 DEF Spliced
    <3> QED  BY <2>4, <3>6
  <2> QED  BY <2>1, <2>3, <2>4
<1>7. CASE Splice \/ SpliceLineEnd \/ SpliceOther
  <2>1. phase = "splices" /\ phase' = phase
    BY <1>7 DEF Splice, SpliceLineEnd, SpliceOther, In, Copy
  <2> QED  BY <1>2, <1>3, <1>7, <2>1, SplicesStep DEF Translating
<1>8. CASE SplicesEnd
  <2>1. phase = "splices" /\ phase' = "text"
    BY <1>8 DEF SplicesEnd, AtEnd
  <2> QED  BY <1>2, <1>3, <1>8, <2>1, SplicesEndStep DEF Translating
<1> QED  BY <1>4, <1>5, <1>6, <1>7, <1>8 DEF TextNext

\* Before the first loop nothing has been translated.
LEMMA InitTranslated == ASSUME LexInit PROVE Translated
<1>1. Rewriting /\ Opened
  BY InitRewriting, InitOpened DEF LexInit
<1>2. Translating
  <2>1. phase = "newlines"
    BY DEF LexInit, Init
  <2> QED  BY <2>1, InitChained DEF LexInit, Translating
<1> QED  BY <1>1, <1>2 DEF Translated

\* Every turn of a loop keeps what has been translated so; the lexer only reads.
LEMMA StepTranslated == ASSUME Translated, [Next]_vars PROVE Translated'
<1>1. CASE TextNext
  BY <1>1, TextNextRewriting, StepOpened, StepTranslating DEF Translated
<1>2. CASE UNCHANGED textVars
  <2>1. Rewriting'
    BY <1>2 DEF Translated, Rewriting, Shape, EndAhead, C, textVars
  <2>2. Opened'
    BY <1>2 DEF Translated, Opened, C, textVars
  <2>3. Translating'
    BY <1>2 DEF Translated, Translating, Chained, Spliced, Rewritten, C, textVars
  <2> QED  BY <2>1, <2>2, <2>3 DEF Translated
<1> QED  BY <1>1, <1>2, LexingKeepsText DEF Next, vars

\* The text ends where the third loop has put a NUL.
LEMMA EndIsWritten ==
  ASSUME Translated, phase = "text", Plain(text)
  PROVE  /\ EndOf = write + n /\ EndOf \in DOMAIN buf /\ start <= EndOf
         /\ Kept(text, start, buf, EndOf, Len(text) + 1)
<1> DEFINE e == write + n
<1>1. e \in DOMAIN buf /\ C(e) = Nul /\ Kept(text, start, buf, e, Len(text) + 1)
  BY DEF Translated, Translating, Rewritten
<1>2. start \in Nat /\ write \in Nat /\ n \in Nat /\ start <= e /\ \A i \in DOMAIN buf : i \in Nat
  BY DEF Translated, Rewriting, Shape
<1> HIDE DEF e
<1>3. \A k \in start..(e - 1) : C(k) # Nul
  BY <1>1 DEF Kept, C
<1>4. ASSUME NEW i \in DOMAIN buf, C(i) = Nul, \A k \in start..(i - 1) : C(k) # Nul
      PROVE  i = e
  <2>1. i \in Nat /\ e \in Nat /\ i >= start
    BY <1>1, <1>2, <1>4 DEF Translated, Opened
  <2>2. ~(i < e)
    <3>1. i < e => i \in start..(e - 1)
      BY <1>2, <2>1
    <3> QED  BY <1>3, <1>4, <3>1
  <2>3. ~(e < i)
    <3>1. e < i => e \in start..(i - 1)
      BY <1>2, <2>1
    <3> QED  BY <1>1, <1>4, <3>1
  <2> QED  BY <2>1, <2>2, <2>3
<1>5. EndOf = e
  BY <1>1, <1>3, <1>4 DEF EndOf
<1> QED  BY <1>1, <1>2, <1>5 DEF e

\* What the third loop leaves are the characters that stay, in their order.
LEMMA TranslatedKeepsText == ASSUME Translated PROVE KeepsText
<1>1. SUFFICES ASSUME phase = "text", Plain(text)
               PROVE  LET left == {i \in DOMAIN Text : Text[i].c # Nl}
                      IN  /\ {Text[i].at : i \in left} = {i \in start..Len(text) : Stays(text, i)}
                          /\ \A i \in left : Text[i].c = Meant(text, Text[i].at)
                          /\ \A i, k \in left : i < k => Text[i].at < Text[k].at
  BY DEF KeepsText
<1> DEFINE e == EndOf
           left == {i \in DOMAIN Text : Text[i].c # Nl}
<1>2. e \in Nat /\ start \in Nat /\ start <= e /\ Len(text) \in Nat
  BY <1>1, EndIsWritten DEF Translated, Opened, Rewriting, Shape
<1>3. Kept(text, start, buf, e, Len(text) + 1)
  BY <1>1, EndIsWritten
<1> HIDE DEF e
<1>4. DOMAIN Text = 1..(e - start) /\ \A i \in 1..(e - start) : Text[i] = buf[i + start - 1]
  BY DEF Text, e
<1>5. \A i \in 1..(e - start) : i + start - 1 \in start..(e - 1)
  BY <1>2
<1>6. \A k \in start..(e - 1) : k - start + 1 \in 1..(e - start) /\ (k - start + 1) + start - 1 = k
  BY <1>2
<1>7. \A i \in left : /\ Text[i].at \in start..(Len(text) + 1 - 1) /\ Stays(text, Text[i].at)
                      /\ Text[i].c = Meant(text, Text[i].at)
  BY <1>3, <1>4, <1>5 DEF Kept
<1>8. ASSUME NEW i \in start..Len(text), Stays(text, i)
      PROVE  \E k \in left : Text[k].at = i
  <2>1. i \in start..(Len(text) + 1 - 1)
    BY <1>2
  <2>2. PICK k \in start..(e - 1) : buf[k].c # Nl /\ buf[k].at = i
    BY <1>3, <1>8, <2>1 DEF Kept
  <2>3. k - start + 1 \in left /\ Text[k - start + 1].at = i
    BY <1>4, <1>6, <2>2
  <2> QED  BY <2>3
<1>9. ASSUME NEW i \in left, NEW k \in left, i < k PROVE Text[i].at < Text[k].at
  <2>1. i \in 1..(e - start) /\ k \in 1..(e - start) /\ Text[i] = buf[i + start - 1] /\ Text[k] = buf[k + start - 1]
    BY <1>4
  <2>2. i + start - 1 < k + start - 1
    BY <1>2, <1>9, <2>1
  <2> QED  BY <1>3, <1>5, <2>1, <2>2 DEF Kept
<1>10. {Text[i].at : i \in left} = {i \in start..Len(text) : Stays(text, i)}
  <2>1. Len(text) + 1 - 1 = Len(text)
    BY <1>2
  <2> QED  BY <1>7, <1>8, <2>1
<1> QED  BY <1>7, <1>9, <1>10

\* And as many line ends stand before each as its line has before it.
LEMMA TranslatedKeepsLines == ASSUME Translated PROVE KeepsLines
<1>1. SUFFICES ASSUME phase = "text", Plain(text), NEW i \in DOMAIN Text, Text[i].c # Nl
               PROVE  LineOf(text, Text[i].at)
                        = 1 + Cardinality({k \in 1..(i - 1) : Text[k].c = Nl})
  BY DEF KeepsLines
<1> DEFINE e == EndOf
<1>2. /\ e \in DOMAIN buf /\ start \in Nat /\ start <= e /\ Len(text) \in Nat
      /\ DOMAIN buf = 1..(Len(text) + 1)
  BY <1>1, EndIsWritten DEF Translated, Opened, Rewriting, Shape
<1>3. Kept(text, start, buf, e, Len(text) + 1)
  BY <1>1, EndIsWritten
<1> HIDE DEF e
<1>4. DOMAIN Text = 1..(e - start) /\ \A k \in 1..(e - start) : Text[k] = buf[k + start - 1]
  BY DEF Text, e
<1>5. start = 1
  <2>1. ASSUME start = 2, text = <<Bom>> PROVE FALSE
    <3>1. Len(text) = 1
      BY <2>1
    <3>2. e - start <= 0
      BY <1>2, <2>1, <3>1
    <3> QED  BY <1>1, <1>2, <1>4, <3>2
  <2> QED  BY <2>1 DEF Translated, Opened
<1>6. i \in start..(e - 1) /\ Text[i] = buf[i] /\ i \in Nat
  <2>1. i \in 1..(e - start)
    BY <1>4
  <2>2. i + start - 1 = i /\ i \in start..(e - 1) /\ i \in Nat
    BY <1>2, <1>5, <2>1
  <2> QED  BY <1>4, <2>1, <2>2
<1>7. LineOf(text, Text[i].at) = 1 + Cardinality(LineEnds(buf, start, i - 1))
  BY <1>1, <1>3, <1>6 DEF Kept
<1>8. \A k \in 1..(i - 1) : Text[k] = buf[k]
  <2>1. \A k \in 1..(i - 1) : k \in 1..(e - start) /\ k + start - 1 = k
    BY <1>2, <1>5, <1>6
  <2> QED  BY <1>4, <2>1
<1>9. {k \in 1..(i - 1) : Text[k].c = Nl} = LineEnds(buf, start, i - 1)
  BY <1>5, <1>8 DEF LineEnds
<1> QED  BY <1>7, <1>9

\* Translated is an inductive invariant.
LEMMA SpecTranslated == Spec => []Translated
<1>1. LexInit => Translated
  BY InitTranslated
<1>2. Translated /\ [Next]_vars => Translated'
  BY StepTranslated
<1> QED  BY <1>1, <1>2, PTL DEF Spec

\* Whatever a file holds, if there is no NUL in it and no three question marks in a row,
\* its phases keep its characters: KeepsText holds for every set of texts.
THEOREM LexerKeepsText == Spec => []KeepsText
<1>1. Translated => KeepsText
  BY TranslatedKeepsText
<1> QED  BY <1>1, SpecTranslated, PTL

\* And they keep every character on its line: KeepsLines holds for every set of texts.
THEOREM LexerKeepsLines == Spec => []KeepsLines
<1>1. Translated => KeepsLines
  BY TranslatedKeepsLines
<1> QED  BY <1>1, SpecTranslated, PTL

-----------------------------------------------------------------------------
(* Induction over the places of the buffer.                                 *)

\* The order of the naturals, as the relation the library calls well-founded.
LEMMA LessIsInOpToRel ==
  \A a, b \in Nat : a < b => <<a, b>> \in OpToRel(<, Nat)
  BY DEF OpToRel

\* A non-empty set of naturals has a least element.
LEMMA HasLeast ==
  ASSUME NEW S, S \subseteq Nat, S # {}
  PROVE  \E x \in S : \A y \in S : x <= y
<1>1. PICK x \in S : \A y \in S : ~(<<y, x>> \in OpToRel(<, Nat))
  BY NatLessThanWellFounded, WFMin, Zenon
<1>2. ASSUME NEW y \in S PROVE x <= y
  <2>1. ~(y < x)
    BY <1>1, LessIsInOpToRel, Zenon
  <2> QED  BY <2>1
<1> QED  BY <1>2

\* What holds of the first place and of each one after one it holds of holds of all.
LEMMA PlaceInduction ==
  ASSUME NEW a \in Nat, NEW b \in Nat, NEW S, a \in S, \A i \in (a + 1)..b : i - 1 \in S => i \in S
  PROVE  \A i \in a..b : i \in S
<1> DEFINE Bad == (a..b) \ S
<1>1. SUFFICES ASSUME Bad # {} PROVE FALSE
  OBVIOUS
<1>2. Bad \subseteq Nat
  OBVIOUS
<1>3. PICK m \in Bad : \A j \in Bad : m <= j
  BY <1>1, <1>2, HasLeast, Zenon
<1>4. m \in (a + 1)..b /\ m - 1 \in a..b
  BY <1>3
<1>5. m - 1 \in S
  BY <1>3, <1>4
<1> QED  BY <1>3, <1>4, <1>5

\* If there is a place with some property, there is a first one.
LEMMA FirstPlace ==
  ASSUME NEW a \in Nat, NEW b \in Nat, NEW S, NEW z \in a..b, z \in S
  PROVE  \E i \in a..b : i \in S /\ \A k \in a..(i - 1) : k \notin S
<1>1. (a..b) \cap S \subseteq Nat /\ (a..b) \cap S # {}
  OBVIOUS
<1>2. PICK i \in (a..b) \cap S : \A k \in (a..b) \cap S : i <= k
  BY <1>1, HasLeast, Zenon
<1>3. \A k \in a..(i - 1) : k \in a..b /\ ~(i <= k)
  OBVIOUS
<1> QED  BY <1>2, <1>3

-----------------------------------------------------------------------------
(* The comparison reader.                                                   *)

\* s are the characters of a text from st to its end at e, and m the reader's modes.
Reading(s, st, e, m) ==
  /\ st \in Nat /\ e \in Nat /\ st <= e
  /\ s[e] = Nul /\ \A i \in st..(e - 1) : s[i] # Nul
  /\ m[st] = "code" /\ \A i \in (st + 1)..e : m[i] = Turn(m[i - 1], s[i - 1])

Chars == [i \in DOMAIN buf |-> C(i)]

\* The text ends at the first NUL.
LEMMA EndIs ==
  ASSUME Rewriting, Opened
  PROVE  /\ EndOf \in DOMAIN buf /\ EndOf \in Nat /\ start \in Nat /\ start <= EndOf
         /\ C(EndOf) = Nul /\ \A i \in start..(EndOf - 1) : C(i) # Nul
<1>1. PICK z \in DOMAIN buf : read <= z /\ C(z) = Nul
  BY DEF Rewriting, EndAhead
<1>2. /\ start \in Nat /\ start <= read /\ \A i, k \in DOMAIN buf : \A j \in i..k : j \in DOMAIN buf
      /\ read \in Nat /\ start \in DOMAIN buf /\ DOMAIN buf \subseteq Nat
  BY DEF Rewriting, Shape
<1>3. z \in start..z /\ z \in Nat
  BY <1>1, <1>2
<1> DEFINE S == {i \in DOMAIN buf : C(i) = Nul}
<1>4. PICK i \in start..z : i \in S /\ \A k \in start..(i - 1) : k \notin S
  <2>1. z \in S
    BY <1>1
  <2> HIDE DEF S
  <2> QED  BY <1>2, <1>3, <2>1, FirstPlace, Zenon
<1>5. \A k \in start..(i - 1) : k \in DOMAIN buf
  <2>1. \A k \in start..(i - 1) : k \in start..z
    BY <1>2, <1>3
  <2> QED  BY <1>1, <1>2, <2>1
<1>6. \E j \in DOMAIN buf : C(j) = Nul /\ \A k \in start..(j - 1) : C(k) # Nul
  BY <1>4, <1>5
<1>7. EndOf \in DOMAIN buf /\ C(EndOf) = Nul /\ \A k \in start..(EndOf - 1) : C(k) # Nul
  BY <1>6 DEF EndOf
<1>8. start <= EndOf
  <2>1. EndOf \in Nat
    BY <1>2, <1>7
  <2> QED  BY <1>2, <1>7, <2>1 DEF Opened
<1> QED  BY <1>2, <1>7, <1>8

\* The modes are those that the turns lead to.
LEMMA ModeIs ==
  ASSUME start \in Nat, EndOf \in Nat, start <= EndOf
  PROVE  /\ Mode[start] = "code"
         /\ \A i \in (start + 1)..EndOf : Mode[i] = Turn(Mode[i - 1], C(i - 1))
<1> DEFINE Solves(k, f) ==
             f = [i \in start..k |-> IF i = start THEN "code" ELSE Turn(f[i - 1], C(i - 1))]
           Solvable == {k \in start..EndOf : \E f : Solves(k, f)}
           mode == CHOOSE f : Solves(EndOf, f)
<1>1. start \in Solvable
  <2>1. Solves(start, [i \in start..start |-> "code"])
    OBVIOUS
  <2> HIDE DEF Solves
  <2>2. (\E f : Solves(start, f)) /\ start \in start..EndOf
    BY <2>1
  <2> QED  BY <2>2
<1>2. ASSUME NEW k \in (start + 1)..EndOf, k - 1 \in Solvable PROVE k \in Solvable
  <2>1. PICK f : Solves(k - 1, f)
    BY <1>2
  <2> DEFINE g == [i \in start..k |-> IF i = start THEN "code" ELSE Turn(f[i - 1], C(i - 1))]
  <2>2. \A i \in start..(k - 1) : g[i] = f[i]
    BY <2>1
  <2>3. Solves(k, g)
    <3>1. \A i \in start..k : i # start => i - 1 \in start..(k - 1)
      OBVIOUS
    <3>2. \A i \in start..k : i # start => f[i - 1] = g[i - 1]
      <4> HIDE DEF g
      <4> QED  BY <2>2, <3>1
    <3>3. g = [i \in start..k |-> IF i = start THEN "code" ELSE Turn(f[i - 1], C(i - 1))]
      OBVIOUS
    <3> HIDE DEF g
    <3> QED  BY <3>2, <3>3
  <2> HIDE DEF g, Solves
  <2>4. (\E h : Solves(k, h)) /\ k \in start..EndOf
    BY <2>3
  <2> QED  BY <2>4
<1>3. EndOf \in Solvable
  <2> HIDE DEF Solvable
  <2>1. \A i \in start..EndOf : i \in Solvable
    BY <1>1, <1>2, PlaceInduction, Zenon
  <2> QED  BY <2>1
<1>4. Solves(EndOf, mode)
  <2>1. \E f : Solves(EndOf, f)
    BY <1>3
  <2> HIDE DEF Solves
  <2> QED  BY <2>1
<1>5. Mode = mode
  BY DEF Mode
<1> HIDE DEF mode
<1>6. mode[start] = "code" /\ \A i \in (start + 1)..EndOf : mode[i] = Turn(mode[i - 1], C(i - 1))
  BY <1>4
<1> QED  BY <1>5, <1>6

\* The text that the loops leave is one that the reader reads.
LEMMA TextIsRead ==
  ASSUME Rewriting, Opened
  PROVE  /\ Reading(Chars, start, EndOf, Mode)
         /\ \A i \in start..EndOf : Chars[i] = C(i) /\ i \in DOMAIN buf
<1>1. /\ EndOf \in DOMAIN buf /\ EndOf \in Nat /\ start \in Nat /\ start <= EndOf
      /\ C(EndOf) = Nul /\ \A i \in start..(EndOf - 1) : C(i) # Nul
  BY EndIs
<1>2. \A i \in start..EndOf : i \in DOMAIN buf
  BY <1>1 DEF Rewriting, Shape
<1>3. \A i \in start..EndOf : Chars[i] = C(i)
  BY <1>2 DEF Chars
<1>4. \A i \in (start + 1)..EndOf : i - 1 \in start..EndOf
  BY <1>1
<1>5. (\A i \in start..(EndOf - 1) : i \in start..EndOf) /\ EndOf \in start..EndOf
  BY <1>1
<1>6. /\ Mode[start] = "code"
      /\ \A i \in (start + 1)..EndOf : Mode[i] = Turn(Mode[i - 1], C(i - 1))
  BY <1>1, ModeIs
<1> QED  BY <1>1, <1>2, <1>3, <1>4, <1>5, <1>6 DEF Reading

-----------------------------------------------------------------------------
(* What holds between two tokens: s are the characters of the text from st  *)
(* to its end at e, m the modes of the reader, and ts the tokens taken      *)
(* before place p.                                                          *)

\* A character that the reader is not within a word, number, string or comment for.
Fresh(s, e, m, p) == p < e => m[p] \in Open /\ Turn(m[p], s[p]) = Begun(s[p])

InRemark(m, e, i) ==
  \/ m[i] \in {"line", "block", "star"}
  \/ m[i + 1] \in {"line", "block"}
  \/ m[i + 1] = "slash" /\ i + 2 <= e /\ m[i + 2] \in {"line", "block"}

IsCode(s, e, m, i) == ~InRemark(m, e, i) /\ ~(s[i] \in Spaces /\ m[i] \in Open)

Breaks(s, m, i, j) == \E k \in i..(j - 1) : s[k] = Nl /\ m[k] \notin {"block", "star"}

\* Where the first k tokens end.
EndAfter(st, ts, k) == IF k = 0 THEN st ELSE ts[k].next

\* Two punctuators at i are not one, but for the end of the text.
Alone(s, e, i) == \A q \in DOMAIN PunctStrs : PunctStrs[q] = <<s[i], s[i + 1]>> => i + 2 >= e

\* A line end behind a backslash is followed by another, or by the end of the text.
Doubles(s, st, e) ==
  \A k \in st..(e - 2) : s[k] = "\\" /\ s[k + 1] = Nl => k + 2 = e \/ s[k + 2] = Nl

\* There is no line end within the characters from p to before q.
Solid(s, st, e, p, q) == Doubles(s, st, e) /\ s[q - 1] # Nl => \A i \in p..(q - 1) : s[i] # Nl

\* Token tok, taken at the end of the tokens that end at place a.
Fits(s, st, e, a, tok) ==
  /\ a <= tok.from /\ tok.from \in Nat /\ tok.next \in Nat /\ tok.from < tok.next
  /\ tok.ws <=> a < tok.from
  /\ s[tok.from] \notin Spaces
  /\ tok.next = tok.from + 1 => Alone(s, e, tok.from)
  /\ Solid(s, st, e, tok.from, tok.next)

Lexer(s, st, e, m, p, bb, w, ts) ==
  /\ p \in st..e /\ Fresh(s, e, m, p)
  /\ \E S : ts \in Seq(S)
  /\ EndAfter(st, ts, Len(ts)) \in st..p
  /\ w <=> EndAfter(st, ts, Len(ts)) < p
  /\ bb <=> Len(ts) = 0 \/ Breaks(s, m, EndAfter(st, ts, Len(ts)), p)
  /\ \A k \in 1..Len(ts) :
       /\ EndAfter(st, ts, k - 1) \in st..p /\ ts[k].next <= p
       /\ Fits(s, st, e, EndAfter(st, ts, k - 1), ts[k])
       /\ ts[k].bol <=> k = 1 \/ Breaks(s, m, EndAfter(st, ts, k - 1), ts[k].from)
  /\ \A i \in st..(p - 1) :
       (\E k \in 1..Len(ts) : i \in ts[k].from..(ts[k].next - 1)) <=> IsCode(s, e, m, i)

\* What the text gives to begin with.
LEMMA AppendIs ==
  ASSUME NEW ts, \E S : ts \in Seq(S), NEW tok
  PROVE  /\ \E S : Append(ts, tok) \in Seq(S)
         /\ Len(ts) \in Nat /\ Len(Append(ts, tok)) = Len(ts) + 1
         /\ \A k \in 1..Len(ts) : Append(ts, tok)[k] = ts[k]
         /\ Append(ts, tok)[Len(ts) + 1] = tok
<1>1. PICK S : ts \in Seq(S)
  OBVIOUS
<1> DEFINE T == S \cup {tok}
<1>2. ts \in Seq(T) /\ tok \in T
  BY <1>1
<1> HIDE DEF T
<1>3. /\ Append(ts, tok) \in Seq(T) /\ Len(ts) \in Nat
      /\ Len(Append(ts, tok)) = Len(ts) + 1
      /\ \A k \in 1..Len(ts) : Append(ts, tok)[k] = ts[k]
      /\ Append(ts, tok)[Len(ts) + 1] = tok
  BY <1>2
<1> QED  BY <1>3

\* A token is taken.
LEMMA Taken ==
  ASSUME NEW s, NEW st \in Nat, NEW e \in Nat, NEW m, NEW p, NEW bb, NEW w, NEW ts,
         Lexer(s, st, e, m, p, bb, w, ts),
         NEW q \in (p + 1)..e, Fresh(s, e, m, q),
         \A i \in p..(q - 1) : IsCode(s, e, m, i),
         s[p] \notin Spaces, q = p + 1 => Alone(s, e, p), Solid(s, st, e, p, q),
         NEW tok, tok.from = p, tok.next = q, tok.bol = bb, tok.ws = w
  PROVE  Lexer(s, st, e, m, q, FALSE, FALSE, Append(ts, tok))
<1> DEFINE us == Append(ts, tok)
           l == Len(ts)
           a == EndAfter(st, ts, l)
<1>1. /\ p \in Nat /\ p >= st /\ p <= e /\ q \in Nat /\ p < q /\ q <= e /\ \E S : ts \in Seq(S)
      /\ a \in st..p
  BY DEF Lexer
<1>2. /\ \E S : us \in Seq(S)
      /\ l \in Nat /\ Len(us) = l + 1
      /\ \A k \in 1..l : us[k] = ts[k]
      /\ us[l + 1] = tok
  BY <1>1, AppendIs
<1> HIDE DEF us, l
<1>3. \A k \in 0..l : EndAfter(st, us, k) = EndAfter(st, ts, k)
  BY <1>2 DEF EndAfter
<1>4. EndAfter(st, us, l + 1) = q
  BY <1>2 DEF EndAfter
<1>5. ASSUME NEW k \in 1..(l + 1)
      PROVE  /\ EndAfter(st, us, k - 1) \in st..q /\ us[k].next <= q
             /\ Fits(s, st, e, EndAfter(st, us, k - 1), us[k])
             /\ us[k].bol <=> k = 1 \/ Breaks(s, m, EndAfter(st, us, k - 1), us[k].from)
  <2>1. CASE k = l + 1
    <3>1. k - 1 = l /\ us[k] = tok /\ EndAfter(st, us, k - 1) = a
      BY <1>2, <1>3, <2>1
    <3>2. Fits(s, st, e, a, tok)
      BY <1>1 DEF Fits, Lexer, l
    <3>3. tok.bol <=> k = 1 \/ Breaks(s, m, a, tok.from)
      BY <1>2, <2>1 DEF Lexer, l
    <3> QED  BY <1>1, <3>1, <3>2, <3>3
  <2>2. CASE k # l + 1
    <3>1. k \in 1..l /\ k - 1 \in 0..l
      BY <1>2, <2>2
    <3>2. us[k] = ts[k] /\ EndAfter(st, us, k - 1) = EndAfter(st, ts, k - 1)
      BY <1>2, <1>3, <3>1
    <3>3. /\ EndAfter(st, ts, k - 1) \in st..p /\ ts[k].next <= p
          /\ Fits(s, st, e, EndAfter(st, ts, k - 1), ts[k])
          /\ ts[k].bol <=> k = 1 \/ Breaks(s, m, EndAfter(st, ts, k - 1), ts[k].from)
      BY <3>1 DEF Lexer, l
    <3>4. ts[k].next \in Nat
      BY <3>3 DEF Fits
    <3> QED  BY <1>1, <3>2, <3>3, <3>4
  <2> QED  BY <2>1, <2>2
<1>6. ASSUME NEW i \in st..(q - 1)
      PROVE  (\E k \in 1..(l + 1) : i \in us[k].from..(us[k].next - 1)) <=> IsCode(s, e, m, i)
  <2>1. CASE i \in p..(q - 1)
    <3>1. l + 1 \in 1..(l + 1) /\ i \in us[l + 1].from..(us[l + 1].next - 1)
      BY <1>2, <2>1
    <3> QED  BY <2>1, <3>1
  <2>2. CASE i \in st..(p - 1)
    <3>1. i \notin tok.from..(tok.next - 1)
      BY <1>1, <2>2
    <3>2. \A k \in 1..(l + 1) : k = l + 1 \/ k \in 1..l
      BY <1>2
    <3>3. \A k \in 1..l : k \in 1..(l + 1)
      BY <1>2
    <3>4. (\E k \in 1..(l + 1) : i \in us[k].from..(us[k].next - 1))
            <=> (\E k \in 1..l : i \in ts[k].from..(ts[k].next - 1))
      BY <1>2, <3>1, <3>2, <3>3
    <3>5. (\E k \in 1..l : i \in ts[k].from..(ts[k].next - 1)) <=> IsCode(s, e, m, i)
      BY <2>2 DEF Lexer, l
    <3> QED  BY <3>4, <3>5
  <2> QED  BY <1>1, <2>1, <2>2
<1>7. ~Breaks(s, m, q, q)
  <2>1. \A k \in q..(q - 1) : FALSE
    BY <1>1
  <2> QED  BY <2>1 DEF Breaks
<1>8. q \in st..e /\ q \in st..q /\ ~(q < q) /\ l + 1 # 0
  BY <1>1, <1>2
<1>9. Lexer(s, st, e, m, q, FALSE, FALSE, us)
  BY <1>2, <1>4, <1>5, <1>6, <1>7, <1>8 DEF Lexer
<1> QED  BY <1>9 DEF us

\* White space or a comment is passed.
LEMMA Skipped ==
  ASSUME NEW s, NEW st \in Nat, NEW e \in Nat, NEW m, NEW p, NEW bb, NEW w, NEW ts,
         Lexer(s, st, e, m, p, bb, w, ts),
         NEW q \in (p + 1)..e, Fresh(s, e, m, q),
         \A i \in p..(q - 1) : ~IsCode(s, e, m, i)
  PROVE  /\ Breaks(s, m, p, q) => Lexer(s, st, e, m, q, TRUE, TRUE, ts)
         /\ ~Breaks(s, m, p, q) => Lexer(s, st, e, m, q, bb, TRUE, ts)
<1> DEFINE l == Len(ts)
           a == EndAfter(st, ts, l)
<1>1. /\ p \in Nat /\ p >= st /\ p <= e /\ q \in Nat /\ p < q /\ q <= e /\ \E S : ts \in Seq(S)
      /\ a \in st..p /\ l \in Nat
  BY DEF Lexer
<1>2. ASSUME NEW k \in 1..l
      PROVE  /\ EndAfter(st, ts, k - 1) \in st..q /\ ts[k].next <= q
             /\ Fits(s, st, e, EndAfter(st, ts, k - 1), ts[k])
             /\ ts[k].bol <=> k = 1 \/ Breaks(s, m, EndAfter(st, ts, k - 1), ts[k].from)
  <2>1. /\ EndAfter(st, ts, k - 1) \in st..p /\ ts[k].next <= p
        /\ Fits(s, st, e, EndAfter(st, ts, k - 1), ts[k])
        /\ ts[k].bol <=> k = 1 \/ Breaks(s, m, EndAfter(st, ts, k - 1), ts[k].from)
    BY DEF Lexer
  <2>2. ts[k].next \in Nat
    BY <2>1 DEF Fits
  <2> QED  BY <1>1, <2>1, <2>2
<1>3. ASSUME NEW i \in st..(q - 1)
      PROVE  (\E k \in 1..l : i \in ts[k].from..(ts[k].next - 1)) <=> IsCode(s, e, m, i)
  <2>1. CASE i \in p..(q - 1)
    <3>1. ASSUME NEW k \in 1..l PROVE i \notin ts[k].from..(ts[k].next - 1)
      <4>1. ts[k].next \in Nat /\ ts[k].next <= p
        BY DEF Lexer, Fits
      <4> QED  BY <1>1, <2>1, <4>1
    <3> QED  BY <2>1, <3>1
  <2>2. CASE i \in st..(p - 1)
    BY <2>2 DEF Lexer
  <2> QED  BY <1>1, <2>1, <2>2
<1>4. Breaks(s, m, a, q) <=> Breaks(s, m, a, p) \/ Breaks(s, m, p, q)
  <2>1. \A i : i \in a..(q - 1) <=> i \in a..(p - 1) \/ i \in p..(q - 1)
    BY <1>1
  <2> QED  BY <2>1 DEF Breaks
<1>5. /\ Breaks(s, m, p, q) => (TRUE <=> l = 0 \/ Breaks(s, m, a, q))
      /\ ~Breaks(s, m, p, q) => (bb <=> l = 0 \/ Breaks(s, m, a, q))
  BY <1>4 DEF Lexer
<1>6. q \in st..e /\ a \in st..q /\ a < q
  BY <1>1
<1>7. ASSUME Breaks(s, m, p, q) PROVE Lexer(s, st, e, m, q, TRUE, TRUE, ts)
  BY <1>1, <1>2, <1>3, <1>5, <1>6, <1>7 DEF Lexer
<1>8. ASSUME ~Breaks(s, m, p, q) PROVE Lexer(s, st, e, m, q, bb, TRUE, ts)
  BY <1>1, <1>2, <1>3, <1>5, <1>6, <1>8 DEF Lexer
<1> QED  BY <1>7, <1>8

-----------------------------------------------------------------------------
(* Characters and modes.                                                    *)

\* The punctuators of more than one character have two or three, the first of which
\* may be a slash; only then is what follows an '='.
LEMMA PunctStrsAre ==
  \A x \in DOMAIN PunctStrs :
    /\ x \in Nat
    /\ Len(PunctStrs[x]) \in {2, 3} /\ DOMAIN PunctStrs[x] = 1..Len(PunctStrs[x])
    /\ \A i \in DOMAIN PunctStrs[x] : PunctStrs[x][i] \in Puncts
    /\ PunctStrs[x][2] \notin {"/", "*"}
    /\ Len(PunctStrs[x]) = 3 => PunctStrs[x][3] \notin {"/", "*"}
    /\ Len(PunctStrs[x]) = 2 => PunctStrs[x] = <<PunctStrs[x][1], PunctStrs[x][2]>>
<1> DEFINE Chs == {">", "=", "<", ".", "+", "-", "%", "&", "|", "^", "!", "#"}
<1>1. DOMAIN PunctStrs = 1..22
  BY DEF PunctStrs
<1>2. \A i \in 1..22 : PunctStrs[i] \in
   { <<">", ">", "=">>, <<"<", "<", "=">>, <<".", ".", ".">>, <<"+", "=">>, <<"-", "=">>,
     <<"*", "=">>, <<"/", "=">>, <<"%", "=">>, <<"&", "=">>, <<"|", "=">>, <<"^", "=">>,
     <<"+", "+">>, <<"-", "-">>, <<">", ">">>, <<"<", "<">>, <<"&", "&">>, <<"|", "|">>,
     <<"=", "=">>, <<"!", "=">>, <<"<", "=">>, <<">", "=">>, <<"#", "#">> }
  BY DEF PunctStrs
<1>3. \A i \in 1..22 :
        \/ \E a \in Chs \cup {"/", "*"}, b \in Chs : PunctStrs[i] = <<a, b>>
        \/ \E a \in Chs \cup {"/", "*"}, b, c \in Chs : PunctStrs[i] = <<a, b, c>>
  BY <1>2
<1>5. ASSUME NEW x \in 1..22
      PROVE  /\ x \in Nat
             /\ Len(PunctStrs[x]) \in {2, 3} /\ DOMAIN PunctStrs[x] = 1..Len(PunctStrs[x])
             /\ PunctStrs[x][2] \notin {"/", "*"}
             /\ Len(PunctStrs[x]) = 3 => PunctStrs[x][3] \notin {"/", "*"}
             /\ Len(PunctStrs[x]) = 2 => PunctStrs[x] = <<PunctStrs[x][1], PunctStrs[x][2]>>
  <2>1. \A b \in Chs : b \notin {"/", "*"}
    OBVIOUS
  <2> HIDE DEF Chs
  <2>2. CASE \E a \in Chs \cup {"/", "*"}, b \in Chs : PunctStrs[x] = <<a, b>>
    <3>1. PICK a, b : b \in Chs /\ PunctStrs[x] = <<a, b>>
      BY <2>2
    <3>2. /\ Len(<<a, b>>) = 2 /\ DOMAIN <<a, b>> = 1..2
          /\ <<a, b>>[1] = a /\ <<a, b>>[2] = b
      OBVIOUS
    <3> QED  BY <2>1, <3>1, <3>2
  <2>3. CASE \E a \in Chs \cup {"/", "*"}, b, c \in Chs : PunctStrs[x] = <<a, b, c>>
    <3>1. PICK a, b, c : b \in Chs /\ c \in Chs /\ PunctStrs[x] = <<a, b, c>>
      BY <2>3
    <3>2. /\ Len(<<a, b, c>>) = 3 /\ DOMAIN <<a, b, c>> = 1..3
          /\ <<a, b, c>>[2] = b /\ <<a, b, c>>[3] = c
      OBVIOUS
    <3> QED  BY <2>1, <3>1, <3>2
  <2> QED  BY <1>3, <2>2, <2>3
<1> QED  BY <1>1, <1>5, PunctsAssumption, Zenon

\* A slash, a star and a dot are punctuation.
LEMMA SlashIsPunct == "/" \in Puncts /\ "*" \in Puncts /\ "." \in Puncts
<1>1. 7 \in DOMAIN PunctStrs /\ PunctStrs[7] = <<"/", "=">>
  BY DEF PunctStrs
<1>2. 6 \in DOMAIN PunctStrs /\ PunctStrs[6] = <<"*", "=">>
  BY DEF PunctStrs
<1>3. 3 \in DOMAIN PunctStrs /\ PunctStrs[3] = <<".", ".", ".">>
  BY DEF PunctStrs
<1> QED  BY <1>1, <1>2, <1>3, PunctsAssumption

Kinds == {"str", "char", "slash", "num", "word", "code"}

\* What each class of characters begins.
LEMMA BegunIs ==
  /\ Begun("\"") = "str" /\ Begun("'") = "char" /\ Begun("/") = "slash"
  /\ \A c \in Digits : Begun(c) = "num"
  /\ \A c \in Letters \cup {"_"} : Begun(c) = "word"
  /\ \A c : c \notin Words \cup Quotes \cup {"/"} => Begun(c) = "code"
  /\ \A c : Begun(c) \in Kinds
<1>1. "\"" \notin Words /\ "'" \notin Words /\ "/" \notin Words
  BY ClassesAssumption, SlashIsPunct DEF Words, Quotes
<1>2. \A c \in Words : c \notin {"\"", "'", "/"}
  BY <1>1
<1>3. Begun("\"") = "str" /\ Begun("'") = "char" /\ Begun("/") = "slash"
  BY <1>1 DEF Begun, Words
<1>4. \A c \in Digits : Begun(c) = "num"
  BY <1>2 DEF Begun, Words
<1>5. \A c \in Letters \cup {"_"} : Begun(c) = "word"
  BY <1>2, ClassesAssumption DEF Begun, Words
<1>6. \A c : c \notin Words \cup Quotes \cup {"/"} => Begun(c) = "code"
  BY DEF Begun, Words, Quotes
<1>7. \A c : Begun(c) \in Kinds
  BY <1>3, <1>4, <1>5, <1>6 DEF Words, Quotes, Kinds
<1> QED  BY <1>3, <1>4, <1>5, <1>6, <1>7

\* The classes do not meet.
LEMMA ClassesAre ==
  /\ \A c \in Puncts : c \notin Words \cup Quotes \cup Spaces \cup {Nul}
  /\ \A c \in Words : c \notin Puncts \cup Quotes \cup Spaces \cup {Nul}
  /\ \A c \in Spaces : c \notin Puncts \cup Quotes \cup Words \cup {Nul, "/"}
  /\ \A c \in Quotes : c \notin Puncts \cup Spaces \cup Words \cup {Nul, Nl, "\\", "/"}
  /\ Nl \in Spaces /\ Nl # Nul /\ Nul \notin Puncts \cup Words \cup Quotes \cup Spaces
<1>1. \A c \in Spaces : c \notin Quotes \cup {Nul}
  BY DEF Spaces, Quotes, Nl, Nul
<1>2. \A c \in Quotes : c \notin {Nul, Nl, "\\", "/"}
  BY DEF Quotes, Nul, Nl
<1>3. Nl \in Spaces /\ Nl # Nul
  BY DEF Spaces, Nl, Nul
<1>4. \A c \in (Spaces \cup Quotes \cup {Nul}) : c \notin Words \cup Puncts
  BY ClassesAssumption
<1>5. \A c \in Puncts : c \notin Words
  BY ClassesAssumption
<1>6. Nul \notin Quotes \cup Spaces
  BY <1>1, <1>2
<1> QED  BY <1>1, <1>2, <1>3, <1>4, <1>5, <1>6, SlashIsPunct

\* How the modes turn.
LEMMA TurnIs ==
  ASSUME NEW c
  PROVE  /\ Turn("code", c) = Begun(c)
         /\ Turn("word", c) = IF c \in Words THEN "word" ELSE Begun(c)
         /\ Turn("num", c) = IF c \in Words \cup {"'"} THEN "num" ELSE Begun(c)
         /\ c \notin {"/", "*"} => Turn("slash", c) = Begun(c)
         /\ Turn("slash", "/") = "line" /\ Turn("slash", "*") = "block"
         /\ Turn("line", c) = IF c = Nl THEN "code" ELSE "line"
         /\ Turn("block", c) = IF c = "*" THEN "star" ELSE "block"
         /\ Turn("star", c) = IF c = "*" THEN "star" ELSE IF c = "/" THEN "code" ELSE "block"
         /\ Turn("stresc", c) = "str" /\ Turn("charesc", c) = "char"
         /\ Turn("str", c) =
              IF c = "\\" THEN "stresc" ELSE IF c \in {"\"", Nl} THEN "code" ELSE "str"
         /\ Turn("char", c) =
              IF c = "\\" THEN "charesc" ELSE IF c \in {"'", Nl} THEN "code" ELSE "char"
BY DEF Turn

-----------------------------------------------------------------------------
(* Stretches of the text.                                                   *)

\* The reader is fresh where it is in no mode, or its mode ends.
LEMMA FreshIf ==
  ASSUME NEW s, NEW e, NEW m, NEW p,
         \/ m[p] = "code"
         \/ m[p] = "word" /\ s[p] \notin Words
         \/ m[p] = "num" /\ s[p] \notin Words \cup {"'"}
         \/ m[p] = "slash" /\ s[p] \notin {"/", "*"}
  PROVE  Fresh(s, e, m, p)
<1>1. CASE m[p] = "code"
  <2>1. Turn("code", s[p]) = Begun(s[p])
    BY <1>1, TurnIs
  <2>2. "code" \in Open
    BY DEF Open
  <2> QED  BY <1>1, <2>1, <2>2 DEF Fresh
<1>2. CASE m[p] = "word" /\ s[p] \notin Words
  <2>1. Turn("word", s[p]) = Begun(s[p])
    BY <1>2, TurnIs
  <2>2. "word" \in Open
    BY DEF Open
  <2> QED  BY <1>2, <2>1, <2>2 DEF Fresh
<1>3. CASE m[p] = "num" /\ s[p] \notin Words \cup {"'"}
  <2>1. Turn("num", s[p]) = Begun(s[p])
    BY <1>3, TurnIs
  <2>2. "num" \in Open
    BY DEF Open
  <2> QED  BY <1>3, <2>1, <2>2 DEF Fresh
<1>4. CASE m[p] = "slash" /\ s[p] \notin {"/", "*"}
  <2>1. Turn("slash", s[p]) = Begun(s[p])
    BY <1>4, TurnIs
  <2>2. "slash" \in Open
    BY DEF Open
  <2> QED  BY <1>4, <2>1, <2>2 DEF Fresh
<1> QED  BY <1>1, <1>2, <1>3, <1>4

\* A mode that the turns of a stretch do not leave lasts.
LEMMA Lasts ==
  ASSUME NEW s, NEW st, NEW e, NEW m, Reading(s, st, e, m),
         NEW a \in Nat, NEW b \in Nat, st <= a, b <= e, NEW M, m[a] \in M,
         \A i \in a..(b - 1), x \in M : Turn(x, s[i]) \in M
  PROVE  \A i \in a..b : m[i] \in M
<1> DEFINE S == {i \in a..b : m[i] \in M}
<1>1. CASE a > b
  BY <1>1
<1>2. CASE a <= b
  <2>1. a \in S
    BY <1>2
  <2>2. ASSUME NEW i \in (a + 1)..b, i - 1 \in S PROVE i \in S
    <3>1. i \in (st + 1)..e /\ i - 1 \in a..(b - 1) /\ i \in a..b
      BY DEF Reading
    <3>2. m[i] = Turn(m[i - 1], s[i - 1])
      BY <3>1 DEF Reading
    <3> QED  BY <2>2, <3>1, <3>2
  <2> HIDE DEF S
  <2>3. \A i \in a..b : i \in S
    BY <2>1, <2>2, PlaceInduction
  <2> QED  BY <2>3 DEF S
<1> QED  BY <1>1, <1>2

\* A stretch without comments or white space is code.
LEMMA CodeStretch ==
  ASSUME NEW s, NEW st, NEW e, NEW m, Reading(s, st, e, m),
         NEW p \in st..e, NEW q \in (p + 1)..e, Fresh(s, e, m, p), Fresh(s, e, m, q),
         \A i \in (p + 1)..q : m[i] \notin {"line", "block", "star"},
         \A i \in p..(q - 1) : m[i] \in Open => s[i] \notin Spaces
  PROVE  \A i \in p..(q - 1) : IsCode(s, e, m, i)
<1>0. st \in Nat /\ e \in Nat /\ p \in Nat /\ q \in Nat /\ st <= p /\ p < q /\ q <= e
  BY DEF Reading
<1>1. TAKE i \in p..(q - 1)
<1>2. m[i] \notin {"line", "block", "star"}
  <2>1. CASE i = p
    <3>1. m[p] \in Open
      BY <1>0 DEF Fresh
    <3> QED  BY <2>1, <3>1 DEF Open
  <2>2. CASE i # p
    <3>1. i \in (p + 1)..q
      BY <1>0, <2>2
    <3> QED  BY <3>1
  <2> QED  BY <2>1, <2>2
<1>3. m[i + 1] \notin {"line", "block"}
  <2>1. i + 1 \in (p + 1)..q
    BY <1>0
  <2> QED  BY <2>1
<1>4. i + 2 <= e => m[i + 2] \notin {"line", "block"}
  <2>1. SUFFICES ASSUME i + 2 <= e PROVE m[i + 2] \notin {"line", "block"}
    OBVIOUS
  <2>2. CASE i + 1 = q
    <3>1. q < e /\ i + 2 \in (st + 1)..e /\ (i + 2) - 1 = q
      BY <1>0, <2>1, <2>2
    <3>2. m[i + 2] = Turn(m[q], s[q])
      BY <3>1 DEF Reading
    <3>3. m[i + 2] \in Kinds
      BY <3>1, <3>2, BegunIs DEF Fresh
    <3> QED  BY <3>3 DEF Kinds
  <2>3. CASE i + 1 # q
    <3>1. i + 2 \in (p + 1)..q
      BY <1>0, <2>3
    <3> QED  BY <3>1
  <2> QED  BY <2>2, <2>3
<1> QED  BY <1>2, <1>3, <1>4 DEF IsCode, InRemark

\* The next mode.
LEMMA NextMode ==
  ASSUME NEW s, NEW st, NEW e, NEW m, Reading(s, st, e, m), NEW p \in st..(e - 1)
  PROVE  m[p + 1] = Turn(m[p], s[p])
<1>1. p + 1 \in (st + 1)..e /\ (p + 1) - 1 = p
  BY DEF Reading
<1> QED  BY <1>1 DEF Reading

\* The bounds of a text.
LEMMA ReadingIs ==
  ASSUME NEW s, NEW st, NEW e, NEW m, Reading(s, st, e, m)
  PROVE  st \in Nat /\ e \in Nat /\ st <= e
BY DEF Reading

\* What keeps a mode or leaves it.
LEMMA CodeTurns  == \A c : Turn("code", c) = Begun(c)
BY TurnIs

\* A word goes on with letters and digits.
LEMMA WordLasts == \A c \in Words : Turn("word", c) = "word"
BY DEF Turn

\* The characters that go on with a number.
NumChars == Words \cup {"'"}

\* White space is not among them.
LEMMA NumCharsAre ==
  /\ Words \subseteq NumChars /\ Digits \subseteq Words
  /\ \A c \in NumChars : c \notin Spaces
<1>1. "'" \in Quotes
  BY DEF Quotes
<1> QED  BY <1>1, ClassesAre DEF NumChars, Words

\* Another character is read afresh after a number.
LEMMA NumEnds ==
  ASSUME NEW s, NEW e, NEW m, NEW p, m[p] = "num", s[p] \notin NumChars
  PROVE  Fresh(s, e, m, p)
BY FreshIf DEF NumChars

\* A letter begins a word.
LEMMA LetterBegins == \A c \in Words \ Digits : Begun(c) = "word"
BY BegunIs DEF Words

\* A number goes on with its characters.
LEMMA NumLasts == \A c \in NumChars : Turn("num", c) = "num"
BY DEF Turn, NumChars

\* A slash that begins no comment changes nothing for what follows it.
LEMMA SlashTurns == \A c : c \notin {"/", "*"} => Turn("slash", c) = Begun(c)
BY DEF Turn

\* The slashes that begin a comment.
LEMMA SlashOpens == Turn("slash", "/") = "line" /\ Turn("slash", "*") = "block"
BY DEF Turn

\* Another character is read afresh after a word.
LEMMA WordEnds == \A c : c \notin Words => Turn("word", c) = Begun(c)
BY DEF Turn

\* White space is passed.
LEMMA SpaceStretch ==
  ASSUME NEW s, NEW st, NEW e, NEW m, Reading(s, st, e, m), NEW p \in st..(e - 1),
         Fresh(s, e, m, p), s[p] \in Spaces
  PROVE  /\ Fresh(s, e, m, p + 1) /\ ~IsCode(s, e, m, p)
         /\ Breaks(s, m, p, p + 1) <=> s[p] = Nl
<1>1. p \in Nat /\ p < e
  BY DEF Reading
<1>2. m[p] \in Open /\ Turn(m[p], s[p]) = Begun(s[p])
  BY <1>1 DEF Fresh
<1>3. m[p + 1] = "code"
  <2>1. m[p + 1] = Begun(s[p])
    BY <1>2, NextMode
  <2>2. s[p] \notin Words \cup Quotes \cup {"/"}
    BY ClassesAre
  <2> QED  BY <2>1, <2>2, BegunIs
<1>4. m[p] \notin {"block", "star"}
  BY <1>2 DEF Open
<1>5. \A k \in p..(p + 1 - 1) : k = p
  BY <1>1
<1>6. p \in p..(p + 1 - 1)
  BY <1>1
<1> QED  BY <1>2, <1>3, <1>4, <1>5, <1>6, FreshIf DEF IsCode, Breaks

\* A character that begins nothing is a token of its own.
LEMMA CodeAlone ==
  ASSUME NEW s, NEW st, NEW e, NEW m, Reading(s, st, e, m), NEW p \in st..(e - 1),
         Fresh(s, e, m, p), s[p] \notin Spaces, Begun(s[p]) = "code"
  PROVE  Fresh(s, e, m, p + 1) /\ \A i \in p..(p + 1 - 1) : IsCode(s, e, m, i)
<1>1. p \in Nat /\ p < e /\ p \in st..e /\ p + 1 \in (p + 1)..e
  BY DEF Reading
<1>2. m[p + 1] = "code"
  BY <1>1, NextMode DEF Fresh
<1>3. Fresh(s, e, m, p + 1)
  BY <1>2, FreshIf
<1>4. \A i \in (p + 1)..(p + 1) : m[i] \notin {"line", "block", "star"}
  BY <1>1, <1>2
<1>5. \A i \in p..(p + 1 - 1) : m[i] \in Open => s[i] \notin Spaces
  BY <1>1
<1> QED  BY <1>1, <1>3, <1>4, <1>5, CodeStretch

\* A word up to place q.
LEMMA WordStretch ==
  ASSUME NEW s, NEW st, NEW e, NEW m, Reading(s, st, e, m), NEW p \in st..(e - 1),
         Fresh(s, e, m, p), s[p] \in Words \ Digits,
         NEW q \in (p + 1)..e, \A i \in (p + 1)..(q - 1) : s[i] \in Words
  PROVE  /\ \A i \in (p + 1)..q : m[i] = "word"
         /\ s[q] \notin Words => /\ Fresh(s, e, m, q)
                                 /\ \A i \in p..(q - 1) : IsCode(s, e, m, i)
<1>1. p \in Nat /\ p < e /\ p \in st..e /\ q \in Nat /\ q <= e /\ p < q /\ st <= p + 1 /\ p + 1 \in Nat
  BY ReadingIs
<1>2. m[p + 1] \in {"word"}
  <2>1. m[p + 1] = Turn(m[p], s[p])
    BY NextMode
  <2>2. m[p + 1] = Begun(s[p])
    BY <1>1, <2>1 DEF Fresh
  <2>3. Begun(s[p]) = "word"
    BY LetterBegins
  <2> QED  BY <2>2, <2>3
<1>3. \A i \in (p + 1)..(q - 1), x \in {"word"} : Turn(x, s[i]) \in {"word"}
  BY WordLasts
<1>4. \A i \in (p + 1)..q : m[i] \in {"word"}
  BY <1>1, <1>2, <1>3, Lasts
<1>5. q \in (p + 1)..q
  BY <1>1
<1>6. ASSUME s[q] \notin Words
      PROVE  Fresh(s, e, m, q) /\ \A i \in p..(q - 1) : IsCode(s, e, m, i)
  <2>1. Fresh(s, e, m, q)
    BY <1>4, <1>5, <1>6, FreshIf
  <2>2. \A i \in p..(q - 1) : s[i] \in Words
    <3>1. \A i \in p..(q - 1) : i = p \/ i \in (p + 1)..(q - 1)
      BY <1>1
    <3> QED  BY <3>1 DEF Words
  <2>3. \A i \in p..(q - 1) : m[i] \in Open => s[i] \notin Spaces
    BY <2>2, ClassesAre
  <2>4. \A i \in (p + 1)..q : m[i] \notin {"line", "block", "star"}
    BY <1>4
  <2> QED  BY <1>1, <2>1, <2>3, <2>4, CodeStretch
<1> QED  BY <1>4, <1>6

\* A number.
LEMMA NumberStretch ==
  ASSUME NEW s, NEW st, NEW e, NEW m, Reading(s, st, e, m), NEW p \in st..(e - 1),
         Fresh(s, e, m, p), s[p] \in Digits \/ (s[p] = "." /\ s[p + 1] \in Digits),
         NEW q \in (p + 1)..e, \A i \in (p + 1)..(q - 1) : s[i] \in NumChars,
         s[q] \notin NumChars
  PROVE  Fresh(s, e, m, q) /\ \A i \in p..(q - 1) : IsCode(s, e, m, i)
<1>1. /\ p \in Nat /\ p < e /\ p \in st..e /\ q \in Nat /\ q <= e /\ p < q
      /\ st <= p + 1 /\ p + 1 \in Nat /\ st <= p + 2 /\ p + 2 \in Nat
  BY ReadingIs
<1>2. m[p + 1] = Begun(s[p])
  BY <1>1, NextMode DEF Fresh
<1>3. \A i \in (p + 1)..(q - 1), x \in {"num"} : Turn(x, s[i]) \in {"num"}
  BY NumLasts
<1>4. s[p] \notin Spaces
  BY ClassesAre, SlashIsPunct DEF Words
<1>5. \A i \in p..(q - 1) : m[i] \in Open => s[i] \notin Spaces
  <2>1. \A i \in p..(q - 1) : i = p \/ i \in (p + 1)..(q - 1)
    BY <1>1
  <2> QED  BY <1>4, <2>1, NumCharsAre
<1>6. q \in (p + 1)..q
  BY <1>1
<1>7. CASE s[p] \in Digits
  <2>1. m[p + 1] \in {"num"}
    BY <1>2, <1>7, BegunIs
  <2>2. \A i \in (p + 1)..q : m[i] \in {"num"}
    BY <1>1, <1>3, <2>1, Lasts
  <2>3. Fresh(s, e, m, q)
    BY <1>6, <2>2, NumEnds
  <2>4. \A i \in (p + 1)..q : m[i] \notin {"line", "block", "star"}
    BY <2>2
  <2> QED  BY <1>1, <1>5, <2>3, <2>4, CodeStretch
<1>8. CASE s[p] = "." /\ s[p + 1] \in Digits
  <2>1. m[p + 1] = "code"
    <3>1. "." \notin Words \cup Quotes \cup {"/"}
      BY SlashIsPunct, ClassesAre
    <3> QED  BY <1>2, <1>8, <3>1, BegunIs
  <2>2. q # p + 1
    BY <1>8, NumCharsAre
  <2>3. p + 1 \in st..(e - 1) /\ (p + 1) + 1 = p + 2 /\ q \in (p + 2)..q
    BY <1>1, <2>2 DEF Reading
  <2>4. m[p + 2] \in {"num"}
    <3>1. m[p + 2] = Turn("code", s[p + 1])
      BY <2>1, <2>3, NextMode
    <3> QED  BY <1>8, <3>1, CodeTurns, BegunIs
  <2>5. \A i \in (p + 2)..(q - 1), x \in {"num"} : Turn(x, s[i]) \in {"num"}
    <3>1. \A i \in (p + 2)..(q - 1) : i \in (p + 1)..(q - 1)
      BY <1>1
    <3> QED  BY <1>3, <3>1
  <2>6. \A i \in (p + 2)..q : m[i] \in {"num"}
    BY <1>1, <2>4, <2>5, Lasts
  <2>7. Fresh(s, e, m, q)
    BY <2>3, <2>6, NumEnds
  <2>8. \A i \in (p + 1)..q : m[i] \notin {"line", "block", "star"}
    <3>1. \A i \in (p + 1)..q : i = p + 1 \/ i \in (p + 2)..q
      BY <1>1
    <3> QED  BY <2>1, <2>6, <3>1
  <2> QED  BY <1>1, <1>5, <2>7, <2>8, CodeStretch
<1> QED  BY <1>7, <1>8

\* A punctuator of several characters.
LEMMA PunctStretch ==
  ASSUME NEW s, NEW st, NEW e, NEW m, Reading(s, st, e, m), NEW p \in st..(e - 1),
         Fresh(s, e, m, p), NEW x \in DOMAIN PunctStrs, p + Len(PunctStrs[x]) < e,
         \A i \in DOMAIN PunctStrs[x] : s[p + i - 1] = PunctStrs[x][i]
  PROVE  /\ Fresh(s, e, m, p + Len(PunctStrs[x]))
         /\ \A i \in p..(p + Len(PunctStrs[x]) - 1) : IsCode(s, e, m, i) /\ s[i] # Nl
<1> DEFINE l == Len(PunctStrs[x])
           q == p + l
<1>0. l \in {2, 3} /\ DOMAIN PunctStrs[x] = 1..l
  BY PunctStrsAre
<1>1. st \in Nat /\ e \in Nat /\ p \in Nat /\ p < e /\ p \in st..e /\ q \in (p + 1)..e /\ q < e
  BY <1>0, ReadingIs
<1>2. 1 \in 1..l /\ 2 \in 1..l /\ (l = 3 => 3 \in 1..l) /\ p + 1 - 1 = p /\ p + 2 - 1 = p + 1 /\ p + 3 - 1 = p + 2
  BY <1>0, <1>1
<1>3. s[p] \in Puncts /\ s[p + 1] \in Puncts /\ s[p + 1] \notin {"/", "*"}
  <2>1. s[p] = PunctStrs[x][1] /\ s[p + 1] = PunctStrs[x][2]
    BY <1>0, <1>2
  <2>2. PunctStrs[x][1] \in Puncts /\ PunctStrs[x][2] \in Puncts
    BY <1>0, <1>2, PunctStrsAre
  <2>3. PunctStrs[x][2] \notin {"/", "*"}
    BY PunctStrsAre
  <2> QED  BY <2>1, <2>2, <2>3
<1>4. l = 3 => s[p + 2] \in Puncts /\ s[p + 2] \notin {"/", "*"}
  BY <1>0, <1>2, PunctStrsAre
<1> HIDE DEF l
<1>5. m[p + 1] = "slash" \/ m[p + 1] = "code"
  <2>1. m[p + 1] = Begun(s[p])
    BY <1>1, NextMode DEF Fresh
  <2>2. s[p] \notin Words \cup Quotes
    BY <1>3, ClassesAre
  <2>3. s[p] = "/" \/ s[p] \notin Words \cup Quotes \cup {"/"}
    BY <2>2
  <2> QED  BY <2>1, <2>3, BegunIs
<1>6. m[p + 2] = "code"
  <2>1. p + 1 \in st..(e - 1) /\ (p + 1) + 1 = p + 2
    BY <1>0, <1>1
  <2>2. m[p + 2] = Turn(m[p + 1], s[p + 1])
    BY <2>1, NextMode
  <2>3. m[p + 2] = Begun(s[p + 1])
    BY <1>3, <1>5, <2>2, CodeTurns, SlashTurns
  <2>4. s[p + 1] \notin Words \cup Quotes \cup {"/"}
    BY <1>3, ClassesAre
  <2> QED  BY <2>3, <2>4, BegunIs
<1>7. ASSUME l = 3 PROVE m[p + 3] = "code"
  <2>1. p + 2 \in st..(e - 1) /\ (p + 2) + 1 = p + 3
    BY <1>1, <1>7
  <2>2. m[p + 3] = Turn(m[p + 2], s[p + 2])
    BY <2>1, NextMode
  <2>3. m[p + 3] = Begun(s[p + 2])
    BY <1>6, <2>2, CodeTurns
  <2>4. s[p + 2] \notin Words \cup Quotes \cup {"/"}
    BY <1>4, <1>7, ClassesAre
  <2> QED  BY <2>3, <2>4, BegunIs
<1>8. \A i \in (p + 1)..q : i = p + 1 \/ i = p + 2 \/ (l = 3 /\ i = p + 3)
  BY <1>0, <1>1
<1>9. \A i \in (p + 1)..q : m[i] \notin {"line", "block", "star"}
  BY <1>5, <1>6, <1>7, <1>8
<1>10. m[q] = "code"
  BY <1>0, <1>6, <1>7
<1>11. Fresh(s, e, m, q)
  BY <1>10, FreshIf
<1>12. \A i \in p..(q - 1) : s[i] \notin Spaces
  <2>1. \A i \in p..(q - 1) : i = p \/ i = p + 1 \/ (l = 3 /\ i = p + 2)
    BY <1>0, <1>1
  <2> QED  BY <1>3, <1>4, <2>1, ClassesAre
<1>13. \A i \in p..(q - 1) : IsCode(s, e, m, i)
  BY <1>1, <1>9, <1>11, <1>12, CodeStretch
<1> QED  BY <1>11, <1>12, <1>13, ClassesAre DEF l

\* A punctuator of one character, which begins no comment.
LEMMA PunctAlone ==
  ASSUME NEW s, NEW st, NEW e, NEW m, Reading(s, st, e, m), NEW p \in st..(e - 1),
         Fresh(s, e, m, p), s[p] \in Puncts,
         p + 2 < e => ~(s[p] = "/" /\ s[p + 1] \in {"/", "*"}),
         m[e - 1] # "slash" \/ m[e] \notin {"line", "block"}
  PROVE  Fresh(s, e, m, p + 1) /\ \A i \in p..(p + 1 - 1) : IsCode(s, e, m, i)
<1>1. p \in Nat /\ p < e /\ p \in st..e /\ p + 1 \in (p + 1)..e /\ st \in Nat /\ e \in Nat
  BY DEF Reading
<1>2. s[p] \notin Words \cup Quotes \cup Spaces
  BY ClassesAre
<1>3. CASE s[p] # "/"
  <2>1. Begun(s[p]) = "code"
    BY <1>2, <1>3, BegunIs
  <2> QED  BY <1>2, <2>1, CodeAlone
<1>4. CASE s[p] = "/"
  <2>1. m[p + 1] = "slash"
    <3>1. m[p + 1] = Turn(m[p], s[p])
      BY NextMode
    <3> QED  BY <1>1, <1>4, <3>1, BegunIs DEF Fresh
  <2>2. Fresh(s, e, m, p + 1)
    <3>1. CASE p + 1 = e
      BY <1>1, <3>1 DEF Fresh
    <3>2. CASE p + 1 # e /\ s[p + 1] \notin {"/", "*"}
      BY <2>1, <3>2, FreshIf
    <3>3. CASE p + 1 # e /\ s[p + 1] \in {"/", "*"}
      <4>1. p + 1 = e - 1 /\ e - 1 \in st..(e - 1) /\ (e - 1) + 1 = e
        BY <1>1, <1>4, <3>3
      <4>2. m[e] = Turn(m[e - 1], s[e - 1])
        <5>1. m[(e - 1) + 1] = Turn(m[e - 1], s[e - 1])
          BY <4>1, NextMode
        <5> QED  BY <4>1, <5>1
      <4>3. m[e] = Turn("slash", s[p + 1])
        BY <2>1, <4>1, <4>2
      <4>4. m[e] \in {"line", "block"}
        BY <3>3, <4>3, SlashOpens
      <4> QED  BY <2>1, <4>1, <4>4
    <3> QED  BY <3>1, <3>2, <3>3
  <2>3. \A i \in (p + 1)..(p + 1) : m[i] \notin {"line", "block", "star"}
    BY <1>1, <2>1
  <2>4. \A i \in p..(p + 1 - 1) : m[i] \in Open => s[i] \notin Spaces
    BY <1>1, <1>2
  <2> QED  BY <1>1, <2>2, <2>3, <2>4, CodeStretch
<1> QED  BY <1>3, <1>4

\* A // comment goes on up to its line end.
LEMMA LineTurns == \A c : c # Nl => Turn("line", c) = "line"
BY DEF Turn

\* The line end ends it.
LEMMA LineEndsRemark == Turn("line", Nl) = "code"
BY DEF Turn

\* A /* comment goes on up to a star and a slash.
LEMMA BlockTurns ==
  /\ \A c : c # "*" => Turn("block", c) = "block"
  /\ Turn("block", "*") = "star" /\ Turn("star", "*") = "star" /\ Turn("star", "/") = "code"
  /\ \A c : c \notin {"*", "/"} => Turn("star", c) = "block"
BY DEF Turn

\* Two characters that open a comment.
LEMMA Opens ==
  ASSUME NEW s, NEW st, NEW e, NEW m, Reading(s, st, e, m), NEW p \in st..(e - 1),
         Fresh(s, e, m, p), s[p] = "/", s[p + 1] \in {"/", "*"}, p + 2 < e
  PROVE  /\ m[p + 1] = "slash"
         /\ m[p + 2] = Turn("slash", s[p + 1])
         /\ InRemark(m, e, p) /\ InRemark(m, e, p + 1)
<1>1. p \in Nat /\ e \in Nat /\ p < e /\ p + 1 \in st..(e - 1) /\ (p + 1) + 1 = p + 2
  BY ReadingIs
<1>2. m[p + 1] = "slash"
  <2>1. m[p + 1] = Turn(m[p], s[p])
    BY NextMode
  <2>2. m[p + 1] = Begun("/")
    BY <1>1, <2>1 DEF Fresh
  <2> QED  BY <2>2, BegunIs
<1>3. m[p + 2] = Turn("slash", s[p + 1])
  <2>1. m[p + 2] = Turn(m[p + 1], s[p + 1])
    BY <1>1, NextMode
  <2> QED  BY <1>2, <2>1
<1>4. m[p + 2] \in {"line", "block"}
  BY <1>3, SlashOpens
<1>5. InRemark(m, e, p)
  BY <1>1, <1>2, <1>4 DEF InRemark
<1>6. InRemark(m, e, p + 1)
  BY <1>1, <1>4 DEF InRemark
<1> QED  BY <1>2, <1>3, <1>5, <1>6

\* A comment up to the end of the line or of the text.
LEMMA LineRemark ==
  ASSUME NEW s, NEW st, NEW e, NEW m, Reading(s, st, e, m), NEW p \in st..(e - 1),
         Fresh(s, e, m, p), s[p] = "/", s[p + 1] = "/", p + 2 < e,
         NEW z \in p..e, s[z] \in {Nl, Nul}, \A i \in p..(z - 1) : s[i] \notin {Nl, Nul}
  PROVE  /\ z > p + 1
         /\ \A i \in p..(z - 1) : ~IsCode(s, e, m, i)
         /\ s[z] = Nl => /\ z < e /\ Fresh(s, e, m, z + 1) /\ ~IsCode(s, e, m, z)
                         /\ Breaks(s, m, p, z + 1)
         /\ s[z] # Nl => z = e /\ ~Breaks(s, m, p, z)
<1>1. /\ p \in Nat /\ e \in Nat /\ st \in Nat /\ st <= p /\ p < e /\ z \in Nat /\ z <= e /\ p <= z
      /\ p + 2 \in Nat /\ st <= p + 2
  BY ReadingIs
<1>2. m[p + 1] = "slash" /\ m[p + 2] = "line" /\ InRemark(m, e, p) /\ InRemark(m, e, p + 1)
  BY Opens, SlashOpens
<1>3. z > p + 1
  BY <1>1 DEF Nl, Nul
<1>4. \A i \in (p + 2)..(z - 1), x \in {"line"} : Turn(x, s[i]) \in {"line"}
  <2>1. \A i \in (p + 2)..(z - 1) : i \in p..(z - 1)
    BY <1>1
  <2> QED  BY <2>1, LineTurns
<1>5. m[p + 2] \in {"line"}
  BY <1>2
<1>6. \A i \in (p + 2)..z : m[i] \in {"line"}
  <2>1. p + 2 \in Nat /\ z \in Nat /\ st <= p + 2 /\ z <= e
    BY <1>1
  <2> DEFINE M == {"line"}
  <2>2. m[p + 2] \in M /\ \A i \in (p + 2)..(z - 1), x \in M : Turn(x, s[i]) \in M
    BY <1>4, <1>5
  <2> HIDE DEF M
  <2>3. \A i \in (p + 2)..z : m[i] \in M
    BY <2>1, <2>2, Lasts
  <2> QED  BY <2>3 DEF M
<1>7. \A i \in p..z : InRemark(m, e, i)
  <2>1. \A i \in p..z : i = p \/ i = p + 1 \/ i \in (p + 2)..z
    BY <1>1
  <2> QED  BY <1>2, <1>6, <2>1 DEF InRemark
<1>8. \A i \in p..(z - 1) : ~IsCode(s, e, m, i)
  <2>1. \A i \in p..(z - 1) : i \in p..z
    BY <1>1
  <2> QED  BY <1>7, <2>1 DEF IsCode
<1>9. ASSUME s[z] = Nl
      PROVE  /\ z < e /\ Fresh(s, e, m, z + 1) /\ ~IsCode(s, e, m, z)
             /\ Breaks(s, m, p, z + 1)
  <2>1. z # e
    BY <1>9 DEF Reading, Nl, Nul
  <2>2. z \in st..(e - 1) /\ z \in (p + 2)..z /\ z \in p..z /\ z \in p..(z + 1 - 1)
    BY <1>1, <1>3, <2>1
  <2>3. m[z] = "line"
    BY <1>6, <2>2
  <2>4. m[z + 1] = Turn("line", Nl)
    <3>1. m[z + 1] = Turn(m[z], s[z])
      BY <2>2, NextMode
    <3> QED  BY <1>9, <2>3, <3>1
  <2>5. Fresh(s, e, m, z + 1)
    BY <2>4, LineEndsRemark, FreshIf
  <2> QED  BY <1>1, <1>7, <1>9, <2>1, <2>2, <2>3, <2>5 DEF IsCode, Breaks
<1>10. ASSUME s[z] # Nl PROVE z = e /\ ~Breaks(s, m, p, z)
  <2>1. s[z] = Nul
    BY <1>10
  <2>2. \A i \in st..(e - 1) : s[i] # Nul
    BY DEF Reading
  <2>3. z = e
    BY <1>1, <2>1, <2>2
  <2> QED  BY <2>3 DEF Breaks
<1> QED  BY <1>3, <1>8, <1>9, <1>10

\* The modes within a comment whose end has not come.
LEMMA BlockModes ==
  ASSUME NEW s, NEW st, NEW e, NEW m, Reading(s, st, e, m),
         NEW a \in Nat, NEW b \in Nat, st <= a, a <= b, b <= e, m[a] = "block",
         \A i \in a..(b - 2) : ~(s[i] = "*" /\ s[i + 1] = "/")
  PROVE  \A i \in a..b : /\ m[i] \in {"block", "star"}
                         /\ m[i] = "star" => i > a /\ s[i - 1] = "*"
<1> DEFINE S == {i \in a..b : /\ m[i] \in {"block", "star"}
                              /\ m[i] = "star" => i > a /\ s[i - 1] = "*"}
<1>1. a \in S
  BY "block" # "star"
<1>2. ASSUME NEW i \in (a + 1)..b, i - 1 \in S PROVE i \in S
  <2>1. /\ i - 1 \in st..(e - 1) /\ (i - 1) + 1 = i /\ i \in a..b /\ i > a
        /\ (i - 1 > a => i - 2 \in a..(b - 2)) /\ (i - 2) + 1 = i - 1 /\ (i - 1) - 1 = i - 2
    BY ReadingIs
  <2>2. m[i] = Turn(m[i - 1], s[i - 1])
    <3>1. m[(i - 1) + 1] = Turn(m[i - 1], s[i - 1])
      BY <2>1, NextMode
    <3> QED  BY <2>1, <3>1
  <2>3. CASE m[i - 1] = "block"
    <3>1. CASE s[i - 1] = "*"
      <4>1. m[i] = "star"
        BY <2>2, <2>3, <3>1, BlockTurns
      <4> QED  BY <2>1, <3>1, <4>1
    <3>2. CASE s[i - 1] # "*"
      <4>1. m[i] = "block"
        BY <2>2, <2>3, <3>2, BlockTurns
      <4> QED  BY <2>1, <4>1
    <3> QED  BY <3>1, <3>2
  <2>4. CASE m[i - 1] = "star"
    <3>1. i - 1 > a /\ s[i - 2] = "*"
      BY <1>2, <2>1, <2>4
    <3>2. s[i - 1] # "/"
      BY <2>1, <3>1
    <3>3. CASE s[i - 1] = "*"
      <4>1. m[i] = "star"
        BY <2>2, <2>4, <3>3, BlockTurns
      <4> QED  BY <2>1, <3>3, <4>1
    <3>4. CASE s[i - 1] # "*"
      <4>1. m[i] = "block"
        BY <2>2, <2>4, <3>2, <3>4, BlockTurns
      <4> QED  BY <2>1, <4>1
    <3> QED  BY <3>3, <3>4
  <2> QED  BY <1>2, <2>3, <2>4
<1> HIDE DEF S
<1>3. \A i \in a..b : i \in S
  BY <1>1, <1>2, PlaceInduction
<1> QED  BY <1>3 DEF S

\* A comment up to its end, or to the end of the text.
LEMMA BlockRemark ==
  ASSUME NEW s, NEW st, NEW e, NEW m, Reading(s, st, e, m), NEW p \in st..(e - 1),
         Fresh(s, e, m, p), s[p] = "/", s[p + 1] = "*", s[p + 2] # "/", p + 2 < e,
         NEW z \in p..e, s[z] = Nul \/ (z + 2 < e /\ s[z] = "*" /\ s[z + 1] = "/"),
         \A i \in p..(z - 1) : ~(i + 2 < e /\ s[i] = "*" /\ s[i + 1] = "/")
  PROVE  /\ z > p + 1
         /\ s[z] = Nul => /\ z = e /\ \A i \in p..(e - 1) : ~IsCode(s, e, m, i)
                          /\ ~Breaks(s, m, p, e)
         /\ s[z] # Nul => /\ z + 2 <= e /\ Fresh(s, e, m, z + 2)
                          /\ \A i \in p..(z + 2 - 1) : ~IsCode(s, e, m, i)
                          /\ ~Breaks(s, m, p, z + 2)
<1>1. /\ p \in Nat /\ e \in Nat /\ st \in Nat /\ st <= p /\ p < e /\ z \in Nat /\ z <= e /\ p <= z
      /\ p + 2 \in Nat /\ st <= p + 2
  BY ReadingIs
<1>2. m[p + 1] = "slash" /\ m[p + 2] = "block" /\ InRemark(m, e, p) /\ InRemark(m, e, p + 1)
  BY Opens, SlashOpens
<1>3. z > p + 1
  <2>1. z # p /\ z # p + 1
    BY <1>1 DEF Nul
  <2> QED  BY <1>1, <2>1
<1>4. s[p] # Nl /\ s[p + 1] # Nl
  BY DEF Nl
<1>5. ASSUME s[z] = Nul
      PROVE  /\ z = e /\ \A i \in p..(e - 1) : ~IsCode(s, e, m, i)
             /\ ~Breaks(s, m, p, e)
  <2>1. \A i \in st..(e - 1) : s[i] # Nul
    BY DEF Reading
  <2>2. z = e
    BY <1>1, <1>5, <2>1
  <2>3. \A i \in (p + 2)..(e - 1 - 2) : ~(s[i] = "*" /\ s[i + 1] = "/")
    <3>1. \A i \in (p + 2)..(e - 1 - 2) : i \in p..(z - 1) /\ i + 2 < e
      BY <1>1, <2>2
    <3> QED  BY <3>1
  <2>4. e - 1 \in Nat /\ p + 2 <= e - 1 /\ e - 1 <= e
    BY <1>1
  <2>5. \A i \in (p + 2)..(e - 1) : m[i] \in {"block", "star"}
    BY <1>1, <1>2, <2>3, <2>4, BlockModes
  <2>6. \A i \in p..(e - 1) : i = p \/ i = p + 1 \/ i \in (p + 2)..(e - 1)
    BY <1>1
  <2>7. \A i \in p..(e - 1) : InRemark(m, e, i)
    BY <1>2, <2>5, <2>6 DEF InRemark
  <2>8. ~Breaks(s, m, p, e)
    BY <1>4, <2>5, <2>6 DEF Breaks
  <2> QED  BY <2>2, <2>7, <2>8 DEF IsCode
<1>6. ASSUME s[z] # Nul
      PROVE  /\ z + 2 <= e /\ Fresh(s, e, m, z + 2)
             /\ \A i \in p..(z + 2 - 1) : ~IsCode(s, e, m, i)
             /\ ~Breaks(s, m, p, z + 2)
  <2>1. z + 2 < e /\ s[z] = "*" /\ s[z + 1] = "/"
    BY <1>6
  <2>2. \A i \in (p + 2)..(z - 2) : ~(s[i] = "*" /\ s[i + 1] = "/")
    <3>1. \A i \in (p + 2)..(z - 2) : i \in p..(z - 1) /\ i + 2 < e
      BY <1>1, <2>1
    <3> QED  BY <3>1
  <2>3. \A i \in (p + 2)..z : m[i] \in {"block", "star"}
    <3>1. p + 2 <= z
      BY <1>1, <1>3
    <3> QED  BY <1>1, <1>2, <2>2, <3>1, BlockModes
  <2>4. m[z + 1] = "star"
    <3>1. z \in st..(e - 1) /\ z \in (p + 2)..z
      BY <1>1, <1>3, <2>1
    <3>2. m[z + 1] = Turn(m[z], "*")
      <4>1. m[z + 1] = Turn(m[z], s[z])
        BY <3>1, NextMode
      <4> QED  BY <2>1, <4>1
    <3>3. m[z] = "block" \/ m[z] = "star"
      BY <2>3, <3>1
    <3> QED  BY <3>2, <3>3, BlockTurns
  <2>5. m[z + 2] = "code"
    <3>1. z + 1 \in st..(e - 1) /\ (z + 1) + 1 = z + 2
      BY <1>1, <2>1
    <3>2. m[(z + 1) + 1] = Turn(m[z + 1], s[z + 1])
      BY <3>1, NextMode
    <3> QED  BY <2>1, <2>4, <3>1, <3>2, BlockTurns
  <2>6. \A i \in p..(z + 2 - 1) : i = p \/ i = p + 1 \/ i \in (p + 2)..z \/ i = z + 1
    BY <1>1
  <2>7. \A i \in p..(z + 2 - 1) : InRemark(m, e, i)
    BY <1>2, <2>3, <2>4, <2>6 DEF InRemark
  <2>8. ~Breaks(s, m, p, z + 2)
    BY <1>4, <2>3, <2>4, <2>6 DEF Breaks
  <2>9. Fresh(s, e, m, z + 2)
    BY <2>5, FreshIf
  <2> QED  BY <1>1, <2>1, <2>7, <2>8, <2>9 DEF IsCode
<1> QED  BY <1>3, <1>5, <1>6

-----------------------------------------------------------------------------
(* Strings: what a backslash hides.                                         *)

\* The backslashes that end before i, from q on.
Behind(s, q, i) == {k \in q..(i - 1) : \A j \in k..(i - 1) : s[j] = "\\"}
Hides(s, q, i)  == Cardinality(Behind(s, q, i)) % 2 = 1

\* One backslash more.
LEMMA OneMore == \A k \in Nat : (k + 1) % 2 = 1 <=> k % 2 # 1
OBVIOUS

\* None stands before the first character.
LEMMA HidesFirst == ASSUME NEW s, NEW q \in Nat PROVE ~Hides(s, q, q)
<1>1. Behind(s, q, q) = {}
  BY DEF Behind
<1>2. Cardinality(Behind(s, q, q)) = 0
  BY <1>1, FS_EmptySet
<1> QED  BY <1>2 DEF Hides

\* A character is hidden if a backslash stands before it that is not hidden.
LEMMA HidesNext ==
  ASSUME NEW s, NEW q \in Nat, NEW i \in Nat, q <= i
  PROVE  Hides(s, q, i + 1) <=> s[i] = "\\" /\ ~Hides(s, q, i)
<1>1. IsFiniteSet(Behind(s, q, i))
  <2>1. IsFiniteSet(q..(i - 1)) /\ Behind(s, q, i) \subseteq q..(i - 1)
    BY FS_Interval DEF Behind
  <2> QED  BY <2>1, FS_Subset
<1>2. CASE s[i] = "\\"
  <2>1. Behind(s, q, i + 1) = Behind(s, q, i) \cup {i}
    <3>1. ASSUME NEW k \in q..(i + 1 - 1), \A j \in k..(i + 1 - 1) : s[j] = "\\"
          PROVE  k \in Behind(s, q, i) \cup {i}
      <4>1. k = i \/ k \in q..(i - 1)
        OBVIOUS
      <4>2. \A j \in k..(i - 1) : j \in k..(i + 1 - 1)
        OBVIOUS
      <4> QED  BY <3>1, <4>1, <4>2 DEF Behind
    <3>2. ASSUME NEW k \in Behind(s, q, i) \cup {i} PROVE k \in Behind(s, q, i + 1)
      <4>1. k \in q..(i + 1 - 1)
        BY DEF Behind
      <4>2. \A j \in k..(i + 1 - 1) : j = i \/ (j \in k..(i - 1) /\ k # i)
        BY <4>1
      <4>3. \A j \in k..(i + 1 - 1) : s[j] = "\\"
        BY <1>2, <4>2 DEF Behind
      <4> QED  BY <4>1, <4>3 DEF Behind
    <3>3. \A k : k \in Behind(s, q, i + 1)
              <=> k \in q..(i + 1 - 1) /\ \A j \in k..(i + 1 - 1) : s[j] = "\\"
      BY DEF Behind
    <3> QED  BY <3>1, <3>2, <3>3
  <2>2. i \notin Behind(s, q, i)
    BY DEF Behind
  <2>3. /\ Cardinality(Behind(s, q, i)) \in Nat
        /\ Cardinality(Behind(s, q, i + 1)) = Cardinality(Behind(s, q, i)) + 1
    BY <1>1, <2>1, <2>2, FS_AddElement, FS_CardinalityType
  <2> QED  BY <1>2, <2>3, OneMore DEF Hides
<1>3. CASE s[i] # "\\"
  <2>1. ASSUME NEW k \in Behind(s, q, i + 1) PROVE FALSE
    <3>1. k \in q..(i + 1 - 1) /\ \A j \in k..(i + 1 - 1) : s[j] = "\\"
      BY DEF Behind
    <3>2. i \in k..(i + 1 - 1)
      BY <3>1
    <3> QED  BY <1>3, <3>1, <3>2
  <2>2. Behind(s, q, i + 1) = {}
    BY <2>1
  <2>3. Cardinality(Behind(s, q, i + 1)) = 0
    BY <2>2, FS_EmptySet
  <2> QED  BY <1>3, <2>3 DEF Hides
<1> QED  BY <1>2, <1>3

\* The two modes of a string that a quote opens.
StrMode(c)   == IF c = "\"" THEN "str" ELSE "char"
HideMode(c)  == IF c = "\"" THEN "stresc" ELSE "charesc"
Closes(s, a, c, i) == s[i] \in {c, Nl} /\ ~Hides(s, a, i)

\* What the reader of a string does with each character.
LEMMA StringTurns ==
  ASSUME NEW c \in Quotes, NEW x
  PROVE  /\ Begun(c) = StrMode(c) /\ StrMode(c) # HideMode(c)
         /\ Turn(HideMode(c), x) = StrMode(c)
         /\ x = "\\" => Turn(StrMode(c), x) = HideMode(c)
         /\ x \in {c, Nl} => Turn(StrMode(c), x) = "code"
         /\ x \notin {c, Nl, "\\"} => Turn(StrMode(c), x) = StrMode(c)
<1>1. "\\" \notin {"\"", "'", Nl}
  BY DEF Nl
<1>2. CASE c = "\""
  BY <1>1, <1>2, BegunIs DEF Turn, StrMode, HideMode
<1>3. CASE c = "'"
  BY <1>1, <1>3, BegunIs DEF Turn, StrMode, HideMode
<1> QED  BY <1>2, <1>3 DEF Quotes

\* The modes within a string that has not been closed.
LEMMA StringModes ==
  ASSUME NEW s, NEW st, NEW e, NEW m, Reading(s, st, e, m), NEW c \in Quotes,
         NEW a \in Nat, NEW b \in Nat, st <= a, a <= b, b <= e, m[a] = StrMode(c),
         \A i \in a..(b - 1) : ~Closes(s, a, c, i)
  PROVE  \A i \in a..b : m[i] = IF Hides(s, a, i) THEN HideMode(c) ELSE StrMode(c)
<1> DEFINE S == {i \in a..b : m[i] = IF Hides(s, a, i) THEN HideMode(c) ELSE StrMode(c)}
<1>1. a \in S
  BY HidesFirst
<1>2. ASSUME NEW i \in (a + 1)..b, i - 1 \in S PROVE i \in S
  <2>1. /\ i - 1 \in st..(e - 1) /\ (i - 1) + 1 = i /\ i \in a..b /\ i - 1 \in a..(b - 1)
        /\ i - 1 \in Nat /\ a <= i - 1
    BY ReadingIs
  <2>2. m[i] = Turn(m[i - 1], s[i - 1])
    <3>1. m[(i - 1) + 1] = Turn(m[i - 1], s[i - 1])
      BY <2>1, NextMode
    <3> QED  BY <2>1, <3>1
  <2>3. Hides(s, a, i) <=> s[i - 1] = "\\" /\ ~Hides(s, a, i - 1)
    <3>1. Hides(s, a, (i - 1) + 1) <=> s[i - 1] = "\\" /\ ~Hides(s, a, i - 1)
      BY <2>1, HidesNext
    <3> QED  BY <2>1, <3>1
  <2>4. m[i - 1] = IF Hides(s, a, i - 1) THEN HideMode(c) ELSE StrMode(c)
    BY <1>2
  <2>5. CASE Hides(s, a, i - 1)
    <3>1. m[i] = StrMode(c)
      BY <2>2, <2>4, <2>5, StringTurns
    <3> QED  BY <2>1, <2>3, <2>5, <3>1
  <2>6. CASE ~Hides(s, a, i - 1)
    <3>1. s[i - 1] \notin {c, Nl}
      BY <2>1, <2>6 DEF Closes
    <3>2. CASE s[i - 1] = "\\"
      <4>1. m[i] = HideMode(c)
        BY <2>2, <2>4, <2>6, <3>2, StringTurns
      <4> QED  BY <2>1, <2>3, <2>6, <3>2, <4>1
    <3>3. CASE s[i - 1] # "\\"
      <4>1. m[i] = StrMode(c)
        BY <2>2, <2>4, <2>6, <3>1, <3>3, StringTurns
      <4> QED  BY <2>1, <2>3, <3>3, <4>1
    <3> QED  BY <3>2, <3>3
  <2> QED  BY <2>5, <2>6
<1> HIDE DEF S
<1>3. \A i \in a..b : i \in S
  BY <1>1, <1>2, PlaceInduction
<1> QED  BY <1>3 DEF S

\* The quote behind a prefix opens a string.
LEMMA StringOpens ==
  ASSUME NEW s, NEW st, NEW e, NEW m, Reading(s, st, e, m), NEW p \in st..(e - 1),
         Fresh(s, e, m, p), NEW q \in p..(e - 1), s[q] \in Quotes,
         q # p => s[p] \in Words \ Digits /\ \A i \in (p + 1)..(q - 1) : s[i] \in Words
  PROVE  /\ \A i \in (p + 1)..q : m[i] = "word"
         /\ m[q + 1] = StrMode(s[q])
         /\ \A i \in p..q : s[i] \notin Spaces
<1>1. p \in Nat /\ e \in Nat /\ p < e /\ q \in Nat /\ q \in st..(e - 1) /\ q < e /\ p <= q
  BY ReadingIs
<1>2. \A i \in (p + 1)..q : m[i] = "word"
  <2>1. CASE q = p
    BY <1>1, <2>1
  <2>2. CASE q # p
    <3>1. q \in (p + 1)..e
      BY <1>1, <2>2
    <3> QED  BY <2>2, <3>1, WordStretch
  <2> QED  BY <2>1, <2>2
<1>3. m[q + 1] = Begun(s[q])
  <2>1. m[q + 1] = Turn(m[q], s[q])
    BY <1>1, NextMode
  <2>2. CASE q = p
    BY <1>1, <2>1, <2>2 DEF Fresh
  <2>3. CASE q # p
    <3>1. q \in (p + 1)..q
      BY <1>1, <2>3
    <3>2. s[q] \notin Words
      BY ClassesAre
    <3> QED  BY <1>2, <2>1, <3>1, <3>2, WordEnds
  <2> QED  BY <2>2, <2>3
<1>4. \A i \in p..q : s[i] \in Words \cup Quotes
  <2>1. \A i \in p..q : i = q \/ (q # p /\ (i = p \/ i \in (p + 1)..(q - 1)))
    BY <1>1
  <2> QED  BY <2>1
<1>5. \A i \in p..q : s[i] \notin Spaces
  BY <1>4, ClassesAre
<1> QED  BY <1>2, <1>3, <1>5, StringTurns

\* A string that the text does not end in has an end.
LEMMA StringCloses ==
  ASSUME NEW s, NEW st, NEW e, NEW m, Reading(s, st, e, m), NEW c \in Quotes,
         NEW a \in Nat, st <= a, a <= e, m[a] = StrMode(c),
         m[e] \notin {"str", "stresc", "char", "charesc"}
  PROVE  \E z \in a..e : Closes(s, a, c, z) /\ \A k \in a..(z - 1) : ~Closes(s, a, c, k)
<1> DEFINE S == {i \in a..e : Closes(s, a, c, i)}
<1>1. e \in Nat
  BY ReadingIs
<1>2. PICK z \in a..e : Closes(s, a, c, z)
  <2>1. SUFFICES ASSUME \A i \in a..e : ~Closes(s, a, c, i) PROVE FALSE
    OBVIOUS
  <2>2. \A i \in a..(e - 1) : ~Closes(s, a, c, i)
    <3>1. \A i \in a..(e - 1) : i \in a..e
      BY <1>1
    <3> QED  BY <2>1, <3>1
  <2>3. e <= e /\ e \in a..e
    BY <1>1
  <2>4. m[e] = IF Hides(s, a, e) THEN HideMode(c) ELSE StrMode(c)
    BY <1>1, <2>2, <2>3, StringModes
  <2> QED  BY <2>4 DEF HideMode, StrMode
<1>3. z \in S
  BY <1>2
<1> HIDE DEF S
<1>4. PICK i \in a..e : i \in S /\ \A k \in a..(i - 1) : k \notin S
  BY <1>1, <1>3, FirstPlace
<1>5. \A k \in a..(i - 1) : k \in a..e
  BY <1>1
<1> QED  BY <1>4, <1>5 DEF S

\* A string up to its end.
LEMMA StringStretch ==
  ASSUME NEW s, NEW st, NEW e, NEW m, Reading(s, st, e, m), NEW p \in st..(e - 1),
         Fresh(s, e, m, p), NEW q \in p..(e - 1), s[q] \in Quotes,
         q # p => s[p] \in Words \ Digits /\ \A i \in (p + 1)..(q - 1) : s[i] \in Words,
         NEW z \in (q + 1)..e, Closes(s, q + 1, s[q], z),
         \A k \in (q + 1)..(z - 1) : ~Closes(s, q + 1, s[q], k)
  PROVE  /\ z < e /\ Fresh(s, e, m, z + 1)
         /\ \A i \in p..z : IsCode(s, e, m, i)
         /\ Solid(s, st, e, p, z + 1)
<1>1. /\ p \in Nat /\ e \in Nat /\ p < e /\ q \in Nat /\ q < e /\ p <= q /\ z \in Nat /\ q + 1 <= z /\ z <= e
      /\ q + 1 \in Nat /\ st <= q + 1 /\ st \in Nat /\ st <= p
  BY ReadingIs
<1>2. /\ \A i \in (p + 1)..q : m[i] = "word"
      /\ m[q + 1] = StrMode(s[q])
      /\ \A i \in p..q : s[i] \notin Spaces
  BY StringOpens
<1>3. \A i \in (q + 1)..z : m[i] = IF Hides(s, q + 1, i) THEN HideMode(s[q]) ELSE StrMode(s[q])
  BY <1>1, <1>2, StringModes
<1>4. s[z] # Nul
  BY ClassesAre DEF Closes, Nl, Nul
<1>5. z < e
  BY <1>1, <1>4 DEF Reading
<1>6. m[z + 1] = "code"
  <2>1. z \in st..(e - 1) /\ z \in (q + 1)..z
    BY <1>1, <1>5
  <2>2. m[z + 1] = Turn(m[z], s[z])
    BY <2>1, NextMode
  <2>3. m[z] = StrMode(s[q]) /\ s[z] \in {s[q], Nl}
    BY <1>3, <2>1 DEF Closes
  <2> QED  BY <2>2, <2>3, StringTurns
<1>7. Fresh(s, e, m, z + 1)
  BY <1>6, FreshIf
<1>8. \A i \in (q + 1)..z : m[i] \in {"str", "stresc", "char", "charesc"}
  BY <1>3 DEF HideMode, StrMode
<1>9. \A i \in (p + 1)..(z + 1) : i \in (p + 1)..q \/ i \in (q + 1)..z \/ i = z + 1
  BY <1>1
<1>10. \A i \in (p + 1)..(z + 1) : m[i] \notin {"line", "block", "star"}
  BY <1>2, <1>6, <1>8, <1>9
<1>11. \A i \in p..(z + 1 - 1) : m[i] \in Open => s[i] \notin Spaces
  <2>1. \A i \in p..(z + 1 - 1) : i \in p..q \/ i \in (q + 1)..z
    BY <1>1
  <2> QED  BY <1>2, <1>8, <2>1 DEF Open
<1>12. \A i \in p..(z + 1 - 1) : IsCode(s, e, m, i)
  <2>1. p \in st..e /\ z + 1 \in (p + 1)..e
    BY <1>1, <1>5
  <2> QED  BY <1>7, <1>10, <1>11, <2>1, CodeStretch
<1>13. \A i \in p..z : i \in p..(z + 1 - 1)
  BY <1>1
<1>14. ASSUME Doubles(s, st, e), s[z] # Nl, NEW i \in p..z, s[i] = Nl PROVE FALSE
  <2>1. i \notin p..q
    BY <1>2, <1>14, ClassesAre
  <2>2. i \in (q + 1)..(z - 1) /\ i \in Nat
    BY <1>1, <1>14, <2>1
  <2>3. Hides(s, q + 1, i)
    BY <1>14, <2>2 DEF Closes
  <2>4. i # q + 1
    BY <1>1, <2>3, HidesFirst
  <2>5. i - 1 \in Nat /\ q + 1 <= i - 1 /\ (i - 1) + 1 = i /\ (i - 1) + 2 = i + 1 /\ i - 1 \in st..(e - 2)
        /\ i + 1 # e
    BY <1>1, <1>5, <2>2, <2>4
  <2>6. s[i - 1] = "\\"
    <3>1. Hides(s, q + 1, (i - 1) + 1) <=> s[i - 1] = "\\" /\ ~Hides(s, q + 1, i - 1)
      BY <1>1, <2>5, HidesNext
    <3> QED  BY <2>3, <2>5, <3>1
  <2>7. s[i + 1] = Nl
    BY <1>14, <2>5, <2>6 DEF Doubles
  <2>8. ~Hides(s, q + 1, i + 1)
    <3>1. Hides(s, q + 1, i + 1) <=> s[i] = "\\" /\ ~Hides(s, q + 1, i)
      BY <1>1, <2>2, HidesNext
    <3> QED  BY <2>3, <3>1
  <2>9. Closes(s, q + 1, s[q], i + 1)
    BY <2>7, <2>8 DEF Closes
  <2>10. i + 1 # z
    BY <1>14, <2>7
  <2>11. i + 1 \in (q + 1)..(z - 1)
    BY <1>1, <2>2, <2>10
  <2> QED  BY <2>9, <2>11
<1>15. Solid(s, st, e, p, z + 1)
  <2>1. (z + 1) - 1 = z
    BY <1>1
  <2> QED  BY <1>14, <2>1 DEF Solid
<1> QED  BY <1>5, <1>7, <1>12, <1>13, <1>15

-----------------------------------------------------------------------------
(* The steps of the lexer.                                                  *)

At(p, bb, w, ts) == Lexer(Chars, start, EndOf, Mode, p, bb, w, ts)
Ready == Rewriting /\ Opened /\ Regular /\ At(cursor, bol, ws, toks)

\* What is known where the lexer takes its next step.
LEMMA ReadyIs ==
  ASSUME Ready
  PROVE  /\ Reading(Chars, start, EndOf, Mode)
         /\ start \in Nat /\ EndOf \in Nat /\ cursor \in Nat
         /\ cursor \in start..EndOf /\ Fresh(Chars, EndOf, Mode, cursor)
         /\ \A i \in start..EndOf : Chars[i] = C(i)
         /\ C(EndOf) = Nul /\ \A i \in start..(EndOf - 1) : C(i) # Nul
         /\ C(cursor) # Nul => /\ cursor \in start..(EndOf - 1) /\ cursor < EndOf
                               /\ Chars[cursor] = C(cursor) /\ Chars[cursor + 1] = C(cursor + 1)
<1>1. Rewriting /\ Opened
  BY DEF Ready
<1>2. Reading(Chars, start, EndOf, Mode) /\ \A i \in start..EndOf : Chars[i] = C(i)
  BY <1>1, TextIsRead
<1>3. /\ start \in Nat /\ EndOf \in Nat
      /\ C(EndOf) = Nul /\ \A i \in start..(EndOf - 1) : C(i) # Nul
  BY <1>1, EndIs
<1>4. cursor \in start..EndOf /\ Fresh(Chars, EndOf, Mode, cursor)
  BY DEF Ready, At, Lexer
<1>5. cursor \in Nat
  BY <1>3, <1>4
<1>6. C(cursor) # Nul => cursor \in start..(EndOf - 1) /\ cursor < EndOf /\ cursor + 1 \in start..EndOf
  BY <1>3, <1>4
<1> QED  BY <1>2, <1>3, <1>4, <1>5, <1>6

\* A token is taken.
LEMMA TokenTaken ==
  ASSUME Ready, NEW kind, NEW q \in (cursor + 1)..EndOf, Token(kind, q),
         Fresh(Chars, EndOf, Mode, q), \A i \in cursor..(q - 1) : IsCode(Chars, EndOf, Mode, i),
         Chars[cursor] \notin Spaces, q = cursor + 1 => Alone(Chars, EndOf, cursor),
         Solid(Chars, start, EndOf, cursor, q)
  PROVE  At(cursor', bol', ws', toks')
<1> DEFINE tok == [kind |-> kind, from |-> cursor, next |-> q, bol |-> bol,
                   ws |-> ws, line |-> line, col |-> cursor - lineStart + 1]
<1>1. /\ toks' = Append(toks, tok) /\ cursor' = q /\ bol' = FALSE /\ ws' = FALSE
  BY DEF Token
<1>2. tok.from = cursor /\ tok.next = q /\ tok.bol = bol /\ tok.ws = ws
  OBVIOUS
<1> HIDE DEF tok
<1>3. Lexer(Chars, start, EndOf, Mode, cursor, bol, ws, toks)
  BY DEF Ready, At
<1>4. start \in Nat /\ EndOf \in Nat
  BY ReadyIs
<1>5. Lexer(Chars, start, EndOf, Mode, q, FALSE, FALSE, Append(toks, tok))
  BY <1>2, <1>3, <1>4, Taken
<1> QED  BY <1>1, <1>5 DEF At

\* What does not begin a punctuator stands alone.
LEMMA StandsAlone ==
  ASSUME NEW s, NEW e, NEW i, s[i] \notin Puncts
  PROVE  Alone(s, e, i)
<1>1. ASSUME NEW x \in DOMAIN PunctStrs, PunctStrs[x] = <<s[i], s[i + 1]>> PROVE FALSE
  <2>1. PunctStrs[x][1] = s[i]
    BY <1>1
  <2>2. 1 \in DOMAIN PunctStrs[x]
    BY PunctStrsAre
  <2> QED  BY <2>1, <2>2, PunctsAssumption
<1> QED  BY <1>1 DEF Alone

\* Space: one character is passed, and it is not part of a token.
LEMMA SpaceStep ==
  ASSUME Ready, Space
  PROVE  At(cursor', bol', ws', toks')
<1>1. C(cursor) \in Spaces /\ C(cursor) # Nul
  BY ClassesAre DEF Space
<1>2. /\ cursor \in start..(EndOf - 1) /\ Chars[cursor] = C(cursor) /\ start \in Nat /\ EndOf \in Nat
      /\ Reading(Chars, start, EndOf, Mode) /\ Fresh(Chars, EndOf, Mode, cursor)
  BY <1>1, ReadyIs
<1>3. /\ Fresh(Chars, EndOf, Mode, cursor + 1) /\ ~IsCode(Chars, EndOf, Mode, cursor)
      /\ Breaks(Chars, Mode, cursor, cursor + 1) <=> Chars[cursor] = Nl
  BY <1>1, <1>2, SpaceStretch
<1>5. cursor' = cursor + 1 /\ ws' = TRUE /\ toks' = toks
  BY DEF Space
<1>6. Lexer(Chars, start, EndOf, Mode, cursor, bol, ws, toks)
  BY DEF Ready, At
<1> DEFINE q == cursor + 1
<1>7. q \in (cursor + 1)..EndOf /\ \A i \in cursor..(q - 1) : i = cursor
  BY <1>2
<1>8. Fresh(Chars, EndOf, Mode, q) /\ (Breaks(Chars, Mode, cursor, q) <=> C(cursor) = Nl)
  BY <1>2, <1>3, Zenon
<1>9. cursor' = q
  BY <1>5
<1> HIDE DEF q
<1>10. \A i \in cursor..(q - 1) : ~IsCode(Chars, EndOf, Mode, i)
  BY <1>3, <1>7
<1>11. /\ Breaks(Chars, Mode, cursor, q) => At(q, TRUE, TRUE, toks)
       /\ ~Breaks(Chars, Mode, cursor, q) => At(q, bol, TRUE, toks)
  BY <1>2, <1>6, <1>7, <1>8, <1>10, Skipped DEF At
<1>12. C(cursor) = Nl => bol' = TRUE
  BY DEF Space
<1>13. C(cursor) # Nl => bol' = bol
  BY DEF Space
<1> QED  BY <1>5, <1>8, <1>9, <1>11, <1>12, <1>13

\* Other: a character that is a token of its own.
LEMMA OtherStep ==
  ASSUME Ready, Other
  PROVE  At(cursor', bol', ws', toks')
<1>1. C(cursor) \notin Spaces \cup Words \cup Puncts \cup Quotes \cup {Nul}
  BY DEF Other
<1>2. /\ cursor \in start..(EndOf - 1) /\ Chars[cursor] = C(cursor) /\ start \in Nat /\ EndOf \in Nat
      /\ Reading(Chars, start, EndOf, Mode) /\ Fresh(Chars, EndOf, Mode, cursor)
  BY <1>1, ReadyIs
<1>3. Begun(Chars[cursor]) = "code" /\ Chars[cursor] \notin Spaces /\ Chars[cursor] \notin Puncts
  <2>1. C(cursor) \notin Words \cup Quotes \cup {"/"}
    BY <1>1, SlashIsPunct
  <2>2. Begun(C(cursor)) = "code"
    BY <2>1, BegunIs
  <2> QED  BY <1>1, <1>2, <2>2
<1>4. /\ Fresh(Chars, EndOf, Mode, cursor + 1)
      /\ \A i \in cursor..(cursor + 1 - 1) : IsCode(Chars, EndOf, Mode, i)
  BY <1>2, <1>3, CodeAlone
<1>5. cursor + 1 \in (cursor + 1)..EndOf
  BY <1>2
<1>6. Alone(Chars, EndOf, cursor)
  BY <1>3, StandsAlone
<1>7. Token("other", cursor + 1)
  BY DEF Other
<1> DEFINE q == cursor + 1
<1>8. /\ q \in (cursor + 1)..EndOf /\ Token("other", q) /\ Fresh(Chars, EndOf, Mode, q)
      /\ \A i \in cursor..(q - 1) : IsCode(Chars, EndOf, Mode, i)
  <2>1. \A i \in cursor..(q - 1) : i \in cursor..(cursor + 1 - 1)
    BY <1>2
  <2> QED  BY <1>4, <1>5, <1>7, <2>1, Zenon
<1>9. Solid(Chars, start, EndOf, cursor, q)
  <2>1. \A i \in cursor..(q - 1) : i = cursor
    BY <1>2
  <2> QED  BY <1>3, <2>1, ClassesAre DEF Solid
<1> HIDE DEF q
<1> QED  BY <1>3, <1>6, <1>8, <1>9, TokenTaken

\* Ident: the letters and digits up to the first other character.
LEMMA IdentStep ==
  ASSUME Ready, Ident
  PROVE  At(cursor', bol', ws', toks')
<1> DEFINE Out == {i \in cursor..EndOf : C(i) \notin Words}
           q == FirstFrom(cursor, LAMBDA i : C(i) \notin Words)
<1>1. C(cursor) \in Words \ Digits
  BY ClassesAssumption DEF Ident, Words
<1>2. C(cursor) # Nul
  BY <1>1, ClassesAre
<1>3. /\ cursor \in start..(EndOf - 1) /\ Chars[cursor] = C(cursor) /\ start \in Nat /\ EndOf \in Nat
      /\ cursor \in Nat /\ cursor < EndOf /\ C(EndOf) = Nul /\ \A i \in start..EndOf : Chars[i] = C(i)
      /\ Reading(Chars, start, EndOf, Mode) /\ Fresh(Chars, EndOf, Mode, cursor)
  BY <1>2, ReadyIs
<1>4. EndOf \in Out
  BY <1>3, ClassesAre
<1>5. PICK i \in cursor..EndOf : i \in Out /\ \A k \in cursor..(i - 1) : k \notin Out
  <2> HIDE DEF Out
  <2>1. EndOf \in cursor..EndOf
    BY <1>3
  <2> QED  BY <1>3, <1>4, <2>1, FirstPlace
<1>6. C(i) \notin Words /\ \A k \in cursor..(i - 1) : C(k) \in Words
  <2>1. \A k \in cursor..(i - 1) : k \in cursor..EndOf
    BY <1>3
  <2> QED  BY <1>5, <2>1
<1>7. q \in cursor..EndOf /\ C(q) \notin Words /\ \A k \in cursor..(q - 1) : C(k) \in Words
  BY <1>6 DEF FirstFrom
<1>8. Token("id", q)
  BY DEF Ident
<1> HIDE DEF q, Out
<1>9. q # cursor
  BY <1>1, <1>7
<1>10. q \in (cursor + 1)..EndOf /\ q \in start..EndOf
  BY <1>3, <1>7, <1>9
<1>11. \A k \in (cursor + 1)..(q - 1) : Chars[k] \in Words
  <2>1. \A k \in (cursor + 1)..(q - 1) : k \in cursor..(q - 1) /\ k \in start..EndOf
    BY <1>3, <1>7
  <2> QED  BY <1>3, <1>7, <2>1
<1>12. Fresh(Chars, EndOf, Mode, q) /\ \A k \in cursor..(q - 1) : IsCode(Chars, EndOf, Mode, k)
  <2>1. Chars[q] \notin Words
    BY <1>3, <1>7, <1>10
  <2>2. Chars[cursor] \in Words \ Digits
    BY <1>1, <1>3
  <2> QED  BY <1>3, <1>10, <1>11, <2>1, <2>2, WordStretch
<1>13. Chars[cursor] \notin Spaces /\ Chars[cursor] \notin Puncts
  BY <1>1, <1>3, ClassesAre
<1>14. Alone(Chars, EndOf, cursor)
  BY <1>13, StandsAlone
<1>15. Solid(Chars, start, EndOf, cursor, q)
  <2>1. \A k \in cursor..(q - 1) : k = cursor \/ k \in (cursor + 1)..(q - 1)
    BY <1>3, <1>10
  <2> QED  BY <1>11, <1>13, <2>1, ClassesAre DEF Solid
<1> QED  BY <1>8, <1>10, <1>12, <1>13, <1>14, <1>15, TokenTaken

\* Number: the reader is within the number as long as the lexer is.
LEMMA NumberStep ==
  ASSUME Ready, Number
  PROVE  At(cursor', bol', ws', toks')
<1> DEFINE Out == {i \in (cursor + 1)..EndOf : C(i) \notin NumChars}
           q == FirstFrom(cursor + 1, LAMBDA i : C(i) \notin Words \cup {"'"})
<1>1. C(cursor) \in Digits \/ (C(cursor) = "." /\ C(cursor + 1) \in Digits)
  BY DEF Number, IsNumber
<1>2. C(cursor) # Nul /\ C(cursor) \notin Spaces /\ (C(cursor) \in Digits => C(cursor) \notin Puncts)
  BY <1>1, ClassesAre, SlashIsPunct, NumCharsAre
<1>3. /\ cursor \in start..(EndOf - 1) /\ Chars[cursor] = C(cursor) /\ start \in Nat /\ EndOf \in Nat
      /\ Chars[cursor + 1] = C(cursor + 1)
      /\ cursor \in Nat /\ cursor < EndOf /\ C(EndOf) = Nul /\ \A i \in start..EndOf : Chars[i] = C(i)
      /\ Reading(Chars, start, EndOf, Mode) /\ Fresh(Chars, EndOf, Mode, cursor)
  BY <1>2, ReadyIs
<1>4. Nul \notin NumChars
  <2>1. "'" \in Quotes
    BY DEF Quotes
  <2> QED  BY <2>1, ClassesAre DEF NumChars
<1>5. PICK i \in (cursor + 1)..EndOf : i \in Out /\ \A k \in (cursor + 1)..(i - 1) : k \notin Out
  <2>1. EndOf \in (cursor + 1)..EndOf /\ cursor + 1 \in Nat
    BY <1>3
  <2>2. EndOf \in Out
    BY <1>3, <1>4, <2>1
  <2> HIDE DEF Out
  <2> QED  BY <1>3, <2>1, <2>2, FirstPlace
<1>6. C(i) \notin NumChars /\ \A k \in (cursor + 1)..(i - 1) : C(k) \in NumChars
  <2>1. \A k \in (cursor + 1)..(i - 1) : k \in (cursor + 1)..EndOf
    BY <1>3
  <2> QED  BY <1>5, <2>1
<1>7. /\ q \in (cursor + 1)..EndOf /\ C(q) \notin NumChars
      /\ \A k \in (cursor + 1)..(q - 1) : C(k) \in NumChars
  BY <1>6 DEF FirstFrom, NumChars
<1>8. Token("num", q)
  BY DEF Number
<1> HIDE DEF q, Out
<1>9. q \in start..EndOf /\ \A k \in (cursor + 1)..(q - 1) : k \in start..EndOf
  BY <1>3, <1>7
<1>10. /\ \A k \in (cursor + 1)..(q - 1) : Chars[k] \in NumChars
       /\ Chars[q] \notin NumChars
  BY <1>3, <1>7, <1>9
<1>11. Fresh(Chars, EndOf, Mode, q) /\ \A k \in cursor..(q - 1) : IsCode(Chars, EndOf, Mode, k)
  <2>1. Chars[cursor] \in Digits \/ (Chars[cursor] = "." /\ Chars[cursor + 1] \in Digits)
    BY <1>1, <1>3
  <2> QED  BY <1>3, <1>7, <1>10, <2>1, NumberStretch
<1>12. q = cursor + 1 => Alone(Chars, EndOf, cursor)
  <2>1. SUFFICES ASSUME q = cursor + 1 PROVE Chars[cursor] \notin Puncts
    BY StandsAlone
  <2>2. C(cursor + 1) \notin Digits
    BY <1>7, <2>1, NumCharsAre
  <2> QED  BY <1>1, <1>2, <1>3, <2>2
<1>13. Chars[cursor] \notin Spaces
  BY <1>2, <1>3
<1>14. Solid(Chars, start, EndOf, cursor, q)
  <2>1. \A k \in cursor..(q - 1) : k = cursor \/ k \in (cursor + 1)..(q - 1)
    BY <1>3, <1>7
  <2> QED  BY <1>10, <1>13, <2>1, ClassesAre, NumCharsAre DEF Solid
<1> QED  BY <1>7, <1>8, <1>11, <1>12, <1>13, <1>14, TokenTaken

\* The places of Regular, as the steps use them.
LEMMA RegularIs ==
  ASSUME Ready
  PROVE  /\ \A i \in start..(EndOf - 3) : ~(C(i) = "/" /\ C(i + 1) = "*" /\ C(i + 2) = "/")
         /\ EndOf > start => Mode[EndOf - 1] # "slash" \/ Mode[EndOf] \notin {"line", "block"}
         /\ Mode[EndOf] \notin {"str", "stresc", "char", "charesc"}
BY DEF Ready, Regular

\* next_eq with two characters.
LEMMA NextTwo ==
  ASSUME NEW p \in Nat, NEW a, NEW b
  PROVE  NextEq(p, <<a, b>>) <=> p + 2 < EndOf /\ C(p) = a /\ C(p + 1) = b
<1>1. /\ Len(<<a, b>>) = 2 /\ DOMAIN <<a, b>> = 1..2 /\ <<a, b>>[1] = a /\ <<a, b>>[2] = b
  OBVIOUS
<1>2. \A i \in 1..2 : i = 1 \/ i = 2
  OBVIOUS
<1>3. 1 \in 1..2 /\ 2 \in 1..2 /\ p + 1 - 1 = p /\ p + 2 - 1 = p + 1
  OBVIOUS
<1> DEFINE lit == <<a, b>>
<1>4. NextEq(p, lit) <=> p + Len(lit) < EndOf /\ \A i \in DOMAIN lit : C(p + i - 1) = lit[i]
  BY DEF NextEq
<1>5. (\A i \in 1..2 : C(p + i - 1) = lit[i]) <=> C(p) = a /\ C(p + 1) = b
  BY <1>1, <1>2, <1>3
<1> QED  BY <1>1, <1>4, <1>5

\* Punct: no longer punctuator begins where a short one has been taken.
LEMMA PunctStep ==
  ASSUME Ready, Punct
  PROVE  At(cursor', bol', ws', toks')
<1> DEFINE found == {i \in DOMAIN PunctStrs : NextEq(cursor, PunctStrs[i])}
           first == CHOOSE i \in found : \A k \in found : i <= k
           q     == cursor + (IF found = {} THEN 1 ELSE Len(PunctStrs[first]))
<1>1. /\ C(cursor) \in Puncts /\ ~IsLineComment /\ ~IsBlockComment
      /\ Token("punct", q)
  BY DEF Punct
<1>2. C(cursor) # Nul /\ C(cursor) \notin Spaces
  BY <1>1, ClassesAre
<1>3. /\ cursor \in start..(EndOf - 1) /\ Chars[cursor] = C(cursor) /\ start \in Nat /\ EndOf \in Nat
      /\ Chars[cursor + 1] = C(cursor + 1)
      /\ cursor \in Nat /\ cursor < EndOf /\ \A i \in start..EndOf : Chars[i] = C(i)
      /\ Reading(Chars, start, EndOf, Mode) /\ Fresh(Chars, EndOf, Mode, cursor)
  BY <1>2, ReadyIs
<1>4. Chars[cursor] \notin Spaces
  BY <1>2, <1>3
<1>5. CASE found = {}
  <2>1. \A x \in DOMAIN PunctStrs : ~NextEq(cursor, PunctStrs[x])
    BY <1>5
  <2>2. q = cursor + 1
    BY <1>5
  <2> HIDE DEF q, found, first
  <2>3. q \in (cursor + 1)..EndOf
    BY <1>3, <2>2
  <2>4. Alone(Chars, EndOf, cursor)
    <3>1. ASSUME NEW x \in DOMAIN PunctStrs, PunctStrs[x] = <<C(cursor), C(cursor + 1)>>,
                 ~(cursor + 2 >= EndOf)
          PROVE  FALSE
      <4>1. cursor + 2 < EndOf
        BY <1>3, <3>1
      <4>2. NextEq(cursor, <<C(cursor), C(cursor + 1)>>)
        BY <1>3, <4>1, NextTwo
      <4> QED  BY <2>1, <3>1, <4>2
    <3> QED  BY <1>3, <3>1 DEF Alone
  <2>5. cursor + 2 < EndOf => ~(Chars[cursor] = "/" /\ Chars[cursor + 1] \in {"/", "*"})
    <3>1. ~(cursor + 2 < EndOf /\ C(cursor) = "/" /\ C(cursor + 1) = "/")
      BY <1>1, <1>3, NextTwo DEF IsLineComment
    <3>2. ~(cursor + 2 < EndOf /\ C(cursor) = "/" /\ C(cursor + 1) = "*")
      BY <1>1, <1>3, NextTwo DEF IsBlockComment
    <3> QED  BY <1>3, <3>1, <3>2
  <2>6. Mode[EndOf - 1] # "slash" \/ Mode[EndOf] \notin {"line", "block"}
    BY <1>3, RegularIs
  <2>7. Chars[cursor] \in Puncts
    BY <1>1, <1>3
  <2>8. /\ Fresh(Chars, EndOf, Mode, cursor + 1)
        /\ \A i \in cursor..(cursor + 1 - 1) : IsCode(Chars, EndOf, Mode, i)
    BY <1>3, <2>5, <2>6, <2>7, PunctAlone
  <2>9. Fresh(Chars, EndOf, Mode, q) /\ \A i \in cursor..(q - 1) : IsCode(Chars, EndOf, Mode, i)
    <3>1. \A i \in cursor..(q - 1) : i \in cursor..(cursor + 1 - 1)
      BY <1>3, <2>2
    <3> QED  BY <2>2, <2>8, <3>1
  <2>10. Solid(Chars, start, EndOf, cursor, q)
    <3>1. \A i \in cursor..(q - 1) : i = cursor
      BY <1>3, <2>2
    <3> QED  BY <1>4, <3>1, ClassesAre DEF Solid
  <2> QED  BY <1>1, <1>4, <2>3, <2>4, <2>9, <2>10, TokenTaken
<1>6. CASE found # {}
  <2>1. first \in found
    <3> HIDE DEF found
    <3>1. found \subseteq Nat
      BY PunctStrsAre DEF found
    <3>2. \E i \in found : \A k \in found : i <= k
      BY <1>6, <3>1, HasLeast
    <3> QED  BY <3>2
  <2> DEFINE x == first
             l == Len(PunctStrs[x])
  <2>2. x \in DOMAIN PunctStrs /\ NextEq(cursor, PunctStrs[x]) /\ q = cursor + l
    BY <1>6, <2>1
  <2> HIDE DEF q, first, found, x
  <2>3. l \in {2, 3} /\ DOMAIN PunctStrs[x] = 1..l
    BY <2>2, PunctStrsAre
  <2>4. cursor + l < EndOf /\ \A i \in DOMAIN PunctStrs[x] : C(cursor + i - 1) = PunctStrs[x][i]
    BY <2>2 DEF NextEq
  <2>5. \A i \in DOMAIN PunctStrs[x] : Chars[cursor + i - 1] = PunctStrs[x][i]
    <3>1. \A i \in 1..l : cursor + i - 1 \in start..EndOf
      BY <1>3, <2>3, <2>4
    <3> QED  BY <1>3, <2>3, <2>4, <3>1
  <2>6. /\ Fresh(Chars, EndOf, Mode, cursor + l)
        /\ \A i \in cursor..(cursor + l - 1) : IsCode(Chars, EndOf, Mode, i) /\ Chars[i] # Nl
    BY <1>3, <2>2, <2>4, <2>5, PunctStretch
  <2> HIDE DEF l
  <2>7. q \in (cursor + 1)..EndOf /\ q # cursor + 1
    BY <1>3, <2>2, <2>3, <2>4
  <2>8. /\ Fresh(Chars, EndOf, Mode, q)
        /\ \A i \in cursor..(q - 1) : IsCode(Chars, EndOf, Mode, i) /\ Chars[i] # Nl
    <3>1. \A i \in cursor..(q - 1) : i \in cursor..(cursor + l - 1)
      BY <1>3, <2>2, <2>3
    <3> QED  BY <2>2, <2>6, <3>1
  <2>9. Solid(Chars, start, EndOf, cursor, q)
    BY <2>8 DEF Solid
  <2> QED  BY <1>1, <1>4, <2>7, <2>8, <2>9, TokenTaken
<1> QED  BY <1>5, <1>6

\* Where the end of a line comment is found.
LineStop == FirstFrom(cursor, LAMBDA i : C(i) \in {Nl, Nul})

\* A // comment ends at a line end or with the text.
LEMMA LineStopIs ==
  ASSUME Ready, IsLineComment
  PROVE  /\ cursor \in Nat /\ start \in Nat /\ EndOf \in Nat /\ cursor \in start..EndOf
         /\ cursor + 2 < EndOf
         /\ cursor \in start..(EndOf - 1) /\ Chars[cursor] = "/" /\ Chars[cursor + 1] = "/"
         /\ Reading(Chars, start, EndOf, Mode) /\ Fresh(Chars, EndOf, Mode, cursor)
         /\ LineStop \in cursor..EndOf /\ Chars[LineStop] = C(LineStop)
         /\ C(LineStop) \in {Nl, Nul}
         /\ \A k \in cursor..(LineStop - 1) : Chars[k] \notin {Nl, Nul}
<1> DEFINE Stop == {i \in cursor..EndOf : C(i) \in {Nl, Nul}}
           z == LineStop
<1>3. cursor \in Nat /\ start \in Nat /\ EndOf \in Nat /\ cursor \in start..EndOf
  BY ReadyIs
<1>4. cursor + 2 < EndOf /\ C(cursor) = "/" /\ C(cursor + 1) = "/"
  BY <1>3, NextTwo DEF IsLineComment
<1>5. /\ cursor \in start..(EndOf - 1) /\ Chars[cursor] = "/" /\ Chars[cursor + 1] = "/"
      /\ C(EndOf) = Nul /\ \A i \in start..EndOf : Chars[i] = C(i)
      /\ Reading(Chars, start, EndOf, Mode) /\ Fresh(Chars, EndOf, Mode, cursor)
  BY <1>4, ReadyIs DEF Nul
<1>6. PICK i \in cursor..EndOf : i \in Stop /\ \A k \in cursor..(i - 1) : k \notin Stop
  <2>1. EndOf \in cursor..EndOf
    BY <1>3
  <2>2. EndOf \in Stop
    BY <1>5, <2>1
  <2> HIDE DEF Stop
  <2> QED  BY <1>3, <2>1, <2>2, FirstPlace
<1>7. C(i) \in {Nl, Nul} /\ \A k \in cursor..(i - 1) : C(k) \notin {Nl, Nul}
  <2>1. \A k \in cursor..(i - 1) : k \in cursor..EndOf
    BY <1>3
  <2> QED  BY <1>6, <2>1
<1>8. z \in cursor..EndOf /\ C(z) \in {Nl, Nul} /\ \A k \in cursor..(z - 1) : C(k) \notin {Nl, Nul}
  BY <1>7 DEF FirstFrom, LineStop
<1> HIDE DEF z, Stop
<1>9. /\ Chars[z] = C(z) /\ \A k \in cursor..(z - 1) : Chars[k] \notin {Nl, Nul}
  <2>1. z \in start..EndOf /\ \A k \in cursor..(z - 1) : k \in start..EndOf
    BY <1>3, <1>8
  <2> QED  BY <1>5, <1>8, <2>1
<1> QED  BY <1>3, <1>4, <1>5, <1>8, <1>9 DEF z

\* LineComment: the line end is passed with it, and is not part of it.
LEMMA LineCommentStep ==
  ASSUME Ready, LineComment
  PROVE  At(cursor', bol', ws', toks')
<1> DEFINE z == LineStop
<1>1. IsLineComment /\ ws' = TRUE /\ toks' = toks
  BY DEF LineComment
<1>2. /\ C(z) = Nl => cursor' = z + 1 /\ bol' = TRUE
      /\ C(z) # Nl => cursor' = z /\ bol' = bol
  BY DEF LineComment, LineStop
<1>3. cursor \in Nat /\ start \in Nat /\ EndOf \in Nat
  BY <1>1, LineStopIs
<1>8. z \in cursor..EndOf /\ C(z) \in {Nl, Nul}
  BY <1>1, LineStopIs
<1>9. Chars[z] = C(z)
  BY <1>1, LineStopIs
<1>10. /\ z > cursor + 1
       /\ \A k \in cursor..(z - 1) : ~IsCode(Chars, EndOf, Mode, k)
       /\ Chars[z] = Nl => /\ z < EndOf /\ Fresh(Chars, EndOf, Mode, z + 1)
                           /\ ~IsCode(Chars, EndOf, Mode, z)
                           /\ Breaks(Chars, Mode, cursor, z + 1)
       /\ Chars[z] # Nl => z = EndOf /\ ~Breaks(Chars, Mode, cursor, z)
  <2>1. Chars[z] \in {Nl, Nul}
    BY <1>8, <1>9
  <2> QED  BY <1>1, <1>8, <2>1, LineStopIs, LineRemark
<1> HIDE DEF z
<1>11. Lexer(Chars, start, EndOf, Mode, cursor, bol, ws, toks)
  BY DEF Ready, At
<1>12. CASE C(z) = Nl
  <2> DEFINE q == z + 1
  <2>1. q \in (cursor + 1)..EndOf
    BY <1>3, <1>8, <1>9, <1>10, <1>12
  <2>2. \A k \in cursor..(q - 1) : ~IsCode(Chars, EndOf, Mode, k)
    <3>1. \A k \in cursor..(q - 1) : k = z \/ k \in cursor..(z - 1)
      BY <1>3, <1>8
    <3> QED  BY <1>9, <1>10, <1>12, <3>1
  <2>3. Fresh(Chars, EndOf, Mode, q) /\ Breaks(Chars, Mode, cursor, q) /\ cursor' = q /\ bol' = TRUE
    BY <1>2, <1>9, <1>10, <1>12, Zenon
  <2> HIDE DEF q
  <2>4. At(q, TRUE, TRUE, toks)
    BY <1>3, <1>11, <2>1, <2>2, <2>3, Skipped DEF At
  <2> QED  BY <1>1, <2>3, <2>4
<1>13. CASE C(z) # Nl
  <2>1. z = EndOf /\ ~Breaks(Chars, Mode, cursor, z) /\ cursor' = z /\ bol' = bol
    BY <1>2, <1>9, <1>10, <1>13, Zenon
  <2>2. z \in (cursor + 1)..EndOf
    BY <1>3, <1>8, <1>10
  <2>3. Fresh(Chars, EndOf, Mode, z)
    BY <1>3, <2>1 DEF Fresh
  <2>4. At(z, bol, TRUE, toks)
    BY <1>3, <1>10, <1>11, <2>1, <2>2, <2>3, Skipped DEF At
  <2> QED  BY <1>1, <2>1, <2>4
<1> QED  BY <1>12, <1>13

\* A /* comment ends at the first */ that next_eq finds, or with the text.
LEMMA BlockEndIs ==
  ASSUME Ready, IsBlockComment
  PROVE  /\ cursor \in Nat /\ start \in Nat /\ EndOf \in Nat /\ cursor \in start..EndOf
         /\ cursor + 2 < EndOf
         /\ cursor \in start..(EndOf - 1) /\ Chars[cursor] = "/" /\ Chars[cursor + 1] = "*"
         /\ Chars[cursor + 2] # "/" /\ \A i \in start..EndOf : Chars[i] = C(i)
         /\ Reading(Chars, start, EndOf, Mode) /\ Fresh(Chars, EndOf, Mode, cursor)
         /\ BlockEnd \in cursor..EndOf /\ Chars[BlockEnd] = C(BlockEnd) /\ BlockEnd \in Nat
         /\ Chars[BlockEnd] = Nul \/ (/\ BlockEnd + 2 < EndOf
                                      /\ Chars[BlockEnd] = "*" /\ Chars[BlockEnd + 1] = "/")
         /\ \A k \in cursor..(BlockEnd - 1) :
              ~(k + 2 < EndOf /\ Chars[k] = "*" /\ Chars[k + 1] = "/")
<1> DEFINE Ends2(i) == i + 2 < EndOf /\ C(i) = "*" /\ C(i + 1) = "/"
           Stop == {i \in cursor..EndOf : C(i) = Nul \/ Ends2(i)}
           z == BlockEnd
<1>3. cursor \in Nat /\ start \in Nat /\ EndOf \in Nat /\ cursor \in start..EndOf
  BY ReadyIs
<1>4. cursor + 2 < EndOf /\ C(cursor) = "/" /\ C(cursor + 1) = "*"
  BY <1>3, NextTwo DEF IsBlockComment
<1>5. /\ cursor \in start..(EndOf - 1) /\ Chars[cursor] = "/" /\ Chars[cursor + 1] = "*"
      /\ C(EndOf) = Nul /\ \A i \in start..EndOf : Chars[i] = C(i)
      /\ Reading(Chars, start, EndOf, Mode) /\ Fresh(Chars, EndOf, Mode, cursor)
  BY <1>4, ReadyIs DEF Nul
<1>6. Chars[cursor + 2] # "/"
  <2>1. cursor \in start..(EndOf - 3) /\ cursor + 2 \in start..EndOf
    BY <1>3, <1>4
  <2> QED  BY <1>4, <1>5, <2>1, RegularIs
<1>7. PICK i \in cursor..EndOf : i \in Stop /\ \A k \in cursor..(i - 1) : k \notin Stop
  <2>1. EndOf \in cursor..EndOf
    BY <1>3
  <2>2. EndOf \in Stop
    BY <1>5, <2>1
  <2> HIDE DEF Stop
  <2> QED  BY <1>3, <2>1, <2>2, FirstPlace
<1>8. (C(i) = Nul \/ Ends2(i)) /\ \A k \in cursor..(i - 1) : ~(C(k) = Nul \/ Ends2(k))
  <2>1. \A k \in cursor..(i - 1) : k \in cursor..EndOf
    BY <1>3
  <2> QED  BY <1>7, <2>1
<1>9. \A k \in cursor..EndOf : NextEq(k, <<"*", "/">>) <=> Ends2(k)
  <2>1. \A k \in cursor..EndOf : k \in Nat
    BY <1>3
  <2> QED  BY <2>1, NextTwo
<1>10. /\ z \in cursor..EndOf /\ (C(z) = Nul \/ Ends2(z))
       /\ \A k \in cursor..(z - 1) : ~(C(k) = Nul \/ Ends2(k))
  <2> DEFINE Test(k) == C(k) = Nul \/ NextEq(k, <<"*", "/">>)
  <2>1. \A k \in cursor..EndOf : Test(k) <=> (C(k) = Nul \/ Ends2(k))
    BY <1>9
  <2>2. z = CHOOSE j \in cursor..EndOf : Test(j) /\ \A k \in cursor..(j - 1) : ~Test(k)
    BY DEF BlockEnd, FirstFrom
  <2> HIDE DEF Test, z, Ends2, Stop
  <2>3. \A j \in cursor..EndOf : \A k \in cursor..(j - 1) : k \in cursor..EndOf
    BY <1>3
  <2>4. Test(i) /\ \A k \in cursor..(i - 1) : ~Test(k)
    BY <1>8, <2>1, <2>3
  <2>5. z \in cursor..EndOf /\ Test(z) /\ \A k \in cursor..(z - 1) : ~Test(k)
    BY <2>2, <2>4
  <2> QED  BY <2>1, <2>3, <2>5
<1> HIDE DEF z, Stop
<1>11. Chars[z] = C(z) /\ z \in Nat /\ (z < EndOf => Chars[z + 1] = C(z + 1))
  <2>1. z \in start..EndOf /\ z \in Nat /\ (z < EndOf => z + 1 \in start..EndOf)
    BY <1>3, <1>10
  <2> QED  BY <1>5, <2>1
<1>12. \A k \in cursor..(z - 1) : ~(k + 2 < EndOf /\ Chars[k] = "*" /\ Chars[k + 1] = "/")
  <2>1. \A k \in cursor..(z - 1) : k \in start..EndOf /\ k + 1 \in start..EndOf
    BY <1>3, <1>10
  <2> QED  BY <1>5, <1>10, <2>1
<1>13. Chars[z] = Nul \/ (z + 2 < EndOf /\ Chars[z] = "*" /\ Chars[z + 1] = "/")
  <2>1. z + 2 < EndOf => z < EndOf
    BY <1>3, <1>11
  <2> QED  BY <1>10, <1>11, <2>1
<1> HIDE DEF Ends2
<1> QED  BY <1>3, <1>4, <1>5, <1>6, <1>10, <1>11, <1>12, <1>13 DEF z

\* BlockComment: none of its characters is code, and its line ends begin no line.
LEMMA BlockCommentStep ==
  ASSUME Ready, BlockComment
  PROVE  At(cursor', bol', ws', toks')
<1> DEFINE z == BlockEnd
<1>1. IsBlockComment /\ ws' = TRUE /\ toks' = toks /\ bol' = bol
  BY DEF BlockComment
<1>2. cursor' = IF C(z) = Nul THEN z ELSE z + 2
  BY DEF BlockComment
<1>3. cursor \in Nat /\ start \in Nat /\ EndOf \in Nat
  BY <1>1, BlockEndIs
<1>4. cursor + 2 < EndOf
  BY <1>1, BlockEndIs
<1>11. Chars[z] = C(z) /\ z \in Nat
  BY <1>1, BlockEndIs
<1>14. /\ z > cursor + 1
       /\ Chars[z] = Nul => /\ z = EndOf /\ \A k \in cursor..(EndOf - 1) : ~IsCode(Chars, EndOf, Mode, k)
                            /\ ~Breaks(Chars, Mode, cursor, EndOf)
       /\ Chars[z] # Nul => /\ z + 2 <= EndOf /\ Fresh(Chars, EndOf, Mode, z + 2)
                            /\ \A k \in cursor..(z + 2 - 1) : ~IsCode(Chars, EndOf, Mode, k)
                            /\ ~Breaks(Chars, Mode, cursor, z + 2)
  BY <1>1, BlockEndIs, BlockRemark
<1> HIDE DEF z
<1>15. Lexer(Chars, start, EndOf, Mode, cursor, bol, ws, toks)
  BY DEF Ready, At
<1>16. CASE C(z) = Nul
  <2> DEFINE q == EndOf
  <2>1. /\ cursor' = EndOf /\ \A k \in cursor..(EndOf - 1) : ~IsCode(Chars, EndOf, Mode, k)
        /\ ~Breaks(Chars, Mode, cursor, EndOf)
    BY <1>2, <1>11, <1>14, <1>16
  <2>2. EndOf \in (cursor + 1)..EndOf
    BY <1>3, <1>4
  <2>3. Fresh(Chars, EndOf, Mode, EndOf)
    BY <1>3 DEF Fresh
  <2>4. At(EndOf, bol, TRUE, toks)
    BY <1>3, <1>15, <2>1, <2>2, <2>3, Skipped DEF At
  <2> QED  BY <1>1, <2>1, <2>4
<1>17. CASE C(z) # Nul
  <2> DEFINE q == z + 2
  <2>1. /\ cursor' = q /\ \A k \in cursor..(q - 1) : ~IsCode(Chars, EndOf, Mode, k)
        /\ ~Breaks(Chars, Mode, cursor, q) /\ Fresh(Chars, EndOf, Mode, q)
    <3>1. cursor' = q
      BY <1>2, <1>17
    <3>2. Chars[z] # Nul
      BY <1>11, <1>17
    <3>3. \A k \in cursor..(q - 1) : k \in cursor..(z + 2 - 1)
      BY <1>3, <1>11
    <3> QED  BY <1>14, <3>1, <3>2, <3>3, Zenon
  <2>2. q \in (cursor + 1)..EndOf
    BY <1>3, <1>11, <1>14, <1>17
  <2> HIDE DEF q
  <2>3. At(q, bol, TRUE, toks)
    BY <1>3, <1>15, <2>1, <2>2, Skipped DEF At
  <2> QED  BY <1>1, <2>1, <2>3
<1> QED  BY <1>16, <1>17

\* Backslashes are counted in the text that is read.
LEMMA EscapedIs ==
  ASSUME Ready, NEW q \in start..EndOf, NEW i \in start..EndOf
  PROVE  Escaped(q, i) <=> Hides(Chars, q, i)
<1>1. start \in Nat /\ EndOf \in Nat /\ \A j \in start..EndOf : Chars[j] = C(j)
  BY ReadyIs
<1>2. \A k \in q..(i - 1) : \A j \in k..(i - 1) : j \in start..EndOf
  BY <1>1
<1>3. {k \in q..(i - 1) : \A j \in k..(i - 1) : C(j) = "\\"} = Behind(Chars, q, i)
  <2>1. \A k \in q..(i - 1) : (\A j \in k..(i - 1) : C(j) = "\\")
                                <=> (\A j \in k..(i - 1) : Chars[j] = "\\")
    BY <1>1, <1>2
  <2> QED  BY <2>1 DEF Behind
<1> QED  BY <1>3 DEF Escaped, Hides

\* Where the quote of a string is.
LEMMA QuoteIs ==
  ASSUME Ready, IsString
  PROVE  /\ cursor \in start..(EndOf - 1) /\ QuoteAt \in cursor..(EndOf - 1)
         /\ C(QuoteAt) \in Quotes
         /\ QuoteAt # cursor => /\ C(cursor) \in Words \ Digits
                                /\ \A i \in (cursor + 1)..(QuoteAt - 1) : C(i) \in Words
<1>1. /\ start \in Nat /\ EndOf \in Nat /\ cursor \in Nat /\ cursor \in start..EndOf /\ C(EndOf) = Nul
  BY ReadyIs
<1>2. C(QuoteAt) \in Quotes /\ C(QuoteAt) # Nul
  BY ClassesAre DEF IsString
<1>3. "u" # Nul /\ "U" # Nul /\ "L" # Nul /\ "8" # Nul
  BY DEF Nul
<1>4. {"u", "U", "L"} \subseteq Words \ Digits /\ "8" \in Words
  BY ClassesAssumption DEF Words
<1>5. CASE C(cursor) = "u" /\ C(cursor + 1) = "8"
  <2>1. QuoteAt = cursor + 2
    BY <1>5 DEF QuoteAt
  <2>2. cursor # EndOf /\ cursor + 1 # EndOf
    BY <1>1, <1>3, <1>5
  <2>3. cursor + 2 # EndOf
    BY <1>1, <1>2, <2>1
  <2>4. \A i \in (cursor + 1)..(QuoteAt - 1) : i = cursor + 1
    BY <1>1, <2>1
  <2> QED  BY <1>1, <1>2, <1>4, <1>5, <2>1, <2>2, <2>3, <2>4
<1>6. CASE ~(C(cursor) = "u" /\ C(cursor + 1) = "8") /\ C(cursor) \in {"u", "U", "L"}
  <2>1. QuoteAt = cursor + 1
    BY <1>6 DEF QuoteAt
  <2>2. cursor # EndOf
    BY <1>1, <1>3, <1>6
  <2>3. cursor + 1 # EndOf
    BY <1>1, <1>2, <2>1
  <2>4. \A i \in (cursor + 1)..(QuoteAt - 1) : FALSE
    BY <1>1, <2>1
  <2> QED  BY <1>1, <1>2, <1>4, <1>6, <2>1, <2>2, <2>3, <2>4
<1>7. CASE C(cursor) \notin {"u", "U", "L"}
  <2>1. QuoteAt = cursor
    BY <1>1, <1>7 DEF QuoteAt
  <2>2. cursor # EndOf
    BY <1>1, <1>2, <2>1
  <2> QED  BY <1>1, <1>2, <2>1, <2>2
<1> QED  BY <1>5, <1>6, <1>7

\* String: it ends where the reader leaves it.
LEMMA StringStep ==
  ASSUME Ready, String
  PROVE  At(cursor', bol', ws', toks')
<1> DEFINE q == QuoteAt
           z == FirstFrom(q + 1, LAMBDA i : C(i) \in {C(q), Nl} /\ ~Escaped(q + 1, i))
<1>1. IsString /\ Token("str", z + 1)
  BY DEF String
<1>2. /\ cursor \in start..(EndOf - 1) /\ q \in cursor..(EndOf - 1)
      /\ C(q) \in Quotes
      /\ q # cursor => /\ C(cursor) \in Words \ Digits
                       /\ \A i \in (cursor + 1)..(q - 1) : C(i) \in Words
  BY <1>1, QuoteIs
<1> DEFINE Test(i) == C(i) \in {C(q), Nl} /\ ~Escaped(q + 1, i)
<1>3. z = CHOOSE i \in (q + 1)..EndOf : Test(i) /\ \A k \in (q + 1)..(i - 1) : ~Test(k)
  BY DEF FirstFrom
<1> HIDE DEF q, z
<1>4. /\ start \in Nat /\ EndOf \in Nat /\ cursor \in Nat /\ \A i \in start..EndOf : Chars[i] = C(i)
      /\ Reading(Chars, start, EndOf, Mode) /\ Fresh(Chars, EndOf, Mode, cursor)
  BY ReadyIs
<1>5. /\ q \in Nat /\ q \in start..EndOf /\ q + 1 \in start..EndOf /\ q + 1 \in Nat
      /\ start <= q + 1 /\ q + 1 <= EndOf /\ cursor \in start..EndOf
      /\ \A i \in (cursor + 1)..(q - 1) : i \in start..EndOf
  BY <1>2, <1>4
<1>6. /\ Chars[q] = C(q) /\ Chars[q] \in Quotes
      /\ q # cursor => /\ Chars[cursor] \in Words \ Digits
                       /\ \A i \in (cursor + 1)..(q - 1) : Chars[i] \in Words
  BY <1>2, <1>4, <1>5
<1>7. ASSUME NEW i \in (q + 1)..EndOf PROVE Test(i) <=> Closes(Chars, q + 1, Chars[q], i)
  <2>1. i \in start..EndOf
    BY <1>4, <1>5
  <2>2. Escaped(q + 1, i) <=> Hides(Chars, q + 1, i)
    BY <1>5, <2>1, EscapedIs
  <2> QED  BY <1>4, <1>6, <2>1, <2>2 DEF Closes
<1>8. Mode[q + 1] = StrMode(Chars[q])
  BY <1>2, <1>4, <1>6, StringOpens
<1>9. Mode[EndOf] \notin {"str", "stresc", "char", "charesc"}
  BY RegularIs
<1>10. PICK i \in (q + 1)..EndOf : /\ Closes(Chars, q + 1, Chars[q], i)
                                   /\ \A k \in (q + 1)..(i - 1) : ~Closes(Chars, q + 1, Chars[q], k)
  BY <1>4, <1>5, <1>6, <1>8, <1>9, StringCloses
<1>11. \A i1 \in (q + 1)..EndOf : \A k \in (q + 1)..(i1 - 1) : k \in (q + 1)..EndOf
  BY <1>4, <1>5
<1>12. /\ z \in (q + 1)..EndOf /\ Closes(Chars, q + 1, Chars[q], z)
       /\ \A k \in (q + 1)..(z - 1) : ~Closes(Chars, q + 1, Chars[q], k)
  <2> HIDE DEF Test
  <2>1. Test(i) /\ \A k \in (q + 1)..(i - 1) : ~Test(k)
    BY <1>7, <1>10, <1>11
  <2>2. z \in (q + 1)..EndOf /\ Test(z) /\ \A k \in (q + 1)..(z - 1) : ~Test(k)
    BY <1>3, <2>1
  <2> QED  BY <1>7, <1>11, <2>2
<1> HIDE DEF Test
<1>13. /\ z < EndOf /\ Fresh(Chars, EndOf, Mode, z + 1)
       /\ \A j \in cursor..z : IsCode(Chars, EndOf, Mode, j)
       /\ Solid(Chars, start, EndOf, cursor, z + 1)
  BY <1>2, <1>4, <1>6, <1>12, StringStretch
<1>14. Chars[cursor] \notin Spaces
  <2>1. cursor = q => Chars[cursor] \in Quotes
    BY <1>6
  <2> QED  BY <1>6, <2>1, ClassesAre
<1> DEFINE t == z + 1
<1>15. t \in (cursor + 1)..EndOf /\ t # cursor + 1
  BY <1>2, <1>4, <1>12, <1>13
<1>16. Token("str", t) /\ Fresh(Chars, EndOf, Mode, t) /\ Solid(Chars, start, EndOf, cursor, t)
  BY <1>1, <1>13
<1>17. \A j \in cursor..(t - 1) : IsCode(Chars, EndOf, Mode, j)
  <2>1. \A j \in cursor..(t - 1) : j \in cursor..z
    BY <1>2, <1>4, <1>12
  <2> QED  BY <1>13, <2>1
<1> HIDE DEF t
<1> QED  BY <1>14, <1>15, <1>16, <1>17, TokenTaken

\* The lexer begins with no token.
LEMMA LexerBegins ==
  ASSUME NEW s, NEW st, NEW e, NEW m, Reading(s, st, e, m)
  PROVE  Lexer(s, st, e, m, st, TRUE, FALSE, <<>>)
<1>1. st \in Nat /\ e \in Nat /\ st <= e /\ m[st] = "code"
  BY DEF Reading
<1>2. Len(<<>>) = 0 /\ <<>> \in Seq({}) /\ \A k \in 1..0 : FALSE
  OBVIOUS
<1>3. Fresh(s, e, m, st)
  BY <1>1, FreshIf
<1>4. EndAfter(st, <<>>, 0) = st
  BY DEF EndAfter
<1>5. st \in st..e /\ st \in st..st /\ ~(st < st) /\ \A i \in st..(st - 1) : FALSE
  BY <1>1
<1>6. \E S : <<>> \in Seq(S)
  BY <1>2
<1> QED  BY <1>2, <1>3, <1>4, <1>5, <1>6 DEF Lexer

\* What the reader sees depends on the buffer and the place where the text begins.
CharsOf(b) == [i \in DOMAIN b |-> b[i].c]
EndIn(b, st) == CHOOSE i \in DOMAIN b : b[i].c = Nul /\ \A k \in st..(i - 1) : b[k].c # Nul
ModeIn(b, st, e) ==
  LET m[i \in st..e] == IF i = st THEN "code" ELSE Turn(m[i - 1], b[i - 1].c)
  IN  m
RegularIn(b, st, e, m) ==
  /\ ~\E i \in st..(e - 3) : b[i].c = "/" /\ b[i + 1].c = "*" /\ b[i + 2].c = "/"
  /\ e > st => m[e - 1] # "slash" \/ m[e] \notin {"line", "block"}
  /\ m[e] \notin {"str", "stresc", "char", "charesc"}

\* The reader as it is defined, and as it depends on these.
LEMMA ReaderSees ==
  /\ Chars = CharsOf(buf) /\ EndOf = EndIn(buf, start)
  /\ Mode = ModeIn(buf, start, EndOf)
  /\ Regular <=> RegularIn(buf, start, EndOf, Mode)
<1>1. Chars = CharsOf(buf)
  BY DEF Chars, CharsOf, C
<1>2. EndOf = EndIn(buf, start)
  BY DEF EndOf, EndIn, C
<1>3. Mode = ModeIn(buf, start, EndOf)
  BY DEF Mode, ModeIn, C
<1>4. Regular <=> RegularIn(buf, start, EndOf, Mode)
  BY DEF Regular, RegularIn, C
<1> QED  BY <1>1, <1>2, <1>3, <1>4

\* As long as the text stays, the reader sees the same.
LEMMA SeesSame ==
  ASSUME UNCHANGED textVars
  PROVE  /\ Chars' = Chars /\ EndOf' = EndOf /\ Mode' = Mode /\ start' = start
         /\ Regular' <=> Regular
<1>1. buf' = buf /\ start' = start
  BY DEF textVars
<1>2. Chars' = CharsOf(buf') /\ EndOf' = EndIn(buf', start')
  BY DEF Chars, CharsOf, EndOf, EndIn, C
<1>3. Mode' = ModeIn(buf', start', EndOf')
  BY DEF Mode, ModeIn, C
<1>4. Regular' <=> RegularIn(buf', start', EndOf', Mode')
  BY DEF Regular, RegularIn, C
<1> QED  BY <1>1, <1>2, <1>3, <1>4, ReaderSees

-----------------------------------------------------------------------------
(* The invariant of the lexer.                                              *)

Waiting == cursor = start /\ line = 1 /\ bol = TRUE /\ ws = FALSE /\ toks = <<>>
Lexes   == Waiting \/ (phase = "text" /\ (Regular => At(cursor, bol, ws, toks)))

\* The next step finds the lexer between two tokens.
LEMMA LexesReady ==
  ASSUME Rewriting, Opened, Regular, Lexes
  PROVE  Ready
<1>1. CASE Waiting
  <2>1. Reading(Chars, start, EndOf, Mode)
    BY TextIsRead
  <2>2. At(start, TRUE, FALSE, <<>>)
    BY <2>1, LexerBegins DEF At
  <2> QED  BY <1>1, <2>2 DEF Waiting, Ready
<1>2. CASE phase = "text" /\ (Regular => At(cursor, bol, ws, toks))
  BY <1>2 DEF Ready
<1> QED  BY <1>1, <1>2 DEF Lexes

\* The loops run before the lexer, and do not move the beginning of the text.
LEMMA LoopsBefore ==
  ASSUME TextNext
  PROVE  phase # "text" /\ start' = start
<1>1. CASE NewlineCrLf \/ NewlineCr \/ NewlineOther \/ NewlinesEnd
  BY <1>1 DEF NewlineCrLf, NewlineCr, NewlineOther, NewlinesEnd, In, AtEnd, Put, Copy, NextPhase
<1>2. CASE TrigraphRead \/ TrigraphNone \/ TrigraphOther \/ TrigraphsEnd
  BY <1>2 DEF TrigraphRead, TrigraphNone, TrigraphOther, TrigraphsEnd, In, AtEnd, Put, Copy, NextPhase
<1>3. CASE Splice \/ SpliceLineEnd \/ SpliceOther \/ SplicesEnd
  BY <1>3 DEF Splice, SpliceLineEnd, SpliceOther, SplicesEnd, In, AtEnd, Copy
<1> QED  BY <1>1, <1>2, <1>3 DEF TextNext

\* Every step of the lexer leaves it between two tokens, with what was read accounted for.
LEMMA LexesStep ==
  ASSUME Rewriting, Opened, Lexes, [Next]_vars
  PROVE  Lexes'
<1>1. CASE TextNext /\ UNCHANGED lexVars
  <2>1. phase # "text" /\ start' = start
    BY <1>1, LoopsBefore
  <2>2. Waiting
    BY <2>1 DEF Lexes
  <2>3. Waiting'
    BY <1>1, <2>1, <2>2 DEF Waiting, lexVars
  <2> QED  BY <2>3 DEF Lexes
<1>2. CASE Space \/ LineComment \/ BlockComment \/ Other \/ String \/ Number \/ Ident \/ Punct
  <2>1. phase = "text" /\ UNCHANGED textVars
    BY <1>2 DEF Space, LineComment, BlockComment, Other, String, Number, Ident, Punct, Token, Lexing
  <2>2. phase' = "text"
    BY <2>1 DEF textVars
  <2>3. ASSUME Regular' PROVE At(cursor, bol, ws, toks)'
    <3>1. Regular
      BY <2>1, <2>3, SeesSame
    <3>2. Ready
      BY <3>1, LexesReady
    <3>3. At(cursor', bol', ws', toks')
      BY <1>2, <3>2, SpaceStep, LineCommentStep, BlockCommentStep, OtherStep, StringStep,
         NumberStep, IdentStep, PunctStep
    <3>4. Lexer(Chars, start, EndOf, Mode, cursor', bol', ws', toks')
      BY <3>3 DEF At
    <3>5. Lexer(Chars', start', EndOf', Mode', cursor', bol', ws', toks')
      BY <2>1, <3>4, SeesSame
    <3> QED  BY <3>5 DEF At
  <2> QED  BY <2>2, <2>3 DEF Lexes
<1>3. CASE UNCHANGED vars
  <2>1. UNCHANGED textVars /\ UNCHANGED lexVars
    BY <1>3 DEF vars
  <2>2. phase' = phase /\ cursor' = cursor /\ line' = line /\ bol' = bol /\ ws' = ws /\ toks' = toks
    BY <2>1 DEF textVars, lexVars
  <2>3. Waiting => Waiting'
    BY <2>1, <2>2, SeesSame DEF Waiting
  <2>4. At(cursor, bol, ws, toks) => At(cursor, bol, ws, toks)'
    BY <2>1, <2>2, SeesSame DEF At
  <2> QED  BY <2>1, <2>2, <2>3, <2>4, SeesSame DEF Lexes
<1> QED  BY <1>1, <1>2, <1>3 DEF Next

\* At the end of the text the lexer has read all of it.
LEMMA LexedAll ==
  ASSUME Rewriting, Opened, Lexes, Lexed
  PROVE  /\ Ready /\ cursor = EndOf
         /\ Lexer(Chars, start, EndOf, Mode, EndOf, bol, ws, toks)
<1>1. Ready /\ C(cursor) = Nul
  BY LexesReady DEF Lexed, AtEof
<1>2. cursor \in start..EndOf /\ start \in Nat /\ EndOf \in Nat /\ \A i \in start..(EndOf - 1) : C(i) # Nul
  BY <1>1, ReadyIs
<1>3. cursor = EndOf
  BY <1>1, <1>2
<1> QED  BY <1>1, <1>3 DEF Ready, At

\* With the whole text accounted for, the tokens are the code.
LEMMA LexesCode ==
  ASSUME Rewriting, Opened, Lexes
  PROVE  TokensAreTheCode
<1>1. SUFFICES ASSUME Lexed PROVE TokensAreTheCode
  BY DEF TokensAreTheCode
<1>2. /\ Ready /\ Lexer(Chars, start, EndOf, Mode, EndOf, bol, ws, toks)
  BY <1>1, LexedAll
<1>3. start \in Nat /\ EndOf \in Nat /\ \A i \in start..EndOf : Chars[i] = C(i)
  BY <1>2, ReadyIs
<1>4. DOMAIN toks = 1..Len(toks) /\ Len(toks) \in Nat
  <2>1. PICK S : toks \in Seq(S)
    BY <1>2 DEF Lexer
  <2> QED  BY <2>1
<1>5. ASSUME NEW k \in DOMAIN toks
      PROVE  LET before == IF k = 1 THEN start ELSE toks[k - 1].next IN
             /\ before <= toks[k].from
             /\ toks[k].ws <=> before < toks[k].from
  <2>1. (IF k = 1 THEN start ELSE toks[k - 1].next) = EndAfter(start, toks, k - 1)
    BY <1>4 DEF EndAfter
  <2>2. Fits(Chars, start, EndOf, EndAfter(start, toks, k - 1), toks[k])
    BY <1>2, <1>4 DEF Lexer
  <2> QED  BY <2>1, <2>2 DEF Fits
<1>6. ASSUME NEW i \in start..(EndOf - 1)
      PROVE  (\E k \in DOMAIN toks : i \in toks[k].from..(toks[k].next - 1))
               <=> /\ ~InComment(Mode, i)
                   /\ ~(C(i) \in Spaces /\ Mode[i] \in Open)
  <2>1. (\E k \in 1..Len(toks) : i \in toks[k].from..(toks[k].next - 1))
          <=> IsCode(Chars, EndOf, Mode, i)
    BY <1>2 DEF Lexer
  <2>2. Chars[i] = C(i)
    BY <1>3
  <2>3. InComment(Mode, i) <=> InRemark(Mode, EndOf, i)
    BY DEF InComment, InRemark
  <2> QED  BY <1>4, <2>1, <2>2, <2>3 DEF IsCode
<1>7. ASSUME NEW k \in DOMAIN toks, NEW p \in DOMAIN PunctStrs,
             PunctStrs[p] = <<C(toks[k].from), C(toks[k].from + 1)>>,
             k + 1 \in DOMAIN toks, toks[k].next = toks[k].from + 1,
             toks[k + 1].next = toks[k].from + 2
      PROVE  toks[k].from + 2 = EndOf
  <2>1. /\ Fits(Chars, start, EndOf, EndAfter(start, toks, k - 1), toks[k])
        /\ EndAfter(start, toks, k - 1) \in start..EndOf
        /\ toks[k].next <= EndOf /\ toks[k + 1].next <= EndOf
    BY <1>2, <1>4, <1>7 DEF Lexer
  <2>2. toks[k].from \in Nat /\ toks[k].from >= start /\ Alone(Chars, EndOf, toks[k].from)
    BY <1>3, <1>7, <2>1 DEF Fits
  <2>3. toks[k].from \in start..EndOf /\ toks[k].from + 1 \in start..EndOf
    BY <1>3, <1>7, <2>1, <2>2
  <2>4. toks[k].from + 2 >= EndOf
    BY <1>3, <1>7, <2>2, <2>3 DEF Alone
  <2> QED  BY <1>3, <1>7, <2>1, <2>2, <2>4
<1> QED  BY <1>5, <1>6, <1>7 DEF TokensAreTheCode

\* And those that start a line are marked.
LEMMA LexesLines ==
  ASSUME Rewriting, Opened, Lexes
  PROVE  LineStarts
<1>1. SUFFICES ASSUME Lexed PROVE LineStarts
  BY DEF LineStarts
<1>2. /\ Ready /\ Lexer(Chars, start, EndOf, Mode, EndOf, bol, ws, toks)
  BY <1>1, LexedAll
<1>3. start \in Nat /\ EndOf \in Nat /\ \A i \in start..EndOf : Chars[i] = C(i)
  BY <1>2, ReadyIs
<1>4. DOMAIN toks = 1..Len(toks) /\ Len(toks) \in Nat
  <2>1. PICK S : toks \in Seq(S)
    BY <1>2 DEF Lexer
  <2> QED  BY <2>1
<1>5. ASSUME NEW k \in DOMAIN toks
      PROVE  toks[k].bol <=> k = 1 \/ \E i \in toks[k - 1].next..(toks[k].from - 1) :
                                         C(i) = Nl /\ Mode[i] \notin {"block", "star"}
  <2>1. /\ toks[k].bol <=> k = 1 \/ Breaks(Chars, Mode, EndAfter(start, toks, k - 1), toks[k].from)
        /\ EndAfter(start, toks, k - 1) \in start..EndOf /\ toks[k].next <= EndOf
        /\ Fits(Chars, start, EndOf, EndAfter(start, toks, k - 1), toks[k])
    BY <1>2, <1>4 DEF Lexer
  <2>2. k # 1 => EndAfter(start, toks, k - 1) = toks[k - 1].next
    BY <1>4 DEF EndAfter
  <2>3. \A i \in EndAfter(start, toks, k - 1)..(toks[k].from - 1) : i \in start..EndOf
    BY <1>3, <2>1 DEF Fits
  <2> QED  BY <1>3, <2>1, <2>2, <2>3 DEF Breaks
<1> QED  BY <1>5 DEF LineStarts

LexInv == Translated /\ Lexes

\* LexInv is an inductive invariant.
LEMMA SpecLexInv == Spec => []LexInv
<1>1. LexInit => LexInv
  <2>1. LexInit => Lexes
    BY DEF LexInit, Lexes, Waiting
  <2> QED  BY <2>1, InitTranslated DEF LexInv
<1>2. LexInv /\ [Next]_vars => LexInv'
  <2>1. SUFFICES ASSUME LexInv, [Next]_vars PROVE LexInv'
    OBVIOUS
  <2>2. Translated /\ Lexes /\ Rewriting /\ Opened
    BY <2>1 DEF LexInv, Translated
  <2>3. Translated'
    BY <2>1, <2>2, StepTranslated
  <2>4. Lexes'
    BY <2>1, <2>2, LexesStep
  <2> QED  BY <2>3, <2>4 DEF LexInv
<1> QED  BY <1>1, <1>2, PTL DEF Spec

\* Whatever a regular text holds, its tokens are what a reader of single characters takes
\* for code: TokensAreTheCode holds for every set of texts and every choice of letters,
\* digits and punctuators.
THEOREM LexerTokensAreTheCode == Spec => []TokensAreTheCode
<1>1. LexInv => TokensAreTheCode
  BY LexesCode DEF LexInv, Translated
<1> QED  BY <1>1, SpecLexInv, PTL

\* And exactly the tokens before which a line begins start one, which is what makes a
\* '#' a directive: LineStarts holds for every set of texts.
THEOREM LexerLineStarts == Spec => []LineStarts
<1>1. LexInv => LineStarts
  BY LexesLines DEF LexInv, Translated
<1> QED  BY <1>1, SpecLexInv, PTL

-----------------------------------------------------------------------------
(* Line ends behind backslashes.                                            *)

\* What has been written: a line end behind a backslash is followed by another.
Doubled(b, st, w) ==
  \A k \in st..(w - 2) : b[k].c = "\\" /\ b[k + 1].c = Nl => k + 2 < w /\ b[k + 2].c = Nl

Doubling ==
  /\ phase = "splices" =>
       /\ Doubled(buf, start, write)
       /\ write > start /\ buf[write - 1].c = "\\" /\ n = 0 => C(read) # Nl
  /\ phase = "text" =>
       \A k \in start..(write + n - 2) :
         buf[k].c = "\\" /\ buf[k + 1].c = Nl => k + 2 = write + n \/ buf[k + 2].c = Nl

\* A line end taken out: the next is put back with it.
LEMMA SpliceDoubling ==
  ASSUME Rewriting, Doubling, Splice
  PROVE  Doubling'
<1>1. phase = "splices" /\ phase' = phase /\ buf' = buf /\ write' = write /\ start' = start /\ n' = n + 1
  BY DEF Splice, In
<1>2. n' # 0
  BY <1>1 DEF Rewriting, Shape
<1>3. Doubled(buf, start, write)
  BY <1>1 DEF Doubling
<1> QED  BY <1>1, <1>2, <1>3 DEF Doubling

\* A line end after a backslash is one of several that are put back.
LEMMA LineEndDoubling ==
  ASSUME Rewriting, Doubling, SpliceLineEnd
  PROVE  Doubling'
<1>1. /\ phase = "splices" /\ phase' = phase /\ start' = start /\ n' = 0 /\ write' = write + 1 + n
      /\ C(read) = Nl
  BY DEF SpliceLineEnd, In
<1>2. /\ read \in Nat /\ write \in Nat /\ start \in Nat /\ start <= write /\ n \in Nat
      /\ write + n <= read /\ \A i \in DOMAIN buf : i \in Nat
  BY DEF Rewriting, Shape
<1>3. \A i \in start..read : i \in DOMAIN buf
  BY RewritingInPlace DEF Rewriting, Shape, InPlace
<1>4. /\ \A i \in DOMAIN buf : i < write => buf'[i] = buf[i]
      /\ \A i \in DOMAIN buf : i \in write..(write + n) => buf'[i].c = Nl
  <2>1. \A i \in DOMAIN buf : /\ i < write => i # write /\ i \notin (write + 1)..(write + n)
                              /\ i \in write..(write + n) => i = write \/ i \in (write + 1)..(write + n)
    BY <1>2
  <2>2. buf[read].c = Nl
    BY <1>1 DEF C
  <2> QED  BY <2>1, <2>2 DEF SpliceLineEnd, Cell
<1> DEFINE w == write + 1 + n
           b == buf'
<1>5. \A i \in start..(write - 1) : b[i] = buf[i]
  BY <1>2, <1>3, <1>4
<1>6. \A i \in write..(w - 1) : b[i].c = Nl
  BY <1>2, <1>3, <1>4
<1> HIDE DEF b
<1>7. Doubled(buf, start, write) /\ (write > start /\ buf[write - 1].c = "\\" /\ n = 0 => C(read) # Nl)
  BY <1>1 DEF Doubling
<1>8. ASSUME NEW k \in start..(w - 2), b[k].c = "\\", b[k + 1].c = Nl
      PROVE  k + 2 < w /\ b[k + 2].c = Nl
  <2>0. "\\" # Nl
    BY DEF Nl
  <2>1. k < write
    BY <1>2, <1>6, <1>8, <2>0
  <2>2. k \in start..(write - 1) /\ buf[k].c = "\\"
    BY <1>2, <1>5, <1>8, <2>1
  <2>3. CASE k = write - 1
    <3>1. n # 0
      BY <1>1, <1>2, <1>7, <2>2, <2>3
    <3>2. k + 2 \in write..(w - 1)
      BY <1>2, <2>3, <3>1
    <3> QED  BY <1>2, <1>6, <3>2
  <2>4. CASE k # write - 1
    <3>1. k \in start..(write - 2) /\ k + 1 \in start..(write - 1)
      BY <1>2, <2>2, <2>4
    <3>2. buf[k + 1].c = Nl
      BY <1>5, <1>8, <3>1
    <3>3. k + 2 < write /\ buf[k + 2].c = Nl
      BY <1>7, <2>2, <3>1, <3>2 DEF Doubled
    <3>4. k + 2 \in start..(write - 1)
      BY <1>2, <3>1, <3>3
    <3> QED  BY <1>2, <1>5, <3>3, <3>4
  <2> QED  BY <2>3, <2>4
<1>9. Doubled(b, start, w)
  BY <1>8 DEF Doubled
<1>10. b[w - 1].c = Nl
  <2>1. w - 1 \in write..(w - 1)
    BY <1>2
  <2> QED  BY <1>6, <2>1
<1>11. b[w - 1].c # "\\"
  BY <1>10 DEF Nl
<1>12. buf' = b /\ write' = w
  BY <1>1 DEF b
<1> HIDE DEF w
<1>13. Doubled(buf', start', write') /\ buf'[write' - 1].c # "\\"
  BY <1>1, <1>9, <1>11, <1>12
<1>14. phase' # "text"
  BY <1>1
<1> QED  BY <1>13, <1>14 DEF Doubling

\* A character that is copied is no line end.
LEMMA OtherDoubling ==
  ASSUME Rewriting, Doubling, SpliceOther
  PROVE  Doubling'
<1>1. /\ phase = "splices" /\ phase' = phase /\ start' = start /\ n' = n /\ write' = write + 1
      /\ read' = read + 1 /\ C(read) # Nl /\ C(read) # Nul
      /\ C(read) = "\\" => C(read + 1) # Nl
  BY DEF SpliceOther, In, Copy, IsSplice
<1>2. /\ read \in Nat /\ write \in Nat /\ start \in Nat /\ start <= write /\ n \in Nat
      /\ write + n <= read
  BY DEF Rewriting, Shape
<1>3. \A i \in start..(read + 1) : i \in DOMAIN buf
  <2>1. PICK z \in DOMAIN buf : read <= z /\ C(z) = Nul
    BY DEF Rewriting, EndAhead
  <2>2. z \in Nat /\ read + 1 <= z
    BY <1>1, <1>2, <2>1 DEF Rewriting, Shape
  <2>3. \A i \in start..(read + 1) : i \in start..z
    BY <1>2, <2>2
  <2> QED  BY <2>1, <2>3 DEF Rewriting, Shape
<1>4. buf' = [buf EXCEPT ![write] = buf[read]]
  BY CopyWrites DEF SpliceOther
<1> DEFINE b == buf'
<1>5. /\ \A i \in start..(write - 1) : b[i] = buf[i]
      /\ b[write] = buf[read] /\ b[read + 1] = buf[read + 1]
  <2>1. /\ \A i \in start..(write - 1) : i \in start..(read + 1) /\ i # write
        /\ write \in start..(read + 1) /\ read + 1 \in start..(read + 1) /\ read + 1 # write
    BY <1>2
  <2> QED  BY <1>3, <1>4, <2>1
<1> HIDE DEF b
<1>6. Doubled(buf, start, write)
  BY <1>1 DEF Doubling
<1>7. ASSUME NEW k \in start..(write - 1), b[k].c = "\\", b[k + 1].c = Nl
      PROVE  k + 2 < write + 1 /\ b[k + 2].c = Nl
  <2>1. k + 1 # write
    BY <1>1, <1>2, <1>5, <1>7 DEF C
  <2>2. k \in start..(write - 2) /\ k + 1 \in start..(write - 1)
    BY <1>2, <2>1
  <2>3. buf[k].c = "\\" /\ buf[k + 1].c = Nl
    BY <1>5, <1>7, <2>2
  <2>4. k + 2 < write /\ buf[k + 2].c = Nl
    BY <1>6, <2>2, <2>3 DEF Doubled
  <2>5. k + 2 \in start..(write - 1)
    BY <1>2, <2>2, <2>4
  <2> QED  BY <1>2, <1>5, <2>4, <2>5
<1>8. \A k \in start..((write + 1) - 2) : k \in start..(write - 1)
  BY <1>2
<1>9. Doubled(b, start, write + 1)
  BY <1>7, <1>8 DEF Doubled
<1>10. b[write].c = "\\" => b[read + 1].c # Nl
  BY <1>1, <1>5 DEF C
<1>11. (write + 1) - 1 = write
  BY <1>2
<1>12. Doubled(b, start', write') /\ (b[write' - 1].c = "\\" => b[read'].c # Nl)
  BY <1>1, <1>9, <1>10, <1>11
<1>13. phase' # "text"
  BY <1>1
<1> QED  BY <1>12, <1>13 DEF Doubling, C, b

\* What is put back at the end of the text is followed by the end.
LEMMA EndDoubling ==
  ASSUME Rewriting, Doubling, SplicesEnd
  PROVE  Doubling'
<1>1. /\ phase = "splices" /\ phase' = "text" /\ start' = start /\ n' = n /\ write' = write
      /\ C(read) = Nul
  BY DEF SplicesEnd, AtEnd
<1>2. /\ read \in Nat /\ write \in Nat /\ start \in Nat /\ start <= write /\ n \in Nat
      /\ write + n <= read
  BY DEF Rewriting, Shape
<1>3. \A i \in start..(write + n) : i \in DOMAIN buf
  <2>1. \A i \in start..(write + n) : i \in start..read
    BY <1>2
  <2>2. start \in DOMAIN buf /\ read \in DOMAIN buf
    BY RewritingInPlace DEF InPlace, Rewriting, Shape
  <2> QED  BY <2>1, <2>2 DEF Rewriting, Shape
<1> DEFINE b == buf'
           e == write + n
<1>4. /\ \A i \in start..(write - 1) : b[i] = buf[i]
      /\ \A i \in write..(e - 1) : b[i].c = Nl
  <2>1. /\ \A i \in start..(write - 1) : i \in start..(write + n) /\ i # write + n /\ i \notin write..(write + n - 1)
        /\ \A i \in write..(e - 1) : i \in start..(write + n) /\ i \in write..(write + n - 1)
    BY <1>2
  <2> QED  BY <1>3, <2>1 DEF SplicesEnd, Cell
<1> HIDE DEF b
<1>5. Doubled(buf, start, write)
  BY <1>1 DEF Doubling
<1>6. ASSUME NEW k \in start..(e - 2), b[k].c = "\\", b[k + 1].c = Nl
      PROVE  k + 2 = e \/ b[k + 2].c = Nl
  <2>1. k < write
    BY <1>2, <1>4, <1>6 DEF Nl
  <2>2. CASE k = write - 1 /\ k + 2 # e
    <3>1. k + 2 \in write..(e - 1)
      BY <1>2, <2>2
    <3> QED  BY <1>4, <3>1
  <2>3. CASE k # write - 1
    <3>1. k \in start..(write - 2) /\ k \in start..(write - 1) /\ k + 1 \in start..(write - 1)
      BY <1>2, <2>1, <2>3
    <3>2. k + 2 < write /\ buf[k + 2].c = Nl
      BY <1>4, <1>5, <1>6, <3>1 DEF Doubled
    <3>3. k + 2 \in start..(write - 1)
      BY <1>2, <3>1, <3>2
    <3> QED  BY <1>4, <3>2, <3>3
  <2> QED  BY <2>2, <2>3
<1>7. \A k \in start'..(write' + n' - 2) :
        buf'[k].c = "\\" /\ buf'[k + 1].c = Nl => k + 2 = write' + n' \/ buf'[k + 2].c = Nl
  <2>1. \A k \in start..(write + n - 2) : k \in start..(e - 2)
    BY <1>2
  <2> QED  BY <1>1, <1>6, <2>1 DEF b
<1> QED  BY <1>1, <1>7 DEF Doubling

\* Every turn of a loop keeps it so.
LEMMA StepDoubling ==
  ASSUME Rewriting, Doubling, TextNext
  PROVE  Doubling'
<1>1. CASE NewlineCrLf \/ NewlineCr \/ NewlineOther \/ TrigraphRead \/ TrigraphNone \/ TrigraphOther
  <2>1. phase' = phase /\ phase \in {"newlines", "trigraphs"}
    BY <1>1 DEF NewlineCrLf, NewlineCr, NewlineOther, TrigraphRead, TrigraphNone, TrigraphOther,
       In, Put, Copy
  <2> QED  BY <2>1 DEF Doubling
<1>2. CASE NewlinesEnd \/ TrigraphsEnd
  <2>1. phase' \in {"trigraphs", "splices"} /\ write' = start /\ start' = start
    BY <1>2 DEF NewlinesEnd, TrigraphsEnd, NextPhase
  <2>2. start \in Nat /\ ~(start > start) /\ \A k \in start..(start - 2) : FALSE
    BY DEF Rewriting, Shape
  <2> QED  BY <2>1, <2>2 DEF Doubling, Doubled
<1>3. CASE Splice \/ SpliceLineEnd \/ SpliceOther \/ SplicesEnd
  BY <1>3, SpliceDoubling, LineEndDoubling, OtherDoubling, EndDoubling
<1> QED  BY <1>1, <1>2, <1>3 DEF TextNext

\* At the beginning nothing has been written.
LEMMA InitDoubling == ASSUME Init PROVE Doubling
BY DEF Init, Doubling

\* The lexer does not write.
LEMMA DoublingSame ==
  ASSUME Doubling, UNCHANGED textVars
  PROVE  Doubling'
BY DEF Doubling, Doubled, C, textVars

\* So it is in the text.
LEMMA TextDoubles ==
  ASSUME Translated, Doubling, phase = "text", Plain(text)
  PROVE  Doubles(Chars, start, EndOf)
<1>1. EndOf = write + n
  BY EndIsWritten
<1>2. start \in Nat /\ EndOf \in Nat /\ \A i \in start..EndOf : Chars[i] = C(i)
  BY TextIsRead, EndIs DEF Translated
<1>3. \A k \in start..(EndOf - 2) :
        /\ k \in start..(write + n - 2)
        /\ k \in start..EndOf /\ k + 1 \in start..EndOf /\ k + 2 \in start..EndOf
  <2>1. \A k \in start..(EndOf - 2) :
          k \in start..EndOf /\ k + 1 \in start..EndOf /\ k + 2 \in start..EndOf
    BY <1>2
  <2>2. write \in Nat /\ n \in Nat
    BY DEF Translated, Rewriting, Shape
  <2>3. \A k \in start..(EndOf - 2) : k \in start..(write + n - 2)
    BY <1>1, <1>2, <2>2
  <2> QED  BY <2>1, <2>3
<1>4. \A k \in start..(write + n - 2) :
        C(k) = "\\" /\ C(k + 1) = Nl => k + 2 = write + n \/ C(k + 2) = Nl
  BY DEF Doubling, C
<1> QED  BY <1>1, <1>2, <1>3, <1>4 DEF Doubles

-----------------------------------------------------------------------------
(* Lines.                                                                   *)

\* The line ends from i to before j.
Nls(s, i, j) == {k \in i..(j - 1) : s[k] = Nl}
LineAt(s, st, p) == 1 + Cardinality(Nls(s, st, p))

\* No token but the last ends in a line end.
Tight(s, ts, k) == \A j \in 1..k : s[ts[j].next - 1] # Nl

\* As long as no token takes a line end with it, lines are counted.
Counts(s, st, p, l, ts) ==
  /\ Tight(s, ts, Len(ts)) => l = LineAt(s, st, p)
  /\ \A k \in 1..Len(ts) : Tight(s, ts, k - 1) => ts[k].line = LineAt(s, st, ts[k].from)

\* They can be counted.
LEMMA NlsFinite ==
  ASSUME NEW s, NEW i \in Nat, NEW j \in Nat
  PROVE  IsFiniteSet(Nls(s, i, j)) /\ Cardinality(Nls(s, i, j)) \in Nat
<1>1. IsFiniteSet(i..(j - 1)) /\ Nls(s, i, j) \in SUBSET (i..(j - 1))
  BY FS_Interval DEF Nls
<1>2. IsFiniteSet(Nls(s, i, j))
  BY <1>1, FS_Subset
<1> QED  BY <1>2, FS_CardinalityType

\* Those of two stretches are counted together.
LEMMA NlsAdd ==
  ASSUME NEW s, NEW i \in Nat, NEW j \in Nat, NEW k \in Nat, i <= j, j <= k
  PROVE  Cardinality(Nls(s, i, k)) = Cardinality(Nls(s, i, j)) + Cardinality(Nls(s, j, k))
<1>1. Nls(s, i, k) = Nls(s, i, j) \cup Nls(s, j, k)
  <2>1. \A x : x \in i..(k - 1) <=> x \in i..(j - 1) \/ x \in j..(k - 1)
    OBVIOUS
  <2> QED  BY <2>1 DEF Nls
<1>2. Nls(s, i, j) \cap Nls(s, j, k) = {}
  <2>1. \A x \in i..(j - 1) : x \notin j..(k - 1)
    OBVIOUS
  <2> QED  BY <2>1 DEF Nls
<1>3. /\ IsFiniteSet(Nls(s, i, j)) /\ IsFiniteSet(Nls(s, j, k))
      /\ Cardinality(Nls(s, i, j)) \in Nat /\ Cardinality(Nls(s, j, k)) \in Nat
  BY NlsFinite
<1>4. Cardinality({}) = 0
  BY FS_EmptySet
<1>5. Cardinality(Nls(s, i, k))
        = Cardinality(Nls(s, i, j)) + Cardinality(Nls(s, j, k)) - Cardinality(Nls(s, i, j) \cap Nls(s, j, k))
  BY <1>1, <1>3, FS_Union
<1>6. Cardinality(Nls(s, i, j) \cap Nls(s, j, k)) = 0
  BY <1>2, <1>4
<1> QED  BY <1>3, <1>5, <1>6

\* Where there are none their number is 0.
LEMMA NoNls ==
  ASSUME NEW s, NEW i \in Nat, NEW j \in Nat, \A k \in i..(j - 1) : s[k] # Nl
  PROVE  Cardinality(Nls(s, i, j)) = 0
<1>1. Nls(s, i, j) = {}
  BY DEF Nls
<1> QED  BY <1>1, FS_EmptySet

\* A line end by itself is one.
LEMMA OneNl ==
  ASSUME NEW s, NEW i \in Nat, s[i] = Nl
  PROVE  Cardinality(Nls(s, i, i + 1)) = 1
<1>1. \A k \in i..((i + 1) - 1) : k = i
  OBVIOUS
<1>2. i \in i..((i + 1) - 1)
  OBVIOUS
<1>3. Nls(s, i, i + 1) = {i}
  BY <1>1, <1>2 DEF Nls
<1> QED  BY <1>3, FS_Singleton

\* White space or a comment is passed.
LEMMA CountsSkipped ==
  ASSUME NEW s, NEW st \in Nat, NEW p \in Nat, st <= p, NEW q \in Nat, p <= q, NEW l, NEW ts,
         Counts(s, st, p, l, ts), NEW l2, l2 = l + Cardinality(Nls(s, p, q))
  PROVE  Counts(s, st, q, l2, ts)
<1>1. Cardinality(Nls(s, st, p)) \in Nat /\ Cardinality(Nls(s, p, q)) \in Nat
  BY NlsFinite
<1>2. Cardinality(Nls(s, st, q)) = Cardinality(Nls(s, st, p)) + Cardinality(Nls(s, p, q))
  BY NlsAdd
<1>3. Tight(s, ts, Len(ts)) => l2 = LineAt(s, st, q)
  BY <1>1, <1>2 DEF Counts, LineAt
<1> QED  BY <1>3 DEF Counts

\* Characters that are no line ends are passed.
LEMMA CountsStay ==
  ASSUME NEW s, NEW st \in Nat, NEW p \in Nat, st <= p, NEW q \in Nat, p <= q, NEW l, NEW ts,
         Counts(s, st, p, l, ts), Cardinality(Nls(s, p, q)) = 0
  PROVE  Counts(s, st, q, l, ts)
<1>1. Cardinality(Nls(s, st, p)) \in Nat
  BY NlsFinite
<1>2. Cardinality(Nls(s, st, q)) = Cardinality(Nls(s, st, p)) + Cardinality(Nls(s, p, q))
  BY NlsAdd
<1>3. LineAt(s, st, q) = LineAt(s, st, p)
  BY <1>1, <1>2 DEF LineAt
<1> QED  BY <1>3 DEF Counts

\* A token is taken.
LEMMA CountsTaken ==
  ASSUME NEW s, NEW st \in Nat, NEW p \in Nat, st <= p, NEW q \in Nat, p <= q, NEW l, NEW ts,
         \E S : ts \in Seq(S), Counts(s, st, p, l, ts),
         s[q - 1] # Nl => \A i \in p..(q - 1) : s[i] # Nl,
         NEW tok, tok.from = p, tok.next = q, tok.line = l
  PROVE  Counts(s, st, q, l, Append(ts, tok))
<1> DEFINE us == Append(ts, tok)
           n1 == Len(ts)
<1>1. /\ n1 \in Nat /\ Len(us) = n1 + 1
      /\ \A k \in 1..n1 : us[k] = ts[k]
      /\ us[n1 + 1] = tok
  BY AppendIs
<1> HIDE DEF us
<1>2. ASSUME NEW k \in 0..n1 PROVE Tight(s, us, k) <=> Tight(s, ts, k)
  <2>1. \A j \in 1..k : j \in 1..n1
    BY <1>1
  <2> QED  BY <1>1, <2>1 DEF Tight
<1>3. Tight(s, us, n1 + 1) => Tight(s, us, n1) /\ s[q - 1] # Nl
  <2>1. n1 + 1 \in 1..(n1 + 1) /\ \A j \in 1..n1 : j \in 1..(n1 + 1)
    BY <1>1
  <2> QED  BY <1>1, <2>1 DEF Tight
<1>4. n1 \in 0..n1
  BY <1>1
<1>5. ASSUME Tight(s, us, n1 + 1) PROVE l = LineAt(s, st, q)
  <2>1. Tight(s, ts, n1) /\ \A i \in p..(q - 1) : s[i] # Nl
    BY <1>2, <1>3, <1>4, <1>5
  <2>2. l = LineAt(s, st, p)
    BY <2>1 DEF Counts
  <2>3. Cardinality(Nls(s, p, q)) = 0
    BY <2>1, NoNls
  <2>4. Cardinality(Nls(s, st, q)) = Cardinality(Nls(s, st, p)) + Cardinality(Nls(s, p, q))
    BY NlsAdd
  <2>5. Cardinality(Nls(s, st, p)) \in Nat
    BY NlsFinite
  <2> QED  BY <2>2, <2>3, <2>4, <2>5 DEF LineAt
<1>6. ASSUME NEW k \in 1..(n1 + 1), Tight(s, us, k - 1)
      PROVE  us[k].line = LineAt(s, st, us[k].from)
  <2>1. k - 1 \in 0..n1
    BY <1>1
  <2>2. Tight(s, ts, k - 1)
    BY <1>2, <1>6, <2>1
  <2>3. CASE k = n1 + 1
    <3>1. k - 1 = n1
      BY <1>1, <2>3
    <3>2. l = LineAt(s, st, p)
      BY <2>2, <3>1 DEF Counts
    <3> QED  BY <1>1, <2>3, <3>2
  <2>4. CASE k # n1 + 1
    <3>1. k \in 1..n1
      BY <1>1, <2>4
    <3> QED  BY <1>1, <2>2, <3>1 DEF Counts
  <2> QED  BY <2>3, <2>4
<1>7. Counts(s, st, q, l, us)
  BY <1>1, <1>5, <1>6 DEF Counts
<1> QED  BY <1>7 DEF us

\* The lexer begins on line 1.
LEMMA CountsBegins ==
  ASSUME NEW s, NEW st \in Nat
  PROVE  Counts(s, st, st, 1, <<>>)
<1>1. Cardinality(Nls(s, st, st)) = 0
  <2>1. \A k \in st..(st - 1) : s[k] # Nl
    OBVIOUS
  <2> QED  BY <2>1, NoNls
<1>2. Len(<<>>) = 0 /\ \A k \in 1..0 : FALSE
  OBVIOUS
<1> QED  BY <1>1, <1>2 DEF Counts, LineAt

\* Where and how lines are counted.
Lining == Waiting \/ (phase = "text" /\ (Regular /\ Plain(text) =>
                                           Counts(Chars, start, cursor, line, toks)))

\* Space counts its line end.
LEMMA SpaceLines ==
  ASSUME Ready, Space, Counts(Chars, start, cursor, line, toks)
  PROVE  Counts(Chars, start, cursor', line', toks')
<1>1. C(cursor) \in Spaces /\ C(cursor) # Nul
  BY ClassesAre DEF Space
<1>2. /\ cursor \in Nat /\ Chars[cursor] = C(cursor) /\ start \in Nat /\ start <= cursor
  BY <1>1, ReadyIs
<1> DEFINE q == cursor + 1
<1>3. cursor' = q /\ toks' = toks /\ q \in Nat /\ cursor <= q
  BY <1>2 DEF Space
<1>4. \A k \in cursor..(q - 1) : k = cursor
  BY <1>2
<1>5. Cardinality(Nls(Chars, cursor, q)) = IF C(cursor) = Nl THEN 1 ELSE 0
  <2>1. CASE C(cursor) = Nl
    BY <1>2, <2>1, OneNl
  <2>2. CASE C(cursor) # Nl
    <3>1. \A k \in cursor..(q - 1) : Chars[k] # Nl
      BY <1>2, <1>4, <2>2
    <3> HIDE DEF q
    <3>2. Cardinality(Nls(Chars, cursor, q)) = 0
      BY <1>2, <1>3, <3>1, NoNls
    <3> QED  BY <2>2, <3>2
  <2> QED  BY <2>1, <2>2
<1> HIDE DEF q
<1>6. line' = IF C(cursor) = Nl THEN line + 1 ELSE line
  BY DEF Space
<1>7. CASE C(cursor) = Nl
  <2>1. line' = line + Cardinality(Nls(Chars, cursor, q))
    BY <1>5, <1>6, <1>7
  <2> QED  BY <1>2, <1>3, <2>1, CountsSkipped
<1>8. CASE C(cursor) # Nl
  BY <1>2, <1>3, <1>5, <1>6, <1>8, CountsStay
<1> QED  BY <1>7, <1>8

\* LineComment counts the line end it takes.
LEMMA LineCommentLines ==
  ASSUME Ready, LineComment, Counts(Chars, start, cursor, line, toks)
  PROVE  Counts(Chars, start, cursor', line', toks')
<1> DEFINE z == LineStop
<1>1. IsLineComment /\ toks' = toks
  BY DEF LineComment
<1>2. /\ C(z) = Nl => cursor' = z + 1 /\ line' = line + 1
      /\ C(z) # Nl => cursor' = z /\ line' = line
  BY DEF LineComment, LineStop
<1>3. /\ cursor \in Nat /\ start \in Nat /\ EndOf \in Nat /\ z \in cursor..EndOf /\ Chars[z] = C(z)
      /\ cursor \in start..EndOf /\ \A k \in cursor..(z - 1) : Chars[k] \notin {Nl, Nul}
  BY <1>1, LineStopIs
<1> HIDE DEF z
<1>4. z \in Nat /\ cursor <= z /\ start <= cursor /\ z + 1 \in Nat /\ cursor <= z + 1 /\ z <= z + 1
  BY <1>3
<1>5. Cardinality(Nls(Chars, cursor, z)) = 0
  <2>1. \A k \in cursor..(z - 1) : Chars[k] # Nl
    BY <1>3
  <2> QED  BY <1>3, <1>4, <2>1, NoNls
<1>6. CASE C(z) = Nl
  <2>1. Cardinality(Nls(Chars, z, z + 1)) = 1
    BY <1>3, <1>4, <1>6, OneNl
  <2> DEFINE q == z + 1
  <2>2. q \in Nat /\ cursor <= q /\ z <= q /\ Cardinality(Nls(Chars, z, q)) = 1
    BY <1>4, <2>1
  <2>3. cursor' = q /\ line' = line + 1
    BY <1>2, <1>6
  <2> HIDE DEF q
  <2>4. Cardinality(Nls(Chars, cursor, q)) = Cardinality(Nls(Chars, cursor, z)) + Cardinality(Nls(Chars, z, q))
    BY <1>3, <1>4, <2>2, NlsAdd
  <2>5. line' = line + Cardinality(Nls(Chars, cursor, q))
    BY <1>5, <2>2, <2>3, <2>4
  <2> QED  BY <1>1, <1>3, <1>4, <2>2, <2>3, <2>5, CountsSkipped
<1>7. CASE C(z) # Nl
  BY <1>1, <1>2, <1>3, <1>4, <1>5, <1>7, CountsStay
<1> QED  BY <1>6, <1>7

\* BlockComment counts those within it.
LEMMA BlockCommentLines ==
  ASSUME Ready, BlockComment, Counts(Chars, start, cursor, line, toks)
  PROVE  Counts(Chars, start, cursor', line', toks')
<1> DEFINE z == BlockEnd
<1>1. IsBlockComment /\ toks' = toks
  BY DEF BlockComment
<1>2. /\ cursor' = IF C(z) = Nul THEN z ELSE z + 2
      /\ line' = line + Cardinality(NewlinesIn(cursor, z - 1))
  BY DEF BlockComment
<1>3. /\ cursor \in Nat /\ start \in Nat /\ EndOf \in Nat /\ cursor \in start..EndOf
      /\ z \in cursor..EndOf /\ Chars[z] = C(z) /\ z \in Nat
      /\ \A i \in start..EndOf : Chars[i] = C(i)
      /\ Chars[z] = Nul \/ (Chars[z] = "*" /\ Chars[z + 1] = "/")
  BY <1>1, BlockEndIs
<1> HIDE DEF z
<1>4. cursor <= z /\ start <= cursor
  BY <1>3
<1>5. NewlinesIn(cursor, z - 1) = Nls(Chars, cursor, z)
  <2>1. \A k \in cursor..(z - 1) : Chars[k] = C(k)
    BY <1>3
  <2> QED  BY <2>1 DEF NewlinesIn, Nls
<1>6. line' = line + Cardinality(Nls(Chars, cursor, z))
  BY <1>2, <1>5
<1>7. CASE C(z) = Nul
  BY <1>1, <1>2, <1>3, <1>4, <1>6, <1>7, CountsSkipped
<1>8. CASE C(z) # Nul
  <2> DEFINE q == z + 2
  <2>1. q \in Nat /\ cursor <= q /\ z <= q /\ cursor' = q
    BY <1>2, <1>3, <1>4, <1>8
  <2>2. \A k \in z..(q - 1) : Chars[k] # Nl
    <3>1. \A k \in z..(q - 1) : k = z \/ k = z + 1
      BY <1>3
    <3> QED  BY <1>3, <1>8, <3>1 DEF Nl
  <2> HIDE DEF q
  <2>3. Cardinality(Nls(Chars, z, q)) = 0
    BY <1>3, <2>1, <2>2, NoNls
  <2>4. Cardinality(Nls(Chars, cursor, q)) = Cardinality(Nls(Chars, cursor, z)) + Cardinality(Nls(Chars, z, q))
    BY <1>3, <1>4, <2>1, NlsAdd
  <2>5. Cardinality(Nls(Chars, cursor, z)) \in Nat
    BY <1>3, NlsFinite
  <2>6. line' = line + Cardinality(Nls(Chars, cursor, q))
    BY <1>6, <2>3, <2>4, <2>5
  <2> QED  BY <1>1, <1>3, <1>4, <2>1, <2>6, CountsSkipped
<1> QED  BY <1>7, <1>8

\* Any token.
LEMMA TokenLines ==
  ASSUME Ready, Doubles(Chars, start, EndOf), Counts(Chars, start, cursor, line, toks),
         NEW kind, NEW q, Token(kind, q), At(cursor', bol', ws', toks')
  PROVE  Counts(Chars, start, cursor', line', toks')
<1> DEFINE tok == [kind |-> kind, from |-> cursor, next |-> q, bol |-> bol,
                   ws |-> ws, line |-> line, col |-> cursor - lineStart + 1]
<1>1. toks' = Append(toks, tok) /\ cursor' = q /\ line' = line
  BY DEF Token
<1>2. tok.from = cursor /\ tok.next = q /\ tok.line = line
  OBVIOUS
<1> HIDE DEF tok
<1>3. \E S : toks \in Seq(S)
  BY DEF Ready, At, Lexer
<1>4. /\ Len(toks) \in Nat /\ Len(Append(toks, tok)) = Len(toks) + 1
      /\ Append(toks, tok)[Len(toks) + 1] = tok
  BY <1>3, AppendIs
<1>5. Fits(Chars, start, EndOf, EndAfter(start, Append(toks, tok), Len(toks)), tok)
  <2>1. Lexer(Chars, start, EndOf, Mode, q, bol', ws', Append(toks, tok))
    BY <1>1 DEF At
  <2> DEFINE us == Append(toks, tok)
             k  == Len(toks) + 1
  <2>2. k \in 1..Len(us) /\ us[k] = tok /\ k - 1 = Len(toks)
    BY <1>4
  <2> HIDE DEF us, k
  <2>3. Lexer(Chars, start, EndOf, Mode, q, bol', ws', us)
    BY <2>1 DEF us
  <2>4. Fits(Chars, start, EndOf, EndAfter(start, us, k - 1), us[k])
    BY <2>2, <2>3 DEF Lexer
  <2> QED  BY <2>2, <2>4 DEF us
<1>6. /\ q \in Nat /\ cursor < q
      /\ Chars[q - 1] # Nl => \A i \in cursor..(q - 1) : Chars[i] # Nl
  BY <1>2, <1>5 DEF Fits, Solid
<1>7. cursor \in Nat /\ start \in Nat /\ start <= cursor /\ cursor <= q
  BY <1>6, ReadyIs
<1>8. Counts(Chars, start, q, line, Append(toks, tok))
  BY <1>2, <1>3, <1>6, <1>7, CountsTaken
<1> QED  BY <1>1, <1>8

\* The next step finds the lines counted.
LEMMA LiningReady ==
  ASSUME Rewriting, Opened, Regular, Plain(text), Lining
  PROVE  Counts(Chars, start, cursor, line, toks)
<1>1. CASE Waiting
  <2>1. Counts(Chars, start, start, 1, <<>>)
    BY EndIs, CountsBegins
  <2> QED  BY <1>1, <2>1 DEF Waiting
<1>2. CASE phase = "text" /\ (Regular /\ Plain(text) => Counts(Chars, start, cursor, line, toks))
  BY <1>2
<1> QED  BY <1>1, <1>2 DEF Lining

\* Every step of the lexer leaves them counted.
LEMMA LiningStep ==
  ASSUME Translated, Doubling, Lexes, Lining, [Next]_vars
  PROVE  Lining'
<1>0. Rewriting /\ Opened
  BY DEF Translated
<1>1. CASE TextNext /\ UNCHANGED lexVars
  <2>1. phase # "text" /\ start' = start
    BY <1>1, LoopsBefore
  <2>2. Waiting
    BY <2>1 DEF Lining
  <2>3. Waiting'
    BY <1>1, <2>1, <2>2 DEF Waiting, lexVars
  <2> QED  BY <2>3 DEF Lining
<1>2. CASE Space \/ LineComment \/ BlockComment \/ Other \/ String \/ Number \/ Ident \/ Punct
  <2>1. phase = "text" /\ UNCHANGED textVars
    BY <1>2 DEF Space, LineComment, BlockComment, Other, String, Number, Ident, Punct, Token, Lexing
  <2>2. phase' = "text" /\ text' = text
    BY <2>1 DEF textVars
  <2>3. ASSUME Regular', Plain(text') PROVE Counts(Chars, start, cursor, line, toks)'
    <3>1. Regular /\ Plain(text)
      BY <2>1, <2>2, <2>3, SeesSame
    <3>2. Ready
      BY <1>0, <3>1, LexesReady
    <3>3. Counts(Chars, start, cursor, line, toks)
      BY <1>0, <3>1, LiningReady
    <3>4. Doubles(Chars, start, EndOf)
      BY <2>1, <3>1, TextDoubles
    <3>5. Counts(Chars, start, cursor', line', toks')
      <4>1. CASE Space \/ LineComment \/ BlockComment
        BY <3>2, <3>3, <4>1, SpaceLines, LineCommentLines, BlockCommentLines
      <4>2. CASE Other \/ String \/ Number \/ Ident \/ Punct
        <5>1. At(cursor', bol', ws', toks')
          BY <3>2, <4>2, OtherStep, StringStep, NumberStep, IdentStep, PunctStep
        <5>2. \E kind, q : Token(kind, q)
          BY <4>2 DEF Other, String, Number, Ident, Punct
        <5> QED  BY <3>2, <3>3, <3>4, <5>1, <5>2, TokenLines
      <4> QED  BY <1>2, <4>1, <4>2
    <3>6. Counts(Chars', start', cursor', line', toks')
      BY <2>1, <3>5, SeesSame
    <3> QED  BY <3>6
  <2> QED  BY <2>2, <2>3 DEF Lining
<1>3. CASE UNCHANGED vars
  <2>1. UNCHANGED textVars /\ UNCHANGED lexVars
    BY <1>3 DEF vars
  <2>2. phase' = phase /\ text' = text /\ cursor' = cursor /\ line' = line /\ bol' = bol /\ ws' = ws /\ toks' = toks
    BY <2>1 DEF textVars, lexVars
  <2>3. Waiting => Waiting'
    BY <2>1, <2>2, SeesSame DEF Waiting
  <2>4. Counts(Chars, start, cursor, line, toks) => Counts(Chars, start, cursor, line, toks)'
    BY <2>1, <2>2, SeesSame
  <2> QED  BY <2>1, <2>2, <2>3, <2>4, SeesSame DEF Lining
<1> QED  BY <1>1, <1>2, <1>3 DEF Next

\* As many line ends were put back as a line has before it, so that counting them in the
\* buffer gives the line of the file.
LEMMA LiningLines ==
  ASSUME Translated, Lexes, Lining
  PROVE  TokensOnTheirLine
<1>1. SUFFICES ASSUME Lexed, Plain(text), NEW k \in DOMAIN toks,
                      \A m \in 1..(k - 1) : C(toks[m].next - 1) # Nl
               PROVE  toks[k].line = LineOf(text, buf[toks[k].from].at)
  BY DEF TokensOnTheirLine
<1>2. Rewriting /\ Opened /\ phase = "text" /\ Regular
  BY <1>1 DEF Translated, Lexed, AtEof, Lexing
<1>3. Lexer(Chars, start, EndOf, Mode, EndOf, bol, ws, toks)
  BY <1>1, <1>2, LexedAll
<1>4. Counts(Chars, start, cursor, line, toks)
  BY <1>1, <1>2, LiningReady
<1>5. start \in Nat /\ EndOf \in Nat /\ \A i \in start..EndOf : Chars[i] = C(i)
  BY <1>2, TextIsRead, EndIs
<1>6. DOMAIN toks = 1..Len(toks) /\ Len(toks) \in Nat
  <2>1. PICK S : toks \in Seq(S)
    BY <1>3 DEF Lexer
  <2> QED  BY <2>1
<1>7. ASSUME NEW j \in 1..Len(toks)
      PROVE  /\ toks[j].from \in start..(EndOf - 1) /\ toks[j].next - 1 \in start..EndOf
             /\ Chars[toks[j].from] \notin Spaces
  <2>1. /\ EndAfter(start, toks, j - 1) \in start..EndOf /\ toks[j].next <= EndOf
        /\ Fits(Chars, start, EndOf, EndAfter(start, toks, j - 1), toks[j])
    BY <1>3 DEF Lexer
  <2> QED  BY <1>5, <2>1 DEF Fits
<1>8. Tight(Chars, toks, k - 1)
  <2>1. \A m \in 1..(k - 1) : m \in 1..Len(toks)
    BY <1>6
  <2> QED  BY <1>1, <1>5, <1>7, <2>1 DEF Tight
<1> DEFINE f == toks[k].from
<1>9. toks[k].line = LineAt(Chars, start, f)
  BY <1>4, <1>6, <1>8 DEF Counts
<1>10. f \in start..(EndOf - 1) /\ f \in start..EndOf /\ Chars[f] \notin Spaces
  BY <1>5, <1>6, <1>7
<1> HIDE DEF f
<1>11. buf[f].c # Nl
  BY <1>5, <1>10, ClassesAre DEF C
<1>12. Kept(text, start, buf, EndOf, Len(text) + 1)
  BY <1>1, <1>2, EndIsWritten
<1>13. LineOf(text, buf[f].at) = 1 + Cardinality(LineEnds(buf, start, f - 1))
  BY <1>10, <1>11, <1>12 DEF Kept
<1>14. Nls(Chars, start, f) = LineEnds(buf, start, f - 1)
  <2>1. \A i \in start..(f - 1) : Chars[i] = buf[i].c
    BY <1>5, <1>10 DEF C
  <2> QED  BY <2>1 DEF Nls, LineEnds
<1> QED  BY <1>9, <1>13, <1>14 DEF LineAt, f

LineInv == LexInv /\ Doubling /\ Lining

\* LineInv is an inductive invariant.
LEMMA SpecLineInv == Spec => []LineInv
<1>1. LexInit => LineInv
  <2>1. ASSUME LexInit PROVE Waiting /\ Translated /\ Doubling
    BY <2>1, InitTranslated, InitDoubling DEF LexInit, Waiting
  <2> QED  BY <2>1 DEF LineInv, LexInv, Lexes, Lining
<1>2. LineInv /\ [Next]_vars => LineInv'
  <2>1. SUFFICES ASSUME LineInv, [Next]_vars PROVE LineInv'
    OBVIOUS
  <2>2. Translated /\ Rewriting /\ Opened /\ Lexes /\ Doubling /\ Lining
    BY <2>1 DEF LineInv, LexInv, Translated
  <2>3. Translated' /\ Lexes' /\ Lining'
    BY <2>1, <2>2, StepTranslated, LexesStep, LiningStep
  <2>4. Doubling'
    <3>1. CASE TextNext
      BY <2>2, <3>1, StepDoubling
    <3>2. CASE UNCHANGED textVars
      BY <2>2, <3>2, DoublingSame
    <3> QED  BY <2>1, <3>1, <3>2, LexingKeepsText DEF Next, vars
  <2> QED  BY <2>3, <2>4 DEF LineInv, LexInv
<1> QED  BY <1>1, <1>2, PTL DEF Spec

\* However lines of a regular and plain text are joined and comments continued, a token
\* is reported on its line of the file: TokensOnTheirLine holds for every set of texts.
THEOREM LexerTokensOnTheirLine == Spec => []TokensOnTheirLine
<1>1. LineInv => TokensOnTheirLine
  BY LiningLines DEF LineInv, LexInv
<1> QED  BY <1>1, SpecLineInv, PTL
=============================================================================
