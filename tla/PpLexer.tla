------------------------------ MODULE PpLexer ------------------------------
(***************************************************************************)
(* The lexer (pp_lexer.c) at work on the text that the phases of           *)
(* SourceText leave: white space, comments and tokens are taken from the   *)
(* front of it, one action each.  A token is its kind and its place in the *)
(* buffer, with what the preprocessor needs to know of it: whether it is   *)
(* the first of its line, and where it is reported to be.                  *)
(*                                                                         *)
(* The reader of a string does not look for the end of the text: String is *)
(* not defined on a text that ends within one (Regular leaves those out).  *)
(***************************************************************************)
EXTENDS SourceText

CONSTANTS
  Letters, Digits, Puncts,  \* the characters of each class
  Unread                    \* bytes at which the lexer comes to no end

VARIABLES
  cursor,
  line, lineStart,    \* lex->line, lex->last_line_start
  bol, ws,            \* at_line_start and has_whitespace of the next token
  toks                \* the tokens so far

lexVars == <<cursor, line, lineStart, bol, ws, toks>>
vars    == <<textVars, lexVars>>

Spaces == {"sp", Nl}
Quotes == {"\"", "'"}
Words  == Letters \cup Digits \cup {"_"}

\* "_" and quotes, of which ispunct is true as well, are found before it is asked.
ASSUME ClassesAssumption ==
  /\ {"u", "U", "L"} \subseteq Letters /\ "8" \in Digits
  /\ Letters \cap Digits = {} /\ "_" \notin Letters \cup Digits /\ Puncts \cap Words = {}
  /\ (Spaces \cup Quotes \cup {Nul}) \cap (Words \cup Puncts) = {}
  /\ Unread \cap (Spaces \cup Quotes \cup {Nul} \cup Words \cup Puncts) = {}

LexInit ==
  /\ Init
  /\ cursor = start /\ line = 1 /\ lineStart = start
  /\ bol = TRUE /\ ws = FALSE /\ toks = <<>>

Lexing == phase = "text"

\* The first position from p on at which Test holds.
FirstFrom(p, Test(_)) ==
  CHOOSE i \in p..EndOf : Test(i) /\ \A k \in p..(i - 1) : ~Test(k)

\* next_eq, at position p
NextEq(p, lit) ==
  /\ p + Len(lit) < EndOf
  /\ \A i \in DOMAIN lit : C(p + i - 1) = lit[i]

NewlinesIn(p, q) == {i \in p..q : C(i) = Nl}
LastOf(S) == CHOOSE i \in S : \A k \in S : k <= i

-----------------------------------------------------------------------------
(* parse_whitespaces *)

Space ==
  /\ Lexing /\ C(cursor) \in Spaces
  /\ cursor' = cursor + 1
  /\ ws' = TRUE
  /\ IF C(cursor) = Nl
     THEN bol' = TRUE /\ line' = line + 1 /\ lineStart' = cursor + 1
     ELSE UNCHANGED <<bol, line, lineStart>>
  /\ UNCHANGED <<textVars, toks>>

IsLineComment  == NextEq(cursor, <<"/", "/">>)
IsBlockComment == NextEq(cursor, <<"/", "*">>)

LineComment ==
  LET e == FirstFrom(cursor, LAMBDA i : C(i) \in {Nl, Nul}) IN
  /\ Lexing /\ IsLineComment
  /\ ws' = TRUE
  /\ IF C(e) = Nl
     THEN cursor' = e + 1 /\ bol' = TRUE /\ line' = line + 1 /\ lineStart' = e + 1
     ELSE cursor' = e /\ UNCHANGED <<bol, line, lineStart>>
  /\ UNCHANGED <<textVars, toks>>

\* The end is looked for from the '/' on, so that "/*/" is a whole comment.
BlockEnd == FirstFrom(cursor, LAMBDA i : C(i) = Nul \/ NextEq(i, <<"*", "/">>))

\* Plausible bug: a line end in a comment starts a line.
BlockCommentBreaks ==
  LET lines == NewlinesIn(cursor, BlockEnd - 1) IN
  /\ Lexing /\ IsBlockComment
  /\ cursor' = IF C(BlockEnd) = Nul THEN BlockEnd ELSE BlockEnd + 2
  /\ ws' = TRUE
  /\ line' = line + Cardinality(lines)
  /\ lineStart' = IF lines = {} THEN lineStart ELSE LastOf(lines)
  /\ bol' = (bol \/ lines # {})
  /\ UNCHANGED <<textVars, toks>>

\* Plausible bug: the lines of a comment are not counted.
BlockCommentUncounted ==
  /\ Lexing /\ IsBlockComment
  /\ cursor' = IF C(BlockEnd) = Nul THEN BlockEnd ELSE BlockEnd + 2
  /\ ws' = TRUE
  /\ UNCHANGED <<textVars, bol, line, lineStart, toks>>

BlockComment ==
  LET lines == NewlinesIn(cursor, BlockEnd - 1) IN
  /\ Lexing /\ IsBlockComment
  /\ cursor' = IF C(BlockEnd) = Nul THEN BlockEnd ELSE BlockEnd + 2
  /\ ws' = TRUE
  /\ line' = line + Cardinality(lines)
  /\ lineStart' = IF lines = {} THEN lineStart ELSE LastOf(lines)
  /\ UNCHANGED <<textVars, bol, toks>>

-----------------------------------------------------------------------------
(* Tokens, in the order in which pp_lexer_parse tries them. *)

Token(kind, next) ==
  /\ toks' = Append(toks, [kind |-> kind, from |-> cursor, next |-> next, bol |-> bol,
                           ws |-> ws, line |-> line, col |-> cursor - lineStart + 1])
  /\ cursor' = next
  /\ bol' = FALSE /\ ws' = FALSE
  /\ UNCHANGED <<textVars, line, lineStart>>

\* A character of more than one byte.  Not a byte that begins none (0x80 to 0xBF, and
\* from 0xF8 on), where utf8_decode stays and the same token comes for ever, nor a
\* control character, which fails the assert behind all tokens: both are Unread, and
\* the lexer gets no further.
Other ==
  /\ Lexing
  /\ C(cursor) \notin Spaces \cup Words \cup Puncts \cup Quotes \cup {Nul} \cup Unread
  /\ Token("other", cursor + 1)

\* Where the opening quote of a string would be: after u8, u, U or L.
QuoteAt ==
  cursor + (IF C(cursor) = "u" /\ C(cursor + 1) = "8" THEN 2
            ELSE IF C(cursor) \in {"u", "U", "L"} THEN 1 ELSE 0)
IsString == C(QuoteAt) \in Quotes

\* read_escaped_char: a backslash that is not itself escaped hides what follows it.
Escaped(q, i) ==
  Cardinality({k \in q..(i - 1) : \A m \in k..(i - 1) : C(m) = "\\"}) % 2 = 1

\* Plausible bug: the first quote ends a string.
StringToQuote ==
  LET q == QuoteAt
      e == FirstFrom(q + 1, LAMBDA i : C(i) \in {C(q), Nl})
  IN  Lexing /\ IsString /\ Token("str", e + 1)

\* A string ends at its quote, or at the line end, which it takes with it.
String ==
  LET q == QuoteAt
      e == FirstFrom(q + 1, LAMBDA i : C(i) \in {C(q), Nl} /\ ~Escaped(q + 1, i))
  IN  Lexing /\ IsString /\ Token("str", e + 1)

\* The alternative for exponents is never reached, as 'e' is alphanumeric; a '.'
\* is only taken at the beginning.
IsNumber == \/ C(cursor) \in Digits
            \/ C(cursor) = "." /\ C(cursor + 1) \in Digits
Number ==
  /\ Lexing /\ ~IsString /\ IsNumber
  /\ Token("num", FirstFrom(cursor + 1, LAMBDA i : C(i) \notin Words \cup {"'"}))

Ident ==
  /\ Lexing /\ ~IsString /\ C(cursor) \in Letters \cup {"_"}
  /\ Token("id", FirstFrom(cursor, LAMBDA i : C(i) \notin Words))

\* PUNCT_STRS, in its order: a longer one before its beginnings.
PunctStrs ==
  << <<">", ">", "=">>, <<"<", "<", "=">>, <<".", ".", ".">>, <<"+", "=">>, <<"-", "=">>,
     <<"*", "=">>, <<"/", "=">>, <<"%", "=">>, <<"&", "=">>, <<"|", "=">>, <<"^", "=">>,
     <<"+", "+">>, <<"-", "-">>, <<">", ">">>, <<"<", "<">>, <<"&", "&">>, <<"|", "|">>,
     <<"=", "=">>, <<"!", "=">>, <<"<", "=">>, <<">", "=">>, <<"#", "#">> >>

ASSUME PunctsAssumption ==
  \A p \in DOMAIN PunctStrs : \A i \in DOMAIN PunctStrs[p] : PunctStrs[p][i] \in Puncts

Punct ==
  LET found == {i \in DOMAIN PunctStrs : NextEq(cursor, PunctStrs[i])}
      first == CHOOSE i \in found : \A k \in found : i <= k
  IN  /\ Lexing /\ ~IsString /\ ~IsNumber /\ C(cursor) \in Puncts
      /\ ~IsLineComment /\ ~IsBlockComment
      /\ Token("punct", cursor + (IF found = {} THEN 1 ELSE Len(PunctStrs[first])))

\* At the end of the text every call returns PP_TOK_EOF, and nothing changes.
AtEof == Lexing /\ C(cursor) = Nul

Next ==
  \/ TextNext /\ UNCHANGED lexVars
  \/ Space \/ LineComment \/ BlockComment
  \/ Other \/ String \/ Number \/ Ident \/ Punct

Spec == LexInit /\ [][Next]_vars

-----------------------------------------------------------------------------
(* Where comments and strings are, read character by character: Mode[i] is  *)
(* what the characters before position i leave the reader in.               *)

\* What is outside of comments, strings, words and numbers leaves nothing but whether
\* a slash came last.
Begun(c) ==
  CASE c = "\"" -> "str"
    [] c = "'"  -> "char"
    [] c = "/"  -> "slash"
    [] c \in Digits -> "num"
    [] c \in Words \ Digits -> "word"
    [] OTHER -> "code"

Turn(b, c) ==
  CASE b = "stresc"  -> "str"
    [] b = "charesc" -> "char"
    [] b = "str"  -> IF c = "\\" THEN "stresc"  ELSE IF c \in {"\"", Nl} THEN "code" ELSE b
    [] b = "char" -> IF c = "\\" THEN "charesc" ELSE IF c \in {"'", Nl} THEN "code" ELSE b
    [] b = "line" -> IF c = Nl THEN "code" ELSE b
    [] b = "block" -> IF c = "*" THEN "star" ELSE b
    [] b = "star"  -> IF c = "*" THEN b ELSE IF c = "/" THEN "code" ELSE "block"
    [] b = "word"  -> IF c \in Words THEN b ELSE Begun(c)
    [] b = "num"   -> IF c \in Words \cup {"'"} THEN b ELSE Begun(c)
    [] b = "slash" -> IF c = "/" THEN "line" ELSE IF c = "*" THEN "block" ELSE Begun(c)
    [] b = "code"  -> Begun(c)

Mode ==
  LET m[i \in start..EndOf] == IF i = start THEN "code" ELSE Turn(m[i - 1], C(i - 1))
  IN  m

Open == {"code", "slash", "word", "num"}

InComment(mode, i) ==
  \/ mode[i] \in {"line", "block", "star"}
  \/ mode[i + 1] \in {"line", "block"}
  \/ mode[i + 1] = "slash" /\ i + 2 <= EndOf /\ mode[i + 2] \in {"line", "block"}

\* A comment that begins "/*/" is taken for a whole one, and next_eq misses one that
\* only begins where the text ends: such texts are left out of what follows, and so
\* are those that end within a string.
Regular ==
  /\ ~\E i \in start..(EndOf - 3) : C(i) = "/" /\ C(i + 1) = "*" /\ C(i + 2) = "/"
  /\ EndOf > start => Mode[EndOf - 1] # "slash" \/ Mode[EndOf] \notin {"line", "block"}
  /\ Mode[EndOf] \notin {"str", "stresc", "char", "charesc"}

Lexed == AtEof /\ Regular

\* The tokens are what is left of the text without comments and without the white
\* space outside of strings, none overlaps another, and each says whether something
\* was left out before it ("Function-like macros are sensetive to spaces").  Two
\* punctuators side by side are not one longer one, but where the text ends.
TokensAreTheCode ==
  Lexed =>
    LET mode == Mode IN
    /\ \A k \in DOMAIN toks :
         LET before == IF k = 1 THEN start ELSE toks[k - 1].next IN
         /\ before <= toks[k].from
         /\ toks[k].ws <=> before < toks[k].from
    /\ \A i \in start..(EndOf - 1) :
         (\E k \in DOMAIN toks : i \in toks[k].from..(toks[k].next - 1))
           <=> /\ ~InComment(mode, i)
               /\ ~(C(i) \in Spaces /\ mode[i] \in Open)
    /\ \A k \in DOMAIN toks, p \in DOMAIN PunctStrs :
         LET i == toks[k].from IN
         (/\ PunctStrs[p] = <<C(i), C(i + 1)>>
          /\ k + 1 \in DOMAIN toks /\ toks[k].next = i + 1 /\ toks[k + 1].next = i + 2)
         => i + 2 = EndOf

\* A token starts a line, and a '#' a directive, exactly if it is the first of the
\* text or a line end stands before it that is not part of a comment or of the
\* token before.  pp_lexer.h:82-85: "This information must be present to parse
\* preprocessor directives."
LineStarts ==
  Lexed =>
    LET mode == Mode IN
    \A k \in DOMAIN toks :
      toks[k].bol <=> k = 1 \/ \E i \in toks[k - 1].next..(toks[k].from - 1) :
                                  C(i) = Nl /\ mode[i] \notin {"block", "star"}

\* A token is reported on the line of the file it is counted on, however lines are
\* joined and comments continued before it, unless a string that is not closed
\* has taken a line end with it.
TokensOnTheirLine ==
  Lexed /\ Plain(text) =>
    \A k \in DOMAIN toks :
      (\A m \in 1..(k - 1) : C(toks[m].next - 1) # Nl)
        => toks[k].line = LineOf(text, buf[toks[k].from].at)
=============================================================================
