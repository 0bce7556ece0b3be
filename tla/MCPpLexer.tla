------------------------------ MODULE MCPpLexer ------------------------------
(* Texts for the model checker: all sequences of up to MaxRaw characters that  *)
(* matter to the phases, and of up to MaxWords words that matter to the lexer, *)
(* each with a word on a line of its own after it, and without: shorter ones   *)
(* of characters, and ones of words in which all strings are closed.           *)
EXTENDS PpLexer, SequencesExt

CONSTANTS MaxRaw, MaxWords

Raw == {"a", "\\", Nl, Cr, "?", "/"}

MCPuncts ==
  {"/", "*", "+", ".", "\\", "?", ">", "<", "=", "-", "%", "&", "|", "^", "!", "#"}

\* "mb" is a character of more than one byte.
WordSet ==
  { <<"a">>, <<"8">>, <<"u">>, <<"\"">>, <<"'">>, <<"\\">>, <<"sp">>, <<Nl>>, <<"*">>, <<"/">>,
    <<"/", "/">>, <<"/", "*">>, <<"/", "*", Nl, "*", "/">>, <<"\\", Nl>>, <<".", "8">>,
    <<"+">>, <<"mb">> }

Upto(S, k) == UNION {[1..j -> S] : j \in 0..k}

Tailed(t) == t \o <<Nl, "a", Nl>>

Closed == (WordSet \ {<<"\"">>, <<"'">>, <<"\\">>}) \cup {<<"\"", "/", "/", "\"">>}

\* A line end behind a backslash in a string; a NUL; a trigraph that is missed; a byte
\* that begins no character.
Odd ==
  { <<"\"", "\\", "\\", Nl, Nl, "\"", "a", Nl, "a">>, <<"a", Nul, Nl, "a">>,
    <<"?", "?", "?", "/", Nl, "a">>, <<"a", Nl, "0x80", "a">> }

MCTexts ==
  Upto(Raw, MaxRaw - 1) \cup {Tailed(t) : t \in Upto(Raw, MaxRaw)}
  \cup {FlattenSeq(w) : w \in Upto(Closed, MaxWords)}
  \cup {Tailed(FlattenSeq(w)) : w \in Upto(WordSet, MaxWords)}
  \cup Odd \cup {<<>>, <<Bom>>}
=============================================================================
