------------------------------ MODULE MCPpTokens ------------------------------
(* Tokens and lines from which the model-checked sources are made.           *)
EXTENDS Naturals, Sequences, SequencesExt

LOCAL T(k, s) == [k |-> k, s |-> s, bol |-> FALSE, ws |-> TRUE, loc |-> TRUE]

W(s) == T("id", s)
P(s) == T("punct", s)
N(s) == T("num", s)
S(s) == T("str", s)
Other(s) == T("other", s)

\* "(" directly after a name
Paren == [P("(") EXCEPT !.ws = FALSE]

Line(toks) == [toks EXCEPT ![1].bol = TRUE]
Dir(toks)  == Line(<<P("#")>> \o toks)

\* The text line number i.
TextNames == <<"t1", "t2", "t3", "t4", "t5", "t6", "t7", "t8", "t9">>
TextLine(i)   == Line(<<W(TextNames[i])>>)

SpellingsOf(toks) == {toks[j].s : j \in DOMAIN toks}

\* What #if makes of a number and at least one token behind it that is no operator.
\* Where a report broke the conversion off behind the first token (preprocessor.c:506,
\* 520) the list has no end, and cond_incl_ast.c:79 reads through a null pointer.
FirstNumber(toks) ==
  IF Len(toks) < 2 \/ toks[1].k # "num" THEN "abort"
  ELSE IF toks[1].s = "0" THEN "zero" ELSE "nonzero"
=============================================================================
