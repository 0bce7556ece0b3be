------------------------------ MODULE MCPpCalls ------------------------------
(***************************************************************************)
(* Sources made of one macro call, nested up to Depth calls deep, after    *)
(* the definitions of the macros.  Each comes with the spellings it should *)
(* expand to, put together from those of the arguments.                    *)
(***************************************************************************)
EXTENDS MCPpTokens

CONSTANT Depth

\* A call and its meaning.
Case(toks, means) == [toks |-> toks, means |-> means]

Simple ==
  { Case(<<W("a")>>, <<"a">>),
    Case(<<W("OBJ")>>, <<"o", "p">>),
    Case(<<P("("), W("b"), P(","), W("c"), P(")")>>, <<"(", "b", ",", "c", ")">>),
    Case(<<W("ID"), W("d")>>, <<"ID", "d">>) }

Call(f, args) == <<W(f), Paren>> \o args \o <<P(")")>>

RECURSIVE Cases(_)
Cases(n) ==
  IF n = 0 THEN Simple ELSE
  LET C == Cases(n - 1) IN
  C \cup { Case(Call("ID", x.toks), x.means) : x \in C }
    \cup { Case(Call("VAR", x.toks), x.means) : x \in Simple }
    \cup { Case(Call("SWAP", x.toks \o <<P(",")>> \o y.toks),
                y.means \o <<"s">> \o x.means \o x.means) : x \in C, y \in C }
    \cup { Case(Call("NUM", x.toks), <<"1", "">>) : x \in Simple }

Define1(s) ==
  CASE s = "OBJ"  -> <<W("OBJ"), W("o"), W("p")>>
    [] s = "ID"   -> <<W("ID"), Paren, W("x"), P(")"), W("x")>>
    [] s = "SWAP" -> <<W("SWAP"), Paren, W("x"), P(","), W("y"), P(")"),
                       W("y"), W("s"), W("x"), W("x")>>
    [] s = "VAR"  -> <<W("VAR"), Paren, P("..."), P(")"), W("__VA_ARGS__")>>
    [] s = "NUM"  -> <<W("NUM"), Paren, W("x"), P(")"), N("1"), P("#"), W("x")>>
    [] s = "NIL"  -> <<W("NIL"), Paren, P(")"), W("z")>>

Defined == <<"OBJ", "ID", "SWAP", "VAR", "NUM", "NIL">>

DefineLines == FlattenSeq([j \in DOMAIN Defined |->
                             Dir(<<W("define")>> \o Define1(Defined[j]))])

IfLine == Dir(<<W("if"), W("NUM"), Paren, W("OBJ"), P(")")>>)
EndifLine == Dir(<<W("endif")>>)

\* The call on a line of its own, and as a line of a group whose condition is
\* itself a call.
SourceOf(c) == DefineLines \o Line(c.toks)
GuardedSourceOf(c) == DefineLines \o IfLine \o Line(c.toks) \o EndifLine

AllCases == Cases(Depth)
Shallow  == Cases(1)

CallMeaning ==
  LET pairs == { <<SourceOf(c), c.means>> : c \in AllCases }
                 \cup { <<GuardedSourceOf(c), c.means>> : c \in Shallow }
  IN  [s \in {p[1] : p \in pairs} |-> (CHOOSE p \in pairs : p[1] = s)[2]]

CallSpellings == UNION {SpellingsOf(s) : s \in DOMAIN CallMeaning}
=============================================================================
