------------------------------ MODULE MCPpGroups ------------------------------
(* Sources made of conditionals: all sequences of at most MaxAny lines, and all *)
(* well-formed ones of at most MaxNested lines; a line of text follows.  The    *)
(* files they include open, divide and close conditionals.                      *)
EXTENDS PpGroups, MCPpTokens

CONSTANTS MaxAny, MaxNested, LineKinds

Rendered(kind, i) ==
  CASE kind = "text"   -> TextLine(i)
    [] kind = "noise"  -> Line(<<W(TextNames[i]), P("#"), W("else")>>)
    [] kind = "hash"   -> Dir(<<N("33")>>)
    [] kind = "if0"    -> Dir(<<W("if"), N("0")>>)
    [] kind = "if1"    -> Dir(<<W("if"), W("M")>>)
    [] kind = "ifdef"  -> Dir(<<W("ifdef"), W("M")>>)
    [] kind = "ifndef" -> Dir(<<W("ifndef"), W("M")>>)
    [] kind = "elif0"  -> Dir(<<W("elif"), W("defined"), W("U")>>)
    [] kind = "elif1"  -> Dir(<<W("elif"), W("defined"), P("("), W("M"), P(")")>>)
    [] kind = "else"   -> Dir(<<W("else")>>)
    [] kind = "endif"  -> Dir(<<W("endif")>>)
    [] OTHER           -> Dir(<<W("include"), S(kind)>>)

Source(kinds) ==
  FlattenSeq([i \in 1..(Len(kinds) + 1) |->
                IF i > Len(kinds) THEN TextLine(i) ELSE Rendered(kinds[i], i)])

AnyKinds == UNION {[1..n -> LineKinds] : n \in 0..MaxAny}

\* Sequences of n lines in which every conditional is closed; the groups that
\* fit between #if and #endif, without and with an #else.
RECURSIVE Closed(_), Elifs(_), Groups(_)
Closed(n) ==
  IF n = 0 THEN {<<>>} ELSE
    {<<"text">> \o r : r \in Closed(n - 1)}
    \cup UNION {{<<h>> \o g \o <<"endif">> \o r :
                    h \in {"if0", "if1"}, g \in Groups(m), r \in Closed(n - 2 - m)}
                : m \in 0..(n - 2)}
Elifs(n) ==
  Closed(n)
    \cup UNION {{e \o <<d>> \o g :
                    e \in Elifs(m), d \in {"elif0", "elif1"}, g \in Closed(n - 1 - m)}
                : m \in 0..(n - 1)}
Groups(n) ==
  Elifs(n)
    \cup UNION {{e \o <<"else">> \o g : e \in Elifs(m), g \in Closed(n - 1 - m)}
                : m \in 0..(n - 1)}

MCPrograms == {Source(k) : k \in AnyKinds \cup UNION {Closed(n) : n \in 0..MaxNested}}

MCPredefined == [n \in {"M"} |-> <<[N("1") EXCEPT !.bol = TRUE]>>]

\* One file opens a conditional, one ends a group and starts another, one closes.
MCHeaders ==
  [h \in {<<"open.h">>, <<"else.h">>, <<"close.h">>} |->
     CASE h = <<"open.h">>  -> Dir(<<W("if"), N("0")>>) \o Line(<<W("o")>>)
       [] h = <<"else.h">>  -> Line(<<W("e")>>) \o Dir(<<W("else")>>) \o Line(<<W("f")>>)
       [] h = <<"close.h">> -> Line(<<W("c")>>) \o Dir(<<W("endif")>>)]

MCSpellings ==
  {"", "#", "(", ")", "0", "1", "33", "M", "U", "if", "ifdef", "ifndef", "elif",
   "else", "endif", "defined", "include", "__VA_ARGS__", "open.h", "else.h", "close.h", "o", "e",
   "f", "c"} \cup Range(TextNames)
=============================================================================
