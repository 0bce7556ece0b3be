------------------------------ MODULE MCPpLines ------------------------------
(* Sources of up to MaxLines lines from a list of directives and of macro      *)
(* calls, most of them in some way unusual, after the definitions of a few     *)
(* macros.  Where two lines of text end them, a #define or #ifdef without a    *)
(* name takes its name from the first and ends at the second.  And the sources *)
(* of MCPpCalls, made of one macro call.                                       *)
EXTENDS PpCalls, MCPpCalls

CONSTANT MaxLines   \* the lines of a source, without those common to all

D(s, rest)    == Dir(<<W(s)>> \o rest)
Begun(f, args) == <<W(f), Paren>> \o args

Prologue ==
     D("define", <<W("F"), Paren, W("x"), P(")"), W("x"), P("#"), W("x"), P("#"), W("y")>>)
  \o D("define", <<W("V"), Paren, P("..."), P(")"), W("__VA_ARGS__")>>)
  \o D("define", <<W("Z"), Paren, P(")"), W("z"), P("#")>>)
  \o D("define", <<W("E")>>)

\* Text with a '#' inside the line, and with a character that is no token.
TextLines ==
  { TextLine(1), Line(<<W("t2"), P("#"), W("else"), N("1")>>),
    Line(<<Other("@"), S("u")>>) }

Definitions ==
  { D("define", <<W("X")>> \o r) :
      r \in { <<>>, <<N("1"), P("#")>>, <<P("("), W("x"), P(")")>>,
              <<Paren, P(")"), N("1")>>,
              <<Paren, W("x"), P(","), P("..."), P(")"), W("x")>>,
              <<Paren, P("..."), P(","), P("..."), P(")")>>,
              <<Paren, P("..."), P(","), W("x"), P(")")>>,
              <<Paren, N("1")>>, <<Paren, W("x"), W("y")>>,
              <<Paren, W("x"), P(",")>> } }
  \cup { D("define", <<N("1"), N("1")>>), D("undef", <<W("X")>>),
         D("undef", <<N("1")>>) }

\* Conditionals with one group, which is read.
Groups ==
  { D("if", <<N("1")>>), D("if", <<W("defined"), W("F"), N("1")>>),
    D("ifdef", <<W("F"), W("x")>>), D("ifndef", <<W("U")>>),
    D("endif", <<>>), D("endif", <<W("x")>>) }

Others ==
  { D("error", <<W("x"), N("1")>>), D("warning", <<>>), D("line", <<N("1")>>),
    D("x", <<W("y")>>),
    D("include", <<S("h")>>), D("include", <<P("<"), W("h"), P(">")>>),
    D("include", <<S("h"), W("x"), P("#")>>),
    D("include", <<P("<"), W("h"), P(">"), N("1"), P(">")>>),
    D("include", <<N("1")>>), D("include", <<P("<"), W("h")>>) }

WholeLines == TextLines \cup Definitions \cup Groups \cup Others

\* Directives that do without their operand, or cannot be handled.
OddDirectives ==
  { D("define", <<>>), D("ifdef", <<>>), D("if", <<>>), D("include", <<>>),
    D("pragma", <<W("x")>>), D("include", <<S("u")>>),
    D("if", <<W("defined"), N("1")>>), D("if", <<N("1"), P("##")>>),
    D("if", <<N("1"), W("F"), N("1")>>), D("if", <<W("E"), N("1"), P("#")>>),
    D("if", <<W("defined"), P("("), W("X"), W("x"), N("1")>>),
    D("if", <<W("defined")>>), D("if", Begun("F", <<>>)),
    D("if", <<W("F"), Paren, W("defined"), N("1")>>),
    D("if", <<W("V"), P("("), W("defined"), N("1")>>),
    D("elif", <<N("1")>>), D("else", <<W("x")>>), D("ifndef", <<N("1")>>) }

\* Macro calls with too many, too few or unusual arguments, or not closed.
OddCalls ==
  { Line(Begun("F", <<N("1"), P(")")>>)), Line(Begun("F", <<P(")")>>)),
    Line(Begun("F", <<N("1"), P(","), N("1"), P(")")>>)),
    Line(Begun("F", <<P("("), N("1"), P(","), P(")"), P(","), P(")")>>)),
    Line(Begun("F", <<N("1")>>)), Line(<<W("F"), W("E")>>),
    Line(Begun("V", <<N("1"), P(","), P(")"), P(","), P("("), P(")")>>)),
    Line(Begun("V", <<N("1"), P(",")>>)),
    Line(Begun("Z", <<P(")")>>)), Line(Begun("Z", <<N("1"), P(")")>>)),
    Line(<<P("##")>>) }

\* A file that ends behind the name of a macro, and what may follow it in the other.
Halves == { D("include", <<S("d")>>), Line(<<Paren, P(")"), N("1")>>) }

OddLines == OddDirectives \cup OddCalls \cup Halves \cup {TextLine(1), D("endif", <<>>)}

Bodies(lines)  == UNION {[1..n -> lines] : n \in 0..MaxLines}
Sources(lines) == {Prologue \o FlattenSeq(b) : b \in Bodies(lines)}
Ended(sources) == {s \o TextLine(8) \o TextLine(9) : s \in sources}

WholePrograms == LET sources == Sources(WholeLines) IN sources \cup Ended(sources)

MCPrograms == WholePrograms \cup Ended(Sources(OddLines)) \cup DOMAIN CallMeaning

\* Lines of text, and #include with more on its line.
IncludePrograms == Ended(Sources({TextLine(1), D("include", <<S("h"), W("x")>>)}))

\* Headers that leave no text: a definition, and a macro that expands to nothing; and
\* half a definition.
MCHeaders ==
  [h \in {<<"h">>, <<"d">>} |->
     IF h = <<"h">> THEN D("define", <<W("Y"), N("1")>>) \o Line(<<W("E")>>)
                    ELSE D("define", <<W("Y")>>)]
MCPredefined == [n \in {} |-> <<>>]

MCSpellings ==
  UNION {SpellingsOf(l) : l \in WholeLines \cup OddLines}
    \cup CallSpellings \cup SpellingsOf(Prologue) \cup SpellingsOf(MCHeaders[<<"h">>])
    \cup {"", "0", "t8", "t9", "Y"}

\* What stands outside the lines of directives comes out whole, and of the directives
\* only what stands behind the name of an #include: in the sources in which all groups
\* are included, no text is a macro, and every directive has its operands on its line.
\* pp_lexer.h:84-85 would have nothing of a directive come out (DirectivesTakeTheirLine).
WholeLinesKept == In("done") /\ src \in WholePrograms => DirectivesLeaveText
=============================================================================
