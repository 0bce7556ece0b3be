---------------------------- MODULE Preprocessor ----------------------------
(***************************************************************************)
(* The preprocessor as a whole (pp_init, pp_parse, process_pp_directive):  *)
(* the main file is read to its end, one call of pp_parse per output token.*)
(***************************************************************************)
EXTENDS PpDefine, PpCondIncl

Init ==
  /\ src \in Programs
  /\ it = [main |-> IncludeFile(<<>>, src), expr |-> <<>>]
  /\ macros = [n \in DOMAIN Predefined |-> ObjMacro(Predefined[n])]
  /\ cond = <<>>
  /\ fn = Parse
  /\ out = <<>>
  /\ diags = {}

-----------------------------------------------------------------------------
(* process_pp_directive: the directives not in PpDefine and PpCondIncl. *)

\* The '#' is eaten; a directive must begin with a name.
Hash ==
  /\ In("parse") /\ AtHash
  /\ EatTok("main")
  /\ GoTo(IF NextTok("main", Ate("main")).k = "id" THEN [in |-> "directive"]
                                                   ELSE Abort)
  /\ UNCHANGED <<macros, cond, out, src>>

\* #line does nothing, not even eat its name; #pragma is not implemented.
LineDirective ==
  /\ Directive("line")
  /\ GoTo(Tail_)
  /\ UNCHANGED <<it, macros, cond, out, src>>

PragmaDirective ==
  /\ Directive("pragma")
  /\ GoTo(Abort)
  /\ UNCHANGED <<it, macros, cond, out, src>>

Known == {"define", "undef", "if", "elif", "else", "endif", "ifdef", "ifndef",
          "line", "pragma", "error", "warning", "include"}

UnknownDirective ==
  /\ In("directive") /\ Tok("main").s \notin Known
  /\ ReportAndGo(Tok("main"), {"Unexpected preprocessor directive"}, Tail_)
  /\ UNCHANGED <<it, macros, cond, out, src>>

\* #error and #warning
MessageDirective ==
  /\ Directive("error") \/ Directive("warning")
  /\ EatTok("main")
  /\ GoTo([in |-> "message", text |-> Tok("main").s])
  /\ UNCHANGED <<macros, cond, out, src>>

MessageToken ==
  /\ In("message") /\ ~Tok("main").bol
  /\ EatTok("main")
  /\ GoTo(IF IsEof(Tok("main")) THEN Spin ELSE fn)
  /\ UNCHANGED <<macros, cond, out, src>>

MessageEnd ==
  /\ In("message") /\ Tok("main").bol
  /\ diags' = diags \cup {fn.text}
  /\ fn' = Tail_
  /\ UNCHANGED <<it, macros, cond, out, src>>

\* ppti_include_file on top of the entries s; a file that is not found is not
\* handled.
OpenFile(name, s) ==
  IF name \in DOMAIN Headers
  THEN /\ it' = [it EXCEPT !["main"] = IncludeFile(s, Headers[name])]
       /\ fn' = Tail_
  ELSE fn' = Abort /\ UNCHANGED it

IncludeDirective ==
  LET s == Ate("main")
      t == NextTok("main", s)
  IN
  /\ Directive("include")
  /\ \/ /\ t.bol
        /\ GoTo(Abort) /\ UNCHANGED it
     \/ /\ ~t.bol /\ IsPunct(t, "<")
        /\ it' = [it EXCEPT !["main"] = Bite(s)]
        /\ GoTo([in |-> "angle", name |-> <<>>])
     \/ /\ ~t.bol /\ t.k = "str"
        /\ OpenFile(<<t.s>>, Bite(s))
        /\ UNCHANGED diags
     \/ /\ ~t.bol /\ t.k # "str" /\ ~IsPunct(t, "<")
        /\ it' = [it EXCEPT !["main"] = s]
        /\ ReportAndGo(t, {"Unexpected token (expected filename)"}, Tail_)
  /\ UNCHANGED <<macros, cond, out, src>>

\* The tokens up to '>' are the name of an #include <...>.
AngleToken ==
  LET t == Tok("main") IN
  /\ In("angle") /\ ~t.bol /\ ~IsPunct(t, ">")
  /\ EatTok("main")
  /\ GoTo(IF IsEof(t) THEN Spin ELSE [fn EXCEPT !.name = Append(@, t.s)])
  /\ UNCHANGED <<macros, cond, out, src>>

\* Without a '>' on the line the file is included all the same.
AngleEnd ==
  LET t == Tok("main") IN
  /\ In("angle") /\ (t.bol \/ IsPunct(t, ">"))
  /\ OpenFile(fn.name, IF IsPunct(t, ">") THEN Ate("main") ELSE it["main"])
  /\ diags' = diags \cup Msg(~IsPunct(t, ">"), "Expected '>'")
  /\ UNCHANGED <<macros, cond, out, src>>

\* Plausible bug: what is left of the line is read as text.
TailUnchecked ==
  /\ In("tail")
  /\ GoTo(Parse)
  /\ UNCHANGED <<it, macros, cond, out, src>>

\* What is left of the directive's line is reported and dropped.
CheckTail ==
  LET t == Tok("main") IN
  /\ In("tail")
  /\ IF IsEof(t) \/ t.bol THEN GoTo(Parse)
     ELSE ReportAndGo(t, {"Unexpected tokens after preprocessor directive"},
                      [in |-> "drop"])
  /\ UNCHANGED <<it, macros, cond, out, src>>

\* Plausible bug: the loop goes round without eating.
DropPeeks ==
  LET t == Tok("main") IN
  /\ In("drop")
  /\ IF IsEof(t) \/ t.bol THEN GoTo(Parse) ELSE GoTo(Tail_)
  /\ UNCHANGED <<it, macros, cond, out, src>>

DropToken ==
  LET t == Tok("main") IN
  /\ In("drop")
  /\ IF IsEof(t) \/ t.bol THEN GoTo(Parse) /\ UNCHANGED it
                          ELSE EatTok("main") /\ UNCHANGED <<fn, diags>>
  /\ UNCHANGED <<macros, cond, out, src>>

-----------------------------------------------------------------------------
(* pp_parse: tokens that are neither a macro nor a directive. *)

Text == In("parse") /\ NotExpanded("main") /\ ~AtHash

EmitToken ==
  LET t == Tok("main") IN
  /\ Text /\ Convertible(t) /\ ~IsEof(t)
  /\ out' = Append(out, t)
  /\ EatTok("main")
  /\ UNCHANGED <<macros, cond, fn, diags, src>>

EmitEof ==
  /\ Text /\ IsEof(Tok("main"))
  /\ EatTok("main")
  /\ GoTo(Done)
  /\ UNCHANGED <<macros, cond, out, src>>

\* A '#' inside a line, or a character that starts no token; "##" fails an
\* assert.
RejectToken ==
  LET t == Tok("main") IN
  /\ Text /\ ~Convertible(t)
  /\ EatTok("main")
  /\ IF IsPunct(t, "##") THEN GoTo(Abort)
                         ELSE ReportAndGo(t, {"Unexpected token"}, fn)
  /\ UNCHANGED <<macros, cond, out, src>>

Halted == fn \in {Done, Abort, Spin}
Stay   == Halted /\ UNCHANGED vars

Next == \/ Define \/ Expand \/ CondIncl
        \/ Hash \/ LineDirective \/ PragmaDirective \/ UnknownDirective
        \/ MessageDirective \/ MessageToken \/ MessageEnd
        \/ IncludeDirective \/ AngleToken \/ AngleEnd
        \/ CheckTail \/ DropToken
        \/ EmitToken \/ EmitEof \/ RejectToken
        \/ Stay

Spec == Init /\ [][Next]_vars

\* One thread runs the loop and nothing else can stop it: it takes step after step
\* for as long as it has not halted.  (This is WF_vars(Next), as a step can be
\* taken in every state that is not halted.)
FairSpec == Spec /\ ([]<>Halted \/ []<><<Next>>_vars)

-----------------------------------------------------------------------------
(* Properties of the whole; those of one group of directives are in the     *)
(* modules PpGroups and PpCalls.                                            *)

Toks   == Seq(PpToken)
Params == Seq([name : Spellings, set : BOOLEAN, toks : Toks])

Macros == [kind : {"obj", "func"}, variadic : BOOLEAN, count : Nat,
           params : Params, body : Toks]

\* The loops of pp_parse: those outside a macro call, and those inside one.
BareLoops    == [in : {"parse", "tail", "abort", "spin", "done", "directive", "name", "drop"}]
ParamLoops   == [in : {"params", "paramsend"}, macro : Spellings, params : Params]
BodyLoops    == [in : {"body"}, macro : Spellings, toks : Toks]
IfLoops      == [in : {"copy", "convert"}, for : {"if", "elif"}, toks : Toks]
DefinedLoops == [in : {"defined"}, for : {"if", "elif"}, toks : Toks, line : Toks]
SkipLoops    == [in : {"skip", "stale"}, depth : Nat]
MessageLoops == [in : {"message"}, text : {"error", "warning"}]
AngleLoops   == [in : {"angle"}, name : Seq(Spellings)]

Loops == BareLoops \cup ParamLoops \cup BodyLoops \cup IfLoops \cup DefinedLoops
           \cup SkipLoops \cup MessageLoops \cup AngleLoops

CallLoops ==
  [in : {"call", "args", "close", "subst"}, on : {"main", "expr"}, ret : Loops,
   macro : Spellings, loc : BOOLEAN, left : Toks, arg : Nat \ {0}, depth : Nat,
   toks : Toks]

Stacks == Seq(Entry(PpToken))

\* Type invariant; in particular no nesting counter goes below zero.
TypeOK ==
  /\ it \in [{"main", "expr"} -> Stacks]
  /\ DOMAIN macros \subseteq Spellings
  /\ \A n \in DOMAIN macros : macros[n] \in Macros
  /\ cond \in Seq([included : BOOLEAN, afterElse : BOOLEAN])
  /\ fn \in Loops \cup CallLoops
  /\ out \in Toks
  /\ src \in Toks

\* What is still to be read, across all open files.
Ahead == ReadOrder(it.main, Len(it.main))

\* No step loses a token: it eats at most two (three where a macro's name is read),
\* may put some in front, and leaves all others to be read, in their order.  In
\* particular every ppti_eat that closes a file closes one that was read to its end.
\* Not where the loop goes on with a freed token (preprocessor.c:408), which may eat
\* what it has not peeked.  pp_token_iter.h:4: "peek returns next tokens until it is
\* eaten, then skips to the next".
NoUnreadDropped ==
  [][In("stale") \/
     LET before == Ahead
         after  == Ahead'
     IN  \E k \in 0..Len(after), n \in 0..(IF In("name") THEN 3 ELSE 2) :
           SubSeq(after, k + 1, Len(after)) = SubSeq(before, n + 1, Len(before))]_vars

\* The positions of src on lines that a '#' starts.
OnDirective(p) ==
  \E q \in 1..p : /\ src[q].bol /\ IsPunct(src[q], "#")
                  /\ \A r \in (q + 1)..p : ~src[r].bol

\* A source with no macro that leads back to itself is read to its end or given up,
\* or ends on a directive's line, at whose end some loops wait for a line that never
\* starts (preprocessor.c:357, 439, 653, 666 and 681): no loop waits anywhere else,
\* and none turns without eating.
Terminates == <>(fn \in {Done, Abort} \/ (fn = Spin /\ OnDirective(Len(src))))

\* What comes out when all groups are included and no text is a macro: the tokens at
\* the places kept, a '#' inside a line left out.
TextIs(kept) ==
  LET nth[p \in 0..Len(src)] ==
        IF p = 0 THEN <<>>
        ELSE IF p \in kept /\ Convertible(src[p]) THEN Append(nth[p - 1], src[p])
        ELSE nth[p - 1]
  IN  out = nth[Len(src)]

\* What comes out is what stands outside the directives: a directive eats its line and
\* no more.  pp_lexer.h:84-85: "all preprocessor directives take one full source line".
DirectivesTakeTheirLine ==
  In("done") => TextIs({p \in DOMAIN src : ~OnDirective(p)})

\* The places behind the name of the file, on the line of an #include.
FileNameEnds(q, n) ==
  \/ n = q /\ src[q].k = "str"
  \/ /\ IsPunct(src[q], "<") /\ IsPunct(src[n], ">")
     /\ \A m \in q..(n - 1) : ~IsPunct(src[m], ">")

BehindFileName(p) ==
  \E q \in 1..(p - 2) :
    /\ src[q].bol /\ IsPunct(src[q], "#") /\ IsId(src[q + 1], "include")
    /\ \A r \in (q + 1)..p : ~src[r].bol
    /\ \E n \in (q + 2)..(p - 1) : FileNameEnds(q + 2, n)

\* The same but for #include: the file is put on top of the rest of the line, which is
\* checked no more and comes out as text when the file has been read.
DirectivesLeaveText ==
  In("done") => TextIs({p \in DOMAIN src : ~OnDirective(p) \/ BehindFileName(p)})
=============================================================================
