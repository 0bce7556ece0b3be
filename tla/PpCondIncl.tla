------------------------------ MODULE PpCondIncl ------------------------------
(***************************************************************************)
(* Conditional inclusion: the #if family of process_pp_directive,          *)
(* push_cond_incl, skip_cond_incl and eval_pp_expr.                        *)
(***************************************************************************)
EXTENDS PpExpand

\* The directive named s follows the '#' that was just eaten.
Directive(s) == In("directive") /\ IsId(Tok("main"), s)

Incl == Head(cond)

\* push_cond_incl
Push(included) ==
  cond' = <<[included |-> included, afterElse |-> FALSE]>> \o cond

Skip == [in |-> "skip", depth |-> 0]

IfDirective ==
  /\ Directive("if")
  /\ EatTok("main")
  /\ GoTo([in |-> "copy", for |-> "if", toks |-> <<>>])
  /\ UNCHANGED <<macros, cond, out, src>>

Stray(s) ==
  /\ Directive(s) /\ cond = <<>>
  /\ EatTok("main")
  /\ ReportAndGo(Tok("main"), {"Stray directive"}, Tail_)
  /\ UNCHANGED <<macros, cond, out, src>>

Elif ==
  /\ Directive("elif") /\ cond # <<>>
  /\ EatTok("main")
  /\ ReportAndGo(Tok("main"), Msg(Incl.afterElse, "#elif is after #else"),
                 IF Incl.included THEN Skip
                 ELSE [in |-> "copy", for |-> "elif", toks |-> <<>>])
  /\ UNCHANGED <<macros, cond, out, src>>

\* Plausible bug: the group after #else is always read.
ElseAlwaysRead ==
  /\ Directive("else") /\ cond # <<>>
  /\ EatTok("main")
  /\ ReportAndGo(Tok("main"), Msg(Incl.afterElse, "#else is after #else"), Tail_)
  /\ cond' = [cond EXCEPT ![1].afterElse = TRUE]
  /\ UNCHANGED <<macros, out, src>>

Else ==
  /\ Directive("else") /\ cond # <<>>
  /\ EatTok("main")
  /\ ReportAndGo(Tok("main"), Msg(Incl.afterElse, "#else is after #else"),
                 IF Incl.included THEN Skip ELSE Tail_)
  /\ cond' = [cond EXCEPT ![1].afterElse = TRUE]
  /\ UNCHANGED <<macros, out, src>>

Endif ==
  /\ Directive("endif") /\ cond # <<>>
  /\ EatTok("main")
  /\ cond' = Tail(cond)
  /\ GoTo(Tail_)
  /\ UNCHANGED <<macros, out, src>>

\* #ifdef and #ifndef
IfDefined(s, included) ==
  LET stack == Ate("main")
      name  == NextTok("main", stack)
      incl  == IsDefined(name) <=> included
  IN
  /\ Directive(s)
  /\ it' = [it EXCEPT !["main"] = Bite(stack)]
  /\ Push(incl)
  /\ ReportAndGo(name, Msg(name.k # "id", "Expected identifier"),
                 IF incl THEN Tail_ ELSE Skip)
  /\ UNCHANGED <<macros, out, src>>

-----------------------------------------------------------------------------
(* eval_pp_expr: the line is copied, "defined" is replaced, the result is   *)
(* expanded and converted by an iterator of its own, and evaluated.         *)

CopyToken ==
  /\ In("copy") /\ ~Tok("main").bol
  /\ EatTok("main")
  /\ GoTo(IF IsEof(Tok("main")) THEN Spin
          ELSE [fn EXCEPT !.toks = Append(@, Tok("main"))])
  /\ UNCHANGED <<macros, cond, out, src>>

CopyEnd ==
  /\ In("copy") /\ Tok("main").bol
  /\ GoTo([in |-> "defined", for |-> fn.for, toks |-> <<>>,
           line |-> Append(fn.toks, EofTok)])
  /\ UNCHANGED <<it, macros, cond, out, src>>

Replacing == In("defined") /\ fn.line # <<>>

\* The line after its first n tokens, and what they became.
Replaced(n, toks) ==
  [fn EXCEPT !.line = SubSeq(@, n + 1, Len(@)), !.toks = @ \o toks]

NumTok(s) == [EofTok EXCEPT !.k = "num", !.s = s]

KeepToken ==
  /\ Replacing /\ ~IsId(Head(fn.line), "defined")
  /\ GoTo(Replaced(1, <<Head(fn.line)>>))
  /\ UNCHANGED <<it, macros, cond, out, src>>

\* "defined" n or "defined" ( n ).  A missing ')' is reported and the token in
\* its place dropped; the line ends in EOF, at which a report ends the program.
ReplaceDefined ==
  LET paren == IsPunct(fn.line[2], "(")
      n     == IF paren THEN 3 ELSE 2
      name  == fn.line[n]
      close == fn.line[n + 1]
      num   == NumTok(IF IsDefined(name) THEN "1" ELSE "0")
  IN
  /\ Replacing /\ IsId(Head(fn.line), "defined")
  /\ IF name.k # "id"
     THEN ReportAndGo(name, {"Expected identifier"}, [fn EXCEPT !.line = <<>>])
     ELSE IF paren
     THEN ReportAndGo(close,
            Msg(~IsPunct(close, ")"), "Expected closing parens ')' for defined()"),
            Replaced(4, <<num>>))
     ELSE GoTo(Replaced(2, <<num>>))
  /\ UNCHANGED <<it, macros, cond, out, src>>

\* ppti_insert_tok_list asserts that the list is not empty.
ReplacedAll ==
  /\ In("defined") /\ fn.line = <<>>
  /\ IF fn.toks = <<>>
     THEN GoTo(Abort) /\ UNCHANGED it
     ELSE /\ it' = [it EXCEPT !["expr"] = Inserted(<<>>, fn.toks)]
          /\ GoTo([in |-> "convert", for |-> fn.for, toks |-> <<>>])
  /\ UNCHANGED <<macros, cond, out, src>>

\* Tokens convert_pp_token has a C token for.
Convertible(t) == \/ t.k \in {"id", "num", "str", "eof"}
                  \/ t.k = "punct" /\ t.s \notin {"#", "##"}

NotExpanded(i) ==
  Named(i).kind = "none" \/ (Named(i).kind = "func" /\ ~IsCall(i))

Converting == In("convert") /\ NotExpanded("expr") /\ Tok("expr").k # "null"

\* A name that is no macro counts as 0.
ConvertToken ==
  LET t == Tok("expr") IN
  /\ Converting /\ Convertible(t) /\ Named("expr").kind = "none"
  /\ it' = [it EXCEPT !["expr"] = Ate("expr")]
  /\ GoTo([fn EXCEPT !.toks = Append(@, IF t.k = "id" THEN NumTok("0") ELSE t)])
  /\ UNCHANGED <<macros, cond, out, src>>

\* The name of a function-like macro without a call, or '#': reported, and the
\* expression ends here.
ConvertFails ==
  LET t == Tok("expr") IN
  /\ Converting
  /\ \/ t.k = "id" /\ IsDefined(t)
     \/ ~Convertible(t)
  /\ it' = [it EXCEPT !["expr"] = <<>>]
  /\ IF IsPunct(t, "##") THEN GoTo(Abort)
     ELSE ReportAndGo(t, {IF t.k = "id" THEN "Unexpected identifier"
                                        ELSE "Unexpected token"}, fn)
  /\ UNCHANGED <<macros, cond, out, src>>

Evaluate ==
  LET v    == EvalExpr(fn.toks)
      incl == v = "nonzero"
  IN
  /\ In("convert") /\ Tok("expr").k = "null"
  /\ it' = [it EXCEPT !["expr"] = <<>>]
  /\ IF v = "abort" THEN GoTo(Abort) /\ UNCHANGED cond
     ELSE /\ GoTo(IF incl THEN Tail_ ELSE Skip)
          /\ \/ fn.for = "if" /\ Push(incl)
             \/ fn.for = "elif" /\ cond' = [cond EXCEPT ![1].included = incl]
  /\ UNCHANGED <<macros, out, src>>

-----------------------------------------------------------------------------
(* skip_cond_incl *)

Opens(t)   == t.s \in {"if", "ifdef", "ifndef"}
Divides(t) == t.s \in {"elif", "else"}
Ends(t)    == t.s = "endif"

\* How many conditionals of the skipped group are open after the directive t.
Deeper(t) == IF Opens(t) THEN fn.depth + 1 ELSE IF Ends(t) THEN fn.depth - 1 ELSE fn.depth

AtHash == IsPunct(Tok("main"), "#") /\ Tok("main").bol

SkipToken ==
  /\ In("skip") /\ ~IsEof(Tok("main")) /\ ~AtHash
  /\ EatTok("main")
  /\ UNCHANGED <<macros, cond, fn, out, diags, src>>

\* A '#' and no name: both are eaten and the loop goes on with its pointer to
\* the '#', which has been freed.
SkipNameless ==
  /\ In("skip") /\ AtHash /\ SecondTok("main").k # "id"
  /\ it' = [it EXCEPT !["main"] = AteTwo("main")]
  /\ GoTo([fn EXCEPT !.in = "stale"])
  /\ UNCHANGED <<macros, cond, out, src>>

\* What the freed memory shows is either still the '#', which is then handled
\* as one with whatever comes second now (for ever, once there is nothing), or
\* something else, which is skipped by a ppti_eat that nothing was peeked for.
SkipStale ==
  /\ In("stale")
  /\ \/ /\ it' = [it EXCEPT !["main"] = Eat(@)]
        /\ GoTo([fn EXCEPT !.in = "skip"])
     \/ /\ SecondTok("main").k # "id"
        /\ it' = [it EXCEPT !["main"] = AteTwo("main")]
        /\ GoTo(IF it["main"] = <<>> THEN Spin ELSE fn)
  /\ UNCHANGED <<macros, cond, out, src>>

\* Plausible bug: the #endif of the skipped group itself does not end it.
SkipDirectiveOn ==
  LET t == SecondTok("main") IN
  /\ (In("skip") /\ AtHash) \/ In("stale")
  /\ t.k = "id"
  /\ GoTo([in |-> "skip", depth |-> Deeper(t)])
  /\ it' = [it EXCEPT !["main"] = AteTwo("main")]
  /\ UNCHANGED <<macros, cond, out, src>>

SkipDirective ==
  LET t    == SecondTok("main")
      exit == fn.depth = 0 /\ (Divides(t) \/ Ends(t))
  IN
  /\ (In("skip") /\ AtHash) \/ In("stale")
  /\ t.k = "id"
  /\ GoTo(IF exit THEN Tail_ ELSE [in |-> "skip", depth |-> Deeper(t)])
  /\ it' = [it EXCEPT !["main"] = IF exit THEN Peeked(@, 1)
                                          ELSE AteTwo("main")]
  /\ UNCHANGED <<macros, cond, out, src>>

\* The end of input inside a nested conditional is not implemented.
SkipEnd ==
  /\ In("skip") /\ IsEof(Tok("main"))
  /\ GoTo(IF fn.depth > 0 THEN Abort ELSE Tail_)
  /\ UNCHANGED <<it, macros, cond, out, src>>

CondIncl == \/ IfDirective \/ Elif \/ Else \/ Endif
            \/ Stray("elif") \/ Stray("else") \/ Stray("endif")
            \/ IfDefined("ifdef", TRUE) \/ IfDefined("ifndef", FALSE)
            \/ CopyToken \/ CopyEnd
            \/ KeepToken \/ ReplaceDefined \/ ReplacedAll
            \/ ConvertToken \/ ConvertFails \/ Evaluate
            \/ SkipToken \/ SkipNameless \/ SkipStale \/ SkipDirective \/ SkipEnd
=============================================================================
