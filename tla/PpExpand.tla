------------------------------- MODULE PpExpand -------------------------------
(***************************************************************************)
(* Macro expansion: expand_macro, expand_function_like_macro and           *)
(* get_function_like_macro_arguments, on the main input (i = "main", from  *)
(* pp_parse's loop) and on the line of an #if (i = "expr").                *)
(***************************************************************************)
EXTENDS PpState

Expanding(i) == \/ i = "main" /\ In("parse")
                \/ i = "expr" /\ In("convert")

\* The macro the next token names, if any.
Named(i) == IF Tok(i).k = "id" THEN Macro(Tok(i).s) ELSE NoMacro

IsCall(i) == IsPunct(SecondTok(i), "(") /\ ~SecondTok(i).ws

\* The tokens of an expansion get the location of the macro's name.
Relocated(toks, loc) == [j \in DOMAIN toks |-> [toks[j] EXCEPT !.loc = loc]]

Callee == macros[fn.macro]

\* The parameter a body token names (get_argument); 0 is NULL.
ParamOf(t) ==
  LET S == {j \in DOMAIN Callee.params : Callee.params[j].name = MacroName(t)}
  IN  IF S = {} THEN 0 ELSE LeastOf(S)

-----------------------------------------------------------------------------
ExpandObject(i) ==
  LET t == Tok(i) IN
  /\ Expanding(i)
  /\ Named(i).kind = "obj"
  /\ it' = [it EXCEPT ![i] = Inserted(Ate(i), Relocated(Named(i).body, t.loc))]
  /\ UNCHANGED <<macros, cond, fn, out, diags, src>>

\* The name of a function-like macro and its '(' are eaten.
CallFunction(i) ==
  /\ Expanding(i)
  /\ Named(i).kind = "func" /\ IsCall(i)
  /\ it' = [it EXCEPT ![i] = AteTwo(i)]
  /\ GoTo([in |-> "call", on |-> i, ret |-> fn, macro |-> Tok(i).s,
           loc |-> Tok(i).loc, left |-> Named(i).body,
           arg |-> 1, depth |-> 0, toks |-> <<>>])
  /\ UNCHANGED <<macros, cond, out, src>>

Arg == Tok(fn.on)
ToClose == [fn EXCEPT !.in = "close"]

\* Arguments are collected unless the macro takes none and gets some.  (The
\* call f() of a macro without parameters collects one, too.)
StartArguments ==
  /\ In("call") /\ Arg.k # "null"
  /\ IF Callee.count = 0 /\ ~Callee.variadic /\ ~IsPunct(Arg, ")")
     THEN ReportAndGo(Arg, {"Unexpected macro arguments"}, ToClose)
     ELSE GoTo(IF IsEof(Arg) THEN ToClose ELSE [fn EXCEPT !.in = "args"])
  /\ UNCHANGED <<it, macros, cond, out, src>>

Closes == IsPunct(Arg, ")") /\ fn.depth = 0
Comma  == IsPunct(Arg, ",") /\ fn.depth = 0

\* Plausible bug: commas and parentheses inside parentheses count.
ArgumentTokenFlat ==
  /\ In("args")
  /\ Arg.k \notin {"eof", "null"} /\ ~Closes /\ ~Comma
  /\ EatTok(fn.on)
  /\ GoTo([fn EXCEPT !.toks = Append(@, Arg)])
  /\ UNCHANGED <<macros, cond, out, src>>

ArgumentToken ==
  /\ In("args")
  /\ Arg.k \notin {"eof", "null"} /\ ~Closes /\ ~Comma
  /\ EatTok(fn.on)
  /\ GoTo([fn EXCEPT !.toks = Append(@, Arg),
                     !.depth = IF IsPunct(Arg, "(") THEN @ + 1
                               ELSE IF IsPunct(Arg, ")") THEN @ - 1 ELSE @])
  /\ UNCHANGED <<macros, cond, out, src>>

\* The comma of a variadic macro is dropped and the token after it copied
\* unseen, be it a parenthesis or another comma.
VariadicComma ==
  LET s == Ate(fn.on)
      t == NextTok(fn.on, s)
  IN
  /\ In("args") /\ Comma /\ Callee.variadic
  /\ it' = [it EXCEPT ![fn.on] = Bite(s)]
  /\ GoTo(IF t.k = "null" THEN Abort
          ELSE IF IsEof(t) THEN fn
          ELSE [fn EXCEPT !.toks = Append(@, t)])
  /\ UNCHANGED <<macros, cond, out, src>>

\* An argument is complete and s is left to read: its tokens go to the next
\* parameter, which may not exist.
StoreArgument(s) ==
  LET t == NextTok(fn.on, s) IN
  /\ it' = [it EXCEPT ![fn.on] = s]
  /\ IF fn.arg > Len(Callee.params)
     THEN GoTo(Abort) /\ UNCHANGED macros
     ELSE /\ macros' = [macros EXCEPT ![fn.macro].params[fn.arg] =
                          [@ EXCEPT !.set = TRUE, !.toks = fn.toks]]
          /\ IF IsPunct(t, ")")
             THEN ReportAndGo(t,
                    Msg(fn.arg # Callee.count /\ ~Callee.variadic,
                        "Incorrect number of arguments in macro invocation"),
                    ToClose)
             ELSE GoTo(IF IsEof(t) THEN ToClose
                       ELSE [fn EXCEPT !.arg = @ + 1, !.toks = <<>>,
                                       !.depth = 0])

EndArgument ==
  /\ In("args")
  /\ \/ (Closes \/ IsEof(Arg)) /\ StoreArgument(it[fn.on])
     \/ Comma /\ ~Callee.variadic /\ StoreArgument(Ate(fn.on))
  /\ UNCHANGED <<cond, out, src>>

\* The ')' is eaten and the body substituted.
CloseCall ==
  LET f == [fn EXCEPT !.in = "subst", !.toks = <<>>] IN
  /\ In("close") /\ Arg.k # "null"
  /\ IF IsPunct(Arg, ")")
     THEN EatTok(fn.on) /\ GoTo(f)
     ELSE /\ ReportAndGo(Arg,
               {"Missing closing paren in function-like macro invocation"},
               f)
          /\ UNCHANGED it
  /\ UNCHANGED <<macros, cond, out, src>>

\* The iterator of eval_pp_expr ends in NULL, which none of these loops expects.
NullToken ==
  /\ fn.in \in {"call", "args", "close"} /\ Arg.k = "null"
  /\ GoTo(Abort)
  /\ UNCHANGED <<it, macros, cond, out, src>>

-----------------------------------------------------------------------------
(* Substitution, one token of the body at a time. *)

InBody == In("subst") /\ fn.left # <<>>
Body1  == Head(fn.left)

Substituted(n, toks) ==
  [fn EXCEPT !.left = SubSeq(@, n + 1, Len(@)), !.toks = @ \o toks]

SubstParam ==
  LET p == Callee.params[ParamOf(Body1)] IN
  /\ InBody /\ Body1.k = "id" /\ ParamOf(Body1) # 0
  /\ GoTo(IF p.set THEN Substituted(1, Relocated(p.toks, fn.loc)) ELSE Abort)
  /\ UNCHANGED <<it, macros, cond, out, src>>

\* '#' and a parameter: a new string token, which has no location.
StringTok == [k |-> "str", s |-> "", bol |-> FALSE, ws |-> FALSE, loc |-> FALSE]

Stringize ==
  LET p == ParamOf(fn.left[2]) IN
  /\ InBody /\ IsPunct(Body1, "#") /\ Len(fn.left) > 1 /\ p # 0
  /\ GoTo(IF Callee.params[p].set THEN Substituted(2, <<StringTok>>) ELSE Abort)
  /\ UNCHANGED <<it, macros, cond, out, src>>

\* '#' and anything else: reported at the ')' of the call, which has been freed;
\* its memory may meanwhile hold a token made by Stringize.  After a '#' at the
\* end the loop runs over the end of the list.
StringizeOther ==
  /\ InBody /\ IsPunct(Body1, "#")
  /\ \/ Len(fn.left) = 1 /\ fn' = Abort
     \/ /\ Len(fn.left) > 1 /\ ParamOf(fn.left[2]) = 0
        /\ \/ fn' = Substituted(2, <<>>)
           \/ \E j \in DOMAIN fn.toks : ~fn.toks[j].loc /\ fn' = Abort
  /\ diags' = diags \cup {"Expected macro argument after stringification operator '#'"}
  /\ UNCHANGED <<it, macros, cond, out, src>>

SubstCopy ==
  /\ InBody /\ ~IsPunct(Body1, "#")
  /\ Body1.k = "id" => ParamOf(Body1) = 0
  /\ GoTo(Substituted(1, Relocated(<<Body1>>, fn.loc)))
  /\ UNCHANGED <<it, macros, cond, out, src>>

SubstEnd ==
  /\ In("subst") /\ fn.left = <<>>
  /\ it' = [it EXCEPT ![fn.on] = Inserted(@, fn.toks)]
  /\ GoTo(fn.ret)
  /\ UNCHANGED <<macros, cond, out, src>>

Expand == \/ ExpandObject("main") \/ ExpandObject("expr")
          \/ CallFunction("main") \/ CallFunction("expr")
          \/ StartArguments \/ ArgumentToken \/ VariadicComma \/ EndArgument
          \/ CloseCall \/ NullToken
          \/ SubstParam \/ Stringize \/ StringizeOther \/ SubstCopy \/ SubstEnd
=============================================================================
