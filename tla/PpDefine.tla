------------------------------- MODULE PpDefine -------------------------------
(* #define and #undef: define_macro, define_macro_function_like_args and     *)
(* undef_macro.                                                              *)
EXTENDS PpState

\* #define: the directive's name is eaten, define_macro is entered.
DefineDirective ==
  /\ In("directive") /\ IsId(Tok("main"), "define")
  /\ EatTok("main")
  /\ GoTo([in |-> "name"])
  /\ UNCHANGED <<macros, cond, out, src>>

\* The name, up to the start of the parameter list or body.  A macro that is
\* already defined is reported and its record reused: arg_count, is_variadic
\* and args keep their values.
DefineName ==
  LET t     == Tok("main")
      n     == MacroName(t)
      s     == Ate("main")
      paren == NextTok("main", s)
      call  == IsPunct(paren, "(") /\ ~paren.ws
      s2    == IF call THEN Bite(s) ELSE s
      empty == call /\ IsPunct(NextTok("main", s2), ")")
  IN
  /\ In("name")
  /\ SetMacro(n, [Macro(n) EXCEPT !.kind = IF call THEN "func" ELSE "obj"])
  /\ it' = [it EXCEPT !["main"] = IF empty THEN Bite(s2) ELSE s2]
  /\ ReportAndGo(t,
       Msg(t.k # "id", "Expected identifier after #define")
         \cup Msg(IsDefined(t), "#define on already defined macro"),
       IF call /\ ~empty THEN [in |-> "params", macro |-> n, params |-> <<>>]
                         ELSE [in |-> "body", macro |-> n, toks |-> <<>>])
  /\ UNCHANGED <<cond, out, src>>

AtParam == In("params") /\ ~IsEof(Tok("main")) /\ ~Tok("main").bol

\* After the parameter a comma leads to the next one; anything else ends the
\* list (seen by ParamsEnd, as "more" is then FALSE).
AfterParam(msgs, params) ==
  LET s    == Ate("main")
      c    == NextTok("main", s)
      more == ~c.bol /\ IsPunct(c, ",")
      f    == [in |-> IF more THEN "params" ELSE "paramsend",
               macro |-> fn.macro, params |-> params]
  IN /\ it' = [it EXCEPT !["main"] = IF more THEN Bite(s) ELSE s]
     /\ ReportAndGo(Tok("main"), msgs, f)

ParamVarargs ==
  /\ AtParam /\ IsPunct(Tok("main"), "...")
  /\ macros' = [macros EXCEPT ![fn.macro].variadic = TRUE]
  /\ AfterParam(Msg(macros[fn.macro].variadic, "Multiple varargs"),
                Append(fn.params, Param("__VA_ARGS__")))
  /\ UNCHANGED <<cond, out, src>>

\* Plausible bug: the parameter is linked in but not counted.
ParamNameUncounted ==
  /\ AtParam /\ Tok("main").k = "id"
  /\ AfterParam(Msg(macros[fn.macro].variadic, "Argument after varargs"),
                Append(fn.params, Param(Tok("main").s)))
  /\ UNCHANGED <<macros, cond, out, src>>

ParamName ==
  /\ AtParam /\ Tok("main").k = "id"
  /\ macros' = [macros EXCEPT ![fn.macro].count = @ + 1]
  /\ AfterParam(Msg(macros[fn.macro].variadic, "Argument after varargs"),
                Append(fn.params, Param(Tok("main").s)))
  /\ UNCHANGED <<cond, out, src>>

\* The list ends: the parameters are kept only if a ')' follows on the line.
ParamsEnd ==
  LET t      == Tok("main")
      bad    == t.k # "id" /\ ~IsPunct(t, "...")
      closed == ~t.bol /\ IsPunct(t, ")")
  IN
  /\ \/ In("paramsend")
     \/ In("params") /\ (IsEof(t) \/ t.bol \/ bad)
  /\ macros' = IF closed THEN [macros EXCEPT ![fn.macro].params = fn.params]
                         ELSE macros
  /\ it' = IF IsPunct(t, ")") THEN [it EXCEPT !["main"] = Ate("main")] ELSE it
  /\ ReportAndGo(t,
       Msg(In("params") /\ ~IsEof(t) /\ ~t.bol, "Unexpected token")
         \cup Msg(~closed, "Expected closing paren in function-like macro")
         \cup Msg(~IsPunct(t, ")"), "Missing ')' in macro parameter list"),
       [in |-> "body", macro |-> fn.macro, toks |-> <<>>])
  /\ UNCHANGED <<cond, out, src>>

\* The rest of the line becomes the definition.  At the end of input no token
\* starts a line any more: the loop copies EOF tokens for ever.
BodyToken ==
  /\ In("body") /\ ~Tok("main").bol
  /\ EatTok("main")
  /\ GoTo(IF IsEof(Tok("main")) THEN Spin
          ELSE [fn EXCEPT !.toks = Append(@, Tok("main"))])
  /\ UNCHANGED <<macros, cond, out, src>>

BodyEnd ==
  /\ In("body") /\ Tok("main").bol
  /\ macros' = [macros EXCEPT ![fn.macro].body = fn.toks]
  /\ GoTo(Tail_)
  /\ UNCHANGED <<it, cond, out, src>>

\* #undef: the slot is emptied; the name is not eaten.
UndefDirective ==
  LET s == Ate("main")
      t == NextTok("main", s)
  IN
  /\ In("directive") /\ IsId(Tok("main"), "undef")
  /\ it' = [it EXCEPT !["main"] = s]
  /\ DropMacro(MacroName(t))
  /\ ReportAndGo(t, Msg(t.k # "id", "Expected identifier after #undef"), Tail_)
  /\ UNCHANGED <<cond, out, src>>

Define == \/ DefineDirective \/ DefineName
          \/ ParamVarargs \/ ParamName \/ ParamsEnd
          \/ BodyToken \/ BodyEnd
          \/ UndefDirective
=============================================================================
