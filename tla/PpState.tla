------------------------------- MODULE PpState -------------------------------
(***************************************************************************)
(* The state of the preprocessor (preprocessor.h, preprocessor.c) and what *)
(* all its parts use.  The program is sequential; a step of the model is   *)
(* one decision of pp_parse's loop or one iteration of a loop inside it,   *)
(* and "fn" says which loop that is, with the loop's local variables.      *)
(*                                                                         *)
(* A token is its kind, its spelling, and the three facts the code looks   *)
(* at: at_line_start, has_whitespace, and whether its location names a     *)
(* file.  Spellings are opaque strings.  Macros are found by the hash of   *)
(* their name: two names are taken to have different hashes.               *)
(***************************************************************************)
EXTENDS PpTokenIterOps, FiniteSets

CONSTANTS
  Spellings,     \* the spellings of all tokens, and ""
  Programs,      \* the main files: a set of token sequences
  Headers,       \* the files #include finds: [name -> token sequence]
  Predefined,    \* macros defined before the main file: [name -> body]
  EvalExpr(_)    \* value of a converted #if expression: "zero", "nonzero"
                 \* or "abort"

Kinds == {"id", "num", "punct", "str", "other", "eof", "null"}

\* pp_token
PpToken == [k : Kinds, s : Spellings, bol : BOOLEAN, ws : BOOLEAN, loc : BOOLEAN]

\* it->eof_token: zeroed but for its kind, so it starts no line and has no file.
EofTok == [k |-> "eof", s |-> "", bol |-> FALSE, ws |-> FALSE, loc |-> FALSE]
\* What the iterator local to eval_pp_expr returns at its end: NULL.
NullTok == [EofTok EXCEPT !.k = "null"]

ASSUME PpAssumption ==
  /\ {"", "0", "1", "__VA_ARGS__"} \subseteq Spellings   \* the code makes these itself
  /\ Programs \subseteq Seq(PpToken)
  /\ \A h \in DOMAIN Headers : Headers[h] \in Seq(PpToken)
  /\ DOMAIN Predefined \subseteq Spellings
  /\ \A n \in DOMAIN Predefined : Predefined[n] \in Seq(PpToken)

VARIABLES
  it,      \* the two iterators: "main" is pp->it, "expr" eval_pp_expr's own
  macros,  \* pp->macro_hash: [defined name -> pp_macro]
  cond,    \* pp->cond_incl_stack, innermost conditional first
  fn,      \* the loop pp_parse is in, with its locals
  out,     \* the tokens pp_parse has returned
  diags,   \* the messages passed to report_error and report_warning
  src      \* the main file (constant; to compare "out" with)

vars == <<it, macros, cond, fn, out, diags, src>>

-----------------------------------------------------------------------------
(* Macros. *)

\* pp_macro_arg; set: toks # NULL.  The terminating EOF token is left out.
Param(n) == [name |-> n, set |-> FALSE, toks |-> <<>>]

\* An empty slot of the table; also what calloc gives for a new pp_macro.
NoMacro == [kind |-> "none", variadic |-> FALSE, count |-> 0,
            params |-> <<>>, body |-> <<>>]

\* predefined_macro
ObjMacro(body) == [NoMacro EXCEPT !.kind = "obj", !.body = body]

\* hash_string(tok->str): punctuators have no string.
MacroName(t) == IF t.k \in {"id", "num", "str", "other"} THEN t.s ELSE ""

\* GET_MACRO, and the two ways the slot it finds is written.
Macro(n) == IF n \in DOMAIN macros THEN macros[n] ELSE NoMacro

SetMacro(n, m) ==
  macros' = [x \in DOMAIN macros \cup {n} |-> IF x = n THEN m ELSE macros[x]]

DropMacro(n) == macros' = [x \in DOMAIN macros \ {n} |-> macros[x]]

IsDefined(t) == MacroName(t) \in DOMAIN macros

-----------------------------------------------------------------------------
(* The iterators.  A peek alone is not a step: it only moves tokens from an *)
(* entry's lexer to its list, which nothing can tell but a ppti_eat without *)
(* a peek, and the one there is follows another ppti_eat (SkipStale).       *)

EofOf(i) == IF i = "main" THEN EofTok ELSE NullTok

NextTok(i, stack) == PeekForward(stack, 0, EofOf(i))

Tok(i)     == NextTok(i, it[i])
SecondTok(i) == PeekForward(it[i], 1, EofOf(i))

\* Plausible bug: ppti_eat without a ppti_peek before it.
BiteUnpeeked(stack) == Eat(stack)

\* ppti_peek then ppti_eat
Bite(stack) == Eat(Peeked(stack, 0))
Ate(i)      == Bite(it[i])

\* ppti_peek_forward(1) then ppti_eat_multiple(2)
AteTwo(i) == Eat(Eat(Peeked(it[i], 1)))

\* The callers insert only a non-empty list.
Inserted(stack, toks) == IF toks = <<>> THEN stack ELSE InsertTokList(stack, toks)

EatTok(i)  == it' = [it EXCEPT ![i] = Ate(i)]

IsPunct(t, s) == t.k = "punct" /\ t.s = s
IsId(t, s)    == t.k = "id" /\ t.s = s
IsEof(t)      == t.k = "eof"

-----------------------------------------------------------------------------
(* Control. *)

Parse == [in |-> "parse"]    \* the top of pp_parse's loop
Tail_ == [in |-> "tail"]     \* the end of process_pp_directive
Abort == [in |-> "abort"]    \* a failed assert or a NULL or wild pointer
Spin  == [in |-> "spin"]     \* a loop that waits for a line start after EOF
Done  == [in |-> "done"]     \* pp_parse has returned the end of input

In(f) == fn.in = f

\* Report each of msgs at token t and go on with frame f.  report_error looks
\* the token's file up and uses the result unchecked: a token without a file
\* (the end of input, a token made by the preprocessor) ends the program.
ReportAndGo(t, msgs, f) ==
  /\ diags' = diags \cup msgs
  /\ fn' = IF msgs # {} /\ ~t.loc THEN Abort ELSE f

GoTo(f) == fn' = f /\ UNCHANGED diags

Msg(test, text) == IF test THEN {text} ELSE {}

=============================================================================
