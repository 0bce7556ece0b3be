-------------------------------- MODULE Parser --------------------------------
(***************************************************************************)
(* The parser of C expressions (parser.c) and the trees it builds (ast.c), *)
(* as the mode --ast runs them: one function per level of the grammar in   *)
(* parser.h, over the tokens that the token iterator yields, and the loop  *)
(* of parse, which prints one tree after another.                          *)
(*                                                                         *)
(* A token is its spelling; a constant is a name, and "spelled" says how   *)
(* it is spelled.  A function of the parser takes the record p to the set  *)
(* of what it may leave: one record, but for what a read of freed memory   *)
(* shows, which is open at each such read.                                 *)
(***************************************************************************)
EXTENDS CNumbers, FiniteSets

CONSTANT Inputs   \* what is parsed: tokens, and the spelling of the constants

Eof == "eof"

\* Tokens the parser has no code for yet: an identifier, a string, the keywords of
\* primary expressions.
NotImplemented == {"id", "str", "sizeof", "_Alignof", "_Generic"}
TypeKeyword == "int"   \* a keyword that begins a type's name

VARIABLES
  toks,    \* the tokens
  spelled, \* the constants among them
  p,       \* the parser: where it is, how it goes, the node last made
  printed  \* the trees parse has printed, each with the tokens it was read from

vars == <<toks, spelled, p, printed>>

-----------------------------------------------------------------------------
(* Trees (ast.h) *)

Null == [op |-> "NULL", args |-> <<>>]
Node(op, args) == [op |-> op, args |-> args]

\* make_ast_num_int and make_ast_num_flt: a constant of a type that is no integer
\* has only its (long double) value kept, which a wide character has none of.
NumberNode(name) ==
  LET num == Convert(spelled[name])
  IN  [op |-> name, args |-> <<>>, kind |-> num.kind,
       value |-> IF IsInt(num.kind) THEN num.value ELSE RealValue]

-----------------------------------------------------------------------------
Tok(q) == toks[q.at]

\* The token iterator yields the end again and again.
Eat(q) == [q EXCEPT !.at = IF toks[@] = Eof THEN @ ELSE @ + 1]

With(q, n) == [q EXCEPT !.node = n]

Fail(q, how) == {[q EXCEPT !.st = how, !.node = Null]}

\* A report at the end of the input has no file to show.
ReportError(q) ==
  IF Tok(q) = Eof THEN Fail(q, "crash") ELSE {[q EXCEPT !.errors = @ + 1]}

Expect(q, punct) == IF Tok(q) = punct THEN {Eat(q)} ELSE ReportError(q)

\* make_ast_unary, make_ast_binary and make_ast_ternary assert their operands.
Make(q, op, args) ==
  IF Null \in ToSet(args) THEN Fail(q, "assert") ELSE {With(q, Node(op, args))}

\* Go on with F from each of the records Q, unless the program has ended there.
Then(Q, F(_)) == UNION {IF q.st = "go" THEN F(q) ELSE {q} : q \in Q}

RECURSIVE Expr(_)

\* A constant that cannot be converted ends the program where it is looked at.
Ends(t) == t \in NotImplemented \/ (t \in DOMAIN spelled /\ Convert(spelled[t]) = Invalid)

\* Plausible bug: the closing parenthesis is left.
PrimaryUnclosed(q) ==
  LET t == Tok(q) IN
  CASE t = "(" -> Expr(Eat(q))
    [] Ends(t) -> Fail(q, "assert")
    [] t \in DOMAIN spelled -> {Eat(With(q, NumberNode(t)))}
    [] OTHER -> {With(q, Null)}

Primary(q) ==
  LET t == Tok(q) IN
  CASE t = "(" -> Then(Expr(Eat(q)), LAMBDA r : Expect(r, ")"))
    [] Ends(t) -> Fail(q, "assert")
    [] t \in DOMAIN spelled -> {Eat(With(q, NumberNode(t)))}
    [] OTHER -> {With(q, Null)}

\* a[b] is *(a + b).  The operators after nothing, as in "()++", take the place of
\* their node from a null pointer.
RECURSIVE PostfixTail(_)
PostfixTail(q) ==
  LET t == Tok(q) IN
  CASE t \in {"id", ".", "->"} \/ (t \in DOMAIN spelled /\ Ends(t)) -> Fail(q, "assert")
    [] t = "[" ->
         Then(Expr(Eat(q)), LAMBDA idx :
         Then(Make(idx, "+", <<q.node, idx.node>>), LAMBDA add :
         Then(Expect(With(add, Node("*", <<add.node>>)), "]"), PostfixTail)))
    [] t \in {"++", "--"} ->
         IF q.node = Null THEN Fail(q, "crash")
         ELSE PostfixTail(Eat(With(q, Node("x" \o t, <<q.node>>))))
    [] OTHER -> {q}

Postfix(q) == Then(Primary(q), PostfixTail)

\* A node is made for a cast only, which ends in parse_type; else there is none, and
\* the test at the end is the wrong way round: no operand is read.
Cast(q) ==
  IF Tok(q) = "(" /\ toks[q.at + 1] = TypeKeyword THEN Fail(q, "assert")
  ELSE {With(q, Null)}

UnaryKind(t) == CASE t = "&" -> "*" [] t = "*" -> "&" [] OTHER -> t

Unary(q) ==
  IF Tok(q) \in {"+", "-", "!", "~", "&", "*", "++", "--"}
  THEN Then(Cast(Eat(q)), LAMBDA r : Make(r, UnaryKind(Tok(q)), <<r.node>>))
  ELSE Postfix(q)

Levels ==
  << {"*", "/", "%"}, {"+", "-"}, {"<<", ">>"}, {"<=", "<", ">=", ">"},
     {"==", "!="}, {"&"}, {"^"}, {"|"}, {"&&"}, {"||"} >>

\* parse_expr_mul (1) to parse_expr_lor (10).  Three of them do not look at the next
\* token after an operand: they read the operator that ti_eat has freed.
RereadsFreed == {6, 8, 10}

\* What the loop of level k finds after the operator t and its operand.  Freed memory
\* may look like the operator still, or again, or not; each read may show another.
Seen(k, q, t) == IF k \in RereadsFreed THEN {t, "freed"} ELSE {Tok(q)}

\* History: the loop went on though another token is next, or ended at its operator.
Misread(k, q, t) ==
  LET on   == t \in Levels[k]
      next == Tok(q) \in Levels[k]
  IN  [q EXCEPT !.misread = @ \cup {m \in {"taken", "missed"} :
                                      IF m = "taken" THEN on /\ ~next ELSE next /\ ~on}]

RECURSIVE Level(_, _), More(_, _, _)

\* Plausible bug: the right operand is of the same level.
MoreRight(k, q, t) ==
  IF t \notin Levels[k] THEN {q}
  ELSE Then(Level(k, Eat(q)), LAMBDA r : Make(r, t, <<q.node, r.node>>))

\* The loop of level k, with q.node the operand before the operator t.
More(k, q, t) ==
  IF t \notin Levels[k] THEN {q}
  ELSE Then(Level(k - 1, Eat(q)), LAMBDA r :
       Then(Make(r, t, <<q.node, r.node>>), LAMBDA bin :
         UNION {More(k, Misread(k, bin, u), u) : u \in Seen(k, bin, t)}))

Level(k, q) ==
  IF k = 0 THEN Unary(q) ELSE Then(Level(k - 1, q), LAMBDA r : More(k, r, Tok(r)))

RECURSIVE Cond(_)
Cond(q) ==
  Then(Level(10, q), LAMBDA c :
    IF Tok(c) # "?" THEN {c}
    ELSE Then(Expr(Eat(c)), LAMBDA t :
         Then(Expect(t, ":"), LAMBDA u :
         Then(Cond(u), LAMBDA f : Make(f, "?", <<c.node, t.node, f.node>>)))))

AssignOps == {"=", "+=", "-=", "*=", "/=", "%=", "<<=", ">>=", "&=", "|=", "^="}

\* The operator is not eaten: the function calls itself at the same token for ever.
Assign(q) ==
  Then(Cond(q), LAMBDA r : IF Tok(r) \in AssignOps THEN Fail(r, "overflow") ELSE {r})

\* The same for a comma.
Expr(q) ==
  Then(Assign(q), LAMBDA r : IF Tok(r) = "," THEN Fail(r, "overflow") ELSE {r})

-----------------------------------------------------------------------------
(* fmt_ast_verbose: a binary operator is printed between its operands.      *)

\* The values of ast_binary_kind, from 1, with the gap at 0x15, and the strings that
\* are looked up by them: from "-=" on the next one, and none for a comma, which
\* fails an assert.  No tree has an operator of those, as Assign and Expr make none.
BinaryKinds ==
  << "+", "-", "*", "/", "%", "<=", "<", ">=", ">", "==", "!=", "&", "|", "^",
     "<<", ">>", "&&", "||", "=", "+=", "(none)", "-=", "*=", "/=", "%=", "<<=",
     ">>=", "&=", "|=", "^=", "," >>

BinaryStrs ==
  << "(unknown)", "+", "-", "*", "/", "%", "<=", "<", ">=", ">", "==", "!=", "&",
     "|", "^", "<<", ">>", "&&", "||", "=", "+=", "-=", "*=", "/=", "%=", "<<=",
     ">>=", "&=", "|=", "^=", "," >>

\* The same for ast_unary_kind, but the strings begin with the first kind: each
\* operator is printed as the next one, and the last has none.
UnaryKinds == << "-", "+", "!", "~", "++", "x++", "--", "x--", "*", "&" >>

UnaryStrs == << "-", "+", "!", "~", "++", "++", "--", "--", "*", "&" >>

StrOf(op, kinds, strs) ==
  LET kind == CHOOSE i \in DOMAIN kinds : kinds[i] = op
  IN  IF kind + 1 \in DOMAIN strs THEN strs[kind + 1] ELSE "assert"

BinaryStr(op) == StrOf(op, BinaryKinds, BinaryStrs)
UnaryStr(op)  == StrOf(op, UnaryKinds, UnaryStrs)

RECURSIVE Text(_)

\* Plausible bug: the operator goes first.
TextPrefix(n) ==
  CASE Len(n.args) = 2 -> <<BinaryStr(n.op)>> \o Text(n.args[1]) \o Text(n.args[2])
    [] Len(n.args) = 0 -> <<n.op>>
    [] OTHER -> <<>>

Text(n) ==
  CASE Len(n.args) = 0 -> <<n.op>>
    [] Len(n.args) = 1 -> IF n.op = "*" THEN <<UnaryStr(n.op)>> \o Text(n.args[1])
                          ELSE Text(n.args[1]) \o <<UnaryStr(n.op)>>
    [] Len(n.args) = 2 -> Text(n.args[1]) \o <<BinaryStr(n.op)>> \o Text(n.args[2])
    [] Len(n.args) = 3 -> Text(n.args[1]) \o <<"?">> \o Text(n.args[2])
                            \o <<":">> \o Text(n.args[3])

-----------------------------------------------------------------------------
Init ==
  /\ \E in \in Inputs : toks = Append(in.toks, Eof) /\ spelled = in.spelled
  /\ p = [at |-> 1, st |-> "go", node |-> Null, errors |-> 0, misread |-> {}]
  /\ printed = <<>>

\* A turn of the loop of parse.
Parse ==
  /\ p.st = "go"
  /\ \E q \in Expr(p) :
       /\ p' = IF q.st = "go" /\ q.node = Null THEN [q EXCEPT !.st = "end"] ELSE q
       /\ printed' = IF q.st = "go" /\ q.node # Null
                     THEN Append(printed, [tree |-> q.node, text |-> Text(q.node),
                                           from |-> SubSeq(toks, p.at, q.at - 1),
                                           errors |-> q.errors - p.errors,
                                           misread |-> q.misread])
                     ELSE printed
  /\ UNCHANGED <<toks, spelled>>

Next == Parse
Spec == Init /\ [][Next]_vars

-----------------------------------------------------------------------------
(* The grammar in the comments of parser.h:51-118, but for what the parser  *)
(* does not implement, as the set of trees a sequence of tokens has.        *)

RECURSIVE Derived(_, _)
Between(s, ops, k, m) ==
  UNION {{Node(s[i], <<l, r>>) : l \in Derived(k, SubSeq(s, 1, i - 1)),
                                 r \in Derived(m, SubSeq(s, i + 1, Len(s)))} :
           i \in {i \in 2..(Len(s) - 1) : s[i] \in ops}}

DerivedPostfix(s) ==
  LET n == Len(s) IN
  CASE n = 1 -> IF s[1] \in DOMAIN spelled THEN {NumberNode(s[1])} ELSE {}
    [] n > 1 /\ Last(s) = ")" -> IF s[1] = "(" THEN Derived(11, SubSeq(s, 2, n - 1)) ELSE {}
    [] n > 1 /\ Last(s) \in {"++", "--"} ->
         {Node("x" \o Last(s), <<e>>) : e \in Derived(0, Front(s))}
    [] n > 1 /\ Last(s) = "]" ->
         {Node("*", <<Node("+", add.args)>>) : add \in Between(Front(s), {"["}, 0, 11)}
    [] OTHER -> {}

Derived(k, s) ==
  CASE k = 0  -> DerivedPostfix(s)
    [] k = 11 -> Derived(10, s) \cup
                 UNION {{Node("?", <<c>> \o tf.args) :
                           c \in Derived(10, SubSeq(s, 1, i - 1)),
                           tf \in Between(SubSeq(s, i + 1, Len(s)), {":"}, 11, 11)} :
                          i \in {i \in 2..Len(s) : s[i] = "?"}}
    [] OTHER  -> Derived(k - 1, s) \cup Between(s, Levels[k], k, k - 1)

-----------------------------------------------------------------------------
\* What is printed without a report is the tree the grammar gives to the tokens that
\* were eaten for it: none is dropped, none is read twice, and precedence and
\* associativity are those of the header; unless a freed operator was taken for the
\* next token (parser.c:869, 904, 939).
TreesAreDerived ==
  \A i \in DOMAIN printed :
    printed[i].errors = 0 /\ "taken" \notin printed[i].misread
      => printed[i].tree \in Derived(11, printed[i].from)

\* An expression of the operators that are implemented is read to its end and
\* printed once, if every freed operator that is read again shows what the next
\* token would.
ReadsGrammar ==
  LET e == Front(toks) IN
  (/\ p.st # "go" /\ p.misread = {}
   /\ Derived(11, e) # {} /\ \A i \in DOMAIN e : ~Ends(e[i]))
  => p.st = "end" /\ p.errors = 0 /\ Len(printed) = 1 /\ printed[1].from = e

\* The tree pr was printed for an expression with no operator of ops, and if it was
\* read as it should be, its text has the tokens of the expression in their order,
\* parentheses aside.
ShowsWithout(ops, pr) ==
  (pr.errors = 0 /\ "taken" \notin pr.misread /\ ToSet(pr.from) \cap ops = {})
  => pr.text = SelectSeq(pr.from, LAMBDA t : t \notin {"(", ")"})

\* The printed text shows the operands and the binary operators of an expression, and
\* "?" and ":", in the order in which they were written.  (a[b] is printed as the tree
\* it becomes, and the postfix operators as others.)
TextShowsTokens ==
  \A i \in DOMAIN printed : ShowsWithout({"[", "++", "--"}, printed[i])

\* An integer constant has the value that is spelled and the type C gives it, if
\* there is one; but "ul" in this order ends the program.
NumbersAreTyped ==
  p.st # "go" /\ Len(toks) = 2 /\ toks[1] \in DOMAIN spelled =>
    LET lit == spelled[toks[1]] IN
    lit.form = "int" /\ lit.suffix \notin {"f", "ul"} /\ Allowed(lit) # {} =>
      /\ Len(printed) = 1
      /\ printed[1].tree.kind = CType(lit) /\ printed[1].tree.value = lit.value

\* A character constant of one or two bytes is its last character's code, when all
\* of them fit; one of four is none of them (c_lang.c:303).
CharsAreTheirCode ==
  p.st # "go" /\ Len(toks) = 2 /\ toks[1] \in DOMAIN spelled =>
    LET lit == spelled[toks[1]]
        size == SizeOf(lit.kind) IN
    (/\ lit.form = "char" /\ size < 4 /\ lit.codes # <<>>
     /\ \A i \in DOMAIN lit.codes : lit.codes[i] < 2^(ByteBits * size))
    => Len(printed) = 1 /\ printed[1].tree.value = Last(lit.codes)

\* A constant that is an expression is printed with the type and the value it has in
\* C, at the limit of every type, up to what the two parts say.
ConstantsAreRead == NumbersAreTyped /\ CharsAreTheirCode
=============================================================================
