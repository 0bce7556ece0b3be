------------------------------ MODULE CondExpr ------------------------------
(***************************************************************************)
(* The expressions of #if and #elif (cond_incl_ast.c): a recursive descent *)
(* parser with one function per level of precedence, each named after the  *)
(* function it models, and the evaluation of the tree it builds.           *)
(*                                                                         *)
(* A token is its spelling; Eof is the token the preprocessor puts at the  *)
(* end of the line.  A tree is a node with an operator and a sequence of   *)
(* operands.                                                               *)
(***************************************************************************)
EXTENDS Integers, Sequences, SequencesExt

CONSTANTS
  Expressions,  \* the sequences of tokens that are evaluated
  Value         \* the numbers among the tokens, and their values

VARIABLES
  toks,   \* the tokens of the expression
  rest,   \* those the parser has not read
  at,     \* what is next: "parse" or "eval"; or how it ended
  tree, value

vars == <<toks, rest, at, tree, value>>

Eof == "eof"

Node(op, args) == [op |-> op, args |-> args]

\* What a function of the parser leaves: its node and the tokens after it.
Parsed(node, after) == [node |-> node, rest |-> after]

\* NOT_IMPL: the program ends.  No level goes on at this token.
NotImpl == Parsed(Node("", <<>>), <<"NOT_IMPL">>)
Failed(p) == p.rest = NotImpl.rest

At(p, ops) == Head(p.rest) \in ops

\* The loop of a left-associative level: operators in ops, operands by Sub.
Chain(ops, Sub(_), ts) ==
  LET RECURSIVE More(_)
      More(p) ==
        IF ~At(p, ops) THEN p
        ELSE LET r == Sub(Tail(p.rest))
             IN  More(Parsed(Node(Head(p.rest), <<p.node, r.node>>), r.rest))
  IN  More(Sub(ts))

RECURSIVE Expr(_)

\* Plausible bug: the closing parenthesis is not asked for.
PrimaryUnclosed(ts) ==
  IF Head(ts) = "("
  THEN LET p == Expr(Tail(ts))
       IN  IF At(p, {")"}) THEN Parsed(p.node, Tail(p.rest)) ELSE p
  ELSE IF Head(ts) \in DOMAIN Value THEN Parsed(Node(Head(ts), <<>>), Tail(ts))
  ELSE NotImpl

Primary(ts) ==
  IF Head(ts) = "("
  THEN LET p == Expr(Tail(ts))
       IN  IF At(p, {")"}) THEN Parsed(p.node, Tail(p.rest)) ELSE NotImpl
  ELSE IF Head(ts) \in DOMAIN Value THEN Parsed(Node(Head(ts), <<>>), Tail(ts))
  ELSE NotImpl

Unary(ts) ==
  IF Head(ts) \in {"+", "-", "!", "~"}
  THEN LET p == Primary(Tail(ts)) IN Parsed(Node(Head(ts), <<p.node>>), p.rest)
  ELSE Primary(ts)

\* Plausible bug: the right operand takes the rest of the chain.
RECURSIVE MulRight(_)
MulRight(ts) ==
  LET p == Unary(ts) IN
  IF ~At(p, {"*", "/", "%"}) THEN p
  ELSE LET r == MulRight(Tail(p.rest))
       IN  Parsed(Node(Head(p.rest), <<p.node, r.node>>), r.rest)

Mul(ts)   == Chain({"*", "/", "%"}, Unary, ts)
Add(ts)   == Chain({"+", "-"}, Mul, ts)
Shift(ts) == Chain({"<<", ">>"}, Add, ts)
Rel(ts)   == Chain({"<", ">", "<=", ">="}, Shift, ts)
Eq(ts)    == Chain({"==", "!="}, Rel, ts)
And(ts)   == Chain({"&"}, Eq, ts)
Xor(ts)   == Chain({"^"}, And, ts)
Or(ts)    == Chain({"|"}, Xor, ts)
LAnd(ts)  == Chain({"&&"}, Or, ts)
LOr(ts)   == Chain({"||"}, LAnd, ts)

\* The '?' is not eaten, so that what is read after it begins with it and fails.
RECURSIVE Ternary(_)
Ternary(ts) ==
  LET p == LOr(ts) IN
  IF ~At(p, {"?"}) THEN p
  ELSE LET t == Expr(p.rest) IN
       IF ~At(t, {":"}) THEN NotImpl
       ELSE LET f == Ternary(Tail(t.rest))
            IN  Parsed(Node("?", <<p.node, t.node, f.node>>), f.rest)

\* What stands after a comma is read; the node is the one before it.
Expr(ts) ==
  LET p == Ternary(ts) IN
  IF At(p, {","}) THEN Parsed(p.node, Expr(Tail(p.rest)).rest) ELSE p

-----------------------------------------------------------------------------
(* ast_cond_incl_eval: the set of a tree's value, empty if a division by    *)
(* zero ends the program.                                                   *)

\* % of C, which takes the sign of its left operand.
CMod(l, r) ==
  LET abs(x) == IF x < 0 THEN -x ELSE x
      m      == abs(l) % abs(r)
  IN  IF l < 0 THEN -m ELSE m

\* The operator is looked up by the kind of the node, and AST_BIN, the kind of
\* all of them, has the value of AST_BIN_MOD; AST_UN has that of AST_UN_NOT.
EvalBinary(l, r) == IF r = 0 THEN {} ELSE {CMod(l, r)}
EvalUnary(x)     == {-x - 1}

RECURSIVE Eval(_)
Eval(t) ==
  CASE Len(t.args) = 0 -> {Value[t.op]}
    [] Len(t.args) = 1 -> UNION {EvalUnary(x) : x \in Eval(t.args[1])}
    [] Len(t.args) = 2 -> UNION {EvalBinary(l, r) : l \in Eval(t.args[1]),
                                                    r \in Eval(t.args[2])}
    [] Len(t.args) = 3 -> UNION {Eval(t.args[IF c # 0 THEN 2 ELSE 3]) :
                                   c \in Eval(t.args[1])}

-----------------------------------------------------------------------------
(* The end of eval_pp_expr: parse, then evaluate; tokens left over after    *)
(* the expression are not looked at.                                        *)

Init ==
  /\ toks \in {Append(e, Eof) : e \in Expressions}
  /\ rest = toks /\ at = "parse" /\ tree = Node("", <<>>) /\ value = {}

Parse ==
  LET p == Ternary(rest) IN
  /\ at = "parse"
  /\ rest' = p.rest /\ tree' = p.node
  /\ at' = IF Failed(p) THEN "abort" ELSE "eval"
  /\ UNCHANGED <<toks, value>>

Evaluate ==
  /\ at = "eval"
  /\ value' = Eval(tree)
  /\ at' = IF value' = {} THEN "trap" ELSE "done"
  /\ UNCHANGED <<toks, rest, tree>>

Next == Parse \/ Evaluate
Spec == Init /\ [][Next]_vars

-----------------------------------------------------------------------------
(* The grammar in the comments of cond_incl_ast.h:17-55, as a table of      *)
(* operators and a definition of what derives from each level; and the way  *)
(* a tree is written with no more parentheses than the grammar asks for.    *)

Levels ==
  << {"*", "/", "%"}, {"+", "-"}, {"<<", ">>"}, {"<=", "<", ">", ">="},
     {"!=", "=="}, {"&"}, {"^"}, {"|"}, {"&&"}, {"||"} >>

\* Level 0 is unary, 1 to 10 are mul to lor, 11 is ternary, 12 is expr.
RECURSIVE Derives(_, _)
DerivesPrimary(s) ==
  \/ Len(s) = 1 /\ s[1] \in DOMAIN Value
  \/ /\ Len(s) > 2 /\ s[1] = "(" /\ Last(s) = ")"
     /\ Derives(12, SubSeq(s, 2, Len(s) - 1))

\* s is a level k and a level m with a token of ops between them.
Split(s, ops, k, m) ==
  \E i \in 2..(Len(s) - 1) : /\ s[i] \in ops
                             /\ Derives(k, SubSeq(s, 1, i - 1))
                             /\ Derives(m, SubSeq(s, i + 1, Len(s)))

Derives(k, s) ==
  CASE k = 0  -> \/ DerivesPrimary(s)
                 \/ /\ Len(s) > 1 /\ s[1] \in {"+", "-", "!", "~"}
                    /\ DerivesPrimary(Tail(s))
    [] k = 12 -> Derives(11, s) \/ Split(s, {","}, 11, 12)
    [] k = 11 -> \/ Derives(10, s)
                 \/ \E i \in 2..(Len(s) - 3) :
                      /\ s[i] = "?" /\ Derives(10, SubSeq(s, 1, i - 1))
                      /\ Split(SubSeq(s, i + 1, Len(s)), {":"}, 12, 11)
    [] OTHER  -> Derives(k - 1, s) \/ Split(s, Levels[k], k, k - 1)

LevelOf(t) ==
  IF Len(t.args) < 2 THEN Len(t.args) - 1
  ELSE CHOOSE k \in DOMAIN Levels : t.op \in Levels[k]

RECURSIVE Written(_)
InParens(t, level) ==
  IF LevelOf(t) <= level THEN Written(t) ELSE <<"(">> \o Written(t) \o <<")">>

Written(t) ==
  CASE Len(t.args) = 0 -> <<t.op>>
    [] Len(t.args) = 1 -> <<t.op>> \o InParens(t.args[1], -1)
    [] Len(t.args) = 2 -> LET k == LevelOf(t) IN
                          InParens(t.args[1], k) \o <<t.op>> \o InParens(t.args[2], k - 1)

\* What the operators of C make of two numbers that are not negative; only those
\* whose value does not need bits.
Means(op, l, r) ==
  LET truth(b) == IF b THEN 1 ELSE 0 IN
  CASE op = "*"  -> l * r        [] op = "+"  -> l + r
    [] op = "-"  -> l - r        [] op = "<"  -> truth(l < r)
    [] op = "==" -> truth(l = r) [] op = "&&" -> truth(l # 0 /\ r # 0)

-----------------------------------------------------------------------------
\* The parser reads the language of the header's grammar without its ternary: such
\* an expression is read to its end, and whatever is read without a failure begins
\* with an expression of the grammar, whatever stands in it.
ReadsGrammar ==
  LET e == Front(toks)
      n == Len(toks) - Len(rest)
  IN
  /\ (Derives(11, e) /\ "?" \notin ToSet(e))
       => (at # "abort" /\ (at # "parse" => rest = <<Eof>>))
  /\ at \in {"eval", "done", "trap"} => Derives(11, SubSeq(toks, 1, n))

\* An expression that is a single operator between two numbers has the value C
\* gives it: cond_incl_ast.c:401-402 "case AST_BIN_ADD: result = left + right",
\* and so on for the other operators.
EvaluatesOperators ==
  at \in {"done", "trap"} /\ Len(tree.args) = 2 =>
    LET number(t) == Value[t.op]
    IN  value = {Means(tree.op, number(tree.args[1]), number(tree.args[2]))}
=============================================================================
