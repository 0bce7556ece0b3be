----------------------------- MODULE MCCondExpr -----------------------------
(* Expressions for the model checker: all strings of MaxLen tokens or fewer    *)
(* over a few, the way every tree of at most two levels of operators is        *)
(* written, and sums of two numbers.                                           *)
EXTENDS CondExpr, FiniteSets

CONSTANTS MaxLen, Alphabet

MCValue == [n \in {"0", "1", "2"} |-> IF n = "0" THEN 0 ELSE IF n = "1" THEN 1 ELSE 2]

Strings == UNION {[1..n -> Alphabet] : n \in 0..MaxLen}

Over(trees) ==
  trees \cup {Node(op, <<t>>) : op \in {"+", "-", "!", "~"}, t \in trees}
        \cup {Node(op, <<l, r>>) : op \in UNION ToSet(Levels), l \in trees, r \in trees}

Trees == Over(Over({Node("1", <<>>)}))

WrittenTrees == {Written(t) : t \in Trees}

MCExpressions == Strings \cup WrittenTrees

Sums == {<<m, op, n>> : m \in DOMAIN Value, n \in DOMAIN Value, op \in {"+", "-", "*", "<", "==", "&&"}}

\* Precedence and associativity: written down again, the tree that is read gives
\* the tokens it was read from.  Two trees are never written the same way (there
\* are as many texts as trees), so this is the tree the text was made from.
ReadsBack ==
  at \in {"eval", "done", "trap"} /\ Front(toks) \in WrittenTrees =>
    Written(tree) = Front(toks)

\* No two trees are written alike.
ASSUME WrittenApart == Cardinality(WrittenTrees) = Cardinality(Trees)
=============================================================================
