------------------------------- MODULE MCParser -------------------------------
(* Inputs for the parser: every sequence of at most MaxLen tokens over a small *)
(* alphabet; chains of binary operators, all triples of them; and every        *)
(* constant that is near the limit of a type, in every base and with every     *)
(* suffix, alone.                                                              *)
EXTENDS Parser, TLC

CONSTANTS MaxLen, Alphabet   \* bound on the sequences; their tokens

IntLit(base, value, suffix) ==
  [form |-> "int", base |-> base, value |-> value, suffix |-> suffix,
   codes |-> <<>>, kind |-> "char"]

CharLit(kind, codes) ==
  [form |-> "char", base |-> 10, value |-> 0, suffix |-> "", codes |-> codes,
   kind |-> kind]

Limits ==
  UNION {{LimitOf(k), LimitOf(k) + 1} : k \in SignedInt \cup UnsignedInt} \cup {0}

Endings == {"", "u", "l", "ul", "lu", "ll", "ull", "llu", "f"}

AllLiterals ==
  {IntLit(b, v, s) : b \in {2, 8, 10}, v \in Limits, s \in Endings}
  \cup {IntLit(16, v, s) : v \in Limits, s \in Endings \ {"f"}}   \* f is a digit
  \cup {[IntLit(b, 9, s) EXCEPT !.form = f] :
          b \in {8, 10, 16}, s \in {"", "f", "l", "u"}, f \in {"badoctal", "real"}}
  \cup {CharLit(k, c) : k \in {"char", "uchar", "wchar", "char16", "char32"},
                     c \in {<<>>, <<1>>, <<3, 2>>, <<5>>, <<1, 5>>, <<5, 20, 1>>}}

Digits == "1" :> IntLit(10, 1, "") @@ "2" :> IntLit(10, 2, "") @@ "3" :> IntLit(10, 3, "")

MCAlphabet == {"1", "*", "&", "(", ")", "[", "]", "?", ":", "++"}

Strings == UNION {[1..n -> Alphabet] : n \in 0..MaxLen}

Binary == UNION ToSet(Levels)

Chains == {<<"1", a, "2", b, "3", c, "1">> : a \in Binary, b \in Binary, c \in Binary}

Others == {<<t>> : t \in NotImplemented} \cup {<<"-", "(", "int", ")", "1">>, <<"1", "id">>}
       \cup {<<"1", "?", "2", ":", "3", "?", "1", ":", "2">>, <<"1", "?", "2", "?", "3", ":", "1", ":", "2">>,
             <<"1", "[", "2", "[", "3", "]", "]", "++">>, <<"(", "1", "+", "2", ")", "*", "3">>,
             <<"1", "-", "(", "2", "-", "3", ")">>}
       \cup {<<"1", op, "1">> : op \in AssignOps \cup {","}}

MCInputs ==
  {[toks |-> s, spelled |-> Digits] : s \in Strings \cup Chains \cup Others}
  \cup {[toks |-> <<"n">>, spelled |-> [x \in {"n"} |-> lit]] : lit \in AllLiterals}
=============================================================================
