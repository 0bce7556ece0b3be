---------------------------- MODULE MCTokenIter ----------------------------
(* Sources for the iterator of C tokens: all sequences of up to MaxLen words *)
(* out of strings, of one character or none, identifiers and a keyword; and  *)
(* all sequences of up to MaxStrings strings of every type, with characters  *)
(* at the limits of the encodings, alone and before another word.            *)
EXTENDS TokenIter

CONSTANTS MaxLen, MaxStrings

Plain(code)  == [how |-> "plain", code |-> code]
Escape(code) == [how |-> "escape", code |-> code]
Universal(code) == [how |-> "universal", code |-> code]

S == Plain(115)
Ids == {PpTok("id", "none", <<Plain(105)>>), PpTok("id", "none", <<Plain(106), Plain(107), Plain(108)>>)}

Words ==
  Ids \cup {PpTok("str", "char", <<>>), PpTok("str", "char", <<S>>), PpTok("kw", "none", <<>>)}

\* The first and the last code of each length, surrogates and what looks like them.
Edges == {0, 10, 127, 128, 2047, 2048, 12354, 55295, 57344, 65535, 65536, 1048575, 1048576,
          MaxCode, InvalidCode}

Literals ==
  {PpTok("str", t, <<Escape(c), S>>) : t \in CharTypes, c \in Edges}
  \cup {PpTok("str", t, <<S, c>>) : t \in CharTypes, c \in {Plain(233), Universal(233)}}
  \cup {PpTok("str", t, <<>>) : t \in CharTypes}

Upto(T, n) == UNION {[1..j -> T] : j \in 0..n}

MCSources ==
  Upto(Words, MaxLen)
  \cup {s \o w : s \in Upto(Literals, MaxStrings), w \in Upto(Words, 1)}
=============================================================================
