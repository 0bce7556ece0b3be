----------------------------- MODULE MCPpPeekWalk -----------------------------
(* Iterators of up to three entries with up to two lexed and two unlexed     *)
(* tokens each; the last entry may lack a lexer.                             *)
EXTENDS PpPeekWalk

CONSTANTS MaxEntries, MaxList, MaxRest

MCToken == (1..MaxEntries) \X (1..(MaxList + MaxRest))

\* Tokens are numbered within their entry: the walk does not look inside them.
Numbered(k, n) == [i \in 1..n |-> <<k, i>>]

EntriesAt(k) ==
  {[list |-> SubSeq(Numbered(k, l + r), 1, l), lexer |-> TRUE,
    rest |-> SubSeq(Numbered(k, l + r), l + 1, l + r)] :
     l \in 0..MaxList, r \in 0..MaxRest}

Bottoms(k) == EntriesAt(k) \cup {ListEntry(Numbered(k, l)) : l \in 0..MaxList}

MCStacks ==
  LET St[n \in 0..MaxEntries] ==
        IF n = 0 THEN {<<>>}
        ELSE {Append(s, b) : s \in {t \in St[n - 1] : \A i \in DOMAIN t : t[i].lexer},
                             b \in Bottoms(n)} \cup St[n - 1]
  IN  St[MaxEntries]
MCCounts == {0, 1}
=============================================================================
