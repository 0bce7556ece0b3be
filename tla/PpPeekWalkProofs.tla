--------------------------- MODULE PpPeekWalkProofs ---------------------------
(***************************************************************************)
(* The loop of ppti_peek_forward computes PeekForward and Peeked, for any  *)
(* iterator, however many entries and tokens it has:                       *)
(*   WalkTypeOK     the type invariant,                                    *)
(*   WalkShowsPeek  the token returned and the entries left behind.        *)
(* The invariant, Walked, describes the stack in the middle of the walk:   *)
(* the entries behind the loop have been read to their end and were too    *)
(* short to stop in, the ones in front of it are as they were, and the one *)
(* it is in has been lexed no further than the token looked for.           *)
(***************************************************************************)
EXTENDS PpPeekWalk, PpTokenIterOpsProofs

-----------------------------------------------------------------------------
(* Entries. *)

\* Entries with the same tokens are as long.
LEMMA SameSize ==
  ASSUME NEW T, NEW x \in Entry(T), NEW y \in Entry(T), Tokens(x) = Tokens(y)
  PROVE  Size(x) = Size(y)
  BY TokensOfEntry

\* An entry that has the tokens of x and nothing left to lex is x, drained.
LEMMA DrainedIs ==
  ASSUME NEW T, NEW x \in Entry(T), NEW y \in Entry(T),
         Tokens(y) = Tokens(x), y.lexer = x.lexer, y.rest = <<>>
  PROVE  y = Drained(x)
<1>1. y.list \in Seq(T)
  BY DEF Entry
<1>2. Tokens(y) = y.list
  <2>1. Tokens(y) = y.list \o <<>>
    BY Zenon DEF Tokens
  <2> QED
    BY <1>1, <2>1, ConcatEmptySeq
<1>3. y.list = Tokens(x)
  BY <1>2
<1> QED
  BY <1>3 DEF Drained, Entry

\* An entry that has the tokens of x, more of them in its list, is x filled.
LEMMA FilledIs ==
  ASSUME NEW T, NEW x \in Entry(T), NEW y \in Entry(T),
         Tokens(y) = Tokens(x), y.lexer = x.lexer,
         Len(x.list) < Len(y.list)
  PROVE  y = Filled(x, Len(y.list))
<1> DEFINE n == Len(y.list)
           t == Tokens(x)
<1>1. /\ y.list \in Seq(T) /\ y.rest \in Seq(T) /\ x.list \in Seq(T)
      /\ t = y.list \o y.rest
  <2>1. Tokens(y) = y.list \o y.rest
    BY Zenon DEF Tokens
  <2> QED
    BY <2>1 DEF Entry
<1>2. Size(x) = n + Len(y.rest)
  <2>1. Size(y) = n + Len(y.rest)
    BY Zenon DEF Size
  <2> QED
    BY <2>1, SameSize
<1>3. SubSeq(t, 1, n) = y.list /\ SubSeq(t, n + 1, Size(x)) = y.rest
  <2> DEFINE u == y.list
             v == y.rest
             k == Size(x)
  <2>1. u \in Seq(T) /\ v \in Seq(T) /\ t = u \o v /\ n = Len(u) /\ k = Len(u) + Len(v)
    BY <1>1, <1>2
  <2> HIDE DEF u, v, k, t, n
  <2>2. Len(u) \in Nat /\ Len(v) \in Nat
    BY <2>1, LenProperties
  <2>3. SubSeq(t, 1, n) = u
    BY <2>1, <2>2
  <2>4. SubSeq(t, n + 1, k) = v
    BY <2>1, <2>2
  <2> QED
    BY <2>3, <2>4 DEF u, v, k
<1>4. ~(Len(x.list) >= n)
  BY <1>1, LenProperties
<1> QED
  BY <1>3, <1>4 DEF Filled, Entry

-----------------------------------------------------------------------------
(* The walk. *)

Walked ==
  /\ count \in {0, 1}
  /\ initial \in Stacks
  /\ stack \in Seq(Entry(Token))
  /\ Len(stack) = Len(initial)
  /\ e \in 1..(Len(stack) + 1)
  /\ \A i \in 1..(e - 1) : /\ stack[i] = Drained(initial[i])
                           /\ Size(initial[i]) <= count
                           /\ initial[i].lexer
  /\ \A i \in (e + 1)..Len(stack) : stack[i] = initial[i]
  /\ e <= Len(stack) =>
       /\ te = e
       /\ Tokens(stack[e]) = Tokens(initial[e])
       /\ stack[e].lexer = initial[e].lexer
       /\ \/ stack[e] = initial[e]
          \/ /\ Len(initial[e].list) < Len(stack[e].list)
             /\ Len(stack[e].list) <= count + 1
  /\ e > Len(stack) => te = IF stack = <<>> THEN 1 ELSE Len(stack)
  /\ idx = at
  /\ at \in 0..count
  /\ at = 0 \/ at < Len(List)

WalkInv == Walked /\ WalkIsPeek

\* What the assumptions on the constants say of a walk.
LEMMA WalkedTypes ==
  ASSUME Walked
  PROVE  /\ initial \in Seq(Entry(Token)) /\ ListsAtBottom(initial)
         /\ Len(stack) \in Nat /\ count \in Nat
         /\ DOMAIN stack = 1..Len(stack) /\ DOMAIN initial = 1..Len(stack)
         /\ \A i \in 1..Len(stack) : /\ stack[i] \in Entry(Token)
                                      /\ initial[i] \in Entry(Token)
                                      /\ stack[i].list \in Seq(Token)
                                      /\ stack[i].rest \in Seq(Token)
                                      /\ Len(stack[i].list) \in Nat
<1>1. initial \in Seq(Entry(Token)) /\ ListsAtBottom(initial)
  BY StacksAssumption DEF Walked
<1>2. /\ stack \in Seq(Entry(Token)) /\ Len(stack) = Len(initial) /\ count \in {0, 1}
  BY DEF Walked
<1>3. \A x \in Entry(Token) : /\ x.list \in Seq(Token)
                              /\ x.rest \in Seq(Token)
                              /\ Len(x.list) \in Nat
  BY LenProperties DEF Entry
<1>4. \A i \in 1..Len(stack) : stack[i] \in Entry(Token) /\ initial[i] \in Entry(Token)
  BY <1>1, <1>2, ElementOfSeq
<1>5. /\ DOMAIN stack = 1..Len(stack) /\ DOMAIN initial = 1..Len(stack)
      /\ Len(stack) \in Nat
  BY <1>1, <1>2, LenProperties
<1> QED
  BY <1>1, <1>2, <1>3, <1>4, <1>5

\* Where the loop neither moves within the list nor stops, the entry's list is
\* too short, and the link is behind its last token.
LEMMA ListTooShort ==
  ASSUME Walked, e \in 1..Len(stack),
         ~(HasNext /\ idx # count), ~(HasTok /\ idx = count)
  PROVE  /\ te = e
         /\ Len(stack[e].list) <= count
         /\ IF HasTok THEN at + 1 = Len(stack[e].list) /\ at < count
                      ELSE at = 0 /\ Len(stack[e].list) = 0
<1>1. /\ stack[e].list \in Seq(Token) /\ Len(stack[e].list) \in Nat
      /\ DOMAIN stack = 1..Len(stack) /\ Len(stack) \in Nat
  BY WalkedTypes
<1>2. /\ te = e /\ idx = at /\ at \in 0..count /\ count \in {0, 1}
      /\ at = 0 \/ at < Len(stack[e].list)
  <2>1. e <= Len(stack)
    BY <1>1
  <2>2. te = e
    BY <2>1, Zenon DEF Walked
  <2> QED
    BY <2>2 DEF Walked, List
<1>3. stack # <<>>
  BY <1>1
<1>4. /\ HasTok <=> at < Len(stack[e].list)
      /\ HasNext <=> at + 1 < Len(stack[e].list)
  BY <1>2, <1>3 DEF HasTok, HasNext, List
<1> QED
  BY <1>1, <1>2, <1>4

\* One step of the loop keeps Walked.
LEMMA WalkedStep ==
  ASSUME Walked, [Next]_vars
  PROVE  Walked'
<1> DEFINE n == Len(stack)
<1>0. /\ n \in Nat /\ DOMAIN stack = 1..n
      /\ \A i \in 1..n : /\ stack[i] \in Entry(Token) /\ initial[i] \in Entry(Token)
                         /\ stack[i].list \in Seq(Token) /\ stack[i].rest \in Seq(Token)
                         /\ Len(stack[i].list) \in Nat
  BY WalkedTypes
<1>1. CASE SkipListed
  <2>1. /\ at + 1 < Len(List) /\ idx # count /\ at' = at + 1 /\ idx' = idx + 1
        /\ UNCHANGED <<stack, e, te, initial, count>>
    BY <1>1 DEF SkipListed, HasNext, Frozen
  <2>2. idx = at /\ at \in 0..count /\ count \in {0, 1}
    BY DEF Walked
  <2>3. at' \in 0..count /\ idx' = at' /\ at' < Len(List)' /\ List' = List
    BY <2>1, <2>2 DEF List
  <2> QED
    BY <2>1, <2>3 DEF Walked
<1>2. CASE NextEntry
  <2>1. /\ ~(HasNext /\ idx # count) /\ ~(HasTok /\ idx = count)
        /\ e \in 1..n /\ stack[e].lexer /\ stack[e].rest = <<>>
        /\ e' = e + 1 /\ UNCHANGED <<stack, idx, initial, count>>
    BY <1>0, <1>2 DEF NextEntry, AtLexer, Frozen
  <2>2. Len(stack[e].list) <= count /\ te = e
    BY <2>1, ListTooShort
  <2>3. at = 0 /\ idx = 0
    <3>1. idx = at /\ count \in {0, 1} /\ at \in 0..count /\ (at = 0 \/ at < Len(stack[e].list))
      BY <2>2 DEF Walked, List
    <3> QED
      BY <1>0, <2>1, <2>2, <3>1
  <2>4. Tokens(stack[e]) = Tokens(initial[e]) /\ stack[e].lexer = initial[e].lexer
    <3>1. e <= Len(stack)
      BY <1>0, <2>1
    <3> QED
      BY <3>1, Zenon DEF Walked
  <2>5. stack[e] = Drained(initial[e]) /\ initial[e].lexer
    BY <1>0, <2>1, <2>4, DrainedIs
  <2>6. Size(initial[e]) <= count
    <3>1. Size(initial[e]) = Size(stack[e])
      BY <1>0, <2>1, <2>4, SameSize
    <3>2. Size(stack[e]) = Len(stack[e].list) + 0
      BY <2>1, EmptySeq, Zenon DEF Size
    <3> QED
      BY <1>0, <2>1, <2>2, <3>1, <3>2
  <2>7. \A i \in 1..(e' - 1) : /\ stack[i] = Drained(initial[i])
                              /\ Size(initial[i]) <= count
                              /\ initial[i].lexer
    BY <2>1, <2>5, <2>6 DEF Walked
  <2>8. /\ \A i \in (e' + 1)..n : stack[i] = initial[i]
        /\ e' <= n => stack[e'] = initial[e']
    <3>1. \A i \in (e + 1)..n : stack[i] = initial[i]
      BY DEF Walked
    <3>2. e \in Nat /\ e' = e + 1
      BY <1>0, <2>1
    <3> HIDE DEF n
    <3>3. ASSUME NEW i \in (e' + 1)..n
          PROVE  i \in (e + 1)..n
      BY <1>0, <3>2
    <3>4. e' <= n => e' \in (e + 1)..n
      BY <1>0, <3>2
    <3> QED
      BY <3>1, <3>3, <3>4
  <2>9. e' \in 1..(n + 1)
    BY <1>0, <2>1
  <2>10. IF e' <= n THEN te' = e' /\ at' = 0 ELSE te' = n /\ at' = at /\ stack # <<>>
    BY <1>0, <1>2, <2>1, <2>2 DEF NextEntry
  <2>11. /\ at' = 0
         /\ e' <= n => te' = e'
         /\ e' > n => te' = n /\ stack # <<>>
    BY <1>0, <2>3, <2>9, <2>10
  <2>12. /\ count \in {0, 1} /\ initial \in Stacks
         /\ stack \in Seq(Entry(Token)) /\ n = Len(initial)
         /\ 0 \in 0..count
    BY DEF Walked
  <2> HIDE DEF n
  <2> QED
    BY <2>1, <2>3, <2>7, <2>8, <2>9, <2>11, <2>12 DEF Walked, n
<1>3. CASE LexToken
  <2> DEFINE old == stack[e]
             new == [old EXCEPT !.list = Append(@, Head(old.rest)), !.rest = Tail(@)]
  <2>1. /\ ~(HasNext /\ idx # count) /\ ~(HasTok /\ idx = count)
        /\ e \in 1..n /\ old.rest # <<>>
        /\ stack' = [stack EXCEPT ![e] = new]
        /\ UNCHANGED <<e, te, initial, count>>
    BY <1>0, <1>3 DEF LexToken, AtLexer, Frozen
  <2>2. /\ te = e /\ Len(old.list) <= count
        /\ IF HasTok THEN at + 1 = Len(old.list) /\ at < count
                     ELSE at = 0 /\ Len(old.list) = 0
    BY <2>1, ListTooShort
  <2>3. /\ Tokens(old) = Tokens(initial[e]) /\ old.lexer = initial[e].lexer
        /\ old = initial[e] \/ Len(initial[e].list) < Len(old.list)
    <3>1. e <= Len(stack)
      BY <1>0, <2>1
    <3> QED
      BY <3>1, Zenon DEF Walked
  <2>4. /\ old \in Entry(Token) /\ old.list \in Seq(Token) /\ old.rest \in Seq(Token)
        /\ Len(old.list) \in Nat /\ Len(initial[e].list) \in Nat
    <3>1. initial[e] \in Entry(Token)
      BY <1>0, <2>1
    <3>2. Len(initial[e].list) \in Nat
      BY <3>1, LenProperties DEF Entry
    <3> QED
      BY <1>0, <2>1, <3>2
  <2>5. /\ new.list = Append(old.list, Head(old.rest)) /\ new.rest = Tail(old.rest)
        /\ new.lexer = old.lexer
    BY <2>4 DEF Entry
  <2>6. /\ new.list \in Seq(Token) /\ new.rest \in Seq(Token)
        /\ Len(new.list) = Len(old.list) + 1
        /\ new.list \o new.rest = old.list \o old.rest
    <3> DEFINE u == old.list
               v == old.rest
    <3>1. u \in Seq(Token) /\ v \in Seq(Token) /\ v # <<>>
      BY <2>1, <2>4
    <3> HIDE DEF u, v
    <3>2. /\ Head(v) \in Token /\ Tail(v) \in Seq(Token)
          /\ v = <<Head(v)>> \o Tail(v)
      BY <3>1
    <3>3. /\ Append(u, Head(v)) \in Seq(Token)
          /\ Len(Append(u, Head(v))) = Len(u) + 1
          /\ Append(u, Head(v)) = u \o <<Head(v)>>
      BY <3>1, <3>2
    <3>4. (u \o <<Head(v)>>) \o Tail(v) = u \o v
      <4> DEFINE x == <<Head(v)>>
                 y == Tail(v)
      <4>1. x \in Seq(Token) /\ y \in Seq(Token) /\ v = x \o y
        BY <3>2
      <4> HIDE DEF x, y
      <4>2. (u \o x) \o y = u \o v
        BY <3>1, <4>1
      <4> QED
        BY <4>2 DEF x, y
    <3> QED
      BY <2>5, <3>2, <3>3, <3>4 DEF u, v
  <2>7. Tokens(new) = Tokens(initial[e])
    <3>1. Tokens(new) = new.list \o new.rest /\ Tokens(old) = old.list \o old.rest
      BY Zenon DEF Tokens
    <3> QED
      BY <2>3, <2>6, <3>1
  <2>8. new \in Entry(Token)
    BY <2>4, <2>5, <2>6 DEF Entry
  <2>9. idx = at /\ at \in 0..count /\ count \in {0, 1}
    BY DEF Walked
  <2>10. /\ at' = (IF HasTok THEN at + 1 ELSE at)
         /\ idx' = (IF HasTok THEN idx + 1 ELSE idx)
    BY <1>3 DEF LexToken
  <2> HIDE DEF old, new
  <2>11. idx' = at' /\ at' \in 0..count /\ at' < Len(new.list)
    BY <2>2, <2>4, <2>6, <2>9, <2>10
  <2>12. /\ stack' \in Seq(Entry(Token)) /\ Len(stack') = n
         /\ stack'[e] = new
         /\ \A i \in 1..n : i # e => stack'[i] = stack[i]
    <3>1. stack \in Seq(Entry(Token))
      BY DEF Walked
    <3> QED
      BY <1>0, <2>1, <2>8, <3>1, ExceptSeq
  <2>13. /\ Len(initial[e].list) < Len(new.list)
         /\ Len(new.list) <= count + 1
    BY <2>2, <2>3, <2>4, <2>6, <2>9 DEF old
  <2>14. List' = new.list
    BY <2>1, <2>2, <2>12 DEF List
  <2>15. \A i \in 1..(e - 1) : /\ stack'[i] = Drained(initial[i])
                               /\ Size(initial[i]) <= count
                               /\ initial[i].lexer
    <3> SUFFICES ASSUME NEW i \in 1..(e - 1)
                 PROVE  /\ stack'[i] = Drained(initial[i])
                        /\ Size(initial[i]) <= count
                        /\ initial[i].lexer
      OBVIOUS
    <3>1. stack'[i] = stack[i]
      BY <1>0, <2>1, <2>12
    <3> QED
      BY <3>1 DEF Walked
  <2>16. \A i \in (e + 1)..n : stack'[i] = initial[i]
    <3> SUFFICES ASSUME NEW i \in (e + 1)..n PROVE stack'[i] = initial[i]
      OBVIOUS
    <3>1. stack'[i] = stack[i]
      BY <1>0, <2>1, <2>12
    <3>2. stack[i] = initial[i]
      BY DEF Walked
    <3> QED
      BY <3>1, <3>2
  <2>17. /\ initial \in Stacks /\ n = Len(initial) /\ e \in 1..(n + 1) /\ ~(e > n)
         /\ new.lexer = initial[e].lexer
    BY <1>0, <2>1, <2>3, <2>5 DEF Walked
  <2> HIDE DEF n
  <2> QED
    BY <2>1, <2>2, <2>7, <2>9, <2>11, <2>12, <2>13, <2>14, <2>15, <2>16, <2>17 DEF Walked
<1>4. CASE Return \/ UNCHANGED vars
  <2>1. UNCHANGED <<stack, initial, count, e, te, at, idx>>
    BY <1>4 DEF Return, Frozen, vars
  <2> QED
    BY <2>1 DEF Walked, List
<1> QED
  BY <1>1, <1>2, <1>3, <1>4 DEF Next

\* The walk starts in such a state.
LEMMA WalkedInit == Init => Walked
<1> SUFFICES ASSUME Init PROVE Walked
  OBVIOUS
<1>1. /\ stack \in Stacks /\ initial = stack /\ e = 1 /\ te = 1 /\ at = 0 /\ idx = 0
      /\ count \in {0, 1}
  BY CountsAssumption DEF Init
<1>2. stack \in Seq(Entry(Token))
  BY <1>1, StacksAssumption
<1>3. Len(stack) \in Nat /\ (stack # <<>> => Len(stack) >= 1)
  BY <1>2, EmptySeq, LenProperties
<1>4. e > Len(stack) => te = IF stack = <<>> THEN 1 ELSE Len(stack)
  BY <1>1, <1>3
<1> QED
  BY <1>1, <1>2, <1>3, <1>4 DEF Walked

\* The entries already left are not where a lookahead stops.
LEMMA NotBehind ==
  ASSUME Walked
  PROVE  \A i \in PeekStops(initial, count) : i \in 1..Len(stack) /\ e <= i
<1> SUFFICES ASSUME NEW i \in PeekStops(initial, count)
             PROVE  i \in 1..Len(stack) /\ e <= i
  OBVIOUS
<1>1. i \in 1..Len(stack) /\ count + 1 <= Size(initial[i]) /\ initial[i] \in Entry(Token)
  BY WalkedTypes, StopsAreIndices DEF Walked
<1>2. Size(initial[i]) \in Nat /\ count \in Nat /\ Len(stack) \in Nat
  BY <1>1, WalkedTypes, TokensOfEntry
<1>3. e \in 1..(Len(stack) + 1) /\ \A j \in 1..(e - 1) : Size(initial[j]) <= count
  BY DEF Walked
<1> QED
  BY <1>1, <1>2, <1>3

\* The entries are as Peeked says if each of them is.
LEMMA EntryByEntry ==
  ASSUME Walked, \A i \in 1..Len(stack) : stack[i] = Peeked(initial, count)[i]
  PROVE  stack = Peeked(initial, count)
<1>1. /\ Peeked(initial, count) \in Seq(Entry(Token))
      /\ Len(Peeked(initial, count)) = Len(initial)
  BY WalkedTypes, PeekedStack
<1>2. stack \in Seq(Entry(Token)) /\ Len(stack) = Len(initial)
  BY DEF Walked
<1> QED
  BY <1>1, <1>2, SeqEqual

\* Where the loop breaks off with the token found, it is the one a lookahead
\* shows.
LEMMA FoundIsPeek ==
  ASSUME Walked, e \in 1..Len(stack), at = count, at < Len(stack[e].list)
  PROVE  /\ stack[e].list[at + 1] = PeekForward(initial, count, Eof)
         /\ stack = Peeked(initial, count)
<1> DEFINE S == PeekStops(initial, count)
<1>0. /\ Len(stack) \in Nat /\ count \in Nat /\ DOMAIN initial = 1..Len(stack)
      /\ stack[e] \in Entry(Token) /\ initial[e] \in Entry(Token)
      /\ stack[e].list \in Seq(Token) /\ stack[e].rest \in Seq(Token)
      /\ Len(stack[e].list) \in Nat
  BY WalkedTypes
<1>1. /\ Tokens(stack[e]) = Tokens(initial[e]) /\ stack[e].lexer = initial[e].lexer
      /\ \/ stack[e] = initial[e]
         \/ /\ Len(initial[e].list) < Len(stack[e].list)
            /\ Len(stack[e].list) <= count + 1
  <2>1. e <= Len(stack)
    BY <1>0
  <2> QED
    BY <2>1, Zenon DEF Walked
<1>2. Size(initial[e]) > count
  <2>1. Size(initial[e]) = Size(stack[e])
    BY <1>0, <1>1, SameSize
  <2>2. Size(stack[e]) = Len(stack[e].list) + Len(stack[e].rest)
    BY DEF Size
  <2>3. Len(stack[e].rest) \in Nat
    BY <1>0, LenProperties
  <2>4. count < Len(stack[e].list) /\ Len(stack[e].list) \in Nat /\ count \in Nat
    BY <1>0
  <2>5. \A x, y, z \in Nat : x < y => y + z > x
    OBVIOUS
  <2> QED
    BY <2>1, <2>2, <2>3, <2>4, <2>5, Zenon
<1>3. e \in S
  <2>1. \A j \in 1..(e - 1) : initial[j].lexer
    BY DEF Walked
  <2> QED
    BY <1>0, <1>2, <2>1 DEF PeekStops, Stops
<1>4. S \subseteq 1..Len(stack) /\ \A i \in S : e <= i
  BY NotBehind
<1>5. LeastOf(S) = e
  <2>1. LeastOf(S) \in S /\ LeastOf(S) <= e
    BY <1>0, <1>3, <1>4, FirstIndex
  <2> QED
    BY <1>0, <1>4, <2>1
<1>6. PeekForward(initial, count, Eof) = stack[e].list[at + 1]
  <2>1. PeekForward(initial, count, Eof) = Tokens(initial[e])[count + 1]
    BY <1>3, <1>5 DEF PeekForward
  <2>2. Tokens(stack[e]) = stack[e].list \o stack[e].rest
    BY Zenon DEF Tokens
  <2>3. (stack[e].list \o stack[e].rest)[count + 1] = stack[e].list[count + 1]
    <3> DEFINE u == stack[e].list
               v == stack[e].rest
    <3>1. u \in Seq(Token) /\ v \in Seq(Token) /\ count < Len(u) /\ count \in Nat
      BY <1>0
    <3> HIDE DEF u, v
    <3>2. (u \o v)[count + 1] = u[count + 1]
      BY <3>1
    <3> QED
      BY <3>2 DEF u, v
  <2> QED
    BY <1>1, <2>1, <2>2, <2>3
<1>7. ASSUME NEW i \in 1..Len(stack) PROVE stack[i] = Peeked(initial, count)[i]
  <2>1. Peeked(initial, count)[i] =
          IF \E k \in S : k < i THEN initial[i]
          ELSE IF i \in S THEN Filled(initial[i], count + 1)
          ELSE Drained(initial[i])
    BY <1>0 DEF Peeked
  <2> HIDE DEF S
  <2>2. CASE i < e
    <3>1. ~(\E k \in S : k < i) /\ i \notin S
      BY <1>0, <1>4, <2>2
    <3>2. i \in 1..(e - 1)
      BY <1>0, <2>2
    <3>3. stack[i] = Drained(initial[i])
      BY <3>2 DEF Walked
    <3> QED
      BY <2>1, <3>1, <3>3
  <2>3. CASE i = e
    <3>1. ~(\E k \in S : k < i)
      BY <1>0, <1>4, <2>3
    <3>2. stack[e] = Filled(initial[e], count + 1)
      <4>1. CASE stack[e] = initial[e]
        BY <1>0, <4>1 DEF Filled
      <4>2. CASE stack[e] # initial[e]
        <5>1. Len(stack[e].list) = count + 1
          BY <1>0, <1>1, <4>2
        <5> QED
          BY <1>0, <1>1, <4>2, <5>1, FilledIs
      <4> QED
        BY <4>1, <4>2
    <3> QED
      BY <1>3, <2>1, <2>3, <3>1, <3>2
  <2>4. CASE i > e
    <3>1. i \in (e + 1)..Len(stack)
      BY <1>0, <2>4
    <3>2. stack[i] = initial[i]
      BY <3>1 DEF Walked
    <3> QED
      BY <1>3, <2>1, <2>4, <3>2
  <2> QED
    BY <1>0, <2>2, <2>3, <2>4
<1> QED
  BY <1>6, <1>7, EntryByEntry

\* Where the loop comes to the end of the stack, or to a bare list that is too
\* short, a lookahead shows the end of the input.
LEMMA NotFoundIsPeek ==
  ASSUME Walked,
         e \in 1..Len(stack) => ~stack[e].lexer /\ Len(stack[e].list) <= count
  PROVE  /\ PeekForward(initial, count, Eof) = Eof
         /\ stack = Peeked(initial, count)
<1> DEFINE S == PeekStops(initial, count)
<1>0. /\ Len(stack) \in Nat /\ count \in Nat /\ DOMAIN initial = 1..Len(stack)
      /\ initial \in Seq(Entry(Token)) /\ ListsAtBottom(initial)
      /\ \A i \in 1..Len(stack) : stack[i] \in Entry(Token) /\ initial[i] \in Entry(Token)
                                  /\ Len(stack[i].list) \in Nat
  BY WalkedTypes
<1>1. Len(stack) = Len(initial) /\ e \in 1..(Len(stack) + 1)
  BY DEF Walked
<1>2. ASSUME e \in 1..Len(stack)
      PROVE  /\ e = Len(stack) /\ initial[e].rest = <<>> /\ stack[e] = initial[e]
             /\ Size(initial[e]) <= count
  <2>1. /\ Tokens(stack[e]) = Tokens(initial[e]) /\ stack[e].lexer = initial[e].lexer
        /\ stack[e] = initial[e] \/ Len(initial[e].list) < Len(stack[e].list)
    <3>1. e <= Len(stack)
      BY <1>0, <1>2
    <3> QED
      BY <3>1, Zenon DEF Walked
  <2>2. e = Len(stack) /\ initial[e].rest = <<>>
    BY <1>0, <1>1, <1>2, <2>1 DEF ListsAtBottom
  <2>3. Size(initial[e]) = Len(initial[e].list) + 0 /\ Len(initial[e].list) \in Nat
    <3>1. Len(initial[e].list) \in Nat
      BY <1>0, <1>2, LenProperties DEF Entry
    <3>2. Size(initial[e]) = Len(initial[e].list) + 0
      BY <2>2, EmptySeq, Zenon DEF Size
    <3> QED
      BY <3>1, <3>2
  <2>4. Size(stack[e]) = Size(initial[e])
    BY <1>0, <1>2, <2>1, SameSize
  <2>5. Size(stack[e]) = Len(stack[e].list) + Len(stack[e].rest) /\ Len(stack[e].rest) \in Nat
    <3>1. stack[e].rest \in Seq(Token)
      BY <1>0, <1>2 DEF Entry
    <3> QED
      BY <3>1, LenProperties DEF Size
  <2>6. stack[e] = initial[e]
    <3>1. \A x, y, z \in Nat : x + y = z + 0 => ~(z < x)
      OBVIOUS
    <3>2. Len(stack[e].list) \in Nat
      BY <1>0, <1>2
    <3>3. Len(stack[e].list) + Len(stack[e].rest) = Len(initial[e].list) + 0
      BY <2>3, <2>4, <2>5, Zenon
    <3>4. ~(Len(initial[e].list) < Len(stack[e].list))
      BY <2>3, <2>5, <3>1, <3>2, <3>3, Zenon
    <3> QED
      BY <2>1, <3>4
  <2> QED
    BY <1>0, <1>2, <2>2, <2>3, <2>6
<1>3. S = {}
  <2> SUFFICES ASSUME NEW i \in S PROVE FALSE
    OBVIOUS
  <2>1. i \in 1..Len(stack) /\ e <= i
    BY NotBehind
  <2>2. e \in 1..Len(stack)
    BY <1>0, <1>1, <2>1
  <2>3. i = e /\ Size(initial[i]) <= count
    BY <1>0, <1>2, <2>1, <2>2
  <2>4. count + 1 <= Size(initial[i])
    BY <1>0, StopsAreIndices
  <2>5. Size(initial[i]) \in Nat
    BY <1>0, <2>1, TokensOfEntry
  <2> QED
    BY <1>0, <2>3, <2>4, <2>5
<1>4. PeekForward(initial, count, Eof) = Eof
  BY <1>3 DEF PeekForward
<1>5. ASSUME NEW i \in 1..Len(stack) PROVE stack[i] = Peeked(initial, count)[i]
  <2>1. Peeked(initial, count)[i] = Drained(initial[i])
    BY <1>0, <1>3 DEF Peeked
  <2>2. CASE i < e
    <3>1. i \in 1..(e - 1)
      BY <1>1, <2>2
    <3>2. stack[i] = Drained(initial[i])
      BY <3>1 DEF Walked
    <3> QED
      BY <2>1, <3>2
  <2>3. CASE i >= e
    <3>0. e \in 1..Len(stack)
      BY <1>0, <1>1, <2>3
    <3>1. e \in 1..Len(stack) /\ i = e
      BY <1>0, <1>1, <1>2, <2>3, <3>0
    <3>2. stack[e] = initial[e] /\ initial[e].rest = <<>> /\ initial[e] \in Entry(Token)
      BY <1>0, <1>2, <3>1
    <3>3. stack[e] = Drained(initial[e])
      BY <3>2, DrainedIs
    <3> QED
      BY <2>1, <3>1, <3>3
  <2> QED
    BY <1>1, <2>2, <2>3
<1> QED
  BY <1>4, <1>5, EntryByEntry

\* The call returns what a lookahead shows.
LEMMA ReturnIsPeek ==
  ASSUME Walked, Return
  PROVE  /\ tok' = <<PeekForward(initial, count, Eof)>>
         /\ stack = Peeked(initial, count)
<1>0. /\ ~AtLexer /\ Running /\ ~(HasNext /\ idx # count)
      /\ tok' = <<IF HasTok /\ idx = count THEN List[at + 1] ELSE Eof>>
  BY DEF Return
<1>1. /\ Len(stack) \in Nat /\ DOMAIN stack = 1..Len(stack) /\ count \in Nat
  BY WalkedTypes
<1>2. /\ idx = at /\ e \in 1..(Len(stack) + 1) /\ Len(stack) = Len(initial)
      /\ \A i \in 1..(e - 1) : stack[i] = Drained(initial[i]) /\ Size(initial[i]) <= count
  BY DEF Walked
<1>3. CASE HasTok /\ idx = count
  <2>1. stack # <<>> /\ at < Len(stack[te].list) /\ at = count
    BY <1>2, <1>3 DEF HasTok, List
  <2>2. e <= Len(stack)
    <3> SUFFICES ASSUME e > Len(stack) PROVE FALSE
      BY <1>1, <1>2
    <3>1. te = Len(stack) /\ te \in 1..(e - 1) /\ te \in 1..Len(stack)
      <4>1. te = Len(stack)
        BY <2>1 DEF Walked
      <4>2. Len(stack) >= 1
        BY <1>1, <2>1, EmptySeq DEF Walked
      <4> QED
        BY <1>1, <1>2, <4>1, <4>2
    <3>2. stack[te] = Drained(initial[te]) /\ Size(initial[te]) <= count
      BY <1>2, <3>1
    <3>3. initial[te] \in Entry(Token)
      BY <3>1, WalkedTypes
    <3>4. stack[te].list = Tokens(initial[te])
      BY <3>2, <3>3 DEF Drained, Entry
    <3>5. Len(stack[te].list) = Size(initial[te]) /\ Size(initial[te]) \in Nat
      BY <3>3, <3>4, TokensOfEntry
    <3> QED
      BY <1>1, <2>1, <3>2, <3>5
  <2>3. te = e
    BY <2>2, Zenon DEF Walked
  <2>4. e \in 1..Len(stack)
    BY <1>1, <1>2, <2>2
  <2>5. /\ stack[e].list[at + 1] = PeekForward(initial, count, Eof)
        /\ stack = Peeked(initial, count)
    BY <2>1, <2>3, <2>4, FoundIsPeek
  <2> QED
    BY <1>0, <1>3, <2>3, <2>5 DEF List
<1>4. CASE ~(HasTok /\ idx = count)
  <2>1. ASSUME e \in 1..Len(stack)
        PROVE  ~stack[e].lexer /\ Len(stack[e].list) <= count
    <3>1. ~stack[e].lexer
      BY <1>0, <1>1, <1>4, <2>1 DEF AtLexer
    <3>2. Len(stack[e].list) <= count
      BY <1>0, <1>4, <2>1, ListTooShort
    <3> QED
      BY <3>1, <3>2
  <2>2. /\ PeekForward(initial, count, Eof) = Eof
        /\ stack = Peeked(initial, count)
    BY <2>1, NotFoundIsPeek
  <2> QED
    BY <1>0, <1>4, <2>2
<1> QED
  BY <1>3, <1>4

\* The whole invariant holds of every walk.
THEOREM WalkInvHolds == Spec => []WalkInv
<1>1. Init => WalkInv
  BY WalkedInit DEF Init, WalkInv, WalkIsPeek, Running
<1>2. WalkInv /\ [Next]_vars => WalkInv'
  <2> SUFFICES ASSUME Walked, WalkIsPeek, [Next]_vars PROVE Walked' /\ WalkIsPeek'
    BY DEF WalkInv
  <2>1. Walked'
    BY WalkedStep
  <2>2. CASE SkipListed \/ NextEntry \/ LexToken
    <3>1. Running /\ tok' = tok
      BY <2>2 DEF SkipListed, NextEntry, LexToken, AtLexer
    <3> QED
      BY <2>1, <3>1 DEF WalkIsPeek, Running
  <2>3. CASE Return
    <3>1. UNCHANGED <<stack, initial, count>>
      BY <2>3 DEF Return, Frozen
    <3> QED
      BY <2>1, <2>3, <3>1, ReturnIsPeek DEF WalkIsPeek
  <2>4. CASE UNCHANGED vars
    BY <2>1, <2>4 DEF vars, WalkIsPeek, Running
  <2> QED
    BY <2>2, <2>3, <2>4 DEF Next
<1> QED
  BY <1>1, <1>2, PTL DEF Spec

\* The link the loop holds always points into the list of an entry that exists,
\* and the loop never counts past what it was asked for.
THEOREM WalkTypeOK == Spec => []TypeOK
<1>1. WalkInv => TypeOK
  <2> SUFFICES ASSUME Walked PROVE TypeOK
    BY DEF WalkInv
  <2>1. /\ Len(stack) \in Nat /\ DOMAIN stack = 1..Len(stack) /\ count \in Nat
        /\ \A i \in 1..Len(stack) : Len(stack[i].list) \in Nat
    BY WalkedTypes
  <2>2. /\ e \in 1..(Len(stack) + 1) /\ idx = at /\ at \in 0..count
        /\ at = 0 \/ at < Len(stack[te].list)
    BY DEF Walked, List
  <2>3. e <= Len(stack) => te = e
    BY Zenon DEF Walked
  <2>4. e > Len(stack) /\ stack # <<>> => te = Len(stack)
    BY DEF Walked
  <2>5. stack # <<>> => te \in 1..Len(stack)
    <3>1. stack # <<>> => Len(stack) >= 1
      BY <2>1, EmptySeq DEF Walked
    <3> QED
      BY <2>1, <2>2, <2>3, <2>4, <3>1
  <2> QED
    BY <2>1, <2>2, <2>5 DEF TypeOK, List
<1> QED
  BY <1>1, WalkInvHolds, PTL

\* ppti_peek_forward returns the token, and leaves the entries, that one step of
\* PeekForward and Peeked gives: the specification of the iterator, which uses
\* these, is what the loop does.
THEOREM WalkShowsPeek == Spec => []WalkIsPeek
<1>1. WalkInv => WalkIsPeek
  BY DEF WalkInv
<1> QED
  BY <1>1, WalkInvHolds, PTL

=============================================================================
