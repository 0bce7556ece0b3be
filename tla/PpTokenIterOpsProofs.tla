------------------------ MODULE PpTokenIterOpsProofs ------------------------
(***************************************************************************)
(* Lemmas about the operators of PpTokenIterOps, for stacks of any depth   *)
(* and entries with any tokens: what a lookahead, a meal, an include and   *)
(* an insertion do to the entries, and to the order the tokens are read in.*)
(*                                                                         *)
(* ReadOrder is a recursion over the stack.  SameBelow carries a           *)
(* difference at the top of two stacks down to their bottom, and every     *)
(* operation changes the top only.                                         *)
(***************************************************************************)
EXTENDS PpTokenIterOps, TLAPS, SequenceTheorems, WellFoundedInduction

-----------------------------------------------------------------------------
(* The least element of a set of naturals. *)

\* The order of the naturals, as the relation the library calls well-founded.
LEMMA LessIsInOpToRel ==
  \A a, b \in Nat : a < b => <<a, b>> \in OpToRel(<, Nat)
  BY DEF OpToRel

\* LeastOf is what its name says, on every non-empty set of naturals.
LEMMA LeastOfIsLeast ==
  ASSUME NEW S, S \subseteq Nat, S # {}
  PROVE  /\ LeastOf(S) \in S
         /\ \A j \in S : LeastOf(S) <= j
<1>1. PICK x \in S : \A y \in S : ~(<<y, x>> \in OpToRel(<, Nat))
  BY NatLessThanWellFounded, WFMin, Zenon
<1>2. ASSUME NEW y \in S PROVE x <= y
  <2>1. ~(y < x)
    BY <1>1, LessIsInOpToRel, Zenon
  <2> QED
    BY <2>1
<1> HIDE <1>1
<1> QED
  BY <1>2 DEF LeastOf

\* The same for a set of indices, in the form the proofs below use.
LEMMA FirstIndex ==
  ASSUME NEW n \in Nat, NEW S, S \subseteq 1..n, S # {}
  PROVE  /\ LeastOf(S) \in S
         /\ LeastOf(S) \in 1..n
         /\ \A j \in S : LeastOf(S) <= j
         /\ ~(\E j \in S : j < LeastOf(S))
<1>0. S \subseteq Nat
  OBVIOUS
<1>1. LeastOf(S) \in S /\ \A j \in S : LeastOf(S) <= j
  BY <1>0, LeastOfIsLeast, Zenon
<1>2. LeastOf(S) \in 1..n
  BY <1>1
<1>3. ASSUME NEW j \in S, j < LeastOf(S) PROVE FALSE
  <2>1. j \in 1..n /\ LeastOf(S) <= j
    BY <1>1
  <2> QED
    BY <1>2, <1>3, <2>1
<1> QED
  BY <1>1, <1>2, <1>3

-----------------------------------------------------------------------------
(* Entries. *)

\* The tokens of an entry are a sequence as long as its size.
LEMMA TokensOfEntry ==
  ASSUME NEW T, NEW e \in Entry(T)
  PROVE  /\ Tokens(e) \in Seq(T)
         /\ Len(Tokens(e)) = Size(e)
         /\ Size(e) \in Nat
<1>1. e.list \in Seq(T) /\ e.rest \in Seq(T)
  BY DEF Entry
<1>2. \A s, t \in Seq(T) : /\ s \o t \in Seq(T)
                           /\ Len(s \o t) = Len(s) + Len(t)
                           /\ Len(s) + Len(t) \in Nat
  OBVIOUS
<1> QED
  BY <1>1, <1>2, Zenon DEF Tokens, Size

\* A file read to its end is an entry whose lexer has nothing left.
LEMMA DrainedEntry ==
  ASSUME NEW T, NEW e \in Entry(T)
  PROVE  /\ Drained(e) \in Entry(T)
         /\ Drained(e).rest = <<>>
  BY TokensOfEntry, EmptySeq DEF Drained, Entry

\* Lexing ahead keeps an entry well-formed and leaves n tokens in its list.
LEMMA FilledEntry ==
  ASSUME NEW T, NEW e \in Entry(T), NEW n \in Nat, n <= Size(e)
  PROVE  /\ Filled(e, n) \in Entry(T)
         /\ Len(Filled(e, n).list) >= n
<1>1. /\ Tokens(e) \in Seq(T)
      /\ Len(Tokens(e)) = Size(e)
      /\ Size(e) \in Nat
  BY TokensOfEntry
<1>2. \A i \in 1..Size(e) : Tokens(e)[i] \in T
  BY <1>1, ElementOfSeq
<1>3. /\ SubSeq(Tokens(e), 1, n) \in Seq(T)
      /\ Len(SubSeq(Tokens(e), 1, n)) = n
  BY <1>1, <1>2, SubSeqProperties, n \in Int, 1 \in Int
<1>4. SubSeq(Tokens(e), n + 1, Size(e)) \in Seq(T)
  BY <1>1, <1>2, SubSeqProperties, n + 1 \in Int, Size(e) \in Int
<1>5. CASE Len(e.list) >= n
  BY <1>5 DEF Filled
<1>6. CASE ~(Len(e.list) >= n)
  <2> DEFINE f == [e EXCEPT !.list = SubSeq(Tokens(e), 1, n),
                            !.rest = SubSeq(Tokens(e), n + 1, Size(e))]
  <2>1. f \in Entry(T) /\ f.list = SubSeq(Tokens(e), 1, n)
    BY <1>3, <1>4 DEF Entry
  <2>2. Filled(e, n) = f
    BY <1>6 DEF Filled
  <2> HIDE DEF f
  <2> QED
    BY <1>3, <2>1, <2>2
<1> QED
  BY <1>5, <1>6

-----------------------------------------------------------------------------
(* The operators on stacks. *)

\* The places where a lookahead may stop are entries that have a token to show.
LEMMA StopsAreIndices ==
  ASSUME NEW T, NEW s \in Seq(Entry(T)), NEW count \in Nat
  PROVE  /\ PeekStops(s, count) \subseteq 1..Len(s)
         /\ PeekStops(s, count) \subseteq Nat
         /\ \A i \in PeekStops(s, count) : s[i] \in Entry(T) /\ count + 1 <= Size(s[i])
<1>1. DOMAIN s = 1..Len(s) /\ Len(s) \in Nat
  BY LenProperties
<1>2. \A i \in 1..Len(s) : s[i] \in Entry(T) /\ Size(s[i]) \in Nat
  BY ElementOfSeq, TokensOfEntry
<1> QED
  BY <1>1, <1>2 DEF PeekStops, Stops

\* Peeking returns a token of the sources or the end.
LEMMA PeekForwardType ==
  ASSUME NEW T, NEW s \in Seq(Entry(T)), NEW count \in Nat, NEW eof
  PROVE  PeekForward(s, count, eof) \in T \cup {eof}
<1>1. CASE PeekStops(s, count) = {}
  BY <1>1 DEF PeekForward
<1>2. CASE PeekStops(s, count) # {}
  <2> DEFINE k == LeastOf(PeekStops(s, count))
  <2>1. k \in PeekStops(s, count)
    BY <1>2, StopsAreIndices, LeastOfIsLeast
  <2>2. s[k] \in Entry(T) /\ count + 1 <= Size(s[k])
    BY <2>1, StopsAreIndices
  <2>3. Tokens(s[k])[count + 1] \in T
    BY <2>2, TokensOfEntry, ElementOfSeq
  <2> QED
    BY <1>2, <2>3 DEF PeekForward
<1> QED
  BY <1>1, <1>2

\* After a peek every file not read to its end lies in or below an entry with
\* count + 1 tokens in its list.
LEMMA PeekedStack ==
  ASSUME NEW T, NEW s \in Seq(Entry(T)), NEW count \in Nat
  PROVE  /\ Peeked(s, count) \in Seq(Entry(T))
         /\ Len(Peeked(s, count)) = Len(s)
         /\ \A i \in 1..Len(s) : Peeked(s, count)[i].rest # <<>> =>
              \E j \in 1..i : Len(Peeked(s, count)[j].list) >= count + 1
<1> DEFINE S == PeekStops(s, count)
           p == Peeked(s, count)
<1>1. /\ S \subseteq 1..Len(s) /\ S \subseteq Nat
      /\ \A i \in S : s[i] \in Entry(T) /\ count + 1 <= Size(s[i])
  BY StopsAreIndices
<1>2. DOMAIN s = 1..Len(s) /\ Len(s) \in Nat
  BY LenProperties
<1>3. \A i \in 1..Len(s) : s[i] \in Entry(T)
  BY ElementOfSeq
<1>4. p = [i \in 1..Len(s) |-> IF \E k \in S : k < i THEN s[i]
                               ELSE IF i \in S THEN Filled(s[i], count + 1)
                               ELSE Drained(s[i])]
  BY <1>2 DEF Peeked
<1>5. \A i \in S : /\ Filled(s[i], count + 1) \in Entry(T)
                   /\ Len(Filled(s[i], count + 1).list) >= count + 1
  BY <1>1, FilledEntry, count + 1 \in Nat
<1>6. \A i \in 1..Len(s) : /\ Drained(s[i]) \in Entry(T)
                           /\ Drained(s[i]).rest = <<>>
  BY <1>3, DrainedEntry
<1> HIDE DEF S, p
<1>7. p \in [1..Len(s) -> Entry(T)]
  BY <1>3, <1>4, <1>5, <1>6
<1>8. p \in Seq(Entry(T)) /\ Len(p) = Len(s)
  BY <1>2, <1>7
<1>9. ASSUME NEW i \in 1..Len(s), p[i].rest # <<>>
      PROVE  \E j \in 1..i : Len(p[j].list) >= count + 1
  <2>1. i \in S \/ \E k \in S : k < i
    BY <1>4, <1>6, <1>9
  <2>2. PICK k \in S : /\ k \in 1..Len(s)
                       /\ \A j \in S : k <= j
                       /\ ~(\E j \in S : j < k)
    BY <1>1, <1>2, <2>1, FirstIndex
  <2>3. p[k] = Filled(s[k], count + 1)
    BY <1>4, <2>2
  <2>4. Len(p[k].list) >= count + 1
    BY <1>5, <2>3
  <2>5. k \in 1..i
    BY <1>1, <2>1, <2>2
  <2> QED
    BY <2>4, <2>5
<1> QED
  BY <1>8, <1>9 DEF p

\* Eating a token leaves a stack of entries.
LEMMA EatType ==
  ASSUME NEW T, NEW s \in Seq(Entry(T))
  PROVE  Eat(s) \in Seq(Entry(T))
<1> DEFINE L == Unlisted(s)
           k == LeastOf(L)
<1>1. DOMAIN s = 1..Len(s) /\ Len(s) \in Nat
  BY LenProperties
<1>2. L = {i \in 1..Len(s) : s[i].list # <<>>}
  BY <1>1 DEF Unlisted
<1>3. CASE L = {}
  BY <1>3, EmptySeq DEF Eat
<1>4. CASE L # {}
  <2>1. k \in L /\ k \in 1..Len(s)
    BY <1>1, <1>2, <1>4, FirstIndex
  <2>2. s[k].list # <<>> /\ s[k] \in Entry(T)
    BY <1>2, <2>1, ElementOfSeq
  <2> DEFINE m == Len(s) - k + 1
             top == [s[k] EXCEPT !.list = Tail(@)]
             r == [i \in 1..m |-> IF i = 1 THEN top ELSE s[i + k - 1]]
  <2>3. Eat(s) = r
    BY <1>4 DEF Eat
  <2>4. top \in Entry(T)
    BY <2>2, HeadTailProperties DEF Entry
  <2>5. m \in Nat
    BY <1>1, <2>1
  <2>6. \A i \in 1..m : i + k - 1 \in 1..Len(s)
    BY <1>1, <2>1
  <2>7. \A i \in 1..m : s[i + k - 1] \in Entry(T)
    BY <2>6, ElementOfSeq
  <2> HIDE DEF L, k, top
  <2>8. r \in [1..m -> Entry(T)]
    BY <2>4, <2>7
  <2>9. r \in Seq(Entry(T))
    BY <2>5, <2>8
  <2> QED
    BY <2>3, <2>9
<1> QED
  BY <1>3, <1>4

\* Eating from a stack in which every file not read to its end lies in or below
\* an entry with n > 0 tokens in its list: only entries with nothing left are
\* popped, and n - 1 tokens stay available in the same way.
LEMMA EatenStack ==
  ASSUME NEW T, NEW s \in Seq(Entry(T)), NEW n \in Nat, n > 0,
         \A i \in 1..Len(s) : s[i].rest # <<>> =>
            \E j \in 1..i : Len(s[j].list) >= n
  PROVE  /\ Eat(s) \in Seq(Entry(T))
         /\ \A i \in 1..(Len(s) - Len(Eat(s))) : Size(s[i]) = 0
         /\ n - 1 > 0 => \A i \in 1..Len(Eat(s)) : Eat(s)[i].rest # <<>> =>
               \E j \in 1..i : Len(Eat(s)[j].list) >= n - 1
<1> DEFINE L == Unlisted(s)
           k == LeastOf(L)
<1>1. DOMAIN s = 1..Len(s) /\ Len(s) \in Nat
  BY LenProperties
<1>2. \A i \in 1..Len(s) : /\ s[i] \in Entry(T)
                           /\ s[i].list \in Seq(T)
                           /\ s[i].rest \in Seq(T)
  <2>1. \A i \in 1..Len(s) : s[i] \in Entry(T)
    BY ElementOfSeq
  <2>2. \A e \in Entry(T) : e.list \in Seq(T) /\ e.rest \in Seq(T)
    BY DEF Entry
  <2> QED
    BY <2>1, <2>2, Zenon
<1>3. L = {i \in 1..Len(s) : s[i].list # <<>>}
  BY <1>1 DEF Unlisted
<1>4. \A t \in Seq(T) : Len(t) >= n => t # <<>>
  BY EmptySeq
<1>5. \A i \in 1..Len(s) : s[i].list = <<>> /\ s[i].rest = <<>> => Size(s[i]) = 0
  <2>1. \A x, y : x = <<>> /\ y = <<>> => Len(x) + Len(y) = 0
    BY EmptySeq
  <2> QED
    BY <2>1, Zenon DEF Size
<1>6. CASE L = {}
  <2>1. Eat(s) = <<>>
    BY <1>6 DEF Eat
  <2>2. \A i \in 1..Len(s) : s[i].list = <<>>
    BY <1>3, <1>6
  <2>3. ASSUME NEW i \in 1..Len(s) PROVE s[i].rest = <<>>
    <3>1. SUFFICES ASSUME s[i].rest # <<>> PROVE FALSE
      OBVIOUS
    <3>2. PICK j \in 1..i : Len(s[j].list) >= n
      BY <3>1
    <3>3. j \in 1..Len(s)
      BY <1>1
    <3> QED
      BY <1>2, <1>4, <2>2, <3>2, <3>3
  <2>4. \A i \in 1..Len(s) : Size(s[i]) = 0
    BY <1>5, <2>2, <2>3
  <2> QED
    BY <1>1, <2>1, <2>4, EmptySeq
<1>7. CASE L # {}
  <2>1. /\ k \in L /\ k \in 1..Len(s)
        /\ \A j \in L : k <= j
    BY <1>1, <1>3, <1>7, FirstIndex
  <2>2. s[k].list # <<>> /\ s[k] \in Entry(T) /\ s[k].list \in Seq(T)
    BY <1>2, <1>3, <2>1
  <2> DEFINE m == Len(s) - k + 1
             top == [s[k] EXCEPT !.list = Tail(@)]
             r == [i \in 1..m |-> IF i = 1 THEN top ELSE s[i + k - 1]]
  <2>3. Eat(s) = r
    BY <1>7 DEF Eat
  <2>4. /\ top \in Entry(T)
        /\ top.list = Tail(s[k].list)
        /\ top.rest = s[k].rest
    BY <2>2, HeadTailProperties DEF Entry
  <2>5. m \in Nat /\ m >= 1 /\ Len(s) - m = k - 1
    BY <1>1, <2>1
  <2>6. \A i \in 1..m : i + k - 1 \in 1..Len(s)
    BY <1>1, <2>1
  <2> HIDE DEF L, k, top
  <2>7. r \in [1..m -> Entry(T)]
    BY <1>2, <2>4, <2>6
  <2>8. r \in Seq(Entry(T)) /\ Len(r) = m
    BY <2>5, <2>7
  <2>9. ASSUME NEW i \in 1..(k - 1) PROVE Size(s[i]) = 0
    <3>1. i \in 1..Len(s) /\ ~(k <= i)
      BY <1>1, <2>1
    <3>2. \A j \in 1..i : j \in 1..Len(s) /\ ~(k <= j)
      BY <1>1, <2>1
    <3>3. \A j \in 1..i : s[j].list = <<>>
      BY <1>3, <2>1, <3>2
    <3>4. s[i].rest = <<>>
      BY <1>2, <1>4, <3>1, <3>2, <3>3
    <3> QED
      BY <1>5, <3>1, <3>3, <3>4
  <2>10. ASSUME n - 1 > 0, NEW i \in 1..m, r[i].rest # <<>>
         PROVE  \E j \in 1..i : Len(r[j].list) >= n - 1
    <3>1. s[i + k - 1].rest # <<>>
      <4>1. CASE i = 1
        <5>1. r[i] = top /\ i + k - 1 = k
          BY <2>1, <2>5, <4>1
        <5> QED
          BY <2>4, <2>10, <5>1
      <4>2. CASE i # 1
        BY <2>10, <4>2
      <4> QED
        BY <4>1, <4>2
    <3>2. PICK j \in 1..(i + k - 1) : Len(s[j].list) >= n
      BY <2>6, <3>1
    <3>3. j \in 1..Len(s) /\ j \in Nat /\ k \in Nat
      BY <2>1, <2>6
    <3>4. j \in L
      BY <1>2, <1>3, <1>4, <3>2, <3>3
    <3>5. k <= j
      BY <2>1, <3>4
    <3>6. j - k + 1 \in 1..i /\ j - k + 1 \in 1..m
      BY <2>5, <3>2, <3>3, <3>5
    <3>7. Len(r[j - k + 1].list) >= n - 1
      <4>1. CASE j = k
        <5>1. r[j - k + 1] = top
          BY <2>5, <3>3, <4>1
        <5>2. Len(Tail(s[k].list)) = Len(s[k].list) - 1 /\ Len(s[k].list) \in Nat
          BY <2>2, HeadTailProperties, LenProperties, Zenon
        <5>3. \A x, y : x \in Nat /\ x >= n /\ y = x - 1 => y >= n - 1
          OBVIOUS
        <5> QED
          BY <2>4, <3>2, <4>1, <5>1, <5>2, <5>3, Zenon
      <4>2. CASE j # k
        <5>1. r[j - k + 1] = s[j]
          BY <3>3, <3>5, <3>6, <4>2
        <5>2. \A x \in Nat : x >= n => x >= n - 1
          OBVIOUS
        <5>3. Len(s[j].list) \in Nat
          BY <1>2, <3>3, LenProperties, Zenon
        <5> QED
          BY <3>2, <5>1, <5>2, <5>3, Zenon
      <4> QED
        BY <4>1, <4>2
    <3> QED
      BY <3>6, <3>7
  <2> QED
    BY <2>3, <2>5, <2>8, <2>9, <2>10
<1> QED
  BY <1>6, <1>7

\* Including and inserting keep the entries well-formed.
LEMMA PastedStack ==
  ASSUME NEW T, NEW s \in Seq(Entry(T)), NEW c \in Seq(T)
  PROVE  /\ IncludeFile(s, c) \in Seq(Entry(T))
         /\ Len(IncludeFile(s, c)) = Len(s) + 1
         /\ InsertTokList(s, c) \in Seq(Entry(T))
         /\ Len(InsertTokList(s, c)) >= Len(s)
<1>1. FileEntry(c) \in Entry(T) /\ ListEntry(c) \in Entry(T)
  BY EmptySeq DEF FileEntry, ListEntry, Entry
<1> HIDE DEF Entry
<1>2. <<FileEntry(c)>> \in Seq(Entry(T)) /\ <<ListEntry(c)>> \in Seq(Entry(T))
  BY <1>1
<1>3. /\ IncludeFile(s, c) \in Seq(Entry(T))
      /\ Len(IncludeFile(s, c)) = Len(s) + 1
  BY <1>2 DEF IncludeFile
<1>4. CASE s = <<>>
  BY <1>2, <1>3, <1>4 DEF InsertTokList
<1>5. CASE s # <<>>
  <2> DEFINE e == [s[1] EXCEPT !.list = c \o @]
  <2>1. 1 \in 1..Len(s)
    BY <1>5, EmptySeq
  <2>2. s[1] \in Entry(T)
    BY <2>1, ElementOfSeq
  <2>3. e \in Entry(T)
    BY <2>2, ConcatProperties DEF Entry
  <2>4. InsertTokList(s, c) = [s EXCEPT ![1] = e]
    BY <1>5 DEF InsertTokList
  <2> HIDE DEF e
  <2>5. /\ InsertTokList(s, c) \in Seq(Entry(T))
        /\ Len(InsertTokList(s, c)) = Len(s)
    BY <2>1, <2>3, <2>4, ExceptSeq
  <2> QED
    BY <1>3, <2>5
<1> QED
  BY <1>4, <1>5

-----------------------------------------------------------------------------
(* The reading order of a stack. *)

\* Induction over the indices of a stack, with the property given as a set.
LEMMA IndexInduction ==
  ASSUME NEW n \in Nat, NEW S, 0 \in S, \A i \in 1..n : i - 1 \in S => i \in S
  PROVE  \A i \in 0..n : i \in S
<1> DEFINE Bad == (0..n) \ S
<1>1. SUFFICES ASSUME Bad # {} PROVE FALSE
  OBVIOUS
<1>2. Bad \subseteq Nat
  OBVIOUS
<1>3. /\ LeastOf(Bad) \in Bad
      /\ \A j \in Bad : LeastOf(Bad) <= j
  BY <1>1, <1>2, LeastOfIsLeast, Zenon
<1>4. PICK m \in Bad : \A j \in Bad : m <= j
  BY <1>3
<1>5. m \in 1..n /\ m - 1 \in 0..n
  BY <1>4
<1>6. m - 1 \in S
  BY <1>4, <1>5
<1> QED
  BY <1>4, <1>5, <1>6

\* ReadOrder step by step: the recursion over the entries has a solution.
LEMMA ReadOrderSteps ==
  ASSUME NEW T, NEW s \in Seq(Entry(T))
  PROVE  /\ ReadOrder(s, 0) = <<>>
         /\ \A i \in 1..Len(s) :
              ReadOrder(s, i) = ReadOrder(s, i - 1) \o Tokens(s[i])
         /\ \A i \in 0..Len(s) : ReadOrder(s, i) \in Seq(T)
<1> DEFINE Solves(n, f) == f = [i \in 0..n |-> IF i = 0 THEN <<>>
                                               ELSE f[i - 1] \o Tokens(s[i])]
           Solvable == {n \in 0..Len(s) : \E f : Solves(n, f)}
           upto == CHOOSE f : Solves(Len(s), f)
<1>0. Len(s) \in Nat
  BY LenProperties
<1>1. 0 \in Solvable
  <2>1. Solves(0, [i \in 0..0 |-> <<>>])
    OBVIOUS
  <2> HIDE DEF Solves
  <2>2. \E f : Solves(0, f)
    BY <2>1
  <2>3. 0 \in 0..Len(s)
    BY <1>0
  <2> QED
    BY <2>2, <2>3
<1>2. ASSUME NEW n \in 1..Len(s), n - 1 \in Solvable PROVE n \in Solvable
  <2>1. PICK f : Solves(n - 1, f)
    BY <1>2
  <2> DEFINE g == [i \in 0..n |-> IF i = n THEN f[n - 1] \o Tokens(s[n]) ELSE f[i]]
  <2>2. ASSUME NEW i \in 0..n
        PROVE  g[i] = IF i = 0 THEN <<>> ELSE g[i - 1] \o Tokens(s[i])
    BY <2>1
  <2>3. Solves(n, g)
    BY <2>2
  <2> HIDE DEF g, Solves
  <2>4. \E h : Solves(n, h)
    BY <2>3
  <2>5. n \in 0..Len(s)
    BY <1>0
  <2> QED
    BY <2>4, <2>5
<1>3. Len(s) \in Solvable
  <2> HIDE DEF Solvable
  <2>1. \A i \in 0..Len(s) : i \in Solvable
    BY <1>0, <1>1, <1>2, IndexInduction, Zenon
  <2> QED
    BY <1>0, <2>1
<1>4. Solves(Len(s), upto)
  <2>1. \E f : Solves(Len(s), f)
    BY <1>3
  <2> HIDE DEF Solves
  <2> QED
    BY <2>1
<1>5. \A k : ReadOrder(s, k) = upto[k]
  BY DEF ReadOrder
<1>6. /\ upto[0] = <<>>
      /\ \A i \in 1..Len(s) : upto[i] = upto[i - 1] \o Tokens(s[i])
  <2> HIDE DEF upto
  <2> QED
    BY <1>0, <1>4
<1> HIDE DEF upto, Solves, Solvable
<1>7. /\ ReadOrder(s, 0) = <<>>
      /\ \A i \in 1..Len(s) : ReadOrder(s, i) = ReadOrder(s, i - 1) \o Tokens(s[i])
  BY <1>5, <1>6
<1> DEFINE Typed == {i \in 0..Len(s) : ReadOrder(s, i) \in Seq(T)}
<1>8. 0 \in Typed
  <2>1. ReadOrder(s, 0) \in Seq(T)
    BY <1>7, EmptySeq
  <2>2. 0 \in 0..Len(s)
    BY <1>0
  <2> QED
    BY <2>1, <2>2
<1>9. ASSUME NEW i \in 1..Len(s), i - 1 \in Typed PROVE i \in Typed
  <2>1. Tokens(s[i]) \in Seq(T)
    BY ElementOfSeq, TokensOfEntry
  <2>2. ReadOrder(s, i - 1) \o Tokens(s[i]) \in Seq(T)
    BY <1>9, <2>1, ConcatProperties
  <2>3. ReadOrder(s, i) \in Seq(T) /\ i \in 0..Len(s)
    <3>1. ReadOrder(s, i) \in Seq(T)
      BY <1>7, <2>2, Zenon
    <3>2. i \in 0..Len(s)
      BY <1>0
    <3> QED
      BY <3>1, <3>2
  <2> QED
    BY <2>3
<1>10. \A i \in 0..Len(s) : i \in Typed
  <2> HIDE DEF Typed
  <2> QED
    BY <1>0, <1>8, <1>9, IndexInduction
<1> QED
  BY <1>7, <1>10

\* The first a entries of s hold c and then what the first b entries of t hold.
ReadsAhead(s, a, c, t, b) == ReadOrder(s, a) = c \o ReadOrder(t, b)

\* Two stacks that agree from some entry on are read alike from there: if what
\* comes before differs by c, so does the whole.
LEMMA SameBelow ==
  ASSUME NEW T, NEW s \in Seq(Entry(T)), NEW t \in Seq(Entry(T)), NEW c \in Seq(T),
         NEW a \in 0..Len(s), NEW b \in 0..Len(t), Len(s) - a = Len(t) - b,
         ReadsAhead(s, a, c, t, b),
         \A i \in 1..(Len(s) - a) : Tokens(s[a + i]) = Tokens(t[b + i])
  PROVE  ReadsAhead(s, Len(s), c, t, Len(t))
<1> DEFINE n == Len(s) - a
           Same == {i \in 0..n : ReadOrder(s, a + i) = c \o ReadOrder(t, b + i)}
<1>0. Len(s) \in Nat /\ Len(t) \in Nat /\ a \in Nat /\ b \in Nat /\ n \in Nat
  BY LenProperties
<1>1. 0 \in Same
  <2>1. ReadOrder(s, a + 0) = c \o ReadOrder(t, b + 0) /\ 0 \in 0..n
    BY <1>0 DEF ReadsAhead
  <2> QED
    BY <2>1
<1>2. ASSUME NEW i \in 1..n, i - 1 \in Same PROVE i \in Same
  <2>1. a + i \in 1..Len(s) /\ b + i \in 1..Len(t) /\ (b + i) - 1 \in 0..Len(t)
    BY <1>0
  <2>2. (a + i) - 1 = a + (i - 1) /\ (b + i) - 1 = b + (i - 1)
    BY <1>0
  <2>3. /\ ReadOrder(s, a + i) = ReadOrder(s, (a + i) - 1) \o Tokens(s[a + i])
        /\ ReadOrder(t, b + i) = ReadOrder(t, (b + i) - 1) \o Tokens(t[b + i])
        /\ ReadOrder(t, (b + i) - 1) \in Seq(T)
    <3>1. ReadOrder(s, a + i) = ReadOrder(s, (a + i) - 1) \o Tokens(s[a + i])
      BY <2>1, ReadOrderSteps
    <3>2. ReadOrder(t, b + i) = ReadOrder(t, (b + i) - 1) \o Tokens(t[b + i])
      BY <2>1, ReadOrderSteps
    <3>3. ReadOrder(t, (b + i) - 1) \in Seq(T)
      BY <2>1, ReadOrderSteps
    <3> QED
      BY <3>1, <3>2, <3>3
  <2>4. Tokens(t[b + i]) \in Seq(T)
    BY <2>1, ElementOfSeq, TokensOfEntry
  <2>5. ReadOrder(s, (a + i) - 1) = c \o ReadOrder(t, (b + i) - 1)
    BY <1>2, <2>2
  <2>6. Tokens(s[a + i]) = Tokens(t[b + i])
    OBVIOUS
  <2>7. ReadOrder(s, a + i) = c \o ReadOrder(t, b + i)
    <3> DEFINE p == ReadOrder(s, (a + i) - 1)
               x == ReadOrder(t, (b + i) - 1)
               y == Tokens(t[b + i])
               q == ReadOrder(t, b + i)
    <3>1. /\ p = c \o x /\ q = x \o y
          /\ x \in Seq(T) /\ y \in Seq(T)
          /\ ReadOrder(s, a + i) = p \o y
      BY <2>3, <2>4, <2>5, <2>6
    <3> HIDE DEF p, x, y, q
    <3>2. p \o y = c \o q
      BY <3>1, SMTT(30)
    <3> QED
      BY <3>1, <3>2 DEF q
  <2> QED
    BY <2>7
<1>3. n \in Same
  <2> HIDE DEF Same, n
  <2>1. \A i \in 0..n : i \in Same
    BY <1>0, <1>1, <1>2, IndexInduction, Zenon
  <2> QED
    BY <1>0, <2>1
<1>4. a + n = Len(s) /\ b + n = Len(t)
  BY <1>0
<1> QED
  BY <1>3, <1>4 DEF ReadsAhead

\* What the first entries hold is the beginning of what the stack holds.
LEMMA ReadOrderExtends ==
  ASSUME NEW T, NEW s \in Seq(Entry(T)), NEW k \in 0..Len(s)
  PROVE  \E c \in Seq(T) : ReadOrder(s, Len(s)) = ReadOrder(s, k) \o c
<1> DEFINE n == Len(s) - k
           From == {i \in 0..n : \E c \in Seq(T) : ReadOrder(s, k + i) = ReadOrder(s, k) \o c}
<1>0. Len(s) \in Nat /\ n \in Nat /\ k \in Nat
  BY LenProperties
<1>1. 0 \in From
  <2>1. ReadOrder(s, k) \in Seq(T)
    BY ReadOrderSteps
  <2>2. ReadOrder(s, k + 0) = ReadOrder(s, k) \o <<>> /\ <<>> \in Seq(T)
    BY <1>0, <2>1, ConcatEmptySeq, EmptySeq
  <2>3. 0 \in 0..n
    BY <1>0
  <2>4. \E c \in Seq(T) : ReadOrder(s, k + 0) = ReadOrder(s, k) \o c
    BY <2>2, Zenon
  <2> QED
    BY <2>3, <2>4
<1>2. ASSUME NEW i \in 1..n, i - 1 \in From PROVE i \in From
  <2>1. PICK c \in Seq(T) : ReadOrder(s, k + (i - 1)) = ReadOrder(s, k) \o c
    BY <1>2
  <2>2. k + i \in 1..Len(s) /\ (k + i) - 1 = k + (i - 1)
    BY <1>0
  <2>3. ReadOrder(s, k + i) = ReadOrder(s, k + (i - 1)) \o Tokens(s[k + i])
    <3>1. ReadOrder(s, k + i) = ReadOrder(s, (k + i) - 1) \o Tokens(s[k + i])
      BY <2>2, ReadOrderSteps, Zenon
    <3> QED
      BY <2>2, <3>1
  <2>4. Tokens(s[k + i]) \in Seq(T) /\ ReadOrder(s, k) \in Seq(T)
    BY <2>2, ElementOfSeq, TokensOfEntry, ReadOrderSteps
  <2>5. /\ ReadOrder(s, k + i) = ReadOrder(s, k) \o (c \o Tokens(s[k + i]))
        /\ c \o Tokens(s[k + i]) \in Seq(T)
    <3> DEFINE p == ReadOrder(s, k + (i - 1))
               x == ReadOrder(s, k)
               y == Tokens(s[k + i])
    <3>1. /\ p = x \o c
          /\ x \in Seq(T) /\ y \in Seq(T)
          /\ ReadOrder(s, k + i) = p \o y
      BY <2>1, <2>3, <2>4
    <3> HIDE DEF p, x, y
    <3>2. p \o y = x \o (c \o y) /\ c \o y \in Seq(T)
      BY <3>1, SMTT(30)
    <3> QED
      BY <3>1, <3>2 DEF x, y
  <2>6. i \in 0..n
    OBVIOUS
  <2>7. \E d \in Seq(T) : ReadOrder(s, k + i) = ReadOrder(s, k) \o d
    BY <2>5, Zenon
  <2> QED
    BY <2>6, <2>7
<1>3. n \in From
  <2> HIDE DEF From, n
  <2>1. \A i \in 0..n : i \in From
    BY <1>0, <1>1, <1>2, IndexInduction, Zenon
  <2> QED
    BY <1>0, <2>1
<1>4. k + n = Len(s)
  BY <1>0
<1> QED
  BY <1>3, <1>4

\* Entries that hold nothing add nothing.
LEMMA EmptyAbove ==
  ASSUME NEW T, NEW s \in Seq(Entry(T)), NEW k \in 0..Len(s),
         \A i \in 1..k : Size(s[i]) = 0
  PROVE  ReadOrder(s, k) = <<>>
<1> DEFINE Blank == {i \in 0..k : ReadOrder(s, i) = <<>>}
<1>0. Len(s) \in Nat /\ k \in Nat
  BY LenProperties
<1>1. 0 \in Blank
  <2>1. ReadOrder(s, 0) = <<>>
    BY ReadOrderSteps, Zenon
  <2> QED
    BY <1>0, <2>1
<1>2. ASSUME NEW i \in 1..k, i - 1 \in Blank PROVE i \in Blank
  <2>1. i \in 1..Len(s)
    BY <1>0
  <2>2. s[i] \in Entry(T)
    BY <2>1, ElementOfSeq
  <2>3. Tokens(s[i]) \in Seq(T) /\ Len(Tokens(s[i])) = 0
    BY <2>2, TokensOfEntry
  <2>4. Tokens(s[i]) = <<>>
    BY <2>3, EmptySeq
  <2>5. ReadOrder(s, i) = <<>> \o <<>>
    BY <1>2, <2>1, <2>4, ReadOrderSteps
  <2> QED
    BY <2>5
<1>3. k \in Blank
  <2> HIDE DEF Blank
  <2>1. \A i \in 0..k : i \in Blank
    BY <1>0, <1>1, <1>2, IndexInduction, Zenon
  <2> QED
    BY <1>0, <2>1
<1> QED
  BY <1>3

-----------------------------------------------------------------------------
(* What the operations do to the reading order. *)

\* Reading a file to its end, or lexing ahead, moves tokens and loses none.
LEMMA TokensKept ==
  ASSUME NEW T, NEW e \in Entry(T)
  PROVE  /\ Tokens(Drained(e)) = Tokens(e)
         /\ \A n \in Nat : n <= Size(e) => Tokens(Filled(e, n)) = Tokens(e)
<1>1. /\ Tokens(e) \in Seq(T)
      /\ Len(Tokens(e)) = Size(e)
      /\ Size(e) \in Nat
  BY TokensOfEntry
<1>2. Tokens(Drained(e)) = Tokens(e)
  <2>1. Drained(e).list = Tokens(e) /\ Drained(e).rest = <<>>
    BY DEF Drained, Entry
  <2>2. Tokens(Drained(e)) = Tokens(e) \o <<>>
    BY <2>1, Zenon DEF Tokens
  <2> QED
    BY <1>1, <2>2, ConcatEmptySeq
<1>3. ASSUME NEW n \in Nat, n <= Size(e) PROVE Tokens(Filled(e, n)) = Tokens(e)
  <2>1. CASE Len(e.list) >= n
    BY <2>1 DEF Filled
  <2>2. CASE ~(Len(e.list) >= n)
    <3> DEFINE u == SubSeq(Tokens(e), 1, n)
               v == SubSeq(Tokens(e), n + 1, Size(e))
    <3>1. Filled(e, n).list = u /\ Filled(e, n).rest = v
      BY <2>2 DEF Filled, Entry
    <3>2. Tokens(Filled(e, n)) = u \o v
      BY <3>1, Zenon DEF Tokens
    <3>3. /\ 1 \in 1..(Len(Tokens(e)) + 1)
          /\ n \in (1 - 1)..Len(Tokens(e))
          /\ Size(e) \in n..Len(Tokens(e))
      BY <1>1, <1>3
    <3>4. u \o v = SubSeq(Tokens(e), 1, Size(e))
      BY <1>1, <3>3, ConcatAdjacentSubSeq, Zenon
    <3>5. SubSeq(Tokens(e), 1, Size(e)) = Tokens(e)
      BY <1>1, SubSeqFull
    <3> QED
      BY <3>2, <3>4, <3>5
  <2> QED
    BY <2>1, <2>2
<1> QED
  BY <1>2, <1>3

\* The same for a stack that is peeked.
LEMMA PeekedTokens ==
  ASSUME NEW T, NEW s \in Seq(Entry(T)), NEW count \in Nat
  PROVE  \A i \in 1..Len(s) :
           /\ Tokens(Peeked(s, count)[i]) = Tokens(s[i])
           /\ Peeked(s, count)[i].lexer = s[i].lexer
           /\ s[i].rest = <<>> => Peeked(s, count)[i].rest = <<>>
<1> SUFFICES ASSUME NEW i \in 1..Len(s)
             PROVE  /\ Tokens(Peeked(s, count)[i]) = Tokens(s[i])
                    /\ Peeked(s, count)[i].lexer = s[i].lexer
                    /\ s[i].rest = <<>> => Peeked(s, count)[i].rest = <<>>
  OBVIOUS
<1> DEFINE S == PeekStops(s, count)
           p == Peeked(s, count)
<1>1. DOMAIN s = 1..Len(s)
  BY LenProperties
<1>2. s[i] \in Entry(T)
  BY ElementOfSeq
<1>3. p[i] = IF \E k \in S : k < i THEN s[i]
             ELSE IF i \in S THEN Filled(s[i], count + 1)
             ELSE Drained(s[i])
  BY <1>1 DEF Peeked
<1>4. i \in S => count + 1 <= Size(s[i])
  BY StopsAreIndices
<1>5. /\ Tokens(Drained(s[i])) = Tokens(s[i])
      /\ count + 1 <= Size(s[i]) => Tokens(Filled(s[i], count + 1)) = Tokens(s[i])
  BY <1>2, TokensKept, count + 1 \in Nat
<1>6. Drained(s[i]).lexer = s[i].lexer /\ Filled(s[i], count + 1).lexer = s[i].lexer
  BY <1>2 DEF Drained, Filled, Entry
<1>7. /\ Drained(s[i]).rest = <<>>
      /\ count + 1 <= Size(s[i]) /\ s[i].rest = <<>> => Filled(s[i], count + 1) = s[i]
  <2>1. Drained(s[i]).rest = <<>>
    BY <1>2, DrainedEntry
  <2>2. ASSUME count + 1 <= Size(s[i]), s[i].rest = <<>>
        PROVE  Len(s[i].list) >= count + 1
    <3>1. s[i].list \in Seq(T)
      BY <1>2 DEF Entry
    <3>2. Size(s[i]) = Len(s[i].list) + 0
      BY <2>2, EmptySeq, Zenon DEF Size
    <3> QED
      BY <2>2, <3>1, <3>2, LenProperties
  <2> QED
    BY <2>1, <2>2 DEF Filled
<1> HIDE DEF S, p
<1>8. /\ Tokens(p[i]) = Tokens(s[i]) /\ p[i].lexer = s[i].lexer
      /\ s[i].rest = <<>> => p[i].rest = <<>>
  BY <1>3, <1>4, <1>5, <1>6, <1>7
<1> QED
  BY <1>8 DEF p

\* Peeking changes nothing in what is still to be read.
LEMMA PeekedOrder ==
  ASSUME NEW T, NEW s \in Seq(Entry(T)), NEW count \in Nat
  PROVE  ReadOrder(Peeked(s, count), Len(Peeked(s, count))) = ReadOrder(s, Len(s))
<1> DEFINE p == Peeked(s, count)
<1>0. 0 \in 0..Len(s) /\ Len(s) \in 0..Len(s)
  BY LenProperties
<1>1. p \in Seq(Entry(T)) /\ Len(p) = Len(s)
  BY PeekedStack
<1>2. \A i \in 1..Len(s) : Tokens(p[i]) = Tokens(s[i])
  BY PeekedTokens
<1> HIDE DEF p
<1>3. ReadOrder(p, 0) = <<>> /\ ReadOrder(s, 0) = <<>>
  BY <1>1, ReadOrderSteps, Zenon
<1>4. <<>> \in Seq(T) /\ ReadOrder(p, 0) = <<>> \o ReadOrder(s, 0)
  BY <1>3, EmptySeq
<1>5. /\ 0 \in 0..Len(p)
      /\ Len(p) - 0 = Len(s) - 0
      /\ \A i \in 1..(Len(p) - 0) : Tokens(p[0 + i]) = Tokens(s[0 + i])
  BY <1>0, <1>1, <1>2
<1>6. ReadOrder(p, Len(p)) = <<>> \o ReadOrder(s, Len(s))
  <2> DEFINE none == <<>>
             zero == 0
  <2>1. /\ none \in Seq(T) /\ zero \in 0..Len(p) /\ zero \in 0..Len(s)
        /\ ReadsAhead(p, zero, none, s, zero)
        /\ Len(p) - zero = Len(s) - zero
        /\ \A i \in 1..(Len(p) - zero) : Tokens(p[zero + i]) = Tokens(s[zero + i])
    BY <1>0, <1>4, <1>5 DEF ReadsAhead
  <2> HIDE DEF none, zero
  <2>2. ReadsAhead(p, Len(p), none, s, Len(s))
    BY <1>1, <2>1, SameBelow, Zenon
  <2> QED
    BY <2>2 DEF none, ReadsAhead
<1>7. ReadOrder(s, Len(s)) \in Seq(T)
  BY <1>0, ReadOrderSteps
<1>8. ReadOrder(p, Len(p)) = ReadOrder(s, Len(s))
  BY <1>6, <1>7, ConcatEmptySeq
<1> QED
  BY <1>8 DEF p

\* A peek shows the first token of what is to be read, or the end.
LEMMA PeekShowsFirst ==
  ASSUME NEW T, NEW s \in Seq(Entry(T)), NEW eof, ListsAtBottom(s),
         NEW f, f = ReadOrder(s, Len(s))
  PROVE  PeekForward(s, 0, eof) = IF 1 \in DOMAIN f THEN f[1] ELSE eof
<1> DEFINE S == PeekStops(s, 0)
           k == LeastOf(S)
<1>0. /\ Len(s) \in Nat /\ DOMAIN s = 1..Len(s) /\ Len(s) \in 0..Len(s)
      /\ \A i \in 1..Len(s) : s[i] \in Entry(T) /\ Size(s[i]) \in Nat
  BY LenProperties, ElementOfSeq, TokensOfEntry
<1>1. f \in Seq(T)
  BY <1>0, ReadOrderSteps
<1>2. ASSUME NEW i \in 1..Len(s), Size(s[i]) # 0 PROVE i \in S
  <2>1. \A j \in 1..(i - 1) : s[j].lexer
    BY <1>0 DEF ListsAtBottom
  <2> QED
    BY <1>0, <1>2, <2>1 DEF PeekStops, Stops
<1>3. CASE S = {}
  <2>1. \A i \in 1..Len(s) : Size(s[i]) = 0
    BY <1>2, <1>3
  <2>2. f = <<>>
    BY <1>0, <2>1, EmptyAbove
  <2>3. PeekForward(s, 0, eof) = eof
    BY <1>3 DEF PeekForward
  <2>4. 1 \notin DOMAIN f
    BY <2>2
  <2> QED
    BY <2>3, <2>4
<1>4. CASE S # {}
  <2>1. /\ k \in S /\ k \in 1..Len(s)
        /\ ~(\E j \in S : j < k)
    BY <1>0, <1>4, StopsAreIndices, FirstIndex
  <2>2. s[k] \in Entry(T) /\ 0 + 1 <= Size(s[k])
    BY <2>1, StopsAreIndices
  <2>3. PeekForward(s, 0, eof) = Tokens(s[k])[0 + 1]
    BY <1>4 DEF PeekForward
  <2> HIDE DEF S, k
  <2>4. \A i \in 1..(k - 1) : Size(s[i]) = 0
    <3> SUFFICES ASSUME NEW i \in 1..(k - 1), Size(s[i]) # 0 PROVE FALSE
      OBVIOUS
    <3>1. i \in 1..Len(s) /\ i < k
      BY <1>0, <2>1
    <3> QED
      BY <1>2, <2>1, <3>1
  <2>5. k - 1 \in 0..Len(s) /\ k \in 0..Len(s)
    BY <1>0, <2>1
  <2>6. ReadOrder(s, k - 1) = <<>>
    BY <2>4, <2>5, EmptyAbove
  <2>7. ReadOrder(s, k) = <<>> \o Tokens(s[k])
    BY <2>1, <2>6, ReadOrderSteps
  <2>8. /\ Tokens(s[k]) \in Seq(T)
        /\ Len(Tokens(s[k])) \in Nat /\ Len(Tokens(s[k])) >= 1
    BY <2>2, TokensOfEntry
  <2>9. PICK c \in Seq(T) : f = Tokens(s[k]) \o c
    <3>1. ReadOrder(s, k) = Tokens(s[k])
      BY <2>7, <2>8, ConcatEmptySeq
    <3> QED
      BY <2>5, <3>1, ReadOrderExtends
  <2>10. 1 \in DOMAIN f /\ f[1] = Tokens(s[k])[1]
    BY <2>8, <2>9
  <2> QED
    BY <2>3, <2>10
<1> QED
  BY <1>3, <1>4

\* A lookahead by one shows a token behind the first one, or the end.
LEMMA LookPastShowsLater ==
  ASSUME NEW T, NEW s \in Seq(Entry(T)), NEW eof,
         NEW f, f = ReadOrder(s, Len(s))
  PROVE  \E n \in 2..(Len(f) + 2) :
           PeekForward(s, 1, eof) = IF n \in DOMAIN f THEN f[n] ELSE eof
<1> DEFINE S == PeekStops(s, 1)
           k == LeastOf(S)
<1>0. /\ Len(s) \in Nat /\ Len(s) \in 0..Len(s)
      /\ \A i \in 1..Len(s) : s[i] \in Entry(T) /\ Size(s[i]) \in Nat
  BY LenProperties, ElementOfSeq, TokensOfEntry
<1>1. f \in Seq(T) /\ Len(f) \in Nat /\ DOMAIN f = 1..Len(f)
  <2>1. f \in Seq(T)
    BY <1>0, ReadOrderSteps
  <2> QED
    BY <2>1, LenProperties
<1>2. CASE S = {}
  <2>1. PeekForward(s, 1, eof) = eof
    BY <1>2 DEF PeekForward
  <2>2. Len(f) + 2 \in 2..(Len(f) + 2) /\ Len(f) + 2 \notin DOMAIN f
    BY <1>1
  <2> QED
    BY <2>1, <2>2
<1>3. CASE S # {}
  <2>1. k \in S /\ k \in 1..Len(s)
    BY <1>0, <1>3, StopsAreIndices, FirstIndex, 1 \in Nat
  <2>2. s[k] \in Entry(T) /\ 1 + 1 <= Size(s[k])
    BY <2>1, StopsAreIndices, 1 \in Nat
  <2>3. PeekForward(s, 1, eof) = Tokens(s[k])[1 + 1]
    BY <1>3 DEF PeekForward
  <2> HIDE DEF S, k
  <2> DEFINE u == ReadOrder(s, k - 1)
             v == Tokens(s[k])
             n == Len(u) + 2
  <2>4. u \in Seq(T) /\ k \in 0..Len(s)
    <3>1. k - 1 \in 0..Len(s) /\ k \in 0..Len(s)
      BY <1>0, <2>1
    <3> QED
      BY <3>1, ReadOrderSteps
  <2>5. ReadOrder(s, k) = u \o v
    BY <2>1, ReadOrderSteps
  <2>6. v \in Seq(T) /\ Len(v) \in Nat /\ Len(v) >= 2
    BY <2>2, TokensOfEntry
  <2>7. PICK c \in Seq(T) : f = ReadOrder(s, k) \o c
    BY <2>4, ReadOrderExtends
  <2> HIDE DEF u, v
  <2>8. /\ u \o v \in Seq(T)
        /\ Len(u \o v) = Len(u) + Len(v)
        /\ (u \o v)[n] = v[2]
        /\ Len(u) \in Nat
    BY <2>4, <2>6
  <2>9. /\ Len(f) = Len(u) + Len(v) + Len(c) /\ Len(c) \in Nat
        /\ f[n] = v[2]
    <3>1. f = (u \o v) \o c
      BY <2>5, <2>7
    <3>2. n \in 1..Len(u \o v)
      BY <2>6, <2>8
    <3> QED
      BY <2>6, <2>8, <3>1, <3>2
  <2>10. n \in 2..(Len(f) + 2) /\ n \in DOMAIN f
    BY <1>1, <2>6, <2>8, <2>9
  <2>11. PeekForward(s, 1, eof) = v[2]
    BY <2>3 DEF v
  <2> QED
    BY <2>9, <2>10, <2>11
<1> QED
  BY <1>2, <1>3

\* What the first entry holds is read first.
LEMMA FirstRead ==
  ASSUME NEW T, NEW s \in Seq(Entry(T)), 1 \in 1..Len(s)
  PROVE  ReadOrder(s, 1) = Tokens(s[1])
<1>1. ReadOrder(s, 0) = <<>> /\ ReadOrder(s, 1) = ReadOrder(s, 1 - 1) \o Tokens(s[1])
  BY ReadOrderSteps
<1>2. ReadOrder(s, 1) = <<>> \o Tokens(s[1])
  <2>1. 1 - 1 = 0
    OBVIOUS
  <2> QED
    BY <1>1, <2>1, Zenon
<1>3. Tokens(s[1]) \in Seq(T)
  BY ElementOfSeq, TokensOfEntry
<1> QED
  BY <1>2, <1>3, ConcatEmptySeq

\* Eating what was peeked removes the first token of what is to be read, and
\* nothing else.
LEMMA EatenOrder ==
  ASSUME NEW T, NEW s \in Seq(Entry(T)), NEW n \in Nat, n > 0,
         \A i \in 1..Len(s) : s[i].rest # <<>> =>
            \E j \in 1..i : Len(s[j].list) >= n,
         NEW f, f = ReadOrder(s, Len(s))
  PROVE  ReadOrder(Eat(s), Len(Eat(s))) = IF f = <<>> THEN <<>> ELSE Tail(f)
<1> DEFINE L == Unlisted(s)
           k == LeastOf(L)
<1>0. DOMAIN s = 1..Len(s) /\ Len(s) \in Nat /\ Len(s) \in 0..Len(s)
  BY LenProperties
<1>1. L = {i \in 1..Len(s) : s[i].list # <<>>}
  BY <1>0 DEF Unlisted
<1>2. /\ Eat(s) \in Seq(Entry(T))
      /\ \A i \in 1..(Len(s) - Len(Eat(s))) : Size(s[i]) = 0
  BY EatenStack
<1>3. CASE L = {}
  <2>1. Eat(s) = <<>>
    BY <1>3 DEF Eat
  <2>2. \A i \in 1..Len(s) : Size(s[i]) = 0
    BY <1>0, <1>2, <2>1, EmptySeq
  <2>3. f = <<>>
    BY <1>0, <2>2, EmptyAbove
  <2>4. ReadOrder(Eat(s), 0) = <<>>
    BY <1>2, ReadOrderSteps
  <2>5. Len(Eat(s)) = 0
    BY <2>1, EmptySeq
  <2> QED
    BY <2>3, <2>4, <2>5
<1>4. CASE L # {}
  <2>1. k \in L /\ k \in 1..Len(s)
    BY <1>0, <1>1, <1>4, FirstIndex
  <2>2. /\ s[k].list # <<>> /\ s[k] \in Entry(T)
        /\ s[k].list \in Seq(T) /\ s[k].rest \in Seq(T)
    <3>1. s[k].list # <<>> /\ s[k] \in Entry(T)
      BY <1>1, <2>1, ElementOfSeq
    <3> QED
      BY <3>1 DEF Entry
  <2> DEFINE m == Len(s) - k + 1
             top == [s[k] EXCEPT !.list = Tail(@)]
             r == [i \in 1..m |-> IF i = 1 THEN top ELSE s[i + k - 1]]
             h == <<Head(s[k].list)>>
  <2>3. Eat(s) = r
    BY <1>4 DEF Eat
  <2>4. top.list = Tail(s[k].list) /\ top.rest = s[k].rest
    BY <2>2 DEF Entry
  <2>5. /\ h \in Seq(T)
        /\ Tail(s[k].list) \in Seq(T)
        /\ s[k].list = h \o Tail(s[k].list)
    BY <2>2
  <2>6. Tokens(s[k]) = h \o Tokens(top)
    <3> DEFINE x == Tail(s[k].list)
               y == s[k].rest
    <3>1. Tokens(s[k]) = s[k].list \o y /\ Tokens(top) = x \o y
      BY <2>4, Zenon DEF Tokens
    <3>2. h \in Seq(T) /\ x \in Seq(T) /\ y \in Seq(T) /\ s[k].list = h \o x
      BY <2>2, <2>5
    <3> HIDE DEF h, x, y, top
    <3> QED
      BY <3>1, <3>2
  <2>7. m \in Nat /\ m >= 1 /\ Len(s) - m = k - 1 /\ Len(s) - k = m - 1
    BY <1>0, <2>1
  <2>8. Len(r) = m
    BY <2>7
  <2>9. /\ 1 \in 1..Len(r) /\ 1 \in 0..Len(r) /\ Len(r) \in 0..Len(r)
        /\ r[1] = top
    BY <2>7, <2>8
  <2>10. \A i \in 1..(Len(s) - k) : r[1 + i] = s[k + i]
    <3> SUFFICES ASSUME NEW i \in 1..(Len(s) - k) PROVE r[1 + i] = s[k + i]
      OBVIOUS
    <3>1. 1 + i \in 1..m /\ 1 + i # 1 /\ (1 + i) + k - 1 = k + i
      BY <2>1, <2>7
    <3> QED
      BY <3>1
  <2> HIDE DEF L, k, m, top, r, h
  <2>11. r \in Seq(Entry(T)) /\ \A i \in 1..(k - 1) : Size(s[i]) = 0
    BY <1>2, <2>3, <2>7, <2>8
  <2>12. k - 1 \in 0..Len(s) /\ k \in 0..Len(s)
    BY <1>0, <2>1
  <2>13. ReadOrder(s, k) = Tokens(s[k])
    <3>1. ReadOrder(s, k - 1) = <<>>
      BY <2>11, <2>12, EmptyAbove
    <3>2. ReadOrder(s, k) = <<>> \o Tokens(s[k])
      BY <2>1, <3>1, ReadOrderSteps
    <3> QED
      BY <2>2, <3>2, TokensOfEntry, ConcatEmptySeq
  <2>14. ReadOrder(r, 1) = Tokens(top)
    BY <2>9, <2>11, FirstRead
  <2>15. ReadsAhead(s, Len(s), h, r, Len(r))
    <3> DEFINE one == 1
    <3>1. ReadsAhead(s, k, h, r, one) /\ one \in 0..Len(r)
      BY <2>6, <2>9, <2>13, <2>14 DEF ReadsAhead
    <3>2. /\ Len(s) - k = Len(r) - one
          /\ \A i \in 1..(Len(s) - k) : Tokens(s[k + i]) = Tokens(r[one + i])
      BY <2>7, <2>8, <2>10
    <3> HIDE DEF one
    <3> QED
      BY <2>5, <2>11, <2>12, <3>1, <3>2, SameBelow, Zenon
  <2>16. f = h \o ReadOrder(r, Len(r)) /\ ReadOrder(r, Len(r)) \in Seq(T)
    BY <2>9, <2>11, <2>15, ReadOrderSteps DEF ReadsAhead
  <2>17. f # <<>> /\ Tail(f) = ReadOrder(r, Len(r))
    BY <2>16 DEF h
  <2> QED
    BY <2>3, <2>17
<1> QED
  BY <1>3, <1>4

\* An entry put on top of a stack is read before it.
LEMMA OnTop ==
  ASSUME NEW T, NEW s \in Seq(Entry(T)), NEW e \in Entry(T)
  PROVE  ReadOrder(<<e>> \o s, Len(<<e>> \o s)) = Tokens(e) \o ReadOrder(s, Len(s))
<1> DEFINE r == <<e>> \o s
           c == Tokens(e)
           zero == 0
           one == 1
<1>1. Len(s) \in Nat /\ zero \in 0..Len(s)
  BY LenProperties
<1>2. /\ r \in Seq(Entry(T)) /\ Len(r) = Len(s) + 1 /\ r[1] = e
      /\ \A i \in 1..Len(s) : r[1 + i] = s[0 + i]
  <2> HIDE DEF Entry
  <2> QED
    BY <1>1
<1>3. /\ one \in 0..Len(r) /\ 1 \in 1..Len(r)
      /\ Len(r) - one = Len(s) - zero
      /\ \A i \in 1..(Len(r) - one) : Tokens(r[one + i]) = Tokens(s[zero + i])
  BY <1>1, <1>2
<1>4. c \in Seq(T)
  BY TokensOfEntry
<1> HIDE DEF r, c
<1>5. ReadOrder(r, 1) = c
  BY <1>2, <1>3, FirstRead DEF c
<1>6. ReadOrder(s, 0) = <<>>
  BY ReadOrderSteps
<1>7. ReadsAhead(r, one, c, s, zero)
  BY <1>4, <1>5, <1>6, ConcatEmptySeq DEF ReadsAhead
<1> HIDE DEF zero, one
<1>8. ReadsAhead(r, Len(r), c, s, Len(s))
  BY <1>1, <1>2, <1>3, <1>4, <1>7, SameBelow, Zenon
<1> QED
  BY <1>8 DEF ReadsAhead, r, c

\* Including a file, or inserting an expansion, puts its tokens in front of
\* what is to be read.
LEMMA PastedOrder ==
  ASSUME NEW T, NEW s \in Seq(Entry(T)), NEW c \in Seq(T)
  PROVE  /\ ReadOrder(IncludeFile(s, c), Len(IncludeFile(s, c)))
              = c \o ReadOrder(s, Len(s))
         /\ ReadOrder(InsertTokList(s, c), Len(InsertTokList(s, c)))
              = c \o ReadOrder(s, Len(s))
<1>1. /\ FileEntry(c) \in Entry(T) /\ ListEntry(c) \in Entry(T)
      /\ Tokens(FileEntry(c)) = c /\ Tokens(ListEntry(c)) = c
  <2>1. <<>> \in Seq(T) /\ c \o <<>> = c /\ <<>> \o c = c
    BY EmptySeq, ConcatEmptySeq
  <2> QED
    BY <2>1 DEF Tokens, FileEntry, ListEntry, Entry
<1>2. ReadOrder(IncludeFile(s, c), Len(IncludeFile(s, c))) = c \o ReadOrder(s, Len(s))
  <2>1. IncludeFile(s, c) = <<FileEntry(c)>> \o s
    BY DEF IncludeFile
  <2> HIDE DEF FileEntry
  <2> QED
    BY <1>1, <2>1, OnTop, Zenon
<1>3. CASE s = <<>>
  <2>1. <<ListEntry(c)>> = <<ListEntry(c)>> \o s
    BY <1>1, <1>3
  <2>2. InsertTokList(s, c) = <<ListEntry(c)>> \o s
    BY <1>3, <2>1 DEF InsertTokList
  <2> QED
    BY <1>1, <1>2, <2>2, OnTop, Zenon
<1>4. CASE s # <<>>
  <2> DEFINE r == InsertTokList(s, c)
             e == [s[1] EXCEPT !.list = c \o @]
             one == 1
  <2>1. Len(s) \in Nat /\ Len(s) >= 1 /\ 1 \in 1..Len(s) /\ one \in 0..Len(s)
    BY <1>4, EmptySeq
  <2>2. s[1] \in Entry(T)
    BY <2>1, ElementOfSeq
  <2>3. Tokens(e) = c \o Tokens(s[1])
    <3> DEFINE x == s[1].list
               y == s[1].rest
    <3>1. x \in Seq(T) /\ y \in Seq(T)
      BY <2>2 DEF Entry
    <3>2. e.list = c \o x /\ e.rest = y
      BY <2>2 DEF Entry
    <3>3. Tokens(e) = (c \o x) \o y /\ Tokens(s[1]) = x \o y
      BY <3>2, Zenon DEF Tokens
    <3> HIDE DEF x, y, e
    <3> QED
      BY <3>1, <3>3
  <2>4. r = [s EXCEPT ![1] = e]
    BY <1>4 DEF InsertTokList
  <2>5. r \in Seq(Entry(T))
    BY PastedStack
  <2>6. Len(r) = Len(s) /\ r[1] = e /\ \A i \in 1..Len(s) : i # 1 => r[i] = s[i]
    <3> HIDE DEF e, r
    <3> QED
      BY <2>1, <2>4
  <2> HIDE DEF r, e
  <2>7. ReadOrder(r, 1) = Tokens(e) /\ ReadOrder(s, 1) = Tokens(s[1])
    BY <2>1, <2>5, <2>6, FirstRead
  <2>8. /\ ReadsAhead(r, one, c, s, one)
        /\ one \in 0..Len(r)
        /\ Len(r) - one = Len(s) - one
        /\ \A i \in 1..(Len(r) - one) : Tokens(r[one + i]) = Tokens(s[one + i])
    BY <2>1, <2>3, <2>6, <2>7 DEF ReadsAhead
  <2> HIDE DEF one
  <2>9. ReadsAhead(r, Len(r), c, s, Len(s))
    BY <2>1, <2>5, <2>8, SameBelow, Zenon
  <2> QED
    BY <1>2, <2>9 DEF ReadsAhead, r
<1> QED
  BY <1>2, <1>3, <1>4

\* Within a file a lookahead by one shows the very next token.
LEMMA LookPastInFile ==
  ASSUME NEW T, NEW s \in Seq(Entry(T)), NEW eof, ListsAtBottom(s),
         NEW i \in 1..Len(s), Size(s[i]) >= 2,
         \A j \in 1..(i - 1) : Size(s[j]) = 0
  PROVE  PeekForward(s, 1, eof) = Tokens(s[i])[2]
<1> DEFINE S == PeekStops(s, 1)
           k == LeastOf(S)
<1>0. Len(s) \in Nat /\ DOMAIN s = 1..Len(s)
  BY LenProperties
<1>1. i \in S
  <2>1. \A j \in 1..(i - 1) : s[j].lexer
    BY <1>0 DEF ListsAtBottom
  <2>2. Size(s[i]) > 1
    BY ElementOfSeq, TokensOfEntry
  <2> QED
    BY <1>0, <2>1, <2>2 DEF PeekStops, Stops
<1>2. k \in S /\ k \in 1..Len(s) /\ k <= i
  BY <1>0, <1>1, StopsAreIndices, FirstIndex, 1 \in Nat
<1>3. 1 + 1 <= Size(s[k])
  BY <1>2, StopsAreIndices, 1 \in Nat
<1>4. PeekForward(s, 1, eof) = Tokens(s[k])[1 + 1]
  BY <1>1 DEF PeekForward
<1> HIDE DEF S, k
<1>5. k = i
  <2> SUFFICES ASSUME k # i PROVE FALSE
    OBVIOUS
  <2>1. k \in 1..(i - 1)
    BY <1>2
  <2>2. Size(s[k]) = 0
    BY <2>1
  <2> QED
    BY <1>3, <2>2
<1> QED
  BY <1>4, <1>5

=============================================================================
