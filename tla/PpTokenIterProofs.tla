-------------------------- MODULE PpTokenIterProofs --------------------------
(***************************************************************************)
(* Proofs about the token iterator, for any tokens and sources, any number *)
(* of open files and tokens, and any number of includes and insertions:    *)
(*   IterTypeOK            the type invariant,                             *)
(*   IterLexedAhead        peeked tokens sit in lists above unread lexers, *)
(*   IterNothingDropped    no entry is popped with tokens unread,          *)
(*   IterBareListLast      a list without a file lies at the bottom,       *)
(*   IterLookPastIsNext    what a lookahead shows within a file,           *)
(*   IterImplementsStream  the refinement of TokenStream, step by step.    *)
(***************************************************************************)
EXTENDS PpTokenIter, PpTokenIterOpsProofs

\* The type invariant holds of every iterator.
THEOREM IterTypeOK == Spec => []TypeOK
<1> USE SourcesAssumption
<1>1. Init => TypeOK
  <2> SUFFICES ASSUME Init PROVE TypeOK
    OBVIOUS
  <2>1. stack \in Seq(Entry(Token))
    <3>1. <<>> \in Seq(Entry(Token))
      BY EmptySeq
    <3> QED
      BY <3>1, PastedStack DEF Init
  <2> QED
    BY <2>1 DEF Init, TypeOK
<1>2. TypeOK /\ [Next]_vars => TypeOK'
  <2> SUFFICES ASSUME TypeOK, [Next]_vars PROVE TypeOK'
    OBVIOUS
  <2>1. CASE Peek
    <3>1. stack' \in Seq(Entry(Token))
      BY <2>1, PeekedStack, 0 \in Nat DEF TypeOK, Peek
    <3>2. tok' \in Token \cup {Eof}
      BY <2>1, PeekForwardType, 0 \in Nat DEF TypeOK, Peek
    <3> QED
      BY <2>1, <3>1, <3>2 DEF TypeOK, Peek
  <2>2. CASE LookPast
    <3>1. stack' \in Seq(Entry(Token))
      BY <2>2, PeekedStack, 1 \in Nat DEF TypeOK, LookPast
    <3>2. tok' \in Token \cup {Eof}
      BY <2>2, PeekForwardType, 1 \in Nat DEF TypeOK, LookPast
    <3> QED
      BY <2>2, <3>1, <3>2 DEF TypeOK, LookPast
  <2>3. CASE EatToken
    <3>1. stack' \in Seq(Entry(Token))
      BY <2>3, EatType DEF TypeOK, EatToken
    <3> QED
      BY <2>3, <3>1 DEF TypeOK, EatToken
  <2>4. CASE Include
    <3>1. stack' \in Seq(Entry(Token))
      BY <2>4, PastedStack DEF TypeOK, Include
    <3> QED
      BY <2>4, <3>1 DEF TypeOK, Include
  <2>5. CASE Insert
    <3>1. stack' \in Seq(Entry(Token))
      BY <2>5, PastedStack DEF TypeOK, Insert
    <3> QED
      BY <2>5, <3>1 DEF TypeOK, Insert
  <2>6. CASE UNCHANGED vars
    BY <2>6 DEF TypeOK, vars
  <2> QED
    BY <2>1, <2>2, <2>3, <2>4, <2>5, <2>6 DEF Next
<1> QED
  BY <1>1, <1>2, PTL DEF Spec

\* LexedAhead in the form the lemmas about stacks use.
LEMMA LexedAheadOfStack ==
  ASSUME TypeOK
  PROVE  LexedAhead <=>
           (ready > 0 => \A i \in 1..Len(stack) : stack[i].rest # <<>> =>
                           \E j \in 1..i : Len(stack[j].list) >= ready)
<1>1. DOMAIN stack = 1..Len(stack)
  BY LenProperties DEF TypeOK
<1> QED
  BY <1>1 DEF LexedAhead

\* One step from a typed state keeps LexedAhead.
LEMMA LexedAheadStep ==
  ASSUME TypeOK, TypeOK', LexedAhead, [Next]_vars
  PROVE  LexedAhead'
<1>1. CASE Peek
  <2>1. /\ stack' = Peeked(stack, 0) /\ ready' = 1 /\ 0 + 1 = 1
        /\ Len(stack') = Len(stack)
        /\ \A i \in 1..Len(stack) : stack'[i].rest # <<>> =>
             \E j \in 1..i : Len(stack'[j].list) >= 0 + 1
    BY <1>1, PeekedStack, 0 \in Nat DEF TypeOK, Peek
  <2> QED
    BY <2>1, LenProperties DEF LexedAhead, TypeOK
<1>2. CASE LookPast
  <2>1. /\ stack' = Peeked(stack, 1) /\ ready' = 2 /\ 1 + 1 = 2
        /\ Len(stack') = Len(stack)
        /\ \A i \in 1..Len(stack) : stack'[i].rest # <<>> =>
             \E j \in 1..i : Len(stack'[j].list) >= 1 + 1
    BY <1>2, PeekedStack, 1 \in Nat DEF TypeOK, LookPast
  <2> QED
    BY <2>1, LenProperties DEF LexedAhead, TypeOK
<1>3. CASE EatToken
  <2>1. /\ ready \in Nat /\ ready > 0 /\ ready' = ready - 1
        /\ stack' = Eat(stack) /\ stack \in Seq(Entry(Token))
    BY <1>3 DEF EatToken, TypeOK
  <2>2. \A i \in 1..Len(stack) : stack[i].rest # <<>> =>
          \E j \in 1..i : Len(stack[j].list) >= ready
    BY <2>1, LexedAheadOfStack
  <2>3. ready - 1 > 0 => \A i \in 1..Len(stack') : stack'[i].rest # <<>> =>
          \E j \in 1..i : Len(stack'[j].list) >= ready - 1
    BY <2>1, <2>2, EatenStack
  <2> QED
    BY <2>1, <2>3, LenProperties DEF LexedAhead, TypeOK
<1>4. CASE Include \/ Insert
  BY <1>4 DEF Include, Insert, LexedAhead
<1>5. CASE UNCHANGED vars
  BY <1>5 DEF LexedAhead, vars
<1> QED
  BY <1>1, <1>2, <1>3, <1>4, <1>5 DEF Next

\* Peeked tokens sit in lists above the lexers that still have tokens, however
\* many files are open: the inductive invariant behind the next theorem.
THEOREM IterLexedAhead == Spec => []LexedAhead
<1>1. Init => LexedAhead
  BY DEF Init, LexedAhead
<1>2. TypeOK /\ TypeOK' /\ LexedAhead /\ [Next]_vars => LexedAhead'
  BY LexedAheadStep
<1> QED
  BY <1>1, <1>2, IterTypeOK, PTL DEF Spec

\* No entry leaves the stack, and no lexer is freed, with tokens unread, as long
\* as the client peeks before it eats.
THEOREM IterNothingDropped == Spec => NoUnreadTokenDropped
<1> DEFINE Kept == \A i \in 1..(Len(stack) - Len(stack')) : Size(stack[i]) = 0
<1>1. TypeOK /\ LexedAhead /\ [Next]_vars => [Kept]_vars
  <2> SUFFICES ASSUME TypeOK, LexedAhead, Next PROVE Kept
    OBVIOUS
  <2> USE DEF TypeOK
  <2>1. CASE Peek
    <3>1. Len(stack') = Len(stack) /\ Len(stack) \in Nat
      BY <2>1, PeekedStack, LenProperties, 0 \in Nat DEF Peek
    <3> QED
      BY <3>1
  <2>2. CASE LookPast
    <3>1. Len(stack') = Len(stack) /\ Len(stack) \in Nat
      BY <2>2, PeekedStack, LenProperties, 1 \in Nat DEF LookPast
    <3> QED
      BY <3>1
  <2>3. CASE EatToken
    <3>1. /\ ready \in Nat /\ ready > 0
          /\ stack' = Eat(stack) /\ stack \in Seq(Entry(Token))
      BY <2>3 DEF EatToken
    <3>2. \A i \in 1..Len(stack) : stack[i].rest # <<>> =>
            \E j \in 1..i : Len(stack[j].list) >= ready
      BY <3>1, LexedAheadOfStack
    <3> QED
      BY <3>1, <3>2, EatenStack
  <2>4. CASE Include
    <3>1. Len(stack') = Len(stack) + 1 /\ Len(stack) \in Nat
      BY <2>4, SourcesAssumption, PastedStack, LenProperties DEF Include
    <3> QED
      BY <3>1
  <2>5. CASE Insert
    <3>1. Len(stack') >= Len(stack) /\ Len(stack) \in Nat /\ Len(stack') \in Nat
      BY <2>5, SourcesAssumption, PastedStack, LenProperties DEF Insert
    <3> QED
      BY <3>1
  <2> QED
    BY <2>1, <2>2, <2>3, <2>4, <2>5 DEF Next
<1> QED
  BY <1>1, IterTypeOK, IterLexedAhead, PTL DEF Spec, NoUnreadTokenDropped

\* The invariant: a bare list is never above a file.
BareListLast == ListsAtBottom(stack)

\* ListsAtBottom with the indices as the lemmas write them.
LEMMA BottomOfStack ==
  ASSUME NEW T, NEW s \in Seq(Entry(T))
  PROVE  ListsAtBottom(s) <=>
           \A i \in 1..Len(s) : ~s[i].lexer => i = Len(s) /\ s[i].rest = <<>>
<1>1. DOMAIN s = 1..Len(s)
  BY LenProperties
<1> QED
  BY <1>1 DEF ListsAtBottom

\* One step from a typed state keeps the bare list last.
LEMMA BareListLastStep ==
  ASSUME TypeOK, TypeOK', BareListLast, [Next]_vars
  PROVE  BareListLast'
<1> USE SourcesAssumption
<1>0. /\ stack \in Seq(Entry(Token)) /\ stack' \in Seq(Entry(Token))
      /\ Len(stack) \in Nat
      /\ \A i \in 1..Len(stack) : ~stack[i].lexer => i = Len(stack) /\ stack[i].rest = <<>>
  BY LenProperties, BottomOfStack DEF TypeOK, BareListLast
<1>1. SUFFICES ASSUME NEW i \in 1..Len(stack'), ~stack'[i].lexer
               PROVE  i = Len(stack') /\ stack'[i].rest = <<>>
  BY <1>0, BottomOfStack DEF BareListLast
<1>2. ASSUME NEW count \in Nat, stack' = Peeked(stack, count)
      PROVE  i = Len(stack') /\ stack'[i].rest = <<>>
  <2>1. Len(stack') = Len(stack)
    BY <1>0, <1>2, PeekedStack
  <2>2. /\ stack'[i].lexer = stack[i].lexer
        /\ stack[i].rest = <<>> => stack'[i].rest = <<>>
    BY <1>0, <1>2, <2>1, PeekedTokens
  <2> QED
    BY <1>0, <1>1, <2>1, <2>2
<1>3. CASE Peek
  BY <1>2, <1>3, 0 \in Nat DEF Peek
<1>4. CASE LookPast
  BY <1>2, <1>4, 1 \in Nat DEF LookPast
<1>5. CASE EatToken
  <2> DEFINE L == Unlisted(stack)
             k == LeastOf(L)
             m == Len(stack) - k + 1
             top == [stack[k] EXCEPT !.list = Tail(@)]
  <2>1. stack' = Eat(stack)
    BY <1>5 DEF EatToken
  <2>2. L # {}
    BY <1>1, <2>1, EmptySeq DEF Eat
  <2>3. L \subseteq 1..Len(stack)
    BY <1>0, LenProperties DEF Unlisted
  <2>4. k \in 1..Len(stack)
    BY <1>0, <2>2, <2>3, FirstIndex
  <2>5. stack[k] \in Entry(Token)
    BY <1>0, <2>4, ElementOfSeq
  <2>6. stack' = [x \in 1..m |-> IF x = 1 THEN top ELSE stack[x + k - 1]]
    BY <2>1, <2>2 DEF Eat
  <2>7. m \in Nat /\ m - 1 = Len(stack) - k
    BY <1>0, <2>4
  <2>8. top.lexer = stack[k].lexer /\ top.rest = stack[k].rest
    BY <2>5 DEF Entry
  <2>9. Len(stack') = m
    BY <2>6, <2>7
  <2> HIDE DEF k, m, top
  <2>10. i \in 1..m /\ i + k - 1 \in 1..Len(stack)
    BY <1>0, <1>1, <2>4, <2>7, <2>9
  <2>11. stack'[i].lexer = stack[i + k - 1].lexer /\ stack'[i].rest = stack[i + k - 1].rest
    <3>1. CASE i = 1
      <4>1. i + k - 1 = k
        BY <2>4, <3>1
      <4>2. stack'[i] = top
        BY <2>6, <2>10, <3>1
      <4> QED
        BY <2>8, <4>1, <4>2
    <3>2. CASE i # 1
      BY <2>6, <2>10, <3>2
    <3> QED
      BY <3>1, <3>2
  <2>12. i + k - 1 = Len(stack) /\ stack[i + k - 1].rest = <<>>
    BY <1>0, <1>1, <2>10, <2>11
  <2> QED
    BY <1>0, <2>4, <2>7, <2>9, <2>10, <2>11, <2>12
<1>6. CASE Include
  <2>1. PICK c \in Sources : stack' = IncludeFile(stack, c)
    BY <1>6 DEF Include
  <2>2. /\ Len(stack') = Len(stack) + 1
        /\ stack'[1].lexer
        /\ \A x \in 1..Len(stack) : stack'[x + 1] = stack[x]
    BY <1>0, <2>1 DEF IncludeFile, FileEntry
  <2>3. i # 1 /\ i - 1 \in 1..Len(stack) /\ (i - 1) + 1 = i
    BY <1>0, <1>1, <2>2
  <2>4. stack'[i] = stack[i - 1]
    BY <2>2, <2>3
  <2>5. i - 1 = Len(stack) /\ stack[i - 1].rest = <<>>
    BY <1>0, <1>1, <2>3, <2>4
  <2> QED
    BY <1>0, <2>2, <2>3, <2>4, <2>5
<1>7. CASE Insert
  <2>1. PICK c \in Sources : stack' = InsertTokList(stack, c)
    BY <1>7 DEF Insert
  <2>2. CASE stack = <<>>
    <3>1. stack' = <<ListEntry(c)>>
      BY <2>1, <2>2 DEF InsertTokList
    <3> QED
      BY <1>1, <3>1 DEF ListEntry
  <2>3. CASE stack # <<>>
    <3> DEFINE y == [stack[1] EXCEPT !.list = c \o @]
    <3>1. stack' = [stack EXCEPT ![1] = y]
      BY <2>1, <2>3 DEF InsertTokList
    <3>2. 1 \in 1..Len(stack) /\ stack[1] \in Entry(Token)
      BY <1>0, <2>3, EmptySeq, ElementOfSeq
    <3>3. y.lexer = stack[1].lexer /\ y.rest = stack[1].rest
      BY <3>2 DEF Entry
    <3> HIDE DEF y
    <3>4. /\ Len(stack') = Len(stack)
          /\ \A x \in 1..Len(stack) : /\ stack'[x].lexer = stack[x].lexer
                                       /\ stack'[x].rest = stack[x].rest
      BY <1>0, <3>1, <3>2, <3>3
    <3> QED
      BY <1>0, <1>1, <3>4
  <2> QED
    BY <2>2, <2>3
<1>8. CASE UNCHANGED vars
  BY <1>0, <1>1, <1>8 DEF vars
<1> QED
  BY <1>3, <1>4, <1>5, <1>6, <1>7, <1>8 DEF Next

\* A bare list of tokens is never above a file.
THEOREM IterBareListLast == Spec => []BareListLast
<1>1. Init => BareListLast
  <2> SUFFICES ASSUME Init PROVE BareListLast
    OBVIOUS
  <2>1. PICK c \in Sources : stack = IncludeFile(<<>>, c)
    BY DEF Init
  <2>2. stack = <<FileEntry(c)>>
    BY <2>1 DEF IncludeFile
  <2> QED
    BY <2>2 DEF BareListLast, ListsAtBottom, FileEntry
<1>2. TypeOK /\ TypeOK' /\ BareListLast /\ [Next]_vars => BareListLast'
  BY BareListLastStep
<1> QED
  BY <1>1, <1>2, IterTypeOK, PTL DEF Spec

\* A lookahead that stays within a file shows the token that is eaten last of
\* the two peeked ones.
THEOREM IterLookPastIsNext == Spec => []LookPastIsNextInFile
<1>1. Init => LookPastIsNextInFile
  BY DEF Init, LookPastIsNextInFile
<1>2. TypeOK /\ TypeOK' /\ BareListLast /\ LookPastIsNextInFile /\ [Next]_vars
        => LookPastIsNextInFile'
  <2> SUFFICES ASSUME TypeOK, TypeOK', BareListLast, LookPastIsNextInFile, [Next]_vars
               PROVE  LookPastIsNextInFile'
    OBVIOUS
  <2>1. CASE LookPast
    <3> DEFINE p == Peeked(stack, 1)
    <3>1. stack \in Seq(Entry(Token)) /\ ListsAtBottom(stack)
      BY DEF TypeOK, BareListLast
    <3>2. p \in Seq(Entry(Token)) /\ Len(p) = Len(stack) /\ DOMAIN p = 1..Len(stack)
      BY <3>1, PeekedStack, LenProperties, 1 \in Nat
    <3>3. \A i \in 1..Len(stack) : /\ Tokens(p[i]) = Tokens(stack[i])
                                   /\ Size(p[i]) = Size(stack[i])
      <4> SUFFICES ASSUME NEW i \in 1..Len(stack)
                   PROVE  /\ Tokens(p[i]) = Tokens(stack[i])
                          /\ Size(p[i]) = Size(stack[i])
        OBVIOUS
      <4>1. Tokens(p[i]) = Tokens(stack[i])
        BY <3>1, PeekedTokens, 1 \in Nat
      <4>2. p[i] \in Entry(Token) /\ stack[i] \in Entry(Token)
        BY <3>1, <3>2, ElementOfSeq
      <4> QED
        BY <4>1, <4>2, TokensOfEntry
    <3>4. stack' = p /\ tok' = PeekForward(stack, 1, Eof)
      BY <2>1 DEF LookPast
    <3> HIDE DEF p
    <3>5. SUFFICES ASSUME NEW i \in 1..Len(stack), Size(p[i]) >= 2,
                          \A j \in 1..(i - 1) : Size(p[j]) = 0
                   PROVE  tok' = Tokens(p[i])[2]
      BY <3>2, <3>4 DEF LookPastIsNextInFile
    <3>6. Size(stack[i]) >= 2 /\ \A j \in 1..(i - 1) : Size(stack[j]) = 0
      <4>1. \A j \in 1..(i - 1) : j \in 1..Len(stack)
        BY <3>1, LenProperties
      <4> QED
        BY <3>3, <3>5, <4>1
    <3>7. PeekForward(stack, 1, Eof) = Tokens(stack[i])[2]
      BY <3>1, <3>6, LookPastInFile
    <3> QED
      BY <3>3, <3>4, <3>7
  <2>2. CASE Peek \/ EatToken \/ Include \/ Insert
    <3>1. ready' # 2
      BY <2>2 DEF Peek, EatToken, Include, Insert, TypeOK
    <3> QED
      BY <3>1 DEF LookPastIsNextInFile
  <2>3. CASE UNCHANGED vars
    BY <2>3 DEF vars, LookPastIsNextInFile
  <2> QED
    BY <2>1, <2>2, <2>3 DEF Next
<1> QED
  BY <1>1, <1>2, IterTypeOK, IterBareListLast, PTL DEF Spec

\* One step of the iterator is one step of the stream, or changes nothing the
\* client can see.
LEMMA StreamStep ==
  ASSUME TypeOK, LexedAhead, BareListLast, [Next]_vars
  PROVE  [Stream!Next]_(Stream!vars)
<1> USE SourcesAssumption DEF TypeOK
<1>0. Flat \in Seq(Token) /\ ListsAtBottom(stack)
  <2>1. Len(stack) \in 0..Len(stack)
    BY LenProperties
  <2>2. ReadOrder(stack, Len(stack)) \in Seq(Token)
    BY <2>1, ReadOrderSteps
  <2> QED
    BY <2>2 DEF Flat, BareListLast
<1>1. ASSUME Peek PROVE Stream!Peek
  <2>1. Flat' = Flat
    BY <1>1, PeekedOrder, 0 \in Nat DEF Peek, Flat
  <2>2. PeekForward(stack, 0, Eof) = IF 1 \in DOMAIN Flat THEN Flat[1] ELSE Eof
    BY <1>0, PeekShowsFirst DEF Flat
  <2> QED
    BY <1>1, <2>1, <2>2 DEF Peek, Stream!Peek, Stream!NthOrEof
<1>2. ASSUME LookPast PROVE Stream!LookPast
  <2>1. Flat' = Flat
    BY <1>2, PeekedOrder, 1 \in Nat DEF LookPast, Flat
  <2>2. \E n \in 2..(Len(Flat) + 2) :
          PeekForward(stack, 1, Eof) = IF n \in DOMAIN Flat THEN Flat[n] ELSE Eof
    BY LookPastShowsLater DEF Flat
  <2> QED
    BY <1>2, <2>1, <2>2 DEF LookPast, Stream!LookPast, Stream!NthOrEof
<1>3. ASSUME EatToken PROVE Stream!Eat
  <2>1. /\ ready \in Nat /\ ready > 0 /\ ready' = ready - 1
        /\ stack' = Eat(stack) /\ tok' = tok
    BY <1>3 DEF EatToken
  <2>2. \A i \in 1..Len(stack) : stack[i].rest # <<>> =>
          \E j \in 1..i : Len(stack[j].list) >= ready
    BY <2>1, LexedAheadOfStack
  <2>3. Flat' = IF Flat = <<>> THEN <<>> ELSE Tail(Flat)
    BY <2>1, <2>2, EatenOrder DEF Flat
  <2> QED
    BY <2>1, <2>3 DEF Stream!Eat
<1>4. ASSUME Include PROVE Stream!Paste
  <2>1. PICK c \in Sources : stack' = IncludeFile(stack, c)
    BY <1>4 DEF Include
  <2>2. Flat' = c \o Flat
    BY <2>1, PastedOrder DEF Flat
  <2> QED
    BY <1>4, <2>2 DEF Include, Stream!Paste
<1>5. ASSUME Insert PROVE Stream!Paste
  <2>1. PICK c \in Sources : stack' = InsertTokList(stack, c)
    BY <1>5 DEF Insert
  <2>2. Flat' = c \o Flat
    BY <2>1, PastedOrder DEF Flat
  <2> QED
    BY <1>5, <2>2 DEF Insert, Stream!Paste
<1>6. CASE UNCHANGED vars
  BY <1>6 DEF vars, Stream!vars, Flat
<1> QED
  BY <1>1, <1>2, <1>3, <1>4, <1>5, <1>6 DEF Next, Stream!Next

\* The iterator implements the stream of tokens: what the client peeks and eats
\* is what it would see of one sequence into which every included file and every
\* expansion is pasted at the place where the client stands.
THEOREM IterImplementsStream == Spec => ImplementsStream
<1> USE SourcesAssumption
<1>1. Init => Stream!Init
  <2> SUFFICES ASSUME Init PROVE Stream!Init
    OBVIOUS
  <2>1. PICK c \in Sources : stack = IncludeFile(<<>>, c)
    BY DEF Init
  <2>2. <<>> \in Seq(Entry(Token)) /\ c \in Seq(Token)
    BY EmptySeq
  <2>3. ReadOrder(stack, Len(stack)) = c \o ReadOrder(<<>>, Len(<<>>))
    BY <2>1, <2>2, PastedOrder
  <2>4. ReadOrder(<<>>, 0) = <<>> /\ Len(<<>>) = 0
    BY <2>2, ReadOrderSteps, EmptySeq
  <2>5. Flat = c
    BY <2>2, <2>3, <2>4, ConcatEmptySeq DEF Flat
  <2> QED
    BY <2>5 DEF Init, Stream!Init
<1>2. TypeOK /\ LexedAhead /\ BareListLast /\ [Next]_vars
        => [Stream!Next]_(Stream!vars)
  BY StreamStep
<1> QED
  BY <1>1, <1>2, IterTypeOK, IterLexedAhead, IterBareListLast, PTL
  DEF Spec, ImplementsStream, Stream!Spec

=============================================================================
