--------------------------- MODULE TokenIterProofs ---------------------------
(***************************************************************************)
(* Proofs about the iterator of C tokens, for sources of any length, with  *)
(* any characters in their strings.                                        *)
(***************************************************************************)
EXTENDS TokenIter, TLAPS, SequenceTheorems, WellFoundedInduction

-----------------------------------------------------------------------------
(* Induction over indices. *)

\* The order of the naturals, as the relation the library calls well-founded.
LEMMA LessIsInOpToRel ==
  \A a, b \in Nat : a < b => <<a, b>> \in OpToRel(<, Nat)
  BY DEF OpToRel

\* A non-empty set of naturals has a least element.
LEMMA HasLeast ==
  ASSUME NEW S, S \subseteq Nat, S # {}
  PROVE  \E x \in S : \A y \in S : x <= y
<1>1. PICK x \in S : \A y \in S : ~(<<y, x>> \in OpToRel(<, Nat))
  BY NatLessThanWellFounded, WFMin, Zenon
<1>2. ASSUME NEW y \in S PROVE x <= y
  <2>1. ~(y < x)
    BY <1>1, LessIsInOpToRel, Zenon
  <2> QED
    BY <2>1
<1> QED
  BY <1>2

\* What holds of 0 and of each index after the one before holds of all.
LEMMA IndexInduction ==
  ASSUME NEW n \in Nat, NEW S, 0 \in S, \A i \in 1..n : i - 1 \in S => i \in S
  PROVE  \A i \in 0..n : i \in S
<1> DEFINE Bad == (0..n) \ S
<1>1. SUFFICES ASSUME Bad # {} PROVE FALSE
  OBVIOUS
<1>2. Bad \subseteq Nat
  OBVIOUS
<1>3. PICK m \in Bad : \A j \in Bad : m <= j
  BY <1>1, <1>2, HasLeast, Zenon
<1>4. m \in 1..n /\ m - 1 \in 0..n
  BY <1>3
<1>5. m - 1 \in S
  BY <1>3, <1>4
<1> QED
  BY <1>3, <1>4, <1>5

-----------------------------------------------------------------------------
(* FlattenSeq. *)

\* The first k sequences, joined.
Flat(ss, k) ==
  LET flatten[i \in 1..Len(ss)] == IF i = 1 THEN ss[i] ELSE flatten[i - 1] \o ss[i]
  IN  flatten[k]

Cat(s, t) == s \o t

\* The recursion over the sequences has a solution.
LEMMA FlatSteps ==
  ASSUME NEW S, NEW ss \in Seq(Seq(S)), ss # <<>>
  PROVE  /\ Flat(ss, 1) = ss[1]
         /\ \A i \in 2..Len(ss) : Flat(ss, i) = Cat(Flat(ss, i - 1), ss[i])
         /\ \A i \in 1..Len(ss) : Flat(ss, i) \in Seq(S)
<1> DEFINE Solves(n, f) == f = [i \in 1..n |-> IF i = 1 THEN ss[i] ELSE Cat(f[i - 1], ss[i])]
           Solvable == {n \in 0..Len(ss) : \E f : Solves(n, f)}
           flatten == CHOOSE f : Solves(Len(ss), f)
<1>0. Len(ss) \in Nat /\ Len(ss) >= 1 /\ \A i \in 1..Len(ss) : ss[i] \in Seq(S)
  OBVIOUS
<1>1. 0 \in Solvable
  <2>1. Solves(0, [i \in 1..0 |-> <<>>])
    OBVIOUS
  <2> HIDE DEF Solves
  <2>2. (\E f : Solves(0, f)) /\ 0 \in 0..Len(ss)
    BY <1>0, <2>1
  <2> QED
    BY <2>2
<1>2. ASSUME NEW n \in 1..Len(ss), n - 1 \in Solvable PROVE n \in Solvable
  <2>1. PICK f : Solves(n - 1, f)
    BY <1>2
  <2> DEFINE g == [i \in 1..n |-> IF i = 1 THEN ss[i] ELSE Cat(f[i - 1], ss[i])]
  <2>2. \A i \in 1..(n - 1) : g[i] = f[i]
    BY <2>1
  <2>3. Solves(n, g)
    <3>1. \A i \in 1..n : i # 1 => i - 1 \in 1..(n - 1)
      BY <1>0
    <3>2. \A i \in 1..n : i # 1 => f[i - 1] = g[i - 1]
      <4> HIDE DEF g
      <4> QED
        BY <2>2, <3>1
    <3>3. g = [i \in 1..n |-> IF i = 1 THEN ss[i] ELSE Cat(f[i - 1], ss[i])]
      OBVIOUS
    <3> HIDE DEF g
    <3> QED
      BY <3>2, <3>3
  <2> HIDE DEF g, Solves
  <2>4. (\E h : Solves(n, h)) /\ n \in 0..Len(ss)
    BY <1>0, <2>3
  <2> QED
    BY <2>4
<1>3. Len(ss) \in Solvable
  <2> HIDE DEF Solvable
  <2>1. \A i \in 0..Len(ss) : i \in Solvable
    BY <1>0, <1>1, <1>2, IndexInduction, Zenon
  <2> QED
    BY <1>0, <2>1
<1>4. Solves(Len(ss), flatten)
  <2>1. \E f : Solves(Len(ss), f)
    BY <1>3
  <2> HIDE DEF Solves
  <2> QED
    BY <2>1
<1>5. \A k : Flat(ss, k) = flatten[k]
  BY DEF Flat, Cat
<1>6. /\ flatten[1] = ss[1]
      /\ \A i \in 2..Len(ss) : flatten[i] = Cat(flatten[i - 1], ss[i])
  <2> HIDE DEF flatten
  <2> QED
    BY <1>0, <1>4, SMTT(20)
<1> HIDE DEF flatten, Solves, Solvable
<1>7. /\ Flat(ss, 1) = ss[1]
      /\ \A i \in 2..Len(ss) : Flat(ss, i) = Cat(Flat(ss, i - 1), ss[i])
  BY <1>5, <1>6
<1> DEFINE Typed == {0} \cup {i \in 1..Len(ss) : Flat(ss, i) \in Seq(S)}
<1>8. ASSUME NEW i \in 1..Len(ss), i - 1 \in Typed PROVE i \in Typed
  <2>1. CASE i = 1
    BY <1>0, <1>7, <2>1
  <2>2. CASE i # 1
    <3>1. i \in 2..Len(ss) /\ Flat(ss, i - 1) \in Seq(S)
      BY <1>8, <2>2
    <3>2. Cat(Flat(ss, i - 1), ss[i]) \in Seq(S)
      BY <1>0, <3>1, ConcatProperties DEF Cat
    <3>3. Flat(ss, i) \in Seq(S)
      BY <1>7, <3>1, <3>2, Zenon
    <3> QED
      BY <3>3
  <2> QED
    BY <2>1, <2>2
<1>9. \A i \in 0..Len(ss) : i \in Typed
  <2>1. 0 \in Typed
    OBVIOUS
  <2> HIDE DEF Typed
  <2> QED
    BY <1>0, <1>8, <2>1, IndexInduction
<1>10. \A i \in 1..Len(ss) : Flat(ss, i) \in Seq(S)
  BY <1>0, <1>9
<1> QED
  BY <1>7, <1>10

\* FlattenSeq is the last of these.
LEMMA FlattenIs ==
  ASSUME NEW ss
  PROVE  FlattenSeq(ss) = IF Len(ss) = 0 THEN ss ELSE Flat(ss, Len(ss))
  BY DEF FlattenSeq, Flat

\* Sequences that are joined are a sequence.
LEMMA FlattenType ==
  ASSUME NEW S, NEW ss \in Seq(Seq(S))
  PROVE  FlattenSeq(ss) \in Seq(S)
<1>1. CASE ss = <<>>
  <2>1. FlattenSeq(ss) = ss
    BY <1>1, FlattenIs
  <2>2. <<>> \in Seq(S)
    OBVIOUS
  <2> QED
    BY <1>1, <2>1, <2>2, Zenon
<1>2. CASE ss # <<>>
  <2>1. Len(ss) # 0 /\ Len(ss) \in 1..Len(ss)
    BY <1>2
  <2>2. Flat(ss, Len(ss)) \in Seq(S)
    BY <1>2, <2>1, FlatSteps
  <2>3. FlattenSeq(ss) = Flat(ss, Len(ss))
    BY <2>1, FlattenIs
  <2> QED
    BY <2>2, <2>3
<1> QED
  BY <1>1, <1>2

\* One sequence is joined to itself, and one more is joined at the end.
LEMMA FlattenOne ==
  ASSUME NEW S, NEW s \in Seq(S)
  PROVE  FlattenSeq(<<s>>) = s
<1>1. <<s>> \in Seq(Seq(S)) /\ <<s>> # <<>> /\ Len(<<s>>) = 1 /\ <<s>>[1] = s
  OBVIOUS
<1> DEFINE ss == <<s>>
<1>2. Flat(ss, 1) = s
  <2> HIDE DEF ss
  <2>1. ss \in Seq(Seq(S)) /\ ss # <<>> /\ ss[1] = s
    BY <1>1 DEF ss
  <2> QED
    BY <2>1, FlatSteps
<1>3. FlattenSeq(ss) = Flat(ss, Len(ss))
  <2> HIDE DEF ss
  <2>1. Len(ss) # 0
    BY <1>1 DEF ss
  <2> QED
    BY <2>1, FlattenIs
<1> QED
  BY <1>1, <1>2, <1>3

\* One more sequence is joined behind the others.
LEMMA FlattenAppend ==
  ASSUME NEW S, NEW ss \in Seq(Seq(S)), ss # <<>>, NEW s \in Seq(S)
  PROVE  FlattenSeq(Append(ss, s)) = FlattenSeq(ss) \o s
<1> DEFINE n == Len(ss)
           tt == Append(ss, s)
<1>1. n \in Nat /\ n >= 1
  OBVIOUS
<1>2. /\ tt \in Seq(Seq(S)) /\ tt # <<>> /\ Len(tt) = n + 1
      /\ tt[n + 1] = s /\ \A i \in 1..n : tt[i] = ss[i]
  <2> DEFINE T == Seq(S)
  <2>1. ss \in Seq(T) /\ s \in T
    OBVIOUS
  <2> HIDE DEF T
  <2>2. /\ tt \in Seq(T) /\ tt # <<>> /\ Len(tt) = n + 1
        /\ tt[n + 1] = s /\ \A i \in 1..n : tt[i] = ss[i]
    BY <2>1, AppendProperties
  <2> QED
    BY <2>2 DEF T
<1>3. /\ Flat(tt, 1) = tt[1]
      /\ \A i \in 2..(n + 1) : Flat(tt, i) = Cat(Flat(tt, i - 1), tt[i])
  <2> HIDE DEF tt
  <2> QED
    BY <1>2, FlatSteps
<1>4. /\ Flat(ss, 1) = ss[1]
      /\ \A i \in 2..n : Flat(ss, i) = Cat(Flat(ss, i - 1), ss[i])
  BY FlatSteps
<1> HIDE DEF n, tt
<1> DEFINE Same == {0} \cup {i \in 1..n : Flat(tt, i) = Flat(ss, i)}
<1>5. ASSUME NEW i \in 1..n, i - 1 \in Same PROVE i \in Same
  <2>1. CASE i = 1
    BY <1>2, <1>3, <1>4, <2>1
  <2>2. CASE i # 1
    <3>1. i \in 2..n /\ i \in 2..(n + 1) /\ Flat(tt, i - 1) = Flat(ss, i - 1)
      BY <1>1, <1>5, <2>2
    <3>2. tt[i] = ss[i]
      BY <1>2
    <3>3. Flat(tt, i) = Flat(ss, i)
      BY <1>3, <1>4, <3>1, <3>2
    <3> QED
      BY <3>3
  <2> QED
    BY <2>1, <2>2
<1>6. Flat(tt, n) = Flat(ss, n)
  <2>1. 0 \in Same
    OBVIOUS
  <2>2. \A i \in 0..n : i \in Same
    <3> HIDE DEF Same
    <3> QED
      BY <1>1, <1>5, <2>1, IndexInduction
  <2> QED
    BY <1>1, <2>2
<1>7. Flat(tt, n + 1) = Cat(Flat(tt, n), tt[n + 1])
  <2>1. n + 1 \in 2..(n + 1) /\ (n + 1) - 1 = n
    BY <1>1
  <2> QED
    BY <1>3, <2>1
<1>8. FlattenSeq(tt) = Flat(tt, n + 1) /\ FlattenSeq(ss) = Flat(ss, n)
  BY <1>1, <1>2, FlattenIs DEF n
<1>9. FlattenSeq(tt) = Cat(FlattenSeq(ss), s)
  BY <1>2, <1>6, <1>7, <1>8
<1> QED
  BY <1>9 DEF tt, Cat

-----------------------------------------------------------------------------
(* Literals.  What is stored and converted is a sequence, whatever is in it. *)

IsSeq(x) == x \in Seq(ToSet(x))

\* Sequences over anything, and two of them joined, are sequences of their elements.
LEMMA SeqIsSeq ==
  ASSUME NEW S, NEW x \in Seq(S)
  PROVE  IsSeq(x)
<1>1. x \in [1..Len(x) -> ToSet(x)] /\ Len(x) \in Nat
  BY DEF ToSet
<1> HIDE DEF ToSet
<1> QED
  BY <1>1 DEF IsSeq

LEMMA CatIsSeq ==
  ASSUME NEW x, NEW y, IsSeq(x), IsSeq(y)
  PROVE  IsSeq(x \o y)
<1> DEFINE S == ToSet(x) \cup ToSet(y)
<1>1. x \in Seq(S) /\ y \in Seq(S)
  <2>1. ToSet(x) \subseteq S /\ ToSet(y) \subseteq S
    OBVIOUS
  <2> HIDE DEF S
  <2> QED
    BY <2>1, SeqMonotonic DEF IsSeq
<1> HIDE DEF S
<1>2. x \o y \in Seq(S)
  BY <1>1
<1> QED
  BY <1>2, SeqIsSeq

\* The characters of a code, as they are stored.
LEMMA EncodedIsSeq ==
  ASSUME NEW n
  PROVE  IsSeq(Utf8Encode(n))
<1>1. /\ \A a : <<a>> \in Seq({a})
      /\ \A a, b : <<a, b>> \in Seq({a, b})
      /\ \A a, b, c : <<a, b, c>> \in Seq({a, b, c})
      /\ \A a, b, c, d : <<a, b, c, d>> \in Seq({a, b, c, d})
      /\ <<>> \in Seq({})
  OBVIOUS
<1>2. /\ \A a : IsSeq(<<a>>)
      /\ \A a, b : IsSeq(<<a, b>>)
      /\ \A a, b, c : IsSeq(<<a, b, c>>)
      /\ \A a, b, c, d : IsSeq(<<a, b, c, d>>)
      /\ IsSeq(<<>>)
  BY <1>1, SeqIsSeq
<1> DEFINE e == Utf8Encode(n)
<1>3. \/ e = <<n>>
      \/ \E a, b : e = <<a, b>>
      \/ \E a, b, c : e = <<a, b, c>>
      \/ \E a, b, c, d : e = <<a, b, c, d>>
      \/ e = <<>>
  <2> DEFINE two   == <<192 + n \div 64, Bits6(n, 1)>>
             three == <<224 + n \div 4096, Bits6(n, 64), Bits6(n, 1)>>
             four  == <<240 + n \div 262144, Bits6(n, 4096), Bits6(n, 64), Bits6(n, 1)>>
  <2>1. e = CASE n < 128 -> <<n>> [] TwoBytes(n) -> two [] ThreeBytes(n) -> three
              [] FourBytes(n) -> four [] OTHER -> <<>>
    BY DEF Utf8Encode
  <2>2. /\ \E a, b : two = <<a, b>>
        /\ \E a, b, c : three = <<a, b, c>>
        /\ \E a, b, c, d : four = <<a, b, c, d>>
    OBVIOUS
  <2> HIDE DEF e, two, three, four
  <2> QED
    BY <2>1, <2>2
<1> HIDE DEF e
<1> QED
  BY <1>2, <1>3 DEF e

\* What is stored of a character, and of several.
LEMMA StoredIsSeq ==
  ASSUME NEW c \in Char
  PROVE  IsSeq(StoredChar(c))
<1>2. IsSeq(HexDigits(c.code))
  <2> DEFINE size == IF c.code < 65536 THEN 4 ELSE 8
             digit(k) == (c.code \div 16^k) % 16
             d(i) == digit(size - i) + (IF digit(size - i) < 10 THEN 48 ELSE 87)
             S == {d(i) : i \in 1..size}
  <2>1. HexDigits(c.code) = [i \in 1..size |-> d(i)]
    BY DEF HexDigits
  <2>2. size \in Nat
    OBVIOUS
  <2> HIDE DEF size, d
  <2>3. [i \in 1..size |-> d(i)] \in Seq(S)
    BY <2>2
  <2> HIDE DEF S
  <2> QED
    BY <2>1, <2>3, SeqIsSeq
<1>3. IsSeq(<<>>) /\ IsSeq(<<c.code>>)
  <2>1. <<>> \in Seq({}) /\ <<c.code>> \in Seq({c.code})
    OBVIOUS
  <2> QED
    BY <2>1, SeqIsSeq
<1>4. IsSeq(Utf8Encode(c.code))
  BY EncodedIsSeq
<1>5. IsSeq(Utf8Encode(c.code) \o HexDigits(c.code))
  BY <1>2, <1>4, CatIsSeq
<1> QED
  BY <1>3, <1>4, <1>5, Zenon DEF StoredChar

\* All that is stored of characters.
StoredBytes == UNION {ToSet(StoredChar(c)) : c \in Char}

LEMMA StoredSeqs ==
  ASSUME NEW chars \in Seq(Char)
  PROVE  /\ [i \in DOMAIN chars |-> StoredChar(chars[i])] \in Seq(Seq(StoredBytes))
         /\ StoredChars(chars) \in Seq(StoredBytes)
<1> DEFINE ss == [i \in DOMAIN chars |-> StoredChar(chars[i])]
<1>1. ASSUME NEW c \in Char PROVE StoredChar(c) \in Seq(StoredBytes)
  <2>1. ToSet(StoredChar(c)) \subseteq StoredBytes
    BY DEF StoredBytes
  <2>2. StoredChar(c) \in Seq(ToSet(StoredChar(c)))
    BY StoredIsSeq DEF IsSeq
  <2> QED
    BY <2>1, <2>2, SeqMonotonic
<1>2. ss \in Seq(Seq(StoredBytes))
  <2> DEFINE T == Seq(StoredBytes)
  <2>1. \A i \in DOMAIN chars : StoredChar(chars[i]) \in T
    BY <1>1
  <2>2. DOMAIN chars = 1..Len(chars) /\ Len(chars) \in Nat
    OBVIOUS
  <2> HIDE DEF T
  <2>3. ss \in Seq(T)
    BY <2>1, <2>2
  <2> QED
    BY <2>3 DEF T
<1>3. FlattenSeq(ss) \in Seq(StoredBytes)
  <2> HIDE DEF ss
  <2> QED
    BY <1>2, FlattenType
<1> QED
  BY <1>2, <1>3 DEF StoredChars

\* A reader goes forward or finds no code.
LEMMA Utf8Forward ==
  ASSUME NEW s, NEW i \in Nat
  PROVE  \/ Utf8Decode(s, i).code < 0
         \/ Utf8Decode(s, i).next \in (i + 1)..(i + 4)
<1> DEFINE d == Utf8Decode(s, i)
<1>1. \/ \E c : d = Decoded(c, i + 1)
      \/ \E c : d = Decoded(c, i + 2)
      \/ \E c : d = Decoded(c, i + 3)
      \/ \E c : d = Decoded(c, i + 4)
      \/ d = Decoded(EndlessCode, i)
      \/ d = Decoded(LostCode, i)
  <2> DEFINE size == CASE s[i] < 128 -> 1 [] s[i] \in 192..223 -> 2 [] s[i] \in 224..239 -> 3
                       [] s[i] \in 240..247 -> 4 [] OTHER -> 0
             good(k) == k \in DOMAIN s /\ s[k] \in 128..191
             bad == {k \in (i + 1)..(i + size - 1) : ~good(k)}
             value == Utf8Value(s, i, size)
             first == CHOOSE k \in bad : \A m \in bad : k <= m
  <2>1. d = CASE size = 0 -> Decoded(EndlessCode, i)
              [] size > 0 /\ bad = {} -> Decoded(value, i + size)
              [] OTHER -> IF first \in DOMAIN s THEN Decoded(InvalidCode, i + size)
                          ELSE Decoded(LostCode, i)
    BY Zenon DEF Utf8Decode
  <2>2. size \in {0, 1, 2, 3, 4}
    BY ZenonT(30)
  <2> HIDE DEF size, bad, value, first, d
  <2>0. size = 0 => ~(size > 0)
    BY <2>2
  <2>3. \/ d = Decoded(EndlessCode, i) \/ d = Decoded(value, i + size)
        \/ d = Decoded(InvalidCode, i + size) \/ d = Decoded(LostCode, i)
    <3>1. CASE size = 0
      BY <2>0, <2>1, <3>1, Zenon
    <3>2. CASE size > 0 /\ bad = {}
      BY <2>0, <2>1, <3>2, Zenon
    <3>3. CASE size # 0 /\ ~(size > 0 /\ bad = {})
      BY <2>1, <3>3, Zenon
    <3> QED
      BY <3>1, <3>2, <3>3, Zenon
  <2>4. size = 0 => d = Decoded(EndlessCode, i)
    BY <2>0, <2>1, Zenon
  <2> QED
    <3>1. size # 0 => i + size = i + 1 \/ i + size = i + 2 \/ i + size = i + 3 \/ i + size = i + 4
      BY <2>2
    <3>2. CASE size = 0
      BY <2>4, <3>2
    <3>3. CASE size # 0
      <4>1. (\E c : d = Decoded(c, i + size)) \/ d = Decoded(EndlessCode, i) \/ d = Decoded(LostCode, i)
        BY <2>3, Zenon
      <4> QED
        BY <3>1, <3>3, <4>1, Zenon
    <3> QED
      BY <3>2, <3>3, Zenon
<1> HIDE DEF d
<1>2. \/ d.code < 0
      \/ d.next = i + 1 \/ d.next = i + 2 \/ d.next = i + 3 \/ d.next = i + 4
  BY <1>1 DEF Decoded, EndlessCode, LostCode
<1>3. \A k \in {i + 1, i + 2, i + 3, i + 4} : k \in (i + 1)..(i + 4)
  OBVIOUS
<1> QED
  BY <1>2, <1>3 DEF d

LEMMA DecodeForward ==
  ASSUME NEW s, NEW i \in Nat, NEW size \in {1, 2, 4}
  PROVE  \/ DecodeAt(s, i, size).code < 0
         \/ DecodeAt(s, i, size).next \in (i + 1)..(i + 4)
<1>0. 1 # 2 /\ 1 # 4 /\ 2 # 4 /\ LostCode < 0
  BY DEF LostCode
<1>1. CASE size = 1
  <2>1. DecodeAt(s, i, size) = Utf8Decode(s, i)
    BY <1>0, <1>1, Zenon DEF DecodeAt
  <2> QED
    BY <2>1, Utf8Forward
<1>2. CASE size = 2
  <2> DEFINE unit(k) == IF k + 1 \in DOMAIN s THEN s[k] + 256 * s[k + 1] ELSE LostCode
             d == Utf16Decode(s, i)
             pair == ((unit(i) % 1024) * 1024) + (unit(i + 2) % 1024)
  <2>1. d = CASE unit(i) = LostCode -> Decoded(LostCode, i)
              [] unit(i) # LostCode /\ ~LooksPaired(unit(i)) -> Decoded(unit(i), i + 2)
              [] OTHER -> IF unit(i + 2) = LostCode THEN Decoded(LostCode, i) ELSE Decoded(pair, i + 4)
    BY Zenon DEF Utf16Decode
  <2> HIDE DEF unit, d, pair
  <2>2. d = Decoded(LostCode, i) \/ d = Decoded(unit(i), i + 2) \/ d = Decoded(pair, i + 4)
    <3>1. CASE unit(i) = LostCode
      BY <2>1, <3>1, Zenon
    <3>2. CASE unit(i) # LostCode /\ ~LooksPaired(unit(i))
      BY <2>1, <3>2, Zenon
    <3>3. CASE unit(i) # LostCode /\ LooksPaired(unit(i))
      BY <2>1, <3>3, Zenon
    <3> QED
      BY <3>1, <3>2, <3>3, Zenon
  <2>3. d.code < 0 \/ d.next = i + 2 \/ d.next = i + 4
    BY <1>0, <2>2 DEF Decoded
  <2>4. DecodeAt(s, i, size) = d
    BY <1>0, <1>2, Zenon DEF DecodeAt, d
  <2> QED
    BY <2>3, <2>4
<1>3. CASE size = 4
  <2> DEFINE d == Utf32Decode(s, i)
             code == IF s[i + 2] > 16 \/ s[i + 3] > 0 THEN InvalidCode
                     ELSE s[i] + 256 * s[i + 1] + 65536 * s[i + 2]
  <2>1. d = Decoded(LostCode, i) \/ d = Decoded(code, i + 4)
    BY SMT DEF Utf32Decode
  <2> HIDE DEF d, code
  <2>2. d.code < 0 \/ d.next = i + 4
    BY <1>0, <2>1 DEF Decoded
  <2>3. DecodeAt(s, i, size) = d
    BY <1>0, <1>3, Zenon DEF DecodeAt, d
  <2> QED
    BY <2>2, <2>3
<1> QED
  BY <1>1, <1>2, <1>3

\* The codes from place i on, with f for those of the places after it.
CodesFrom(s, size, i, f) ==
  IF i + size - 1 > Len(s) THEN <<LostCode>>
  ELSE LET d    == DecodeAt(s, i, size)
           zero == \A k \in i..(i + size - 1) : s[k] = 0 IN
       CASE zero                 -> <<>>
         [] ~zero /\ d.code < 0  -> <<d.code>>
         [] OTHER                -> <<d.code>> \o f[d.next]

\* A step of the recursion looks at one later place, or at none.
LEMMA CodesFromLater ==
  ASSUME NEW X, NEW s \in Seq(X), NEW size \in {1, 2, 4}, NEW i \in 1..(Len(s) + 4)
  PROVE  \/ \E c \in {LostCode, DecodeAt(s, i, size).code} : \A f : CodesFrom(s, size, i, f) = <<c>>
         \/ \A f : CodesFrom(s, size, i, f) = <<>>
         \/ \E j \in (i + 1)..(Len(s) + 4) :
              \A f : CodesFrom(s, size, i, f) = <<DecodeAt(s, i, size).code>> \o f[j]
<1> DEFINE d == DecodeAt(s, i, size)
           zero == \A k \in i..(i + size - 1) : s[k] = 0
<1>0. Len(s) \in Nat /\ i \in Nat /\ i + size - 1 >= i
  OBVIOUS
<1>1. CASE i + size - 1 > Len(s)
  BY <1>1, Zenon DEF CodesFrom
<1>2. CASE ~(i + size - 1 > Len(s)) /\ zero
  BY <1>2, Zenon DEF CodesFrom
<1>3. CASE ~(i + size - 1 > Len(s)) /\ ~zero /\ d.code < 0
  <2>1. \A f : CodesFrom(s, size, i, f) = <<d.code>>
    BY <1>3, Zenon DEF CodesFrom
  <2> QED
    BY <2>1, Zenon
<1>4. CASE ~(i + size - 1 > Len(s)) /\ ~zero /\ ~(d.code < 0)
  <2>1. d.next \in (i + 1)..(i + 4)
    BY <1>0, <1>4, DecodeForward
  <2>2. d.next \in (i + 1)..(Len(s) + 4)
    <3> HIDE DEF d
    <3> QED
      BY <1>0, <1>4, <2>1
  <2>3. \A g : CodesFrom(s, size, i, g) = <<d.code>> \o g[d.next]
    BY <1>4, Zenon DEF CodesFrom
  <2> QED
    BY <2>2, <2>3, Zenon
<1> QED
  BY <1>1, <1>2, <1>3, <1>4, Zenon

\* The codes are those of a solution of the recursion over the places.
SolvedBy(s, size, read, S) ==
  /\ Codes(s, size) = read[1] /\ Codes(s, size) \in Seq(S)
  /\ \A i \in 1..(Len(s) + 4) :
       read[i] = CodesFrom(s, size, i, read) /\ read[i] \in Seq(S)

\* It has a solution, and the codes that are read are a sequence.
LEMMA CodesSteps ==
  ASSUME NEW X, NEW s \in Seq(X), NEW size \in {1, 2, 4}
  PROVE  \E read, S : SolvedBy(s, size, read, S)
<1> DEFINE N == Len(s) + 4
           From(n) == ((N - n) + 1)..N       \* the last n places
           Step(i, f) == CodesFrom(s, size, i, f)
           Solves(n, f) == f = [i \in From(n) |-> Step(i, f)]
           Solvable == {n \in 0..N : \E f : Solves(n, f)}
           read == CHOOSE f : f = [i \in 1..N |-> Step(i, f)]
           S == {LostCode} \cup {DecodeAt(s, i, size).code : i \in 1..N}
<1>0. N \in Nat /\ N >= 4 /\ From(N) = 1..N
  OBVIOUS
<1>1. ASSUME NEW i \in 1..N, NEW f, NEW g, \A j \in (i + 1)..N : f[j] = g[j]
      PROVE  Step(i, f) = Step(i, g)
  <2>1. i \in 1..(Len(s) + 4)
    OBVIOUS
  <2>2. \/ \E c : Step(i, f) = <<c>> /\ Step(i, g) = <<c>>
        \/ Step(i, f) = <<>> /\ Step(i, g) = <<>>
        \/ \E j \in (i + 1)..N : /\ Step(i, f) = Cat(<<DecodeAt(s, i, size).code>>, f[j])
                                 /\ Step(i, g) = Cat(<<DecodeAt(s, i, size).code>>, g[j])
    <3> DEFINE code == DecodeAt(s, i, size).code
    <3>1. \/ \E c \in {LostCode, code} : \A h : Step(i, h) = <<c>>
          \/ \A h : Step(i, h) = <<>>
          \/ \E j \in (i + 1)..N : \A h : Step(i, h) = Cat(<<code>>, h[j])
      BY <2>1, CodesFromLater, Zenon DEF Cat
    <3> HIDE DEF Step, N
    <3>2. CASE \E c \in {LostCode, code} : \A h : Step(i, h) = <<c>>
      <4>1. PICK c \in {LostCode, code} : \A h : Step(i, h) = <<c>>
        BY <3>2
      <4> QED
        BY <4>1
    <3>3. CASE \E j \in (i + 1)..N : \A h : Step(i, h) = Cat(<<code>>, h[j])
      <4>1. PICK j \in (i + 1)..N : \A h : Step(i, h) = Cat(<<code>>, h[j])
        BY <3>3
      <4> QED
        BY <4>1
    <3> QED
      BY <3>1, <3>2, <3>3
  <2> HIDE DEF Step, N
  <2>3. ASSUME NEW j \in (i + 1)..N,
               Step(i, f) = Cat(<<DecodeAt(s, i, size).code>>, f[j]),
               Step(i, g) = Cat(<<DecodeAt(s, i, size).code>>, g[j])
        PROVE  Step(i, f) = Step(i, g)
    BY <1>1, <2>3
  <2> QED
    BY <2>2, <2>3
<1>2. ASSUME NEW i \in 1..N, NEW f, \A j \in (i + 1)..N : f[j] \in Seq(S)
      PROVE  Step(i, f) \in Seq(S)
  <2>1. DecodeAt(s, i, size).code \in S /\ LostCode \in S
    OBVIOUS
  <2>2. \/ \E c \in {LostCode, DecodeAt(s, i, size).code} : Step(i, f) = <<c>>
        \/ Step(i, f) = <<>>
        \/ \E j \in (i + 1)..N : Step(i, f) = <<DecodeAt(s, i, size).code>> \o f[j]
    <3>1. i \in 1..(Len(s) + 4)
      OBVIOUS
    <3> QED
      BY <3>1, CodesFromLater, ZenonT(30)
  <2> HIDE DEF S, Step, N
  <2>3. \A c \in S : <<c>> \in Seq(S)
    OBVIOUS
  <2>4. \A c \in S, t \in Seq(S) : <<c>> \o t \in Seq(S)
    OBVIOUS
  <2>5. <<>> \in Seq(S)
    OBVIOUS
  <2> QED
    BY <1>2, <2>1, <2>2, <2>3, <2>4, <2>5, Zenon
<1>3. 0 \in Solvable
  <2>1. From(0) = {}
    BY <1>0
  <2>2. Solves(0, [i \in {} |-> <<>>])
    BY <2>1
  <2> HIDE DEF Solves
  <2>3. (\E f : Solves(0, f)) /\ 0 \in 0..N
    BY <1>0, <2>2
  <2> QED
    BY <2>3
<1>4. ASSUME NEW n \in 1..N, n - 1 \in Solvable PROVE n \in Solvable
  <2>1. PICK f : Solves(n - 1, f)
    BY <1>4
  <2> DEFINE g == [i \in From(n) |-> Step(i, f)]
  <2>2. \A i \in From(n - 1) : f[i] = Step(i, f) /\ i \in From(n)
    <3>1. \A i \in From(n - 1) : i \in From(n)
      BY <1>0
    <3> HIDE DEF Step, From
    <3> QED
      BY <2>1, <3>1
  <2>3. \A i \in From(n) : i \in 1..N /\ \A j \in (i + 1)..N : j \in From(n - 1)
    BY <1>0
  <2>4. \A i \in From(n - 1) : g[i] = f[i]
    <3> HIDE DEF Step, From
    <3> QED
      BY <2>2
  <2>5. \A i \in From(n) : Step(i, f) = Step(i, g)
    <3> HIDE DEF Step, From, g
    <3> QED
      BY <1>1, <2>3, <2>4
  <2>6. g = [i \in From(n) |-> Step(i, f)]
    OBVIOUS
  <2>7. Solves(n, g)
    <3> HIDE DEF Step, From, g
    <3> QED
      BY <2>5, <2>6
  <2> HIDE DEF g, Solves
  <2>8. (\E h : Solves(n, h)) /\ n \in 0..N
    BY <1>0, <2>7
  <2> QED
    BY <2>8
<1>5. N \in Solvable
  <2> HIDE DEF Solvable, N
  <2>1. \A i \in 0..N : i \in Solvable
    BY <1>0, <1>3, <1>4, IndexInduction, Zenon
  <2> QED
    BY <1>0, <2>1
<1>6. read = [i \in 1..N |-> Step(i, read)]
  <2>1. \E f : f = [i \in 1..N |-> Step(i, f)]
    <3> HIDE DEF Step, N
    <3> QED
      BY <1>0, <1>5
  <2> HIDE DEF Step, N
  <2> QED
    BY <2>1
<1>7. Codes(s, size) = read[1]
  BY DEF Codes, CodesFrom
<1> HIDE DEF Step, read, S
<1>12. \A i \in 1..N : read[i] = Step(i, read)
  <2> HIDE DEF N
  <2> QED
    BY <1>6
<1> DEFINE Typed == {n \in 0..N : \A i \in From(n) : read[i] \in Seq(S)}
<1>8. 0 \in Typed
  <2>1. From(0) = {}
    BY <1>0
  <2> HIDE DEF From
  <2> QED
    BY <1>0, <2>1
<1>9. ASSUME NEW n \in 1..N, n - 1 \in Typed PROVE n \in Typed
  <2>1. \A i \in From(n) : i \in 1..N /\ \A j \in (i + 1)..N : j \in From(n - 1)
    BY <1>0
  <2>2. \A i \in From(n) : read[i] \in Seq(S)
    <3> SUFFICES ASSUME NEW i \in From(n) PROVE read[i] \in Seq(S)
      OBVIOUS
    <3>1. i \in 1..N /\ \A j \in (i + 1)..N : read[j] \in Seq(S)
      BY <1>9, <2>1
    <3>2. Step(i, read) \in Seq(S)
      <4> HIDE DEF N
      <4> QED
        BY <1>2, <3>1
    <3> QED
      BY <1>12, <3>1, <3>2
  <2> QED
    BY <1>0, <2>2
<1>10. \A i \in 1..N : read[i] \in Seq(S)
  <2>1. \A n \in 0..N : n \in Typed
    <3> HIDE DEF Typed, N
    <3> QED
      BY <1>0, <1>8, <1>9, IndexInduction, Zenon
  <2>2. N \in Typed
    BY <1>0, <2>1
  <2> QED
    BY <1>0, <2>2
<1>11. Codes(s, size) \in Seq(S)
  BY <1>0, <1>7, <1>10
<1>13. \A i \in 1..(Len(s) + 4) :
         read[i] = CodesFrom(s, size, i, read) /\ read[i] \in Seq(S)
  BY <1>10, <1>12 DEF Step
<1> QED
  BY <1>7, <1>11, <1>13, Zenon DEF SolvedBy

LEMMA CodesIsSeq ==
  ASSUME NEW X, NEW s \in Seq(X)
  PROVE  IsSeq(Codes(s, 1))
<1>1. 1 \in {1, 2, 4}
  OBVIOUS
<1>2. PICK S : Codes(s, 1) \in Seq(S)
  BY <1>1, CodesSteps, Zenon DEF SolvedBy
<1> QED
  BY <1>2, SeqIsSeq

\* The five types have three sizes.
LEMMA SizeOfType ==
  ASSUME NEW type \in CharTypes
  PROVE  SizeOf(type) \in {1, 2, 4}
<1>1. type \in {"char", "uchar"} => SizeOf(type) = 1
  BY Zenon DEF SizeOf
<1>2. type = "char16" => SizeOf(type) = 2
  BY Zenon DEF SizeOf
<1>3. type \in {"wchar", "char32"} => SizeOf(type) = 4
  BY Zenon DEF SizeOf
<1> QED
  BY <1>1, <1>2, <1>3 DEF CharTypes

\* A converted string is a sequence, also where it is cut off at what its characters
\* are counted as, or goes on behind them.
LEMMA ConvertStringIsSeq ==
  ASSUME NEW type \in CharTypes, NEW X, NEW stored \in Seq(X)
  PROVE  IsSeq(ConvertString(type, stored))
<1> DEFINE codes == Codes(stored \o <<0>>, 1)
           all == FlattenSeq([i \in DOMAIN codes |-> Encode(type, codes[i])])
           n == SizeOf(type) * Len(codes)
           S == {all[i] : i \in 1..n}
<1>1. stored \o <<0>> \in Seq(X \cup {0})
  OBVIOUS
<1>2. codes \in Seq(ToSet(codes))
  <2>1. IsSeq(codes)
    BY <1>1, CodesIsSeq
  <2> HIDE DEF codes
  <2> QED
    BY <2>1 DEF IsSeq
<1>3. n \in Nat
  <2> HIDE DEF codes
  <2>1. Len(codes) \in Nat
    BY <1>2
  <2> QED
    BY <2>1, SizeOfType
<1>4. ConvertString(type, stored) = SubSeq(all, 1, n)
  BY Zenon DEF ConvertString
<1>5. \A i \in 1..n : all[i] \in S
  OBVIOUS
<1> HIDE DEF S, all, n
<1>6. SubSeq(all, 1, n) \in Seq(S)
  <2>1. n \in Int /\ 1 \in Int
    BY <1>3
  <2> QED
    BY <1>5, <2>1, SubSeqProperties, Zenon
<1> QED
  BY <1>4, <1>6, SeqIsSeq

\* The preprocessing tokens of all sources, and the bytes they are converted to.
AllToks == UNION {ToSet(s) : s \in Sources}
Byte == {Nul} \cup UNION {ToSet(Convert(t).str) : t \in AllToks}

CTok == [kind : {"id", "str", "kw", "eof"}, type : CharTypes \cup {"none"},
         str : Seq(Byte) \cup {Lost}]

\* A token keeps its kind and type, and an identifier has a spelling.
LEMMA ConvertedTok ==
  ASSUME NEW t \in AllToks
  PROVE  /\ Convert(t) = [kind |-> t.kind, type |-> t.type, str |-> Convert(t).str]
         /\ t.kind \in {"id", "str", "kw"} /\ t.type \in CharTypes \cup {"none"}
         /\ Convert(t).str \in Seq(Byte)
         /\ t.kind = "id" => Convert(t).str # <<>>
<1>0. PICK s \in Sources : t \in ToSet(s)
  BY DEF AllToks
<1>1. PICK i \in DOMAIN s : t = s[i]
  BY <1>0 DEF ToSet
<1>2. t \in PpToks
  BY <1>1, SourcesAssumption
<1>3. /\ t.kind = "str" => t.type \in CharTypes
      /\ t.kind = "id"  => /\ t.chars # <<>>
                           /\ \A c \in ToSet(t.chars) : c.how = "plain" /\ c.code \in 1..127
  BY <1>1, SourcesAssumption
<1> DEFINE stored == StoredChars(t.chars)
           str == CASE t.kind = "str" -> ConvertString(t.type, stored)
                    [] t.kind = "id"  -> stored
                    [] OTHER          -> <<>>
<1>4. Convert(t) = [kind |-> t.kind, type |-> t.type, str |-> str]
  BY Zenon DEF Convert, Token
<1>5. Convert(t).str = str
  <2> HIDE DEF str
  <2> QED
    BY <1>4
<1>6. t.kind \in {"id", "str", "kw"} /\ t.type \in CharTypes \cup {"none"} /\ t.chars \in Seq(Char)
  BY <1>2 DEF PpToks
<1>7. stored \in Seq(StoredBytes)
  BY <1>6, StoredSeqs
<1>8. IsSeq(str)
  <2> HIDE DEF stored
  <2>1. CASE t.kind = "str"
    <3>1. str = ConvertString(t.type, stored)
      BY <2>1, Zenon
    <3> QED
      BY <1>3, <1>7, <2>1, <3>1, ConvertStringIsSeq
  <2>2. CASE t.kind = "id"
    <3>1. str = stored
      BY <2>2, Zenon
    <3> QED
      BY <1>7, <3>1, SeqIsSeq
  <2>3. CASE t.kind # "str" /\ t.kind # "id"
    <3>1. str = <<>> /\ <<>> \in Seq({})
      BY <2>3, EmptySeq, Zenon
    <3> QED
      BY <3>1, SeqIsSeq
  <2> QED
    BY <2>1, <2>2, <2>3
<1>9. Convert(t).str \in Seq(Byte)
  <2>1. ToSet(Convert(t).str) \subseteq Byte
    BY DEF Byte
  <2>2. Convert(t).str \in Seq(ToSet(Convert(t).str))
    <3> HIDE DEF str
    <3> QED
      BY <1>5, <1>8 DEF IsSeq
  <2> QED
    BY <2>1, <2>2, SeqMonotonic
<1>10. t.kind = "id" => stored # <<>>
  <2> SUFFICES ASSUME t.kind = "id" PROVE stored # <<>>
    OBVIOUS
  <2> DEFINE ss == [j \in DOMAIN t.chars |-> StoredChar(t.chars[j])]
  <2>1. ss \in Seq(Seq(StoredBytes)) /\ stored = FlattenSeq(ss)
    BY <1>6, StoredSeqs DEF StoredChars
  <2>2. Len(ss) = Len(t.chars) /\ Len(t.chars) \in Nat /\ Len(t.chars) >= 1
    BY <1>3, <1>6
  <2> DEFINE k == Len(ss)
  <2>3. ss[k] # <<>> /\ k \in 1..Len(ss)
    <3> DEFINE c == t.chars[k]
    <3>1. k \in DOMAIN t.chars /\ ss[k] = StoredChar(c)
      BY <1>6, <2>2
    <3>2. c.how = "plain" /\ c.code < 128
      <4>1. c \in ToSet(t.chars)
        BY <3>1 DEF ToSet
      <4>2. c.how = "plain" /\ c.code \in 1..127
        BY <1>3, <4>1
      <4> HIDE DEF c
      <4> QED
        BY <4>2
    <3>3. StoredChar(c) = <<c.code>>
      <4> HIDE DEF c
      <4> QED
        BY <3>2, Zenon DEF StoredChar
    <3>4. ss[k] = <<c.code>> /\ <<c.code>> # <<>>
      BY <3>1, <3>3
    <3>5. k \in 1..Len(ss)
      BY <2>2
    <3> QED
      BY <3>4, <3>5
  <2> HIDE DEF ss
  <2>4. ss # <<>> /\ FlattenSeq(ss) = Flat(ss, k)
    <3>1. k # 0 /\ ss # <<>>
      BY <2>1, <2>2
    <3> QED
      BY <3>1, FlattenIs
  <2>5. CASE k = 1
    BY <2>1, <2>3, <2>4, <2>5, FlatSteps
  <2>6. CASE k # 1
    <3>1. k \in 2..k /\ k - 1 \in 1..k
      <4>1. k \in Nat /\ k >= 1
        BY <2>2
      <4> HIDE DEF k
      <4> QED
        BY <2>6, <4>1
    <3>2. /\ Flat(ss, k) = Cat(Flat(ss, k - 1), ss[k])
          /\ Flat(ss, k - 1) \in Seq(StoredBytes) /\ ss[k] \in Seq(StoredBytes)
      BY <2>1, <2>3, <2>4, <3>1, FlatSteps
    <3>3. Cat(Flat(ss, k - 1), ss[k]) # <<>>
      BY <2>3, <3>2 DEF Cat
    <3> QED
      BY <2>1, <2>4, <3>2, <3>3
  <2> QED
    BY <2>5, <2>6
<1>11. t.kind = "id" => Convert(t).str # <<>>
  <2>1. t.kind = "id" => str = stored
    BY Zenon
  <2> HIDE DEF str, stored
  <2> QED
    BY <1>5, <1>10, <2>1
<1> QED
  BY <1>4, <1>5, <1>6, <1>9, <1>11

-----------------------------------------------------------------------------
(* Runs. *)

\* The recursion over the tokens has a solution.
LEMMA RunsSteps ==
  ASSUME NEW toks, Len(toks) \in Nat
  PROVE  /\ RunsOf(toks, 0) = <<>>
         /\ \A i \in 1..Len(toks) : RunsOf(toks, i) = NextRuns(RunsOf(toks, i - 1), toks, i)
<1> DEFINE Solves(n, f) == f = [i \in 0..n |-> IF i = 0 THEN <<>> ELSE NextRuns(f[i - 1], toks, i)]
           Solvable == {n \in 0..Len(toks) : \E f : Solves(n, f)}
           upto == CHOOSE f : Solves(Len(toks), f)
<1>1. 0 \in Solvable
  <2>1. Solves(0, [i \in 0..0 |-> <<>>])
    OBVIOUS
  <2> HIDE DEF Solves
  <2>2. \E f : Solves(0, f)
    BY <2>1
  <2> QED
    BY <2>2
<1>2. ASSUME NEW n \in 1..Len(toks), n - 1 \in Solvable PROVE n \in Solvable
  <2>1. PICK f : Solves(n - 1, f)
    BY <1>2
  <2> DEFINE g == [i \in 0..n |-> IF i = n THEN NextRuns(f[n - 1], toks, n) ELSE f[i]]
  <2>2. ASSUME NEW i \in 0..n
        PROVE  g[i] = IF i = 0 THEN <<>> ELSE NextRuns(g[i - 1], toks, i)
    BY <2>1
  <2>3. Solves(n, g)
    BY <2>2
  <2> HIDE DEF g, Solves
  <2>4. \E h : Solves(n, h)
    BY <2>3
  <2> QED
    BY <2>4
<1>3. Len(toks) \in Solvable
  <2> HIDE DEF Solvable
  <2>1. \A i \in 0..Len(toks) : i \in Solvable
    BY <1>1, <1>2, IndexInduction, Zenon
  <2> QED
    BY <2>1
<1>4. Solves(Len(toks), upto)
  <2>1. \E f : Solves(Len(toks), f)
    BY <1>3
  <2> HIDE DEF Solves
  <2> QED
    BY <2>1
<1>5. \A k : RunsOf(toks, k) = upto[k]
  BY DEF RunsOf
<1>6. /\ upto[0] = <<>>
      /\ \A i \in 1..Len(toks) : upto[i] = NextRuns(upto[i - 1], toks, i)
  <2> HIDE DEF upto
  <2> QED
    BY <1>4
<1> HIDE DEF upto, Solves, Solvable
<1> QED
  BY <1>5, <1>6

\* Runs of tokens in T, none of them empty.
SomeOf(T) == Seq(T) \ {<<>>}

\* What is appended leaves the first element where it is.
LEMMA AppendKeepsFirst ==
  ASSUME NEW T, NEW s \in SomeOf(T), NEW x \in T
  PROVE  Append(s, x) \in SomeOf(T) /\ Append(s, x)[1] = s[1]
<1>1. s \in Seq(T) /\ s # <<>>
  BY DEF SomeOf
<1>2. Append(s, x) \in Seq(T) /\ Len(Append(s, x)) = Len(s) + 1 /\ Len(s) \in Nat /\ Len(s) # 0
  BY <1>1
<1>3. Append(s, x)[1] = s[1]
  BY <1>1, <1>2
<1>4. Append(s, x) # <<>>
  BY <1>2
<1> QED
  BY <1>2, <1>3, <1>4 DEF SomeOf

\* A token is added to the last run or is a run of its own.
LEMMA NextRunsIs ==
  ASSUME NEW T, NEW toks \in Seq(T), NEW runs \in Seq(SomeOf(T)), NEW i \in 1..Len(toks),
         Continues(toks, i) => runs # <<>>
  PROVE  /\ NextRuns(runs, toks, i) \in Seq(SomeOf(T))
         /\ Continues(toks, i) =>
              /\ Len(NextRuns(runs, toks, i)) = Len(runs)
              /\ \A j \in 1..(Len(runs) - 1) : NextRuns(runs, toks, i)[j] = runs[j]
              /\ NextRuns(runs, toks, i)[Len(runs)] = Append(runs[Len(runs)], toks[i])
              /\ NextRuns(runs, toks, i)[Len(runs)][1] = runs[Len(runs)][1]
         /\ ~Continues(toks, i) =>
              /\ Len(NextRuns(runs, toks, i)) = Len(runs) + 1
              /\ \A j \in 1..Len(runs) : NextRuns(runs, toks, i)[j] = runs[j]
              /\ NextRuns(runs, toks, i)[Len(runs) + 1] = <<toks[i]>>
<1> DEFINE n == Len(runs)
           U == SomeOf(T)
           next == NextRuns(runs, toks, i)
<1>0. toks[i] \in T /\ n \in Nat /\ DOMAIN runs = 1..n /\ \A j \in 1..n : runs[j] \in U
  OBVIOUS
<1>1. CASE Continues(toks, i)
  <2>1. n \in 1..n
    BY <1>0, <1>1
  <2> DEFINE last == Append(runs[n], toks[i])
  <2>2. last \in U /\ last[1] = runs[n][1]
    <3>1. runs[n] \in U
      BY <1>0, <2>1
    <3> QED
      BY <1>0, <3>1, AppendKeepsFirst
  <2>3. next = [runs EXCEPT ![n] = last]
    BY <1>1, Zenon DEF NextRuns
  <2> HIDE DEF last, U, next
  <2>4. /\ next \in Seq(U) /\ Len(next) = n
        /\ \A j \in 1..n : next[j] = IF j = n THEN last ELSE runs[j]
    BY <2>1, <2>2, <2>3, ExceptSeq DEF U
  <2>5. \A j \in 1..(n - 1) : next[j] = runs[j]
    <3> HIDE DEF n
    <3> QED
      BY <1>0, <2>4
  <2>6. next[n] = last
    BY <2>1, <2>4
  <2> QED
    BY <1>1, <2>2, <2>4, <2>5, <2>6 DEF last, U, next
<1>2. CASE ~Continues(toks, i)
  <2> DEFINE one == <<toks[i]>>
  <2>1. one \in U
    BY <1>0 DEF SomeOf
  <2>2. next = Append(runs, one)
    BY <1>2, Zenon DEF NextRuns
  <2> HIDE DEF one, U, next
  <2>3. /\ next \in Seq(U) /\ Len(next) = n + 1
        /\ \A j \in 1..n : next[j] = runs[j]
        /\ next[n + 1] = one
    BY <2>1, <2>2, AppendProperties DEF U
  <2> QED
    BY <1>2, <2>3 DEF one, U, next
<1> QED
  BY <1>1, <1>2

\* The same of a run of its own, which other runs stay in front of.
LEMMA NextRunsApart ==
  ASSUME NEW T, NEW toks \in Seq(T), NEW runs \in Seq(SomeOf(T)), NEW i \in 1..Len(toks),
         ~Continues(toks, i)
  PROVE  /\ Len(NextRuns(runs, toks, i)) = Len(runs) + 1
         /\ \A j \in 1..Len(runs) : NextRuns(runs, toks, i)[j] = runs[j]
  BY NextRunsIs

\* The last run is of the kind of the last token.
RunsFit(T, toks, k) ==
  LET runs == RunsOf(toks, k) IN
  /\ runs \in Seq(SomeOf(T))
  /\ k = 0 <=> runs = <<>>
  /\ k > 0 => runs[Len(runs)][1].kind = toks[k].kind

\* It holds of any number of tokens.
LEMMA RunsShape ==
  ASSUME NEW T, NEW toks \in Seq(T)
  PROVE  \A k \in 0..Len(toks) : RunsFit(T, toks, k)
<1> DEFINE Fit == {k \in 0..Len(toks) : RunsFit(T, toks, k)}
<1>0. Len(toks) \in Nat
  OBVIOUS
<1>1. 0 \in Fit
  <2>1. RunsOf(toks, 0) = <<>>
    BY <1>0, RunsSteps
  <2>2. RunsOf(toks, 0) \in Seq(SomeOf(T))
    BY <2>1, EmptySeq
  <2>3. RunsFit(T, toks, 0)
    <3>1. ~(0 > 0)
      OBVIOUS
    <3> QED
      BY <2>1, <2>2, <3>1, Zenon DEF RunsFit
  <2> QED
    BY <1>0, <2>3
<1>2. ASSUME NEW k \in 1..Len(toks), k - 1 \in Fit PROVE k \in Fit
  <2> DEFINE old == RunsOf(toks, k - 1)
             new == RunsOf(toks, k)
  <2>1. new = NextRuns(old, toks, k)
    BY <1>0, RunsSteps
  <2>2. RunsFit(T, toks, k - 1)
    BY <1>2
  <2>3. /\ old \in Seq(SomeOf(T))
        /\ k - 1 = 0 <=> old = <<>>
        /\ k - 1 > 0 => old[Len(old)][1].kind = toks[k - 1].kind
    BY <2>2 DEF RunsFit
  <2> HIDE DEF old
  <2>4. Continues(toks, k) => old # <<>> /\ old[Len(old)][1].kind = toks[k].kind
    BY <2>3 DEF Continues
  <2>5. new \in Seq(SomeOf(T)) /\ new # <<>> /\ new[Len(new)][1].kind = toks[k].kind
    <3> HIDE DEF new
    <3>1. CASE Continues(toks, k)
      <4>1. /\ new \in Seq(SomeOf(T)) /\ Len(new) = Len(old)
            /\ new[Len(old)][1] = old[Len(old)][1]
        BY <2>1, <2>3, <2>4, <3>1, NextRunsIs
      <4>2. Len(old) # 0
        BY <2>3, <2>4, <3>1
      <4>3. new # <<>>
        BY <4>1, <4>2
      <4> QED
        BY <2>4, <3>1, <4>1, <4>3
    <3>2. CASE ~Continues(toks, k)
      <4>0. Continues(toks, k) => old # <<>>
        BY <3>2
      <4>1. /\ new \in Seq(SomeOf(T)) /\ Len(new) = Len(old) + 1
            /\ new[Len(old) + 1] = <<toks[k]>>
        BY <2>1, <2>3, <3>2, <4>0, NextRunsIs
      <4>2. Len(old) \in Nat
        BY <2>3
      <4>3. new # <<>>
        BY <4>1, <4>2
      <4> QED
        BY <4>1, <4>3
    <3> QED
      BY <3>1, <3>2
  <2>6. RunsFit(T, toks, k)
    BY <2>5 DEF RunsFit
  <2> QED
    BY <1>0, <2>6
<1>3. \A k \in 0..Len(toks) : k \in Fit
  <2> HIDE DEF Fit
  <2> QED
    BY <1>0, <1>1, <1>2, IndexInduction, Zenon
<1> QED
  BY <1>3

\* The tokens b are of the kinds of those of a behind the k-th, which is no string.
Follows(a, b, k) ==
  /\ k + Len(b) = Len(a)
  /\ \A i \in 1..Len(b) : b[i].kind = a[k + i].kind
  /\ Len(b) > 0 /\ k > 0 => a[k].kind # "str"

\* Their runs follow the runs up to the k-th.
RunsFollow(a, b, k, j) ==
  /\ Len(RunsOf(a, k + j)) = Len(RunsOf(a, k)) + Len(RunsOf(b, j))
  /\ \A i \in 1..Len(RunsOf(a, k)) : RunsOf(a, k + j)[i] = RunsOf(a, k)[i]

LEMMA RunsSplit ==
  ASSUME NEW A, NEW a \in Seq(A), NEW B, NEW b \in Seq(B), NEW k \in Nat, Follows(a, b, k)
  PROVE  \A j \in 0..Len(b) : RunsFollow(a, b, k, j)
<1> DEFINE n == Len(RunsOf(a, k))
           Keeps(r) == \A i \in 1..n : r[i] = RunsOf(a, k)[i]
           Split == {j \in 0..Len(b) : /\ Len(RunsOf(a, k + j)) = n + Len(RunsOf(b, j))
                                       /\ Keeps(RunsOf(a, k + j))}
<1>0. /\ Len(a) \in Nat /\ Len(b) \in Nat /\ k + Len(b) = Len(a)
      /\ \A i \in 1..Len(b) : b[i].kind = a[k + i].kind
      /\ Len(b) > 0 /\ k > 0 => a[k].kind # "str"
  BY DEF Follows
<1>1. RunsOf(a, k) \in Seq(SomeOf(A)) /\ n \in Nat
  <2>1. RunsFit(A, a, k)
    <3>1. k \in 0..Len(a)
      BY <1>0
    <3> QED
      BY <3>1, RunsShape
  <2> QED
    BY <2>1 DEF RunsFit
<1>2. 0 \in Split
  <2>1. k + 0 = k /\ RunsOf(b, 0) = <<>> /\ 0 \in 0..Len(b)
    BY <1>0, RunsSteps
  <2> QED
    BY <1>1, <2>1
<1>3. ASSUME NEW j \in 1..Len(b), j - 1 \in Split PROVE j \in Split
  <2> DEFINE p == k + (j - 1)
             r == RunsOf(a, p)
             q == RunsOf(b, j - 1)
  <2>1. p + 1 \in 1..Len(a) /\ p + 1 = k + j /\ (p + 1) - 1 = p /\ p \in 0..Len(a) /\ j - 1 \in 0..Len(b)
    BY <1>0
  <2>2. RunsOf(a, k + j) = NextRuns(r, a, p + 1) /\ RunsOf(b, j) = NextRuns(q, b, j)
    BY <1>0, <2>1, RunsSteps
  <2>3. /\ r \in Seq(SomeOf(A)) /\ (p = 0 <=> r = <<>>)
        /\ q \in Seq(SomeOf(B)) /\ (j - 1 = 0 <=> q = <<>>)
    <3>1. RunsFit(A, a, p) /\ RunsFit(B, b, j - 1)
      BY <2>1, RunsShape
    <3> QED
      BY <3>1 DEF RunsFit
  <2>4. Len(r) = n + Len(q) /\ Keeps(r)
    BY <1>3
  <2> HIDE DEF r, q
  <2>5. Continues(a, p + 1) <=> Continues(b, j)
    <3>1. a[p + 1].kind = b[j].kind
      BY <1>0, <2>1
    <3>2. CASE j = 1
      <4>1. p = k
        BY <3>2
      <4>2. ~(p + 1 > 1 /\ a[p].kind = "str")
        BY <1>0, <4>1
      <4> QED
        BY <2>1, <3>2, <4>2 DEF Continues
    <3>3. CASE j # 1
      <4>1. j - 1 \in 1..Len(b) /\ k + (j - 1) = p /\ p + 1 > 1 /\ j > 1
        BY <1>0, <3>3
      <4>2. a[p].kind = b[j - 1].kind
        BY <1>0, <4>1
      <4> QED
        BY <2>1, <3>1, <4>1, <4>2 DEF Continues
    <3> QED
      BY <3>2, <3>3
  <2>6. Len(q) \in Nat /\ Len(r) \in Nat
    BY <2>3
  <2>7. CASE Continues(b, j)
    <3>1. q # <<>> /\ Len(q) # 0
      <4>1. j - 1 # 0
        BY <2>7 DEF Continues
      <4> QED
        BY <2>3, <4>1
    <3>2. r # <<>>
      BY <1>1, <2>4, <2>6, <3>1
    <3>3. /\ Len(RunsOf(a, k + j)) = Len(r)
          /\ \A i \in 1..(Len(r) - 1) : RunsOf(a, k + j)[i] = r[i]
      BY <2>1, <2>2, <2>3, <2>5, <2>7, <3>2, NextRunsIs
    <3>4. Len(RunsOf(b, j)) = Len(q)
      BY <2>2, <2>3, <2>7, <3>1, NextRunsIs
    <3>5. \A i \in 1..n : i \in 1..(Len(r) - 1)
      BY <1>1, <2>4, <2>6, <3>1
    <3>6. Keeps(RunsOf(a, k + j))
      BY <2>4, <3>3, <3>5
    <3> QED
      BY <2>4, <3>3, <3>4, <3>6
  <2>8. CASE ~Continues(b, j)
    <3>0. (Continues(a, p + 1) => r # <<>>) /\ (Continues(b, j) => q # <<>>)
      BY <2>5, <2>8
    <3>3. /\ Len(RunsOf(a, k + j)) = Len(r) + 1
          /\ \A i \in 1..Len(r) : RunsOf(a, k + j)[i] = r[i]
      <4>1. ~Continues(a, p + 1)
        BY <2>5, <2>8
      <4>2. /\ Len(NextRuns(r, a, p + 1)) = Len(r) + 1
            /\ \A i \in 1..Len(r) : NextRuns(r, a, p + 1)[i] = r[i]
        <5>1. p + 1 \in 1..Len(a) /\ r \in Seq(SomeOf(A))
          BY <2>1, <2>3
        <5> HIDE DEF p
        <5> QED
          BY <4>1, <5>1, NextRunsApart
      <4> QED
        BY <2>2, <4>2
    <3>4. Len(RunsOf(b, j)) = Len(q) + 1
      BY <2>2, <2>3, <2>8, <3>0, NextRunsIs
    <3>5. \A i \in 1..n : i \in 1..Len(r)
      BY <1>1, <2>4, <2>6
    <3>6. Keeps(RunsOf(a, k + j))
      BY <2>4, <3>3, <3>5
    <3>7. Len(RunsOf(a, k + j)) = n + Len(RunsOf(b, j))
      BY <1>1, <2>4, <2>6, <3>3, <3>4
    <3> QED
      BY <3>6, <3>7
  <2> QED
    BY <2>7, <2>8
<1>4. \A j \in 0..Len(b) : j \in Split
  <2> HIDE DEF Split
  <2> QED
    BY <1>0, <1>2, <1>3, IndexInduction, Zenon
<1> QED
  BY <1>4 DEF RunsFollow

\* The bytes of a run of one token, and of one with one more token.
LEMMA BytesOfOne ==
  ASSUME NEW t \in AllToks
  PROVE  BytesOf(<<t>>) = Convert(t).str
<1> DEFINE s == Convert(t).str
           run == <<t>>
<1>1. s \in Seq(Byte)
  BY ConvertedTok
<1>2. [k \in DOMAIN run |-> Convert(run[k]).str] = <<s>>
  <2>1. DOMAIN run = 1..1 /\ run[1] = t
    OBVIOUS
  <2> HIDE DEF run
  <2> QED
    BY <2>1
<1> HIDE DEF s
<1>3. FlattenSeq(<<s>>) = s
  BY <1>1, FlattenOne
<1> QED
  BY <1>2, <1>3, Zenon DEF BytesOf, s

LEMMA BytesOfAppend ==
  ASSUME NEW run \in SomeOf(AllToks), NEW t \in AllToks
  PROVE  BytesOf(Append(run, t)) = BytesOf(run) \o Convert(t).str
<1> DEFINE s == Convert(t).str
           ss == [k \in DOMAIN run |-> Convert(run[k]).str]
           tt == [k \in DOMAIN Append(run, t) |-> Convert(Append(run, t)[k]).str]
           T == Seq(Byte)
<1>1. run \in Seq(AllToks) /\ run # <<>>
  BY DEF SomeOf
<1>2. s \in T
  BY ConvertedTok
<1>3. ss \in Seq(T) /\ ss # <<>> /\ Len(ss) = Len(run)
  <2>1. \A k \in DOMAIN run : Convert(run[k]).str \in T
    BY <1>1, ConvertedTok
  <2>2. DOMAIN run = 1..Len(run) /\ Len(run) \in Nat /\ Len(run) # 0
    BY <1>1
  <2> HIDE DEF T
  <2> QED
    BY <2>1, <2>2
<1>4. tt = Append(ss, s)
  <2>1. /\ DOMAIN Append(run, t) = 1..(Len(run) + 1) /\ DOMAIN run = 1..Len(run) /\ Len(run) \in Nat
        /\ \A k \in 1..Len(run) : Append(run, t)[k] = run[k]
        /\ Append(run, t)[Len(run) + 1] = t
    BY <1>1
  <2>2. \A k \in 1..(Len(run) + 1) :
          Convert(Append(run, t)[k]).str = IF k = Len(run) + 1 THEN s ELSE ss[k]
    BY <2>1
  <2>3. tt = [k \in 1..(Len(run) + 1) |-> IF k = Len(run) + 1 THEN s ELSE ss[k]]
    BY <2>1, <2>2
  <2> DEFINE m == Len(run)
             uu == Append(ss, s)
  <2>4. m \in Nat /\ Len(ss) = m /\ tt = [k \in 1..(m + 1) |-> IF k = m + 1 THEN s ELSE ss[k]]
    BY <1>3, <2>1, <2>3
  <2> HIDE DEF ss, s, tt, T, m
  <2>5. /\ uu \in Seq(T) /\ Len(uu) = m + 1 /\ \A k \in 1..m : uu[k] = ss[k]
        /\ uu[m + 1] = s
    BY <1>2, <1>3, <2>4, AppendProperties
  <2>6. \A k \in 1..m : ss[k] \in T
    BY <1>3, <2>4
  <2>7. tt \in Seq(T) /\ Len(tt) = m + 1
    BY <1>2, <2>4, <2>6
  <2> HIDE DEF uu
  <2>8. \A k \in 1..(m + 1) : tt[k] = uu[k]
    BY <2>4, <2>5
  <2>9. tt = uu
    BY <2>5, <2>7, <2>8, SeqEqual
  <2> QED
    BY <2>9 DEF uu
<1> HIDE DEF s, ss, tt
<1>5. FlattenSeq(Append(ss, s)) = FlattenSeq(ss) \o s
  BY <1>2, <1>3, FlattenAppend
<1>6. BytesOf(Append(run, t)) = FlattenSeq(tt) /\ BytesOf(run) = FlattenSeq(ss)
  BY Zenon DEF BytesOf, ss, tt
<1> QED
  BY <1>4, <1>5, <1>6, Zenon DEF s

\* The bytes of a run are bytes.
LEMMA BytesOfType ==
  ASSUME NEW run \in SomeOf(AllToks)
  PROVE  BytesOf(run) \in Seq(Byte)
<1> DEFINE ss == [k \in DOMAIN run |-> Convert(run[k]).str]
           T == Seq(Byte)
<1>1. run \in Seq(AllToks)
  BY DEF SomeOf
<1>2. ss \in Seq(T)
  <2>1. \A k \in DOMAIN run : Convert(run[k]).str \in T
    BY <1>1, ConvertedTok
  <2>2. DOMAIN run = 1..Len(run) /\ Len(run) \in Nat
    BY <1>1
  <2> HIDE DEF T
  <2> QED
    BY <2>1, <2>2
<1>3. BytesOf(run) = FlattenSeq(ss)
  BY Zenon DEF BytesOf
<1> HIDE DEF ss
<1> QED
  BY <1>2, <1>3, FlattenType

-----------------------------------------------------------------------------
(* What the tokens that are seen show. *)

EndsInStr(runs) == runs # <<>> /\ runs[Len(runs)][1].kind = "str"

\* A token is what the i-th run is to be seen as, or, while strings are joined in the
\* call, stands for what is in its buffer; what is behind the runs is the end.
Shows(t, i, runs, c) ==
  IF i > Len(runs) THEN t.kind = "eof"
  ELSE IF c.in = "join" /\ i = Len(runs)
       THEN t.kind = "str" /\ t.type = runs[i][1].type /\ c.buf = BytesOf(runs[i])
       ELSE ShowsRun(t, runs, i)

\* The runs so far are seen, and nothing else while there are tokens left; a run of
\* strings with tokens left is being joined.
ShownBy(seen, runs, left, c) ==
  /\ Len(runs) <= Len(seen)
  /\ left # <<>> \/ c.in = "join" => Len(seen) = Len(runs)
  /\ \A i \in DOMAIN seen : Shows(seen[i], i, runs, c)
  /\ left # <<>> /\ c.in # "join" => ~EndsInStr(runs)
  /\ c.in = "join" => EndsInStr(runs)

\* A token goes on showing its run when runs are added, unless it is a string that
\* they put an identifier behind.
LEMMA ShowsStays ==
  ASSUME NEW t, NEW runs, NEW more, NEW i, more[i] = runs[i],
         i > 1 => more[i - 1][1] = runs[i - 1][1],
         runs[i][1].kind = "str" =>
           /\ BeforeId(runs, i) <=> BeforeId(more, i)
           /\ BeforeId(runs, i) => more[i + 1] = runs[i + 1],
         ShowsRun(t, runs, i)
  PROVE  ShowsRun(t, more, i)
<1>1. AfterStr(runs, i) <=> AfterStr(more, i)
  BY DEF AfterStr
<1>2. /\ t.kind = runs[i][1].kind /\ t.type = runs[i][1].type
      /\ t.kind = "id"  => t.str = IF AfterStr(runs, i) THEN Lost ELSE BytesOf(runs[i])
      /\ t.kind = "str" => t.str = StrHolds(runs, i)
  BY DEF ShowsRun
<1>3. t.kind = "str" => StrHolds(runs, i) = StrHolds(more, i)
  <2>1. t.kind = "str" => /\ BeforeId(runs, i) <=> BeforeId(more, i)
                          /\ BeforeId(runs, i) => more[i + 1] = runs[i + 1]
    BY <1>2
  <2> HIDE DEF BeforeId
  <2> QED
    BY <2>1, Zenon DEF StrHolds
<1> HIDE DEF AfterStr
<1> QED
  BY <1>1, <1>2, <1>3 DEF ShowsRun

\* A token that is lexed shows the run that it begins.
LEMMA ShownByLex ==
  ASSUME NEW seen \in Seq(CTok), NEW runs \in Seq(SomeOf(AllToks)), NEW more,
         NEW left, NEW later, NEW c, NEW d, NEW tok \in AllToks, NEW t \in CTok,
         ShownBy(seen, runs, left, c), left # <<>>, c.in # "join",
         Len(more) = Len(runs) + 1, \A j \in 1..Len(runs) : more[j] = runs[j],
         more[Len(runs) + 1] = <<tok>>,
         t.kind = tok.kind, t.type = tok.type, tok.kind = "id" => t.str = Convert(tok).str,
         IF tok.kind = "str" THEN d.in = "join" /\ d.buf = Convert(tok).str ELSE d.in # "join"
  PROVE  ShownBy(Append(seen, t), more, later, d)
<1> DEFINE n == Len(runs)
           new == Append(seen, t)
<1>1. /\ n \in Nat /\ Len(seen) = n /\ ~EndsInStr(runs)
      /\ \A i \in 1..n : Shows(seen[i], i, runs, c)
  <2>1. Len(seen) = n /\ DOMAIN seen = 1..n
    BY DEF ShownBy
  <2> QED
    BY <2>1 DEF ShownBy
<1>2. Len(new) = n + 1 /\ DOMAIN new = 1..(n + 1) /\ new[n + 1] = t /\ \A i \in 1..n : new[i] = seen[i]
  BY <1>1
<1> HIDE DEF new
<1>3. more # <<>> /\ more[n + 1][1] = tok /\ BytesOf(more[n + 1]) = Convert(tok).str
  BY <1>1, BytesOfOne
<1>4. ASSUME NEW i \in 1..n PROVE Shows(new[i], i, more, d)
  <2>1. ShowsRun(seen[i], runs, i)
    BY <1>1 DEF Shows
  <2>2. more[i] = runs[i] /\ (i > 1 => more[i - 1][1] = runs[i - 1][1])
    BY <1>1
  <2>3. runs[i][1].kind = "str" =>
          /\ BeforeId(runs, i) <=> BeforeId(more, i)
          /\ BeforeId(runs, i) => more[i + 1] = runs[i + 1]
    <3>1. i = n => runs[i][1].kind # "str"
      BY <1>1 DEF EndsInStr
    <3>2. i < n => more[i + 1] = runs[i + 1]
      BY <1>1
    <3> QED
      BY <1>1, <3>1, <3>2 DEF BeforeId
  <2>4. ShowsRun(seen[i], more, i)
    BY <2>1, <2>2, <2>3, ShowsStays
  <2> QED
    BY <1>1, <1>2, <2>4 DEF Shows
<1>5. Shows(new[n + 1], n + 1, more, d)
  <2>1. CASE tok.kind = "str"
    BY <1>1, <1>2, <1>3, <2>1 DEF Shows
  <2>2. CASE tok.kind # "str"
    <3>1. ~AfterStr(more, n + 1)
      <4>1. n > 0 => runs # <<>> /\ more[n] = runs[n]
        BY <1>1
      <4> QED
        BY <1>1, <4>1 DEF AfterStr, EndsInStr
    <3>2. ShowsRun(t, more, n + 1)
      BY <1>3, <2>2, <3>1 DEF ShowsRun
    <3> QED
      BY <1>1, <1>2, <2>2, <3>2 DEF Shows
  <2> QED
    BY <2>1, <2>2
<1>6. \A i \in DOMAIN new : Shows(new[i], i, more, d)
  BY <1>1, <1>2, <1>4, <1>5
<1>7. EndsInStr(more) <=> tok.kind = "str"
  BY <1>1, <1>3 DEF EndsInStr
<1>8. ShownBy(new, more, later, d)
  BY <1>1, <1>2, <1>6, <1>7 DEF ShownBy
<1> QED
  BY <1>8 DEF new

\* A string that is joined is in the buffer behind the run that it goes on.
LEMMA ShownByJoin ==
  ASSUME NEW seen \in Seq(CTok), NEW runs \in Seq(SomeOf(AllToks)), NEW more,
         NEW left, NEW later, NEW c, NEW d, NEW tok \in AllToks,
         ShownBy(seen, runs, left, c), c.in = "join", d.in = "join",
         Len(more) = Len(runs), \A j \in 1..(Len(runs) - 1) : more[j] = runs[j],
         more[Len(runs)] = Append(runs[Len(runs)], tok),
         d.buf = Cat(c.buf, Convert(tok).str)
  PROVE  ShownBy(seen, more, later, d)
<1> DEFINE n == Len(runs)
<1>1. /\ n \in Nat /\ Len(seen) = n /\ EndsInStr(runs) /\ DOMAIN seen = 1..n
      /\ \A i \in 1..n : Shows(seen[i], i, runs, c)
  <2>1. Len(seen) = n /\ DOMAIN seen = 1..n
    BY DEF ShownBy
  <2> QED
    BY <2>1 DEF ShownBy
<1>2. runs # <<>> /\ n \in 1..n /\ runs[n] \in SomeOf(AllToks) /\ runs[n][1].kind = "str"
  BY <1>1 DEF EndsInStr
<1>3. more[n][1] = runs[n][1] /\ BytesOf(more[n]) = BytesOf(runs[n]) \o Convert(tok).str
  <2> DEFINE last == runs[n]
  <2>1. last \in SomeOf(AllToks) /\ more[n] = Append(last, tok)
    BY <1>2
  <2> HIDE DEF last
  <2>2. /\ Append(last, tok)[1] = last[1]
        /\ BytesOf(Append(last, tok)) = BytesOf(last) \o Convert(tok).str
    BY <2>1, AppendKeepsFirst, BytesOfAppend
  <2> QED
    BY <2>1, <2>2 DEF last
<1>4. ASSUME NEW i \in 1..(n - 1) PROVE Shows(seen[i], i, more, d)
  <2>1. ShowsRun(seen[i], runs, i) /\ i \in 1..n /\ i # n
    BY <1>1 DEF Shows
  <2>2. more[i] = runs[i] /\ (i > 1 => more[i - 1][1] = runs[i - 1][1])
    BY <1>1, SMTT(20)
  <2>3. /\ BeforeId(runs, i) <=> BeforeId(more, i)
        /\ BeforeId(runs, i) => more[i + 1] = runs[i + 1]
    <3>1. CASE i + 1 = n
      BY <1>2, <1>3, <3>1 DEF BeforeId
    <3>2. CASE i + 1 # n
      <4>1. i + 1 \in 1..(n - 1)
        BY <1>1, <3>2
      <4>2. more[i + 1] = runs[i + 1]
        BY <4>1
      <4> QED
        BY <4>2 DEF BeforeId
    <3> QED
      BY <3>1, <3>2
  <2>4. ShowsRun(seen[i], more, i)
    BY <2>1, <2>2, <2>3, ShowsStays
  <2> QED
    BY <1>1, <2>1, <2>4 DEF Shows
<1>5. Shows(seen[n], n, more, d)
  <2>1. seen[n].kind = "str" /\ seen[n].type = runs[n][1].type /\ c.buf = BytesOf(runs[n])
    BY <1>1, <1>2 DEF Shows
  <2> QED
    BY <1>1, <1>3, <2>1 DEF Shows, Cat
<1>6. \A i \in DOMAIN seen : Shows(seen[i], i, more, d)
  BY <1>1, <1>4, <1>5
<1>7. EndsInStr(more)
  <2>1. more # <<>>
    BY <1>1, <1>2
  <2> QED
    BY <1>2, <1>3, <2>1 DEF EndsInStr
<1> QED
  BY <1>1, <1>6, <1>7 DEF ShownBy

\* The end that is lexed is seen behind the runs.
LEMMA ShownByLexEof ==
  ASSUME NEW seen \in Seq(CTok), NEW runs \in Seq(SomeOf(AllToks)),
         NEW left, NEW c, NEW d, NEW t \in CTok,
         ShownBy(seen, runs, left, c), c.in # "join", d.in # "join", t.kind = "eof"
  PROVE  ShownBy(Append(seen, t), runs, <<>>, d)
<1> DEFINE n == Len(seen)
           new == Append(seen, t)
<1>1. /\ n \in Nat /\ Len(runs) \in Nat /\ Len(runs) <= n /\ DOMAIN seen = 1..n
      /\ \A i \in 1..n : Shows(seen[i], i, runs, c)
  BY DEF ShownBy
<1>2. Len(new) = n + 1 /\ DOMAIN new = 1..(n + 1) /\ new[n + 1] = t /\ \A i \in 1..n : new[i] = seen[i]
  BY <1>1
<1> HIDE DEF new, n
<1>3. ASSUME NEW i \in 1..(n + 1) PROVE Shows(new[i], i, runs, d)
  <2>1. CASE i = n + 1
    BY <1>1, <1>2, <2>1 DEF Shows
  <2>2. CASE i # n + 1
    <3>1. i \in 1..n /\ Shows(seen[i], i, runs, c) /\ new[i] = seen[i]
      BY <1>1, <1>2, <2>2
    <3> QED
      BY <3>1 DEF Shows
  <2> QED
    BY <2>1, <2>2
<1>4. \A i \in DOMAIN new : Shows(new[i], i, runs, d)
  BY <1>2, <1>3
<1>5. ShownBy(new, runs, <<>>, d)
  BY <1>1, <1>2, <1>4 DEF ShownBy
<1> QED
  BY <1>5 DEF new

\* What is in the buffer at the end of a string is its bytes, and, if an identifier ends
\* it, more.
LEMMA EndedIs ==
  ASSUME NEW bytes \in Seq(Byte), NEW tok \in CTok, tok.str \in Seq(Byte),
         tok.kind = "id" => tok.str # <<>>
  PROVE  /\ Ended(bytes, tok) \in Seq(Byte)
         /\ Ended(bytes, tok) = <<>> <=> bytes = <<>> /\ tok.kind # "id"
<1>1. CASE tok.kind # "id"
  BY <1>1 DEF Ended
<1>2. CASE tok.kind = "id"
  <2> DEFINE one == <<Nul>>
             tail == Tail(tok.str)
  <2>1. one \in Seq(Byte) /\ one # <<>>
    BY DEF Byte
  <2>2. tail \in Seq(Byte)
    BY <1>2, HeadTailProperties
  <2>3. Ended(bytes, tok) = bytes \o one \o tail
    BY <1>2 DEF Ended
  <2> HIDE DEF one, tail
  <2>4. bytes \o one \in Seq(Byte) /\ bytes \o one # <<>>
    BY <2>1
  <2>5. (bytes \o one) \o tail \in Seq(Byte) /\ (bytes \o one) \o tail # <<>>
    BY <2>2, <2>4
  <2> QED
    BY <1>2, <2>3, <2>5
<1> QED
  BY <1>1, <1>2

\* A token shows its run, or, of one that is being joined, the buffer does.
LEMMA ShowsApart ==
  ASSUME NEW t, NEW runs, Len(runs) \in Nat, NEW i \in 1..Len(runs), NEW c,
         i # Len(runs) \/ c.in # "join"
  PROVE  Shows(t, i, runs, c) <=> ShowsRun(t, runs, i)
  BY DEF Shows

LEMMA ShowsJoining ==
  ASSUME NEW t, NEW runs, Len(runs) \in Nat, NEW c, c.in = "join", NEW i \in 1..Len(runs), i = Len(runs),
         Shows(t, i, runs, c)
  PROVE  t.kind = "str" /\ t.type = runs[i][1].type /\ c.buf = BytesOf(runs[i])
  BY DEF Shows

\* The last string, and what is listed behind it.
Closed(seen, new, buf, t) ==
  /\ Len(new) = Len(seen) + 1
  /\ \A i \in 1..(Len(seen) - 1) : new[i] = seen[i]
  /\ new[Len(seen)].kind = seen[Len(seen)].kind /\ new[Len(seen)].type = seen[Len(seen)].type
  /\ new[Len(seen)].str = IF buf = <<>> THEN Lost ELSE buf
  /\ new[Len(seen) + 1] = t

\* The string, with what is in the buffer, shows its run, whatever token ends it.
LEMMA ShowsClosed ==
  ASSUME NEW seen \in Seq(CTok), NEW runs \in Seq(SomeOf(AllToks)), NEW more,
         NEW left, NEW c, NEW d, NEW tok \in CTok, tok.str \in Seq(Byte),
         tok.kind = "id" => tok.str # <<>>,
         NEW new \in Seq(CTok), NEW t, Closed(seen, new, Ended(c.buf, tok), t),
         ShownBy(seen, runs, left, c), c.in = "join", d.in # "join",
         Len(more) \in Nat, Len(more) >= Len(runs), \A j \in 1..Len(runs) : more[j] = runs[j],
         BeforeId(more, Len(runs)) <=> tok.kind = "id",
         tok.kind = "id" => BytesOf(more[Len(runs) + 1]) = tok.str
  PROVE  \A i \in 1..Len(runs) : Shows(new[i], i, more, d)
<1> DEFINE n == Len(runs)
           buf == Ended(c.buf, tok)
<1>1. /\ n \in Nat /\ Len(seen) = n /\ EndsInStr(runs) /\ DOMAIN seen = 1..n
      /\ \A i \in 1..n : Shows(seen[i], i, runs, c)
  <2>1. Len(seen) = n /\ DOMAIN seen = 1..n
    BY DEF ShownBy
  <2> QED
    BY <2>1 DEF ShownBy
<1>2. runs # <<>> /\ n \in 1..n /\ runs[n] \in SomeOf(AllToks) /\ runs[n][1].kind = "str"
  BY <1>1 DEF EndsInStr
<1>3. /\ Len(new) = n + 1 /\ \A i \in 1..(n - 1) : new[i] = seen[i]
      /\ new[n].kind = seen[n].kind /\ new[n].type = seen[n].type
      /\ new[n].str = IF buf = <<>> THEN Lost ELSE buf
  BY <1>1 DEF Closed
<1>buf. buf = Ended(c.buf, tok)
  OBVIOUS
<1> HIDE DEF buf
<1>4. ASSUME NEW i \in 1..(n - 1) PROVE Shows(new[i], i, more, d)
  <2>1. ShowsRun(seen[i], runs, i) /\ i \in 1..n /\ i # n
    <3>1. i \in 1..n /\ i # n
      <4>1. n \in Nat
        BY <1>1
      <4> HIDE DEF n
      <4> QED
        BY <4>1
    <3>2. Shows(seen[i], i, runs, c)
      BY <1>1, <3>1, Zenon
    <3> QED
      BY <1>1, <3>1, <3>2, ShowsApart
  <2>2. more[i] = runs[i] /\ (i > 1 => more[i - 1][1] = runs[i - 1][1])
    BY <1>1
  <2>3. /\ BeforeId(runs, i) <=> BeforeId(more, i)
        /\ BeforeId(runs, i) => more[i + 1] = runs[i + 1]
    <3>1. more[i + 1] = runs[i + 1] /\ i < n /\ i < Len(more)
      BY <1>1
    <3> QED
      BY <3>1 DEF BeforeId
  <2>4. ShowsRun(seen[i], more, i)
    BY <2>1, <2>2, <2>3, ShowsStays
  <2> QED
    <3>1. new[i] = seen[i] /\ i \in 1..Len(more) /\ Len(more) \in Nat
      BY <1>1, <1>3
    <3> QED
      BY <2>4, <3>1, ShowsApart
<1>5. Shows(new[n], n, more, d)
  <2> DEFINE bytes == BytesOf(runs[n])
  <2>1. seen[n].kind = "str" /\ seen[n].type = runs[n][1].type /\ c.buf = bytes
    <3>1. Shows(seen[n], n, runs, c)
      BY <1>1, <1>2
    <3>2. Len(runs) \in Nat /\ n \in 1..Len(runs) /\ n = Len(runs)
      BY <1>2
    <3> HIDE DEF n
    <3> QED
      BY <3>1, <3>2, ShowsJoining
  <2>2. bytes \in Seq(Byte)
    BY <1>2, BytesOfType
  <2>3. buf = <<>> <=> bytes = <<>> /\ tok.kind # "id"
    <3> HIDE DEF bytes
    <3> QED
      BY <1>buf, <2>1, <2>2, EndedIs
  <2>4. more[n] = runs[n] /\ bytes = BytesOf(more[n])
    BY <1>2
  <2> HIDE DEF bytes
  <2>5. new[n].str = StrHolds(more, n)
    <3>1. BeforeId(more, n) <=> tok.kind = "id"
      OBVIOUS
    <3>2. tok.kind = "id" => BytesOf(more[n + 1]) = tok.str
      OBVIOUS
    <3>3. buf = IF tok.kind = "id" THEN bytes \o <<Nul>> \o Tail(tok.str) ELSE bytes
      BY <1>buf, <2>1 DEF Ended
    <3> HIDE DEF n
    <3> QED
      BY <1>3, <2>3, <2>4, <3>1, <3>2, <3>3 DEF StrHolds
  <2>6. new[n].kind = "str" /\ new[n].type = more[n][1].type /\ more[n][1].kind = "str"
    BY <1>2, <1>3, <2>1, <2>4
  <2>7. ShowsRun(new[n], more, n)
    BY <2>4, <2>5, <2>6 DEF ShowsRun
  <2> QED
    <3>1. n \in 1..Len(more) /\ Len(more) \in Nat
      BY <1>1, <1>2
    <3> QED
      BY <2>7, <3>1, ShowsApart
<1> QED
  BY <1>1, <1>4, <1>5

\* A token that ends a string shows a run of its own.
LEMMA ShownByEnd ==
  ASSUME NEW seen \in Seq(CTok), NEW runs \in Seq(SomeOf(AllToks)), NEW more,
         NEW left, NEW later, NEW c, NEW d, NEW tok \in AllToks, tok.kind # "str",
         NEW new \in Seq(CTok), NEW t, Closed(seen, new, Ended(c.buf, Convert(tok)), t),
         ShownBy(seen, runs, left, c), c.in = "join", d.in # "join",
         Len(more) = Len(runs) + 1, \A j \in 1..Len(runs) : more[j] = runs[j],
         more[Len(runs) + 1] = <<tok>>,
         t.kind = tok.kind, t.type = tok.type, tok.kind = "id" => t.str = Lost
  PROVE  ShownBy(new, more, later, d)
<1> DEFINE n == Len(runs)
<1>1. /\ n \in Nat /\ n > 0 /\ Len(seen) = n /\ EndsInStr(runs)
      /\ Len(new) = n + 1 /\ new[n + 1] = t
  <2>1. Len(seen) = n /\ EndsInStr(runs)
    BY DEF ShownBy
  <2> QED
    BY <2>1 DEF EndsInStr, Closed
<1>2. more[n + 1][1] = tok /\ more[n] = runs[n] /\ more[n][1].kind = "str"
  BY <1>1 DEF EndsInStr
<1>3. \A i \in 1..n : Shows(new[i], i, more, d)
  <2>1. /\ Convert(tok) \in CTok /\ Convert(tok).str \in Seq(Byte) /\ Convert(tok).kind = tok.kind
        /\ tok.kind = "id" => Convert(tok).str # <<>>
    BY ConvertedTok DEF CTok
  <2>2. /\ BeforeId(more, n) <=> Convert(tok).kind = "id"
        /\ BytesOf(more[n + 1]) = Convert(tok).str
    BY <1>1, <1>2, <2>1, BytesOfOne DEF BeforeId
  <2>3. Len(more) \in Nat /\ Len(more) >= n
    BY <1>1
  <2> QED
    BY <2>1, <2>2, <2>3, ShowsClosed
<1>4. Shows(new[n + 1], n + 1, more, d)
  <2>1. AfterStr(more, n + 1)
    BY <1>1, <1>2 DEF AfterStr
  <2>2. ShowsRun(new[n + 1], more, n + 1)
    BY <1>1, <1>2, <2>1 DEF ShowsRun
  <2> QED
    BY <1>1, <2>2 DEF Shows
<1>5. \A i \in DOMAIN new : Shows(new[i], i, more, d)
  <2>1. DOMAIN new = 1..(n + 1)
    BY <1>1
  <2> QED
    BY <1>1, <1>3, <1>4, <2>1
<1>6. ~EndsInStr(more)
  BY <1>1, <1>2 DEF EndsInStr
<1> QED
  BY <1>1, <1>5, <1>6 DEF ShownBy

\* So is the end, when it ends a string, seen behind the runs.
LEMMA ShownByEndEof ==
  ASSUME NEW seen \in Seq(CTok), NEW runs \in Seq(SomeOf(AllToks)),
         NEW left, NEW c, NEW d, NEW tok \in CTok, tok.kind = "eof", tok.str = <<>>,
         NEW new \in Seq(CTok), NEW t, Closed(seen, new, Ended(c.buf, tok), t),
         ShownBy(seen, runs, left, c), c.in = "join", d.in # "join", t.kind = "eof"
  PROVE  ShownBy(new, runs, <<>>, d)
<1> DEFINE n == Len(runs)
<1>1. n \in Nat /\ Len(seen) = n /\ Len(new) = n + 1 /\ new[n + 1] = t
  BY DEF ShownBy, Closed
<1>2. \A i \in 1..n : Shows(new[i], i, runs, d)
  <2>1. tok.str \in Seq(Byte) /\ tok.kind # "id"
    BY EmptySeq
  <2>2. ~BeforeId(runs, n)
    BY <1>1 DEF BeforeId
  <2>3. Len(runs) \in Nat /\ Len(runs) >= Len(runs) /\ \A j \in 1..Len(runs) : runs[j] = runs[j]
    OBVIOUS
  <2> QED
    BY <2>1, <2>2, <2>3, ShowsClosed
<1>3. \A i \in DOMAIN new : Shows(new[i], i, runs, d)
  <2>1. DOMAIN new = 1..(n + 1)
    BY <1>1
  <2>2. Shows(new[n + 1], n + 1, runs, d)
    BY <1>1 DEF Shows
  <2> QED
    BY <1>1, <1>2, <2>1, <2>2
<1> QED
  BY <1>1, <1>3 DEF ShownBy

-----------------------------------------------------------------------------
(* The lists. *)

\* Joined sequences, element by element.
IsCat(S, s, t, u) ==
  /\ u \in Seq(S) /\ Len(u) = Len(s) + Len(t)
  /\ \A i \in 1..Len(s) : u[i] = s[i]
  /\ \A i \in 1..Len(t) : u[Len(s) + i] = t[i]

LEMMA CatIs ==
  ASSUME NEW S, NEW s \in Seq(S), NEW t \in Seq(S)
  PROVE  IsCat(S, s, t, Cat(s, t))
<1> DEFINE u == s \o t
<1>1. /\ u \in Seq(S) /\ Len(u) = Len(s) + Len(t)
      /\ \A i \in 1..Len(s) + Len(t) : u[i] = IF i <= Len(s) THEN s[i] ELSE t[i - Len(s)]
  BY ConcatProperties, Zenon
<1>2. Len(s) \in Nat /\ Len(t) \in Nat
  OBVIOUS
<1> HIDE DEF u
<1>3. \A i \in 1..Len(t) : /\ Len(s) + i \in 1..Len(s) + Len(t)
                           /\ ~(Len(s) + i <= Len(s)) /\ (Len(s) + i) - Len(s) = i
  BY <1>2
<1>4. \A i \in 1..Len(t) : u[Len(s) + i] = t[i]
  BY <1>1, <1>3
<1>5. \A i \in 1..Len(s) : u[i] = s[i]
  BY <1>1, <1>2
<1>6. Cat(s, t) = u
  BY DEF Cat, u
<1> QED
  BY <1>1, <1>4, <1>5, <1>6, Zenon DEF IsCat

LEMMA CatAssociates ==
  ASSUME NEW S, NEW a \in Seq(S), NEW b \in Seq(S), NEW c \in Seq(S)
  PROVE  Cat(a, Cat(b, c)) = Cat(Cat(a, b), c)
<1>1. (a \o b) \o c = a \o (b \o c)
  BY ConcatAssociative
<1> QED
  BY <1>1, Zenon DEF Cat

\* A token is listed at the end.
LEMMA CatAppend ==
  ASSUME NEW S, NEW s \in Seq(S), NEW t \in Seq(S), NEW x \in S
  PROVE  Cat(s, Append(t, x)) = Append(Cat(s, t), x)
<1> DEFINE tx == Append(t, x)
           st == Cat(s, t)
           new == Cat(s, tx)
           old == Append(st, x)
<1>1. /\ tx \in Seq(S) /\ Len(tx) = Len(t) + 1 /\ tx[Len(t) + 1] = x
      /\ \A i \in 1..Len(t) : tx[i] = t[i]
  BY AppendProperties
<1>2. /\ st \in Seq(S) /\ Len(st) = Len(s) + Len(t)
      /\ \A i \in 1..Len(s) : st[i] = s[i]
      /\ \A i \in 1..Len(t) : st[Len(s) + i] = t[i]
  <2>1. IsCat(S, s, t, st)
    BY CatIs
  <2> QED
    BY <2>1 DEF IsCat
<1> HIDE DEF tx, st
<1>3. /\ new \in Seq(S) /\ Len(new) = Len(s) + Len(tx)
      /\ \A i \in 1..Len(s) : new[i] = s[i]
      /\ \A i \in 1..Len(tx) : new[Len(s) + i] = tx[i]
  <2>1. IsCat(S, s, tx, new)
    BY <1>1, CatIs
  <2> QED
    BY <2>1 DEF IsCat
<1>4. /\ old \in Seq(S) /\ Len(old) = Len(st) + 1 /\ old[Len(st) + 1] = x
      /\ \A i \in 1..Len(st) : old[i] = st[i]
  BY <1>2, AppendProperties
<1>5. Len(s) \in Nat /\ Len(t) \in Nat
  OBVIOUS
<1> HIDE DEF new, old
<1>6. ASSUME NEW i \in 1..Len(new) PROVE new[i] = old[i]
  <2>1. CASE i <= Len(s)
    BY <1>1, <1>2, <1>3, <1>4, <1>5, <2>1
  <2>2. CASE i > Len(s)
    <3> DEFINE j == i - Len(s)
    <3>1. j \in 1..(Len(t) + 1) /\ Len(s) + j = i
      BY <1>1, <1>3, <1>5, <2>2
    <3> HIDE DEF j
    <3>2. new[i] = tx[j]
      BY <1>1, <1>3, <3>1
    <3>3. CASE j = Len(t) + 1
      BY <1>1, <1>2, <1>4, <1>5, <3>1, <3>2, <3>3
    <3>4. CASE j # Len(t) + 1
      <4>1. j \in 1..Len(t) /\ i \in 1..Len(st)
        BY <1>2, <1>5, <3>1, <3>4
      <4> QED
        BY <1>1, <1>2, <1>4, <3>1, <3>2, <4>1
    <3> QED
      BY <3>3, <3>4
  <2> QED
    BY <1>3, <1>5, <2>1, <2>2
<1>7. Len(new) = Len(old)
  BY <1>1, <1>2, <1>3, <1>4, <1>5
<1>8. new = old
  BY <1>3, <1>4, <1>6, <1>7, SeqEqual
<1> QED
  BY <1>8 DEF new, old, tx, st

\* The first token that is listed is taken.
LEMMA CatMove ==
  ASSUME NEW S, NEW s \in Seq(S), NEW t \in Seq(S), t # <<>>
  PROVE  Cat(Append(s, t[1]), Tail(t)) = Cat(s, t)
<1> DEFINE sx == Append(s, t[1])
           tl == Tail(t)
           new == Cat(sx, tl)
           old == Cat(s, t)
<1>0. Len(s) \in Nat /\ Len(t) \in Nat /\ Len(t) >= 1 /\ t[1] \in S
  OBVIOUS
<1>1. /\ sx \in Seq(S) /\ Len(sx) = Len(s) + 1 /\ sx[Len(s) + 1] = t[1]
      /\ \A i \in 1..Len(s) : sx[i] = s[i]
  BY <1>0, AppendProperties
<1>2. tl \in Seq(S) /\ Len(tl) = Len(t) - 1 /\ \A i \in 1..Len(tl) : tl[i] = t[i + 1]
  BY HeadTailProperties
<1> HIDE DEF sx, tl
<1>3. /\ new \in Seq(S) /\ Len(new) = Len(sx) + Len(tl)
      /\ \A i \in 1..Len(sx) : new[i] = sx[i]
      /\ \A i \in 1..Len(tl) : new[Len(sx) + i] = tl[i]
  <2>1. IsCat(S, sx, tl, new)
    BY <1>1, <1>2, CatIs
  <2> QED
    BY <2>1 DEF IsCat
<1>4. /\ old \in Seq(S) /\ Len(old) = Len(s) + Len(t)
      /\ \A i \in 1..Len(s) : old[i] = s[i]
      /\ \A i \in 1..Len(t) : old[Len(s) + i] = t[i]
  <2>1. IsCat(S, s, t, old)
    BY CatIs
  <2> QED
    BY <2>1 DEF IsCat
<1> HIDE DEF new, old
<1>5. Len(new) = Len(old)
  BY <1>0, <1>1, <1>2, <1>3, <1>4
<1>6. ASSUME NEW i \in 1..Len(new) PROVE new[i] = old[i]
  <2>1. CASE i <= Len(s)
    BY <1>0, <1>1, <1>3, <1>4, <2>1
  <2>2. CASE i = Len(s) + 1
    BY <1>0, <1>1, <1>3, <1>4, <2>2
  <2>3. CASE i > Len(s) + 1
    <3> DEFINE j == i - Len(sx)
    <3>1. /\ j \in 1..Len(tl) /\ Len(sx) + j = i
          /\ j + 1 \in 1..Len(t) /\ Len(s) + (j + 1) = i
      BY <1>0, <1>1, <1>2, <1>3, <2>3
    <3> HIDE DEF j
    <3> QED
      <4>1. new[i] = tl[j] /\ tl[j] = t[j + 1]
        BY <1>2, <1>3, <3>1
      <4>2. old[i] = t[j + 1]
        BY <1>4, <3>1
      <4> QED
        BY <4>1, <4>2
  <2> QED
    BY <1>0, <1>1, <1>2, <1>3, <2>1, <2>2, <2>3
<1>7. new = old
  BY <1>3, <1>4, <1>5, <1>6, SeqEqual
<1> QED
  BY <1>7 DEF new, old, sx, tl

\* The last string that is listed gets its copy, and a token is linked behind it.
LEMMA CatClose ==
  ASSUME NEW tk \in Seq(CTok), NEW ls \in Seq(CTok), ls # <<>>, NEW t \in CTok,
         NEW buf \in Seq(Byte), NEW copy, copy = IF buf = <<>> THEN Lost ELSE buf
  PROVE  /\ Cat(tk, Cat([ls EXCEPT ![Len(ls)].str = copy], <<t>>)) \in Seq(CTok)
         /\ Closed(Cat(tk, ls), Cat(tk, Cat([ls EXCEPT ![Len(ls)].str = copy], <<t>>)), buf, t)
<1> DEFINE n == Len(ls)
           m == Len(tk)
           last == [ls[n] EXCEPT !.str = copy]
           ks == [ls EXCEPT ![n].str = copy]
           kt == Append(ks, t)
           one == <<t>>
           new == Cat(tk, Cat([ls EXCEPT ![Len(ls)].str = copy], <<t>>))
<1>0. m \in Nat /\ n \in Nat /\ n >= 1 /\ n \in 1..Len(ls) /\ ls[n] \in CTok
  OBVIOUS
<1>1. last \in CTok /\ last.kind = ls[n].kind /\ last.type = ls[n].type /\ last.str = copy
  BY <1>0 DEF CTok
<1>2. ks = [ls EXCEPT ![n] = last]
  BY Zenon
<1> HIDE DEF last
<1>3. ks \in Seq(CTok) /\ Len(ks) = n /\ \A i \in 1..n : ks[i] = IF i = n THEN last ELSE ls[i]
  <2> HIDE DEF n
  <2>1. n \in 1..Len(ls)
    BY <1>0
  <2>2. /\ [ls EXCEPT ![n] = last] \in Seq(CTok) /\ Len([ls EXCEPT ![n] = last]) = Len(ls)
        /\ \A i \in 1..Len(ls) : [ls EXCEPT ![n] = last][i] = IF i = n THEN last ELSE ls[i]
    BY <1>1, <2>1, ExceptSeq
  <2> HIDE DEF ks
  <2> QED
    BY <1>2, <2>2 DEF n
<1> HIDE DEF ks
<1>4. one \in Seq(CTok) /\ Len(one) = 1 /\ one[1] = t
  OBVIOUS
<1> HIDE DEF one
<1> DEFINE kl == Cat(ks, one)
<1>5. /\ kl \in Seq(CTok) /\ Len(kl) = n + 1 /\ kl[n + 1] = t
      /\ \A i \in 1..n : kl[i] = ks[i]
  <2>1. /\ kl \in Seq(CTok) /\ Len(kl) = Len(ks) + Len(one)
        /\ \A i \in 1..Len(ks) : kl[i] = ks[i]
        /\ \A i \in 1..Len(one) : kl[Len(ks) + i] = one[i]
    <3>1. IsCat(CTok, ks, one, kl)
      BY <1>3, <1>4, CatIs
    <3> QED
      BY <3>1 DEF IsCat
  <2> HIDE DEF kl
  <2> QED
    BY <1>0, <1>3, <1>4, <2>1
<1> HIDE DEF kl
<1>6. new = Cat(tk, kl)
  BY DEF kl, one, ks
<1> HIDE DEF new
<1>7. /\ new \in Seq(CTok) /\ Len(new) = m + Len(kl)
      /\ \A i \in 1..m : new[i] = tk[i]
      /\ \A i \in 1..Len(kl) : new[m + i] = kl[i]
  <2>0. IsCat(CTok, tk, kl, Cat(tk, kl))
    BY <1>5, CatIs
  <2>1. IsCat(CTok, tk, kl, new)
    BY <1>6, <2>0, Zenon
  <2> QED
    BY <2>1 DEF IsCat
<1> DEFINE seen == Cat(tk, ls)
<1>8. /\ seen \in Seq(CTok) /\ Len(seen) = m + n
      /\ \A i \in 1..m : seen[i] = tk[i]
      /\ \A i \in 1..n : seen[m + i] = ls[i]
  <2>1. IsCat(CTok, tk, ls, seen)
    BY CatIs
  <2> QED
    BY <2>1 DEF IsCat
<1> HIDE DEF seen, m, n
<1>9. new[m + n] = last /\ seen[m + n] = ls[n] /\ new[Len(seen) + 1] = t /\ Len(new) = Len(seen) + 1
  <2>1. n \in 1..n /\ n + 1 \in 1..Len(kl) /\ n \in 1..Len(kl)
    BY <1>0, <1>5
  <2>2. m + (n + 1) = Len(seen) + 1 /\ Len(new) = Len(seen) + 1
    BY <1>0, <1>5, <1>7, <1>8
  <2> QED
    <3>1. kl[n] = last /\ kl[n + 1] = t
      BY <1>3, <1>5, <2>1
    <3>2. new[m + n] = kl[n] /\ new[m + (n + 1)] = kl[n + 1] /\ seen[m + n] = ls[n]
      BY <1>7, <1>8, <2>1
    <3> QED
      BY <2>2, <3>1, <3>2
<1>10. ASSUME NEW i \in 1..(Len(seen) - 1) PROVE new[i] = seen[i]
  <2>1. CASE i <= m
    <3>1. i \in 1..m
      BY <1>0, <1>8, <2>1
    <3> QED
      BY <1>7, <1>8, <3>1
  <2>2. CASE i > m
    <3> DEFINE j == i - m
    <3>1. j \in 1..n /\ j # n /\ m + j = i /\ j \in 1..Len(kl)
      <4>1. m \in Nat /\ n \in Nat /\ Len(seen) = m + n /\ Len(kl) = n + 1
        BY <1>0, <1>5, <1>8
      <4> QED
        BY <2>2, <4>1
    <3> HIDE DEF j
    <3> QED
      <4>1. kl[j] = ls[j]
        BY <1>3, <1>5, <3>1
      <4>2. new[m + j] = kl[j] /\ seen[m + j] = ls[j]
        BY <1>7, <1>8, <3>1
      <4> QED
        BY <3>1, <4>1, <4>2
  <2> QED
    BY <1>0, <1>8, <2>1, <2>2
<1>11. Closed(seen, new, buf, t)
  BY <1>1, <1>8, <1>9, <1>10 DEF Closed
<1> QED
  BY <1>7, <1>11 DEF seen, new

-----------------------------------------------------------------------------
(* The inductive invariant. *)

\* The tokens left are those that the last ones of the source are converted to.
HeldFrom(src, left) ==
  /\ src \in Seq(AllToks) /\ left \in Seq(CTok) /\ Len(left) <= Len(src)
  /\ \A i \in 1..Len(left) : left[i] = Convert(src[(Len(src) - Len(left)) + i])

\* The runs of the tokens that are not left.
SoFar(src, left) == RunsOf(src, Len(src) - Len(left))

\* A call is within what is listed; one that joins strings is at the last token.
Calls == [in : {"loop", "join"}, count : {0, 1}, idx : Nat, pos : Nat, buf : Seq(Byte)]
CallWithin(c, ls) ==
  \/ c = Idle
  \/ /\ c \in Calls
     /\ c.idx <= c.count /\ c.pos \in 1..(Len(ls) + 1)
     /\ c.in = "join" => c.pos = Len(ls)

TokensInv ==
  /\ HeldFrom(source, rest)
  /\ list \in Seq(CTok) /\ taken \in Seq(CTok)
  /\ CallWithin(call, list)
  /\ ShownBy(Cat(taken, list), SoFar(source, rest), rest, call)

\* The runs, and what the last one ends in.
LEMMA SoFarIs ==
  ASSUME NEW src, NEW left, HeldFrom(src, left)
  PROVE  /\ Len(src) \in Nat /\ Len(left) \in Nat /\ Len(src) - Len(left) \in 0..Len(src)
         /\ SoFar(src, left) \in Seq(SomeOf(AllToks))
         /\ EndsInStr(SoFar(src, left)) <=>
              Len(src) - Len(left) > 0 /\ src[Len(src) - Len(left)].kind = "str"
<1> DEFINE k == Len(src) - Len(left)
           runs == RunsOf(src, k)
<1>1. /\ src \in Seq(AllToks) /\ Len(src) \in Nat /\ Len(left) \in Nat /\ k \in 0..Len(src)
  BY DEF HeldFrom
<1> HIDE DEF k
<1>2. RunsFit(AllToks, src, k)
  BY <1>1, RunsShape
<1>3. /\ runs \in Seq(SomeOf(AllToks)) /\ (k = 0 <=> runs = <<>>)
      /\ k > 0 => runs[Len(runs)][1].kind = src[k].kind
  BY <1>2 DEF RunsFit
<1> HIDE DEF runs
<1>4. EndsInStr(runs) <=> k > 0 /\ src[k].kind = "str"
  <2>1. k # 0 <=> k > 0
    BY <1>1
  <2> QED
    BY <1>3, <2>1 DEF EndsInStr
<1> QED
  BY <1>1, <1>3, <1>4 DEF SoFar, runs, k

\* The next token goes on the last run or begins one.
GoesOn(runs, more, tok) ==
  /\ Len(more) = Len(runs) /\ \A j \in 1..(Len(runs) - 1) : more[j] = runs[j]
  /\ more[Len(runs)] = Append(runs[Len(runs)], tok)
BeginsRun(runs, more, tok) ==
  /\ Len(more) = Len(runs) + 1 /\ \A j \in 1..Len(runs) : more[j] = runs[j]
  /\ more[Len(runs) + 1] = <<tok>>

LEMMA NextHeld ==
  ASSUME NEW src, NEW left, HeldFrom(src, left), left # <<>>
  PROVE  /\ HeldFrom(src, Tail(left))
         /\ \E tok \in AllToks :
              /\ Head(left) = Convert(tok)
              /\ IF tok.kind = "str" /\ EndsInStr(SoFar(src, left))
                 THEN GoesOn(SoFar(src, left), SoFar(src, Tail(left)), tok)
                 ELSE BeginsRun(SoFar(src, left), SoFar(src, Tail(left)), tok)
<1> DEFINE n == Len(src)
           m == Len(left)
           k == (n - m) + 1
           later == Tail(left)
<1>1. /\ src \in Seq(AllToks) /\ left \in Seq(CTok)
      /\ n \in Nat /\ m \in Nat /\ m >= 1 /\ m <= n
      /\ \A i \in 1..m : left[i] = Convert(src[(n - m) + i])
  BY DEF HeldFrom
<1>2. later \in Seq(CTok) /\ Len(later) = m - 1 /\ \A i \in 1..(m - 1) : later[i] = left[i + 1]
  BY <1>1, HeadTailProperties
<1>3. Head(left) = left[1]
  BY <1>1
<1> HIDE DEF n, m, later
<1>4. k \in 1..n /\ n - (m - 1) = k /\ k - 1 = n - m
  BY <1>1
<1>5. \A i \in 1..(m - 1) : later[i] = Convert(src[k + i])
  <2> SUFFICES ASSUME NEW i \in 1..(m - 1) PROVE later[i] = Convert(src[k + i])
    OBVIOUS
  <2>1. i + 1 \in 1..m /\ (n - m) + (i + 1) = k + i
    BY <1>1
  <2> QED
    BY <1>1, <1>2, <2>1
<1>6. HeldFrom(src, later)
  <2>1. Len(later) <= n
    BY <1>1, <1>2
  <2>2. \A i \in 1..Len(later) : later[i] = Convert(src[(n - Len(later)) + i])
    BY <1>2, <1>4, <1>5
  <2> QED
    BY <1>1, <1>2, <2>1, <2>2 DEF HeldFrom, n
<1> DEFINE tok == src[k]
           runs == SoFar(src, left)
           more == SoFar(src, later)
<1>7. tok \in AllToks /\ Head(left) = Convert(tok)
  <2>1. k = (n - m) + 1 /\ 1 \in 1..m /\ k \in 1..Len(src)
    BY <1>1, <1>4 DEF n
  <2> QED
    BY <1>1, <1>3, <2>1
<1>8. more = NextRuns(runs, src, k) /\ runs \in Seq(SomeOf(AllToks))
  <2>1. runs = RunsOf(src, k - 1) /\ more = RunsOf(src, k)
    BY <1>2, <1>4 DEF SoFar, n, m
  <2>2. runs \in Seq(SomeOf(AllToks))
    BY SoFarIs
  <2> HIDE DEF runs, more, k
  <2> QED
    BY <1>1, <1>4, <2>1, <2>2, RunsSteps DEF n
<1>9. Continues(src, k) <=> tok.kind = "str" /\ EndsInStr(runs)
  <2>1. EndsInStr(runs) <=> k - 1 > 0 /\ src[k - 1].kind = "str"
    BY <1>4, SoFarIs DEF n, m
  <2>2. k - 1 > 0 <=> k > 1
    BY <1>4
  <2> HIDE DEF runs, k
  <2> QED
    BY <2>1, <2>2 DEF Continues
<1> HIDE DEF runs, more
<1>10. k \in 1..Len(src)
  BY <1>4 DEF n
<1> HIDE DEF k
<1>11. IF tok.kind = "str" /\ EndsInStr(runs) THEN GoesOn(runs, more, tok) ELSE BeginsRun(runs, more, tok)
  <2>1. Continues(src, k) => runs # <<>>
    BY <1>9 DEF EndsInStr
  <2>2. CASE Continues(src, k)
    <3>1. GoesOn(runs, NextRuns(runs, src, k), tok)
      BY <1>1, <1>8, <1>10, <2>1, <2>2, NextRunsIs DEF GoesOn
    <3> QED
      BY <1>8, <1>9, <2>2, <3>1
  <2>3. CASE ~Continues(src, k)
    <3>1. BeginsRun(runs, NextRuns(runs, src, k), tok)
      BY <1>1, <1>8, <1>10, <2>1, <2>3, NextRunsIs DEF BeginsRun
    <3> QED
      BY <1>8, <1>9, <2>3, <3>1
  <2> QED
    BY <2>2, <2>3
<1> QED
  BY <1>6, <1>7, <1>11 DEF runs, more, later

\* The invariant holds before anything is lexed, and every step keeps it.
LEMMA InitInv == Init => TokensInv
<1> SUFFICES ASSUME Init PROVE TokensInv
  OBVIOUS
<1> DEFINE n == Len(source)
<1>1. /\ source \in Sources /\ rest = [i \in DOMAIN source |-> Convert(source[i])]
      /\ list = <<>> /\ taken = <<>> /\ call = Idle
  BY DEF Init
<1>2. source \in Seq(AllToks) /\ n \in Nat /\ DOMAIN source = 1..n
  <2>1. source \in Seq(PpToks) /\ ToSet(source) \subseteq AllToks
    BY <1>1, SourcesAssumption DEF AllToks
  <2>2. \A i \in DOMAIN source : source[i] \in AllToks
    BY <2>1 DEF ToSet
  <2> QED
    BY <2>1, <2>2
<1> HIDE DEF n
<1>3. \A i \in 1..n : Convert(source[i]) \in CTok
  <2>1. ASSUME NEW t \in AllToks PROVE Convert(t) \in CTok
    BY ConvertedTok DEF CTok
  <2> QED
    BY <1>2, <2>1
<1>4. rest \in Seq(CTok) /\ Len(rest) = n
  BY <1>1, <1>2, <1>3
<1>5. HeldFrom(source, rest)
  <2>1. \A i \in 1..n : (n - n) + i = i
    BY <1>2
  <2>2. \A i \in 1..Len(rest) : rest[i] = Convert(source[(n - Len(rest)) + i])
    BY <1>1, <1>2, <1>4, <2>1
  <2> QED
    BY <1>2, <1>4, <2>2 DEF HeldFrom, n
<1>6. SoFar(source, rest) = <<>>
  <2>1. Len(source) - Len(rest) = 0 /\ Len(source) \in Nat
    BY <1>2, <1>4 DEF n
  <2> QED
    BY <2>1, RunsSteps DEF SoFar
<1>7. Cat(taken, list) = <<>>
  BY <1>1 DEF Cat
<1>8. ShownBy(<<>>, <<>>, rest, Idle)
  BY DEF ShownBy, EndsInStr, Idle
<1>9. CallWithin(call, list)
  BY <1>1 DEF CallWithin
<1> QED
  BY <1>1, <1>5, <1>6, <1>7, <1>8, <1>9 DEF TokensInv

\* A call that goes on, begins or ends without joining lists nothing.
LEMMA ShownInCall ==
  ASSUME NEW seen, NEW runs, NEW left, NEW c, NEW d, c.in # "join", d.in # "join",
         ShownBy(seen, runs, left, c)
  PROVE  ShownBy(seen, runs, left, d)
<1>1. \A i \in DOMAIN seen : Shows(seen[i], i, runs, d)
  BY DEF ShownBy, Shows
<1> QED
  BY <1>1 DEF ShownBy

\* So does any step between two tokens that changes only the call.
LEMMA NotJoiningInv ==
  ASSUME TokensInv, UNCHANGED <<source, rest, list, taken>>,
         call.in # "join", call'.in # "join", CallWithin(call', list)
  PROVE  TokensInv'
<1>1. ShownBy(Cat(taken, list), SoFar(source, rest), rest, call')
  BY ShownInCall DEF TokensInv
<1> QED
  BY <1>1 DEF TokensInv

LEMMA PeekForwardInv ==
  ASSUME TokensInv, NEW count \in {0, 1}, PeekForward(count)
  PROVE  TokensInv'
<1>1. call' = [in |-> "loop", count |-> count, idx |-> 0, pos |-> 1, buf |-> <<>>] /\ call = Idle
  BY DEF PeekForward
<1>2. call' \in Calls
  BY <1>1, EmptySeq DEF Calls
<1>3. CallWithin(call', list)
  <2>1. Len(list) \in Nat
    BY DEF TokensInv
  <2> QED
    BY <1>1, <1>2, <2>1 DEF CallWithin
<1>4. call.in # "join" /\ call'.in # "join"
  BY <1>1 DEF Idle
<1> QED
  BY <1>3, <1>4, NotJoiningInv DEF PeekForward

LEMMA SkipInv ==
  ASSUME TokensInv, Skip
  PROVE  TokensInv'
<1>1. /\ call.in = "loop" /\ call.idx < call.count /\ call.pos < Len(list)
      /\ call' = [call EXCEPT !.idx = @ + 1, !.pos = @ + 1]
  BY DEF Skip, InLoop, CanSkip
<1>2. call \in Calls /\ Len(list) \in Nat
  BY <1>1 DEF TokensInv, CallWithin, Idle
<1>3. call' \in Calls /\ call'.in = "loop" /\ call'.idx <= call'.count /\ call'.pos \in 1..(Len(list) + 1)
  <2>1. /\ call.in \in {"loop", "join"} /\ call.count \in {0, 1} /\ call.idx \in Nat
        /\ call.pos \in Nat /\ call.buf \in Seq(Byte)
    BY <1>2 DEF Calls
  <2>2. call' = [in |-> call.in, count |-> call.count, idx |-> call.idx + 1, pos |-> call.pos + 1,
                 buf |-> call.buf]
    BY <1>1, <1>2 DEF Calls
  <2>3. call.idx + 1 \in Nat /\ call.pos + 1 \in Nat /\ call.pos + 1 <= Len(list) + 1
        /\ call.idx + 1 <= call.count
    BY <1>1, <1>2, <2>1
  <2> QED
    BY <1>1, <1>2, <2>1, <2>2, <2>3 DEF Calls
<1>4. CallWithin(call', list)
  BY <1>3 DEF CallWithin
<1> QED
  BY <1>1, <1>3, <1>4, NotJoiningInv DEF Skip

LEMMA ReturnInv ==
  ASSUME TokensInv, Return
  PROVE  TokensInv'
<1>1. call.in # "join" /\ call' = Idle
  BY DEF Return
<1>2. call'.in # "join"
  BY <1>1 DEF Idle
<1>3. CallWithin(call', list)
  BY <1>1 DEF CallWithin
<1> QED
  BY <1>1, <1>2, <1>3, NotJoiningInv DEF Return

LEMMA EatInv ==
  ASSUME TokensInv, Eat
  PROVE  TokensInv'
<1>1. /\ call = Idle /\ list # <<>> /\ list' = Tail(list) /\ taken' = Append(taken, list[1])
      /\ UNCHANGED <<source, rest, call>>
  BY DEF Eat
<1>2. list \in Seq(CTok) /\ taken \in Seq(CTok)
  BY DEF TokensInv
<1>3. list' \in Seq(CTok) /\ taken' \in Seq(CTok)
  BY <1>1, <1>2
<1>4. Cat(taken', list') = Cat(taken, list)
  <2>1. Cat(Append(taken, list[1]), Tail(list)) = Cat(taken, list)
    BY <1>1, <1>2, CatMove
  <2> QED
    BY <1>1, <2>1, Zenon
<1>5. CallWithin(call', list')
  BY <1>1 DEF CallWithin
<1>6. ShownBy(Cat(taken, list), SoFar(source, rest), rest, call) /\ HeldFrom(source, rest)
  BY DEF TokensInv
<1>7. ShownBy(Cat(taken', list'), SoFar(source', rest'), rest', call') /\ HeldFrom(source', rest')
  BY <1>1, <1>4, <1>6, Zenon
<1> QED
  BY <1>3, <1>5, <1>7, Zenon DEF TokensInv

\* The end is a token as others are.
LEMMA EofIs ==
  /\ EofTok \in CTok /\ EofTok.kind = "eof" /\ EofTok.type = "none" /\ EofTok.str = <<>>
  /\ EofTok.str \in Seq(Byte)
  BY EmptySeq DEF EofTok, Token, CTok

\* What is yielded has a kind, a type and a spelling.
LEMMA YieldIs ==
  ASSUME TokensInv
  PROVE  Yield \in CTok /\ Yield.str \in Seq(Byte)
<1>1. CASE rest = <<>>
  BY <1>1, EofIs DEF Yield
<1>2. CASE rest # <<>>
  <2>1. PICK tok \in AllToks : Head(rest) = Convert(tok)
    BY <1>2, NextHeld DEF TokensInv
  <2>2. Convert(tok) \in CTok /\ Convert(tok).str \in Seq(Byte)
    BY ConvertedTok DEF CTok
  <2> QED
    BY <1>2, <2>1, <2>2 DEF Yield
<1> QED
  BY <1>1, <1>2

\* A token made of parts of tokens.
LEMMA TokenIs ==
  ASSUME NEW t \in CTok, NEW str \in Seq(Byte) \cup {Lost}
  PROVE  /\ Token(t.kind, t.type, str) \in CTok
         /\ Token(t.kind, t.type, str).kind = t.kind /\ Token(t.kind, t.type, str).type = t.type
         /\ Token(t.kind, t.type, str).str = str
  BY DEF Token, CTok

LEMMA LexInv ==
  ASSUME TokensInv, Lex
  PROVE  TokensInv'
<1> DEFINE y == Yield
           buf == IF Spelled(y) THEN y.str ELSE call.buf
           t == Token(y.kind, y.type, buf)
           after == call.pos <= Len(list)
           in == IF y.kind = "str" THEN "join" ELSE "loop"
           seen == Cat(taken, list)
           runs == SoFar(source, rest)
<1>1. /\ InLoop /\ ~CanSkip /\ Yielded /\ list' = Append(list, t)
      /\ call' = [call EXCEPT !.buf = buf, !.in = in,
                              !.pos = IF after THEN @ + 1 ELSE @,
                              !.idx = IF after THEN @ + 1 ELSE @]
      /\ UNCHANGED <<source, taken>>
  BY Zenon DEF Lex
<1>2. /\ HeldFrom(source, rest) /\ list \in Seq(CTok) /\ taken \in Seq(CTok)
      /\ CallWithin(call, list) /\ ShownBy(seen, runs, rest, call)
  BY DEF TokensInv
<1>3. call.in = "loop" /\ call \in Calls /\ call.idx <= call.count /\ call.pos \in 1..(Len(list) + 1)
  BY <1>1, <1>2 DEF InLoop, CallWithin, Idle
<1>4. y \in CTok /\ y.str \in Seq(Byte)
  BY YieldIs
<1> HIDE DEF y
<1>5. buf \in Seq(Byte)
  BY <1>3, <1>4 DEF Calls
<1>6. y.kind \in {"id", "str"} => buf = y.str
  BY DEF Spelled
<1> HIDE DEF buf
<1>7. t \in CTok /\ t.kind = y.kind /\ t.type = y.type /\ t.str = buf
  BY <1>4, <1>5, TokenIs
<1> HIDE DEF t
<1>8. list' \in Seq(CTok) /\ Len(list') = Len(list) + 1 /\ Len(list) \in Nat
  BY <1>1, <1>2, <1>7, AppendProperties
<1>9. Cat(taken', list') = Append(seen, t) /\ seen \in Seq(CTok)
  <2>1. Cat(taken, Append(list, t)) = Append(seen, t)
    BY <1>2, <1>7, CatAppend
  <2>2. seen \in Seq(CTok)
    BY <1>2, CatIs DEF IsCat
  <2> QED
    BY <1>1, <2>1, <2>2, Zenon
<1>10. /\ call' \in Calls /\ call'.in = in /\ call'.buf = buf
       /\ CallWithin(call', list')
  <2> DEFINE pos == IF after THEN call.pos + 1 ELSE call.pos
             idx == IF after THEN call.idx + 1 ELSE call.idx
  <2>1. /\ call.in \in {"loop", "join"} /\ call.count \in {0, 1} /\ call.idx \in Nat
        /\ call.pos \in Nat
    BY <1>3 DEF Calls
  <2>2. call' = [in |-> in, count |-> call.count, idx |-> idx, pos |-> pos, buf |-> buf]
    <3> HIDE DEF in
    <3> QED
      BY <1>1, <1>3 DEF Calls
  <2>3. /\ idx \in Nat /\ pos \in Nat /\ idx <= call.count /\ pos = Len(list) + 1
    <3>1. /\ call.idx # call.count \/ call.pos > Len(list)
          /\ ~(call.idx < call.count /\ call.pos < Len(list))
      BY <1>1 DEF InLoop, CanSkip
    <3> QED
      BY <1>3, <1>8, <2>1, <3>1
  <2>4. in \in {"loop", "join"}
    OBVIOUS
  <2> HIDE DEF in, idx, pos
  <2>5. call' \in Calls /\ call'.in = in /\ call'.buf = buf /\ call'.idx <= call'.count /\ call'.pos = Len(list) + 1
    BY <1>5, <2>1, <2>2, <2>3, <2>4 DEF Calls
  <2> QED
    BY <1>8, <2>5 DEF CallWithin
<1>11. call.in # "join" /\ runs \in Seq(SomeOf(AllToks))
  BY <1>2, <1>3, SoFarIs
<1>12. CASE rest = <<>>
  <2>1. y = EofTok /\ rest' = rest
    BY <1>1, <1>12 DEF y, Yield, Yielded
  <2>2. t.kind = "eof" /\ call'.in # "join"
    BY <1>7, <1>10, <2>1, EofIs
  <2> HIDE DEF runs, seen
  <2>3. ShownBy(Append(seen, t), runs, <<>>, call')
    BY <1>2, <1>7, <1>9, <1>11, <2>2, ShownByLexEof
  <2>4. /\ HeldFrom(source', rest')
        /\ ShownBy(Cat(taken', list'), SoFar(source', rest'), rest', call')
    BY <1>1, <1>2, <1>9, <1>12, <2>1, <2>3, Zenon DEF runs
  <2> QED
    BY <1>1, <1>2, <1>8, <1>10, <2>4 DEF TokensInv
<1>13. CASE rest # <<>>
  <2>1. y = Head(rest) /\ rest' = Tail(rest)
    BY <1>1, <1>13 DEF y, Yield, Yielded
  <2> DEFINE more == SoFar(source, Tail(rest))
  <2>2. HeldFrom(source, Tail(rest))
    BY <1>2, <1>13, NextHeld
  <2>3. PICK tok \in AllToks :
          /\ Head(rest) = Convert(tok)
          /\ IF tok.kind = "str" /\ EndsInStr(runs) THEN GoesOn(runs, more, tok) ELSE BeginsRun(runs, more, tok)
    BY <1>2, <1>13, NextHeld
  <2>4. ~EndsInStr(runs)
    BY <1>2, <1>11, <1>13 DEF ShownBy
  <2> HIDE DEF runs, seen, more
  <2>5. BeginsRun(runs, more, tok)
    BY <2>3, <2>4
  <2>6. /\ y.kind = tok.kind /\ y.type = tok.type /\ y.str = Convert(tok).str
    BY <2>1, <2>3, ConvertedTok
  <2>7. /\ t.kind = tok.kind /\ t.type = tok.type
        /\ tok.kind = "id" => t.str = Convert(tok).str
        /\ IF tok.kind = "str" THEN call'.in = "join" /\ call'.buf = Convert(tok).str
           ELSE call'.in # "join"
    BY <1>6, <1>7, <1>10, <2>6
  <2>8. ShownBy(Append(seen, t), more, Tail(rest), call')
    BY <1>2, <1>7, <1>9, <1>11, <1>13, <2>5, <2>7, ShownByLex DEF BeginsRun
  <2>9. /\ HeldFrom(source', rest')
        /\ ShownBy(Cat(taken', list'), SoFar(source', rest'), rest', call')
    BY <1>1, <1>9, <2>1, <2>2, <2>8, Zenon DEF more
  <2> QED
    BY <1>1, <1>2, <1>8, <1>10, <2>9 DEF TokensInv
<1> QED
  BY <1>12, <1>13

\* A call that joins strings has one, which is the last that is listed.
LEMMA JoiningIs ==
  ASSUME TokensInv, call.in = "join"
  PROVE  /\ call \in Calls /\ call.idx <= call.count /\ call.pos = Len(list)
         /\ Len(list) \in Nat /\ list # <<>> /\ list[Len(list)].kind = "str"
         /\ EndsInStr(SoFar(source, rest))
<1> DEFINE seen == Cat(taken, list)
           runs == SoFar(source, rest)
<1>1. list \in Seq(CTok) /\ taken \in Seq(CTok) /\ Len(list) \in Nat /\ Len(taken) \in Nat
  BY DEF TokensInv
<1>2. /\ call \in Calls /\ call.idx <= call.count /\ call.pos = Len(list)
      /\ call.pos \in 1..(Len(list) + 1)
  BY DEF TokensInv, CallWithin, Idle
<1>3. ShownBy(seen, runs, rest, call) /\ runs \in Seq(SomeOf(AllToks))
  BY SoFarIs DEF TokensInv
<1>4. list # <<>> /\ Len(list) \in 1..Len(list)
  BY <1>1, <1>2
<1>5. /\ seen \in Seq(CTok) /\ Len(seen) = Len(taken) + Len(list)
      /\ seen[Len(taken) + Len(list)] = list[Len(list)]
  <2>1. IsCat(CTok, taken, list, seen)
    BY <1>1, CatIs
  <2> HIDE DEF seen
  <2> QED
    BY <1>4, <2>1 DEF IsCat
<1> HIDE DEF seen, runs
<1>6. EndsInStr(runs) /\ Len(seen) = Len(runs) /\ \A i \in DOMAIN seen : Shows(seen[i], i, runs, call)
  BY <1>3 DEF ShownBy
<1>7. DOMAIN seen = 1..Len(seen) /\ Len(seen) \in 1..Len(seen) /\ Len(runs) \in Nat
  BY <1>1, <1>3, <1>4, <1>5
<1>8. seen[Len(seen)].kind = "str"
  BY <1>6, <1>7, ShowsJoining
<1> QED
  BY <1>1, <1>2, <1>4, <1>5, <1>6, <1>8 DEF runs

LEMMA JoinInv ==
  ASSUME TokensInv, Join
  PROVE  TokensInv'
<1> DEFINE y == Yield
           seen == Cat(taken, list)
           runs == SoFar(source, rest)
           more == SoFar(source, Tail(rest))
<1>1. /\ call.in = "join" /\ y.kind = "str" /\ Yielded
      /\ call' = [call EXCEPT !.buf = @ \o y.str]
      /\ UNCHANGED <<source, list, taken>>
  BY DEF Join
<1>2. /\ HeldFrom(source, rest) /\ list \in Seq(CTok) /\ taken \in Seq(CTok)
      /\ ShownBy(seen, runs, rest, call)
  BY DEF TokensInv
<1>3. /\ call \in Calls /\ call.idx <= call.count /\ call.pos = Len(list)
      /\ Len(list) \in Nat /\ list # <<>> /\ EndsInStr(runs)
  BY <1>1, JoiningIs
<1>4. y \in CTok /\ y.str \in Seq(Byte)
  BY YieldIs
<1>5. rest # <<>> /\ y = Head(rest) /\ rest' = Tail(rest)
  BY <1>1, EofIs DEF Yield, Yielded
<1> HIDE DEF y
<1>6. call' \in Calls /\ call'.in = "join" /\ call'.buf = call.buf \o y.str /\ CallWithin(call', list)
  <2> DEFINE buf == call.buf \o y.str
  <2>1. /\ call.in \in {"loop", "join"} /\ call.count \in {0, 1} /\ call.idx \in Nat
        /\ call.pos \in Nat /\ call.buf \in Seq(Byte)
    BY <1>3 DEF Calls
  <2>2. buf \in Seq(Byte)
    BY <1>4, <2>1, ConcatProperties, Zenon
  <2>3. call' = [call EXCEPT !.buf = buf]
    BY <1>1
  <2> HIDE DEF buf
  <2>4. call' = [in |-> call.in, count |-> call.count, idx |-> call.idx, pos |-> call.pos, buf |-> buf]
    BY <1>3, <2>3 DEF Calls
  <2>5. /\ call' \in Calls /\ call'.in = "join" /\ call'.buf = buf
        /\ call'.idx <= call'.count /\ call'.pos = Len(list)
    <3>1. call'.in = "join"
      BY <1>1, <2>4
    <3> QED
      BY <1>3, <2>1, <2>2, <2>4, <3>1 DEF Calls
  <2>6. Len(list) \in 1..(Len(list) + 1)
    BY <1>2, <1>3
  <2> QED
    BY <2>5, <2>6 DEF CallWithin, buf
<1>7. HeldFrom(source, Tail(rest)) /\ runs \in Seq(SomeOf(AllToks)) /\ seen \in Seq(CTok)
  <2>1. HeldFrom(source, Tail(rest))
    BY <1>2, <1>5, NextHeld
  <2>2. runs \in Seq(SomeOf(AllToks))
    BY <1>2, SoFarIs
  <2>3. seen \in Seq(CTok)
    BY <1>2, CatIs DEF IsCat
  <2> QED
    BY <2>1, <2>2, <2>3, Zenon
<1>8. PICK tok \in AllToks :
        /\ Head(rest) = Convert(tok)
        /\ IF tok.kind = "str" /\ EndsInStr(runs) THEN GoesOn(runs, more, tok) ELSE BeginsRun(runs, more, tok)
  BY <1>2, <1>5, NextHeld
<1> HIDE DEF runs, more, seen
<1>9. y.kind = tok.kind /\ y.str = Convert(tok).str
  BY <1>5, <1>8, ConvertedTok
<1>10. GoesOn(runs, more, tok)
  BY <1>1, <1>3, <1>8, <1>9
<1>11. call'.buf = Cat(call.buf, Convert(tok).str)
  BY <1>6, <1>9, Zenon DEF Cat
<1>12. ShownBy(seen, more, Tail(rest), call')
  <2>1. call.in = "join" /\ call'.in = "join" /\ ShownBy(seen, runs, rest, call)
    BY <1>1, <1>2, <1>6
  <2> QED
    BY <1>7, <1>10, <1>11, <2>1, ShownByJoin DEF GoesOn
<1>13. /\ HeldFrom(source', rest')
       /\ ShownBy(Cat(taken', list'), SoFar(source', rest'), rest', call')
  BY <1>1, <1>5, <1>7, <1>12, Zenon DEF more, seen
<1> QED
  BY <1>1, <1>2, <1>6, <1>13 DEF TokensInv

LEMMA JoinEndInv ==
  ASSUME TokensInv, JoinEnd
  PROVE  TokensInv'
<1> DEFINE y == Yield
           buf == Ended(call.buf, y)
           copy == IF buf = <<>> THEN Lost ELSE buf
           str == IF y.kind = "id" THEN Lost ELSE <<>>
           t == Token(y.kind, y.type, str)
           seen == Cat(taken, list)
           runs == SoFar(source, rest)
           more == SoFar(source, Tail(rest))
<1>0. PICK new : new = Cat(taken', list')
  OBVIOUS
<1>1. /\ call.in = "join" /\ y.kind # "str" /\ Yielded
      /\ list' = [list EXCEPT ![call.pos].str = copy] \o <<t>>
      /\ call' = [call EXCEPT !.in = "loop", !.buf = buf]
      /\ UNCHANGED <<source, taken>>
  BY Zenon DEF JoinEnd
<1>2. /\ HeldFrom(source, rest) /\ list \in Seq(CTok) /\ taken \in Seq(CTok)
      /\ ShownBy(seen, runs, rest, call)
  BY DEF TokensInv
<1>3. /\ call \in Calls /\ call.idx <= call.count /\ call.pos = Len(list)
      /\ Len(list) \in Nat /\ list # <<>> /\ EndsInStr(runs) /\ list[Len(list)].kind = "str"
  BY <1>1, JoiningIs
<1>4. y \in CTok /\ y.str \in Seq(Byte) /\ (y.kind = "id" => y.str # <<>>)
  <2>1. CASE rest = <<>>
    BY <2>1, EofIs DEF Yield
  <2>2. CASE rest # <<>>
    <3>1. PICK tok \in AllToks : Head(rest) = Convert(tok)
      BY <1>2, <2>2, NextHeld
    <3>2. y = Convert(tok)
      BY <2>2, <3>1 DEF Yield
    <3> QED
      BY <3>2, ConvertedTok, YieldIs
  <2> QED
    BY <2>1, <2>2
<1> HIDE DEF y
<1>5. call.buf \in Seq(Byte)
  BY <1>3 DEF Calls
<1>6. buf \in Seq(Byte)
  <2> DEFINE bytes == call.buf
  <2> HIDE DEF bytes
  <2>1. Ended(bytes, y) \in Seq(Byte)
    BY <1>4, <1>5, EndedIs DEF bytes
  <2> QED
    BY <2>1 DEF bytes
<1> HIDE DEF buf
<1>7. t \in CTok /\ t.kind = y.kind /\ t.type = y.type /\ t.str = str
  <2>1. str \in Seq(Byte) \cup {Lost}
    BY EmptySeq
  <2> HIDE DEF str
  <2> QED
    BY <1>4, <2>1, TokenIs
<1> HIDE DEF t
<1>8. new = Cat(taken, Cat([list EXCEPT ![Len(list)].str = copy], <<t>>))
  BY <1>0, <1>1, <1>3, Zenon DEF Cat
<1>9. seen \in Seq(CTok) /\ runs \in Seq(SomeOf(AllToks))
  <2>1. runs \in Seq(SomeOf(AllToks))
    BY <1>2, SoFarIs
  <2>2. seen \in Seq(CTok)
    BY <1>2, CatIs DEF IsCat
  <2> QED
    BY <2>1, <2>2, Zenon
<1>10. new \in Seq(CTok) /\ Closed(seen, new, Ended(call.buf, y), t)
  <2>1. copy = IF buf = <<>> THEN Lost ELSE buf
    OBVIOUS
  <2> HIDE DEF copy, seen
  <2>2. /\ Cat(taken, Cat([list EXCEPT ![Len(list)].str = copy], <<t>>)) \in Seq(CTok)
        /\ Closed(Cat(taken, list), Cat(taken, Cat([list EXCEPT ![Len(list)].str = copy], <<t>>)), buf, t)
    BY <1>2, <1>3, <1>6, <1>7, <2>1, CatClose
  <2> QED
    BY <1>8, <2>2, Zenon DEF seen, buf
<1>11. list' \in Seq(CTok) /\ Len(list') = Len(list) + 1
  <2> DEFINE last == [list[Len(list)] EXCEPT !.str = copy]
             ks == [list EXCEPT ![Len(list)] = last]
             one == <<t>>
  <2>1. list' = Cat(ks, one)
    BY <1>1, <1>3, Zenon DEF Cat
  <2>2. last \in CTok
    <3>1. copy \in Seq(Byte) \cup {Lost} /\ list[Len(list)] \in CTok
      BY <1>2, <1>3, <1>6
    <3> HIDE DEF copy
    <3> QED
      BY <3>1 DEF CTok
  <2> HIDE DEF last
  <2>3. ks \in Seq(CTok) /\ Len(ks) = Len(list)
    BY <1>2, <1>3, <2>2
  <2>4. one \in Seq(CTok) /\ Len(one) = 1
    BY <1>7
  <2> HIDE DEF ks, one
  <2>5. IsCat(CTok, ks, one, list')
    <3>1. IsCat(CTok, ks, one, Cat(ks, one))
      BY <2>3, <2>4, CatIs
    <3> QED
      BY <2>1, <3>1, Zenon
  <2> QED
    BY <2>3, <2>4, <2>5 DEF IsCat
<1>12. call'.in = "loop" /\ CallWithin(call', list')
  <2>1. /\ call.count \in {0, 1} /\ call.idx \in Nat /\ call.pos \in Nat
    BY <1>3 DEF Calls
  <2>2. call' = [in |-> "loop", count |-> call.count, idx |-> call.idx, pos |-> call.pos, buf |-> buf]
    BY <1>1, <1>3 DEF Calls
  <2>3. /\ call' \in Calls /\ call'.in = "loop" /\ call'.idx <= call'.count /\ call'.pos = Len(list)
    BY <1>3, <1>6, <2>1, <2>2 DEF Calls
  <2>4. Len(list) \in 1..(Len(list') + 1)
    BY <1>2, <1>3, <1>11
  <2> QED
    BY <2>3, <2>4 DEF CallWithin
<1> HIDE DEF copy
<1>13. call.in = "join" /\ call'.in # "join"
  BY <1>1, <1>12
<1>14. CASE rest = <<>>
  <2>1. y = EofTok /\ rest' = rest
    BY <1>1, <1>14 DEF y, Yield, Yielded
  <2>2. y.kind = "eof" /\ y.str = <<>> /\ t.kind = "eof"
    BY <1>7, <2>1, EofIs
  <2> HIDE DEF runs, seen
  <2>4. ShownBy(new, runs, <<>>, call')
    BY <1>2, <1>4, <1>9, <1>10, <1>13, <2>2, ShownByEndEof
  <2>5. /\ HeldFrom(source', rest')
        /\ ShownBy(Cat(taken', list'), SoFar(source', rest'), rest', call')
    BY <1>0, <1>1, <1>2, <1>14, <2>1, <2>4, Zenon DEF runs
  <2> QED
    BY <1>1, <1>2, <1>11, <1>12, <2>5 DEF TokensInv
<1>15. CASE rest # <<>>
  <2>1. y = Head(rest) /\ rest' = Tail(rest)
    BY <1>1, <1>15 DEF y, Yield, Yielded
  <2>2. HeldFrom(source, Tail(rest))
    BY <1>2, <1>15, NextHeld
  <2>3. PICK tok \in AllToks :
          /\ Head(rest) = Convert(tok)
          /\ IF tok.kind = "str" /\ EndsInStr(runs) THEN GoesOn(runs, more, tok) ELSE BeginsRun(runs, more, tok)
    BY <1>2, <1>15, NextHeld
  <2> HIDE DEF runs, seen, more
  <2>4. y = Convert(tok) /\ y.kind = tok.kind /\ y.type = tok.type
    BY <2>1, <2>3, ConvertedTok
  <2>5. BeginsRun(runs, more, tok)
    BY <1>1, <2>3, <2>4
  <2>6. t.kind = tok.kind /\ t.type = tok.type /\ (tok.kind = "id" => t.str = Lost)
    BY <1>7, <2>4
  <2>7. Closed(seen, new, Ended(call.buf, Convert(tok)), t) /\ tok.kind # "str"
    BY <1>1, <1>10, <2>4
  <2>8. ShownBy(new, more, Tail(rest), call')
    BY <1>2, <1>9, <1>10, <1>13, <2>5, <2>6, <2>7, ShownByEnd DEF BeginsRun
  <2>9. /\ HeldFrom(source', rest')
        /\ ShownBy(Cat(taken', list'), SoFar(source', rest'), rest', call')
    BY <1>0, <1>1, <2>1, <2>2, <2>8, Zenon DEF more
  <2> QED
    BY <1>1, <1>2, <1>11, <1>12, <2>9 DEF TokensInv
<1> QED
  BY <1>14, <1>15

\* The tokens of the source are, at every step of a call, converted and joined up to
\* where it has come.
THEOREM TokensInvHolds == Spec => []TokensInv
<1>1. Init => TokensInv
  BY InitInv
<1>2. ASSUME TokensInv, [Next]_vars PROVE TokensInv'
  <2>1. CASE Peek
    BY <1>2, <2>1, PeekForwardInv DEF Peek
  <2>2. CASE LookPast
    BY <1>2, <2>2, PeekForwardInv DEF LookPast
  <2>3. CASE Skip
    BY <1>2, <2>3, SkipInv
  <2>4. CASE Lex
    BY <1>2, <2>4, LexInv
  <2>5. CASE Join
    BY <1>2, <2>5, JoinInv
  <2>6. CASE JoinEnd
    BY <1>2, <2>6, JoinEndInv
  <2>7. CASE Return
    BY <1>2, <2>7, ReturnInv
  <2>8. CASE Eat
    BY <1>2, <2>8, EatInv
  <2>9. CASE UNCHANGED vars
    BY <1>2, <2>9 DEF TokensInv, vars
  <2> QED
    BY <1>2, <2>1, <2>2, <2>3, <2>4, <2>5, <2>6, <2>7, <2>8, <2>9 DEF Next
<1> QED
  BY <1>1, <1>2, PTL DEF Spec

-----------------------------------------------------------------------------
(* The properties. *)

\* What follows from the invariant.
LEMMA TypeOKFollows == TokensInv => TypeOK
<1> SUFFICES ASSUME TokensInv PROVE TypeOK
  OBVIOUS
<1>1. \A t \in ToSet(list) : t.kind \in {"id", "str", "kw", "eof"}
  <2>1. list \in Seq(CTok)
    BY DEF TokensInv
  <2>2. \A i \in DOMAIN list : list[i] \in CTok
    BY <2>1
  <2> QED
    BY <2>2 DEF ToSet, CTok
<1>2. call # Idle => call.idx <= call.count /\ call.pos \in 1..(Len(list) + 1)
  BY DEF TokensInv, CallWithin
<1>3. call.in = "join" => list[call.pos].kind = "str"
  BY JoiningIs
<1> QED
  BY <1>1, <1>2, <1>3 DEF TypeOK

\* The runs of the source are those so far and those of the tokens left.
LEMMA RunsOfAll ==
  ASSUME NEW src, NEW left, HeldFrom(src, left), left # <<>> => ~EndsInStr(SoFar(src, left))
  PROVE  /\ Len(Runs(src)) = Len(SoFar(src, left)) + Len(Runs(left))
         /\ \A i \in 1..Len(SoFar(src, left)) : Runs(src)[i] = SoFar(src, left)[i]
         /\ Len(Runs(left)) \in Nat /\ (left = <<>> => Len(Runs(left)) = 0)
<1> DEFINE n == Len(src)
           m == Len(left)
           k == n - m
<1>1. /\ src \in Seq(AllToks) /\ left \in Seq(CTok) /\ n \in Nat /\ m \in Nat /\ m <= n
      /\ \A i \in 1..m : left[i] = Convert(src[k + i])
  BY DEF HeldFrom
<1>2. k \in Nat /\ k + m = n
  BY <1>1
<1>3. \A i \in 1..m : left[i].kind = src[k + i].kind
  <2> SUFFICES ASSUME NEW i \in 1..m PROVE left[i].kind = src[k + i].kind
    OBVIOUS
  <2>1. k + i \in 1..n
    BY <1>1, <1>2
  <2> DEFINE t == src[k + i]
  <2>2. t \in AllToks /\ left[i] = Convert(t)
    BY <1>1, <2>1
  <2> HIDE DEF t
  <2>3. left[i].kind = t.kind
    BY <2>2, ConvertedTok
  <2> QED
    BY <2>3 DEF t
<1>4. m > 0 /\ k > 0 => src[k].kind # "str"
  <2>1. m > 0 => left # <<>>
    BY <1>1
  <2>2. EndsInStr(SoFar(src, left)) <=> k > 0 /\ src[k].kind = "str"
    BY SoFarIs
  <2> HIDE DEF k, m
  <2> QED
    BY <2>1, <2>2
<1>5. /\ Len(RunsOf(src, k + m)) = Len(RunsOf(src, k)) + Len(RunsOf(left, m))
      /\ \A i \in 1..Len(RunsOf(src, k)) : RunsOf(src, k + m)[i] = RunsOf(src, k)[i]
  <2>1. m \in 0..m
    BY <1>1
  <2>2. Follows(src, left, k)
    BY <1>1, <1>2, <1>3, <1>4 DEF Follows
  <2> HIDE DEF k
  <2>3. RunsFollow(src, left, k, m)
    BY <1>1, <1>2, <2>1, <2>2, RunsSplit
  <2> QED
    BY <2>3 DEF RunsFollow
<1>6. Runs(src) = RunsOf(src, k + m) /\ Runs(left) = RunsOf(left, m) /\ SoFar(src, left) = RunsOf(src, k)
  BY <1>2 DEF Runs, SoFar
<1>7. RunsOf(left, m) \in Seq(SomeOf(CTok)) /\ (m = 0 => RunsOf(left, m) = <<>>)
  <2>1. RunsFit(CTok, left, m)
    <3>1. m \in 0..Len(left)
      BY <1>1
    <3> QED
      BY <1>1, <3>1, RunsShape
  <2> QED
    BY <2>1 DEF RunsFit
<1>8. Len(RunsOf(left, m)) \in Nat /\ (left = <<>> => Len(RunsOf(left, m)) = 0)
  BY <1>7
<1> QED
  BY <1>5, <1>6, <1>8, Zenon

LEMMA StringsJoinedFollows == TokensInv => StringsJoined
<1> SUFFICES ASSUME TokensInv, call = Idle PROVE StringsJoined
  BY DEF StringsJoined
<1> DEFINE all == Runs(source)
           runs == SoFar(source, rest)
           n == Len(all) - Len(Runs(rest))
<1>1. /\ HeldFrom(source, rest) /\ ShownBy(Seen, runs, rest, call)
      /\ list \in Seq(CTok) /\ taken \in Seq(CTok)
  BY DEF TokensInv, Seen, Cat
<1>2. call.in # "join"
  BY DEF Idle
<1>3. runs \in Seq(SomeOf(AllToks)) /\ Len(runs) \in Nat
  <2>1. runs \in Seq(SomeOf(AllToks))
    BY <1>1, SoFarIs
  <2> HIDE DEF runs
  <2> QED
    BY <2>1
<1>4. rest # <<>> => ~EndsInStr(runs)
  BY <1>1, <1>2 DEF ShownBy
<1>5. /\ Len(all) = Len(runs) + Len(Runs(rest)) /\ \A i \in 1..Len(runs) : all[i] = runs[i]
      /\ Len(Runs(rest)) \in Nat /\ (rest = <<>> => Len(Runs(rest)) = 0)
  BY <1>1, <1>4, RunsOfAll
<1> HIDE DEF runs, all
<1>6. n = Len(runs)
  BY <1>3, <1>5
<1>7. /\ Len(runs) <= Len(Seen) /\ (rest # <<>> => Len(Seen) = Len(runs))
      /\ \A i \in DOMAIN Seen : Shows(Seen[i], i, runs, call)
  BY <1>1 DEF ShownBy
<1>8. DOMAIN Seen \subseteq Nat \ {0}
  <2>1. Seen \in Seq(CTok)
    <3>1. IsCat(CTok, taken, list, Cat(taken, list))
      BY <1>1, CatIs
    <3> QED
      BY <3>1 DEF IsCat, Seen, Cat
  <2> HIDE DEF n
  <2> QED
    BY <2>1
<1>9. ASSUME NEW i \in DOMAIN Seen
      PROVE  IF i <= n THEN ShowsRun(Seen[i], all, i) ELSE Seen[i].kind = "eof"
  <2>1. Shows(Seen[i], i, runs, call) /\ i \in Nat /\ i >= 1
    BY <1>7, <1>8
  <2>2. CASE i > n
    BY <1>3, <1>6, <2>1, <2>2 DEF Shows
  <2>3. CASE i <= n
    <3>1. i \in 1..Len(runs)
      BY <1>6, <2>1, <2>3
    <3>2. ShowsRun(Seen[i], runs, i)
      BY <1>2, <1>3, <2>1, <3>1, ShowsApart
    <3>3. all[i] = runs[i] /\ (i > 1 => all[i - 1][1] = runs[i - 1][1])
      BY <1>3, <1>5, <3>1
    <3>4. runs[i][1].kind = "str" =>
            /\ BeforeId(runs, i) <=> BeforeId(all, i)
            /\ BeforeId(runs, i) => all[i + 1] = runs[i + 1]
      <4>1. CASE i < Len(runs)
        <5>1. all[i + 1] = runs[i + 1] /\ i < Len(all)
          BY <1>3, <1>5, <3>1, <4>1
        <5> QED
          BY <4>1, <5>1 DEF BeforeId
      <4>2. CASE i = Len(runs)
        <5>1. CASE rest = <<>>
          <6>1. Len(all) = Len(runs)
            BY <1>3, <1>5, <5>1
          <6> QED
            BY <1>3, <4>2, <6>1 DEF BeforeId
        <5>2. CASE rest # <<>>
          <6>1. runs # <<>>
            BY <1>3, <3>1
          <6> QED
            BY <1>4, <4>2, <5>2, <6>1 DEF EndsInStr
        <5> QED
          BY <5>1, <5>2
      <4> QED
        BY <1>3, <3>1, <4>1, <4>2
    <3>5. ShowsRun(Seen[i], all, i)
      BY <3>2, <3>3, <3>4, ShowsStays
    <3> QED
      BY <2>3, <3>5
  <2> QED
    BY <1>3, <1>6, <2>1, <2>2, <2>3
<1> QED
  BY <1>6, <1>7, <1>9, Zenon DEF StringsJoined, all

-----------------------------------------------------------------------------
(* UTF-8. *)

\* A code, not 0, below 2^20: no others are read back of four bytes.
ShortCode(n) == n \in Nat /\ n # 0 /\ n < 1048576

\* The bytes s[i], ... are those of e.
HasAt(s, i, e) ==
  /\ i + Len(e) - 1 \in DOMAIN s
  /\ \A k \in 1..Len(e) : i + (k - 1) \in DOMAIN s /\ s[i + (k - 1)] = e[k]

\* The bytes of a code, by how many they are.
LEMMA Utf8Bytes ==
  ASSUME NEW n, ShortCode(n)
  PROVE  \/ n < 128 /\ Utf8Encode(n) = <<n>>
         \/ 128 <= n /\ n < 2048 /\ Utf8Encode(n) = <<192 + n \div 64, 128 + (n % 64)>>
         \/ 2048 <= n /\ n < 65536
              /\ Utf8Encode(n) = <<224 + n \div 4096, 128 + ((n \div 64) % 64), 128 + (n % 64)>>
         \/ 65536 <= n
              /\ Utf8Encode(n) = <<240 + n \div 262144, 128 + ((n \div 4096) % 64),
                                   128 + ((n \div 64) % 64), 128 + (n % 64)>>
<1>0. n \in Nat /\ n # 0 /\ n < 1048576
  BY SMT DEF ShortCode
<1>1. \A w : Bits6(n, w) = 128 + ((n \div w) % 64)
  BY SMT DEF Bits6
<1>2. n \div 1 = n
  BY <1>0, SMT
<1>3. Bits6(n, 1) = 128 + (n % 64)
  BY <1>1, <1>2, SMT
<1> HIDE DEF Bits6
<1> DEFINE two   == <<192 + n \div 64, Bits6(n, 1)>>
           three == <<224 + n \div 4096, Bits6(n, 64), Bits6(n, 1)>>
           four  == <<240 + n \div 262144, Bits6(n, 4096), Bits6(n, 64), Bits6(n, 1)>>
<1>4. Utf8Encode(n) = CASE n < 128 -> <<n>> [] TwoBytes(n) -> two [] ThreeBytes(n) -> three
                        [] FourBytes(n) -> four [] OTHER -> <<>>
  BY SMT DEF Utf8Encode
<1>5. /\ two = <<192 + n \div 64, 128 + (n % 64)>>
      /\ three = <<224 + n \div 4096, 128 + ((n \div 64) % 64), 128 + (n % 64)>>
      /\ four = <<240 + n \div 262144, 128 + ((n \div 4096) % 64), 128 + ((n \div 64) % 64),
                  128 + (n % 64)>>
  BY <1>1, <1>3, SMT
<1>6. /\ TwoBytes(n) <=> 128 <= n /\ n < 2048
      /\ ThreeBytes(n) <=> 2048 <= n /\ n < 65536
      /\ FourBytes(n) <=> 65536 <= n
  BY <1>0, SMT DEF TwoBytes, ThreeBytes, FourBytes, MaxCode
<1> HIDE DEF two, three, four
<1>7. \/ n < 128 /\ Utf8Encode(n) = <<n>>
      \/ TwoBytes(n) /\ Utf8Encode(n) = two
      \/ ThreeBytes(n) /\ Utf8Encode(n) = three
      \/ FourBytes(n) /\ Utf8Encode(n) = four
  BY <1>0, <1>4, <1>6, SMT
<1> QED
  BY <1>5, <1>6, <1>7, SMT

\* What is read where there are the bytes of a character, by their number.
LEMMA Utf8DecodeIs ==
  ASSUME NEW s, NEW i \in Nat, NEW size \in 1..4,
         \A k \in (i + 1)..(i + size - 1) : k \in DOMAIN s /\ s[k] \in 128..191,
         size = 1 => s[i] < 128,
         size = 2 => ~(s[i] < 128) /\ s[i] \in 192..223,
         size = 3 => ~(s[i] < 128) /\ s[i] \in 224..239,
         size = 4 => ~(s[i] < 128) /\ s[i] \in 240..247
  PROVE  Utf8Decode(s, i) = Decoded(Utf8Value(s, i, size), i + size)
<1> DEFINE sz == CASE s[i] < 128 -> 1 [] s[i] \in 192..223 -> 2 [] s[i] \in 224..239 -> 3
                   [] s[i] \in 240..247 -> 4 [] OTHER -> 0
           good(k) == k \in DOMAIN s /\ s[k] \in 128..191
           bad(m) == {k \in (i + 1)..(i + m - 1) : ~good(k)}
           first(m) == CHOOSE k \in bad(m) : \A j \in bad(m) : k <= j
<1>1. sz = size
  BY SMT
<1>2. bad(size) = {}
  OBVIOUS
<1>3. Utf8Decode(s, i) =
        CASE sz = 0 -> Decoded(EndlessCode, i)
          [] sz > 0 /\ bad(sz) = {} -> Decoded(Utf8Value(s, i, sz), i + sz)
          [] OTHER -> IF first(sz) \in DOMAIN s THEN Decoded(InvalidCode, i + sz)
                      ELSE Decoded(LostCode, i)
  BY Zenon DEF Utf8Decode
<1> HIDE DEF sz, bad, first
<1>4. size > 0 /\ size # 0
  OBVIOUS
<1> QED
  BY <1>1, <1>2, <1>3, <1>4, Zenon

\* The bytes of a code are read back.
LEMMA Utf8Reads ==
  ASSUME NEW n, ShortCode(n), NEW s, NEW i \in Nat, HasAt(s, i, Utf8Encode(n))
  PROVE  /\ Utf8Decode(s, i) = Decoded(n, i + Len(Utf8Encode(n)))
         /\ s[i] # 0
<1> DEFINE e == Utf8Encode(n)
           m == Len(e)
<1>0. n \in Nat /\ n # 0 /\ n < 1048576
  BY SMT DEF ShortCode
<1>1. \A k \in 1..m : i + (k - 1) \in DOMAIN s /\ s[i + (k - 1)] = e[k]
  BY SMT DEF HasAt
<1>2. CASE n < 128 /\ e = <<n>>
  <2>1. m = 1 /\ e[1] = n
    BY <1>2, SMT
  <2>2. s[i] = n /\ i + (1 - 1) = i
    BY <1>1, <2>1, SMT
  <2>3. Utf8Value(s, i, 1) = n
    BY <2>2, SMT DEF Utf8Value
  <2>4. Utf8Decode(s, i) = Decoded(Utf8Value(s, i, 1), i + 1)
    BY <1>2, <2>2, Utf8DecodeIs, SMT
  <2> QED
    BY <1>0, <2>1, <2>2, <2>3, <2>4, SMT
<1>3. CASE 128 <= n /\ n < 2048 /\ e = <<192 + n \div 64, 128 + (n % 64)>>
  <2>1. m = 2 /\ e[1] = 192 + n \div 64 /\ e[2] = 128 + (n % 64)
    BY <1>3, SMT
  <2> HIDE DEF e
  <2>2. /\ s[i] = 192 + n \div 64
        /\ i + 1 \in DOMAIN s /\ s[i + 1] = 128 + (n % 64)
    <3>1. i + (1 - 1) = i /\ i + (2 - 1) = i + 1 /\ 1 \in 1..2 /\ 2 \in 1..2
      BY SMT
    <3> QED
      BY <1>1, <2>1, <3>1, SMT
  <2>3. s[i] \in 192..223 /\ s[i + 1] \in 128..191
    BY <1>0, <1>3, <2>2, SMT
  <2>4. Utf8Value(s, i, 2) = n
    <3>1. Utf8Value(s, i, 2) = (s[i] % 32) * 64 + (s[i + 1] % 64)
      BY SMT DEF Utf8Value
    <3>2. s[i] % 32 = n \div 64 /\ s[i + 1] % 64 = n % 64
      BY <1>0, <1>3, <2>2, SMT
    <3> QED
      BY <1>0, <3>1, <3>2, SMT
  <2>5. Utf8Decode(s, i) = Decoded(Utf8Value(s, i, 2), i + 2)
    <3>1. ~(s[i] < 128)
      BY <2>3, SMT
    <3>2. \A k \in (i + 1)..(i + 2 - 1) : k \in DOMAIN s /\ s[k] \in 128..191
      BY <2>2, <2>3, SMT
    <3> QED
      BY <2>3, <3>1, <3>2, Utf8DecodeIs, SMT
  <2> QED
    BY <2>1, <2>3, <2>4, <2>5, SMT DEF e
<1>4. CASE 2048 <= n /\ n < 65536
             /\ e = <<224 + n \div 4096, 128 + ((n \div 64) % 64), 128 + (n % 64)>>
  <2>1. m = 3 /\ e[1] = 224 + n \div 4096 /\ e[2] = 128 + ((n \div 64) % 64) /\ e[3] = 128 + (n % 64)
    BY <1>4, SMT
  <2> HIDE DEF e
  <2>2. /\ s[i] = 224 + n \div 4096
        /\ i + 1 \in DOMAIN s /\ s[i + 1] = 128 + ((n \div 64) % 64)
        /\ i + 2 \in DOMAIN s /\ s[i + 2] = 128 + (n % 64)
    <3>1. /\ i + (1 - 1) = i /\ i + (2 - 1) = i + 1 /\ i + (3 - 1) = i + 2
          /\ 1 \in 1..3 /\ 2 \in 1..3 /\ 3 \in 1..3
      BY SMT
    <3> QED
      BY <1>1, <2>1, <3>1, SMT
  <2>3. s[i] \in 224..239 /\ s[i + 1] \in 128..191 /\ s[i + 2] \in 128..191
    BY <1>0, <1>4, <2>2, SMT
  <2>4. Utf8Value(s, i, 3) = n
    <3>1. Utf8Value(s, i, 3) = (s[i] % 16) * 4096 + (s[i + 1] % 64) * 64 + (s[i + 2] % 64)
      BY SMT DEF Utf8Value
    <3>2. s[i] % 16 = n \div 4096 /\ s[i + 1] % 64 = (n \div 64) % 64 /\ s[i + 2] % 64 = n % 64
      BY <1>0, <1>4, <2>2, SMT
    <3>3. n = (n \div 4096) * 4096 + ((n \div 64) % 64) * 64 + (n % 64)
      BY <1>0, <1>4, SMT
    <3> QED
      BY <3>1, <3>2, <3>3, SMT
  <2>5. Utf8Decode(s, i) = Decoded(Utf8Value(s, i, 3), i + 3)
    <3>1. ~(s[i] < 128)
      BY <2>3, SMT
    <3>2. \A k \in (i + 1)..(i + 3 - 1) : k \in DOMAIN s /\ s[k] \in 128..191
      BY <2>2, <2>3, SMT
    <3> QED
      BY <2>3, <3>1, <3>2, Utf8DecodeIs, SMT
  <2> QED
    BY <2>1, <2>3, <2>4, <2>5, SMT DEF e
<1>5. CASE 65536 <= n
             /\ e = <<240 + n \div 262144, 128 + ((n \div 4096) % 64),
                      128 + ((n \div 64) % 64), 128 + (n % 64)>>
  <2>1. /\ m = 4 /\ e[1] = 240 + n \div 262144 /\ e[2] = 128 + ((n \div 4096) % 64)
        /\ e[3] = 128 + ((n \div 64) % 64) /\ e[4] = 128 + (n % 64)
    BY <1>5, SMT
  <2> HIDE DEF e
  <2>2. /\ s[i] = 240 + n \div 262144
        /\ i + 1 \in DOMAIN s /\ s[i + 1] = 128 + ((n \div 4096) % 64)
        /\ i + 2 \in DOMAIN s /\ s[i + 2] = 128 + ((n \div 64) % 64)
        /\ i + 3 \in DOMAIN s /\ s[i + 3] = 128 + (n % 64)
    <3>1. /\ i + (1 - 1) = i /\ i + (2 - 1) = i + 1 /\ i + (3 - 1) = i + 2 /\ i + (4 - 1) = i + 3
          /\ 1 \in 1..4 /\ 2 \in 1..4 /\ 3 \in 1..4 /\ 4 \in 1..4
      BY SMT
    <3> QED
      BY <1>1, <2>1, <3>1, SMT
  <2>3. /\ s[i] \in 240..247 /\ s[i + 1] \in 128..191
        /\ s[i + 2] \in 128..191 /\ s[i + 3] \in 128..191
    BY <1>0, <1>5, <2>2, SMT
  <2>4. Utf8Value(s, i, 4) = n
    <3>1. Utf8Value(s, i, 4) = (s[i] % 4) * 262144 + (s[i + 1] % 64) * 4096
                                 + (s[i + 2] % 64) * 64 + (s[i + 3] % 64)
      BY SMT DEF Utf8Value
    <3>2. /\ s[i] % 4 = n \div 262144 /\ s[i + 1] % 64 = (n \div 4096) % 64
          /\ s[i + 2] % 64 = (n \div 64) % 64 /\ s[i + 3] % 64 = n % 64
      BY <1>0, <1>5, <2>2, SMT
    <3>3. n = (n \div 262144) * 262144 + ((n \div 4096) % 64) * 4096
                + ((n \div 64) % 64) * 64 + (n % 64)
      BY <1>0, <1>5, SMT
    <3> QED
      BY <3>1, <3>2, <3>3, SMT
  <2>5. Utf8Decode(s, i) = Decoded(Utf8Value(s, i, 4), i + 4)
    <3>1. ~(s[i] < 128)
      BY <2>3, SMT
    <3>2. \A k \in (i + 1)..(i + 4 - 1) : k \in DOMAIN s /\ s[k] \in 128..191
      BY <2>2, <2>3, SMT
    <3> QED
      BY <2>3, <3>1, <3>2, Utf8DecodeIs, SMT
  <2> QED
    BY <2>1, <2>3, <2>4, <2>5, SMT DEF e
<1> QED
  BY <1>2, <1>3, <1>4, <1>5, Utf8Bytes, SMT

-----------------------------------------------------------------------------
(* Units.  A code that survives has one, of which it is read. *)

OneUnit(n, size) ==
  /\ ShortCode(n)
  /\ size = 1 => n < 128
  /\ size = 2 => n < 65536 /\ ~LooksPaired(n)

\* The bytes of a unit.
HoldsCode(u, n, size) ==
  /\ u[1] = n % 256
  /\ size > 1 => u[2] = (n \div 256) % 256
  /\ size > 2 => u[3] = n \div 65536 /\ u[4] = 0

\* The unit of such a code is made of its bytes.
LEMMA UnitIs ==
  ASSUME NEW size \in {1, 2, 4}, NEW n, OneUnit(n, size)
  PROVE  /\ Unit(n, size) \in Seq(Nat) /\ Len(Unit(n, size)) = size
         /\ HoldsCode(Unit(n, size), n, size)
<1>0. n \in Nat /\ n < 1048576
  BY SMT DEF OneUnit, ShortCode
<1>1. /\ Weight[1] = 1 /\ Weight[2] = 256 /\ Weight[3] = 65536
      /\ Weight[4] = 16777216
  BY SMT DEF Weight
<1> DEFINE byte(k) == (n \div Weight[k]) % 256
<1>2. Unit(n, size) = [k \in 1..size |-> byte(k)]
  BY SMT DEF Unit
<1>3. /\ byte(1) = n % 256 /\ byte(2) = (n \div 256) % 256
      /\ byte(3) = n \div 65536 /\ byte(4) = 0
  BY <1>0, <1>1, SMT
<1>4. byte(1) \in Nat /\ byte(2) \in Nat /\ byte(3) \in Nat /\ byte(4) \in Nat
  BY <1>0, <1>3, SMT
<1> HIDE DEF byte
<1>5. \A k \in 1..size : byte(k) \in Nat
  BY <1>4, SMT
<1>6. Unit(n, size) \in Seq(Nat) /\ Len(Unit(n, size)) = size
  BY <1>2, <1>5, SMT
<1>7. \A k \in 1..size : Unit(n, size)[k] = byte(k)
  BY <1>2, SMT
<1> QED
  BY <1>3, <1>6, <1>7, SMT DEF HoldsCode

\* A unit is read back.
LEMMA UnitReads ==
  ASSUME NEW size \in {1, 2, 4}, NEW n, OneUnit(n, size), NEW s, NEW i \in Nat,
         HasAt(s, i, Unit(n, size))
  PROVE  /\ DecodeAt(s, i, size) = Decoded(n, i + size)
         /\ ~ \A k \in i..(i + size - 1) : s[k] = 0
<1>0. ShortCode(n) /\ n \in Nat /\ n # 0 /\ n < 1048576
  BY SMT DEF OneUnit, ShortCode
<1> DEFINE u == Unit(n, size)
<1>len. Len(u) = size /\ HoldsCode(u, n, size)
  BY UnitIs, Zenon
<1> HIDE DEF u
<1>u. /\ u[1] = n % 256 /\ (size > 1 => u[2] = (n \div 256) % 256)
      /\ size > 2 => u[3] = n \div 65536 /\ u[4] = 0
  BY <1>len, SMT DEF HoldsCode
<1>1. \A k \in 1..size : i + (k - 1) \in DOMAIN s /\ s[i + (k - 1)] = u[k]
  <2>1. HasAt(s, i, u)
    BY DEF u
  <2> QED
    BY <1>len, <2>1, Zenon DEF HasAt
<1>2. 1 # 2 /\ 1 # 4 /\ 2 # 4
  BY SMT
<1>3. CASE size = 1
  <2>1. n < 128 /\ u[1] = n
    BY <1>0, <1>3, <1>u, SMT DEF OneUnit
  <2>2. Utf8Encode(n) = <<n>>
    BY <1>0, <2>1, Utf8Bytes, SMT DEF TwoBytes
  <2>3. i \in DOMAIN s /\ s[i] = n
    BY <1>1, <1>3, <2>1, SMT
  <2>4. HasAt(s, i, Utf8Encode(n)) /\ Len(Utf8Encode(n)) = 1
    BY <2>2, <2>3, SMT DEF HasAt
  <2>5. Utf8Decode(s, i) = Decoded(n, i + 1)
    <3>1. ShortCode(n)
      BY <1>0
    <3>2. Utf8Decode(s, i) = Decoded(n, i + Len(Utf8Encode(n)))
      BY <2>4, <3>1, Utf8Reads
    <3> QED
      BY <2>4, <3>2
  <2>6. DecodeAt(s, i, 1) = Utf8Decode(s, i)
    BY <1>2, SMT DEF DecodeAt
  <2> QED
    BY <1>0, <1>3, <2>3, <2>5, <2>6, SMT
<1>4. CASE size = 2
  <2>1. n < 16384 /\ ~LooksPaired(n) /\ u[1] = n % 256 /\ u[2] = n \div 256
    BY <1>0, <1>4, <1>u, SMT DEF OneUnit, LooksPaired
  <2>2. /\ i \in DOMAIN s /\ s[i] = n % 256
        /\ i + 1 \in DOMAIN s /\ s[i + 1] = n \div 256
    <3>1. i + (1 - 1) = i /\ i + (2 - 1) = i + 1 /\ 1 \in 1..size /\ 2 \in 1..size
      BY <1>4, SMT
    <3> QED
      BY <1>1, <2>1, <3>1, SMT
  <2> DEFINE unit(k) == IF k + 1 \in DOMAIN s THEN s[k] + 256 * s[k + 1] ELSE LostCode
             pair == ((unit(i) % 1024) * 1024) + (unit(i + 2) % 1024)
  <2>3. unit(i) = n /\ n # LostCode
    BY <1>0, <2>2, SMT DEF LostCode
  <2>4. Utf16Decode(s, i) =
          CASE unit(i) = LostCode -> Decoded(LostCode, i)
            [] unit(i) # LostCode /\ ~LooksPaired(unit(i)) -> Decoded(unit(i), i + 2)
            [] OTHER -> IF unit(i + 2) = LostCode THEN Decoded(LostCode, i) ELSE Decoded(pair, i + 4)
    BY SMT DEF Utf16Decode
  <2> HIDE DEF unit, pair
  <2>5. Utf16Decode(s, i) = Decoded(n, i + 2)
    BY <2>1, <2>3, <2>4, SMT
  <2>6. DecodeAt(s, i, 2) = Utf16Decode(s, i)
    BY <1>2, SMT DEF DecodeAt
  <2>7. ~(s[i] = 0 /\ s[i + 1] = 0)
    BY <1>0, <2>2, SMT
  <2>8. i \in i..(i + 2 - 1) /\ i + 1 \in i..(i + 2 - 1)
    BY SMT
  <2> QED
    BY <1>4, <2>5, <2>6, <2>7, <2>8, SMT
<1>5. CASE size = 4
  <2>1. /\ u[1] = n % 256 /\ u[2] = (n \div 256) % 256
        /\ u[3] = n \div 65536 /\ u[4] = 0
    BY <1>0, <1>5, <1>u, SMT
  <2>2. /\ s[i] = n % 256 /\ s[i + 1] = (n \div 256) % 256
        /\ s[i + 2] = n \div 65536 /\ s[i + 3] = 0 /\ i + 3 \in DOMAIN s
    <3>1. /\ i + (1 - 1) = i /\ i + (2 - 1) = i + 1 /\ i + (3 - 1) = i + 2 /\ i + (4 - 1) = i + 3
          /\ 1 \in 1..size /\ 2 \in 1..size /\ 3 \in 1..size /\ 4 \in 1..size
      BY <1>5, SMT
    <3> QED
      BY <1>1, <2>1, <3>1, SMT
  <2>3. n = s[i] + 256 * s[i + 1] + 65536 * s[i + 2]
    BY <1>0, <2>2, SMT
  <2>4. ~(s[i + 2] > 16 \/ s[i + 3] > 0)
    BY <1>0, <2>2, SMT
  <2>5. Utf32Decode(s, i) = Decoded(n, i + 4)
    BY <2>2, <2>3, <2>4, SMT DEF Utf32Decode
  <2>6. DecodeAt(s, i, 4) = Utf32Decode(s, i)
    BY <1>2, SMT DEF DecodeAt
  <2>7. ~(s[i] = 0 /\ s[i + 1] = 0 /\ s[i + 2] = 0)
    BY <1>0, <2>3, SMT
  <2>8. i \in i..(i + 4 - 1) /\ i + 1 \in i..(i + 4 - 1) /\ i + 2 \in i..(i + 4 - 1)
    BY SMT
  <2> QED
    BY <1>5, <2>5, <2>6, <2>7, <2>8, SMT
<1> QED
  BY <1>3, <1>4, <1>5, SMT

-----------------------------------------------------------------------------
(* Where each of several sequences lies in all of them joined. *)

Lies(s, ss, p) ==
  /\ p[0] = 1 /\ p[Len(ss)] = Len(s) + 1
  /\ \A j \in 1..Len(ss) :
       /\ p[j - 1] \in Nat \ {0} /\ p[j] = p[j - 1] + Len(ss[j])
       /\ p[j] <= Len(s) + 1
       /\ \A k \in 1..Len(ss[j]) : s[p[j - 1] + (k - 1)] = ss[j][k]

SeqsOf(S) == Seq(Seq(S))

\* Sums, kept apart from what is added.
LEMMA EndAfter ==
  ASSUME NEW x \in Nat, NEW y \in Nat, NEW z, z = x + y
  PROVE  z + 1 = (x + 1) + y /\ z >= x
  OBVIOUS

\* Places of a part that is inside.
LEMMA Inside ==
  ASSUME NEW i \in Nat \ {0}, NEW m \in Nat, NEW n \in Nat, i + m <= n + 1, m >= 1
  PROVE  i + m - 1 \in 1..n /\ \A k \in 1..m : i + (k - 1) \in 1..n
  OBVIOUS

\* Each sequence is found in the whole.
LEMMA FlattenLies ==
  ASSUME NEW S, NEW ss \in SeqsOf(S)
  PROVE  \E p : Lies(FlattenSeq(ss), ss, p)
<1> DEFINE n == Len(ss)
           f(j) == Flat(ss, j)
           p == [j \in 0..n |-> IF j = 0 THEN 1 ELSE Len(f(j)) + 1]
           Fits(s, j) == /\ p[j] <= Len(s) + 1
                         /\ \A k \in 1..Len(ss[j]) : s[p[j - 1] + (k - 1)] = ss[j][k]
           Lie == {0} \cup {m \in 1..n : \A j \in 1..m : Fits(f(m), j)}
<1>0. n \in Nat /\ \A j \in 1..n : ss[j] \in Seq(S) /\ Len(ss[j]) \in Nat
  BY DEF SeqsOf
<1>1. CASE ss = <<>>
  <2>1. FlattenSeq(ss) = <<>> /\ n = 0
    BY <1>1, FlattenIs
  <2>2. p[0] = 1
    BY <2>1
  <2> HIDE DEF p
  <2>3. Lies(FlattenSeq(ss), ss, p)
    BY <1>1, <2>1, <2>2 DEF Lies
  <2> QED
    BY <2>3
<1>2. CASE ss # <<>>
  <2>1. /\ f(1) = ss[1]
        /\ \A j \in 2..n : f(j) = Cat(f(j - 1), ss[j])
        /\ \A j \in 1..n : f(j) \in Seq(S)
    BY <1>2, FlatSteps DEF SeqsOf
  <2>2. FlattenSeq(ss) = f(n) /\ n >= 1
    <3>1. n # 0
      BY <1>2 DEF SeqsOf
    <3> QED
      BY <1>0, <3>1, FlattenIs
  <2> HIDE DEF f
  <2>3. /\ p[0] = 1
        /\ \A j \in 1..n : p[j] = Len(f(j)) + 1 /\ Len(f(j)) \in Nat
    BY <1>0, <2>1
  <2>4. \A j \in 1..n : p[j - 1] \in Nat \ {0}
    BY <1>0, <2>3
  <2>5. \A j \in 2..n : /\ Len(f(j)) = Len(f(j - 1)) + Len(ss[j])
                        /\ \A k \in 1..Len(f(j - 1)) : f(j)[k] = f(j - 1)[k]
                        /\ \A k \in 1..Len(ss[j]) : f(j)[Len(f(j - 1)) + k] = ss[j][k]
    <3> SUFFICES ASSUME NEW j \in 2..n
                 PROVE  /\ Len(f(j)) = Len(f(j - 1)) + Len(ss[j])
                        /\ \A k \in 1..Len(f(j - 1)) : f(j)[k] = f(j - 1)[k]
                        /\ \A k \in 1..Len(ss[j]) : f(j)[Len(f(j - 1)) + k] = ss[j][k]
      OBVIOUS
    <3> DEFINE a == f(j - 1)
               b == ss[j]
    <3>1. a \in Seq(S) /\ b \in Seq(S) /\ f(j) = a \o b
      <4>1. j - 1 \in 1..n /\ j \in 1..n /\ f(j) = Cat(f(j - 1), ss[j])
        BY <2>1
      <4>2. f(j - 1) \in Seq(S) /\ ss[j] \in Seq(S)
        BY <1>0, <2>1, <4>1
      <4> QED
        BY <4>1, <4>2 DEF Cat
    <3> HIDE DEF a, b
    <3>2. /\ Len(a \o b) = Len(a) + Len(b)
          /\ \A k \in 1..Len(a) : (a \o b)[k] = a[k]
          /\ \A k \in 1..Len(b) : (a \o b)[Len(a) + k] = b[k]
      BY <3>1
    <3> QED
      BY <3>1, <3>2 DEF a, b
  <2>6. \A j \in 1..n : p[j] = p[j - 1] + Len(ss[j])
    <3> SUFFICES ASSUME NEW j \in 1..n PROVE p[j] = p[j - 1] + Len(ss[j])
      OBVIOUS
    <3>1. CASE j = 1
      <4>1. p[0] = 1 /\ p[1] = Len(ss[1]) + 1 /\ Len(ss[1]) \in Nat
        BY <1>0, <2>1, <2>3, <3>1
      <4> HIDE DEF p
      <4> QED
        BY <3>1, <4>1
    <3>2. CASE j # 1
      <4>1. j \in 2..n /\ j - 1 \in 1..n
        BY <3>2
      <4>2. p[j] = Len(f(j)) + 1 /\ p[j - 1] = Len(f(j - 1)) + 1
        <5> HIDE DEF p
        <5> QED
          BY <2>3, <4>1
      <4>3. /\ Len(f(j)) = Len(f(j - 1)) + Len(ss[j])
            /\ Len(f(j - 1)) \in Nat /\ Len(ss[j]) \in Nat
        BY <1>0, <2>3, <2>5, <4>1
      <4>4. Len(f(j)) + 1 = (Len(f(j - 1)) + 1) + Len(ss[j])
        BY <4>3, EndAfter, Zenon
      <4> HIDE DEF p
      <4> QED
        BY <4>2, <4>4, Zenon
    <3> QED
      BY <3>1, <3>2
  <2> HIDE DEF p
  <2>7. ASSUME NEW m \in 1..n, m - 1 \in Lie PROVE m \in Lie
    <3> SUFFICES ASSUME NEW j \in 1..m PROVE Fits(f(m), j)
      OBVIOUS
    <3>1. CASE j # m
      <4>1. j \in 1..(m - 1) /\ m - 1 \in 1..n /\ m \in 2..n /\ j \in 1..n
        BY <3>1
      <4>2. Fits(f(m - 1), j)
        BY <2>7, <4>1
      <4>3. Len(f(m)) >= Len(f(m - 1)) /\ \A k \in 1..Len(f(m - 1)) : f(m)[k] = f(m - 1)[k]
        <5>1. /\ Len(f(m)) = Len(f(m - 1)) + Len(ss[m]) /\ Len(f(m - 1)) \in Nat
              /\ \A k \in 1..Len(f(m - 1)) : f(m)[k] = f(m - 1)[k]
          BY <2>3, <2>5, <4>1
        <5>2. Len(ss[m]) \in Nat
          BY <1>0
        <5> QED
          BY <5>1, <5>2, EndAfter, Zenon
      <4>4. p[j] <= Len(f(m)) + 1
        BY <2>3, <4>1, <4>2, <4>3
      <4>5. \A k \in 1..Len(ss[j]) : p[j - 1] + (k - 1) \in 1..Len(f(m - 1))
        <5>1. p[j] = p[j - 1] + Len(ss[j]) /\ p[j - 1] \in Nat \ {0} /\ Len(ss[j]) \in Nat
          BY <1>0, <2>4, <2>6, <4>1
        <5>2. p[j] <= Len(f(m - 1)) + 1 /\ Len(f(m - 1)) \in Nat
          BY <2>3, <4>1, <4>2
        <5>3. ASSUME NEW k \in 1..Len(ss[j])
              PROVE  p[j - 1] + (k - 1) \in 1..Len(f(m - 1))
          <6>1. p[j - 1] + Len(ss[j]) <= Len(f(m - 1)) + 1
            BY <5>1, <5>2, Zenon
          <6>2. Len(ss[j]) >= 1
            BY <5>1
          <6> QED
            BY <5>1, <5>2, <6>1, <6>2, Inside, Zenon
        <5> QED
          BY <5>3
      <4> QED
        BY <4>2, <4>3, <4>4, <4>5
    <3>2. CASE j = m
      <4>1. p[m] <= Len(f(m)) + 1
        BY <2>3
      <4>2. CASE m = 1
        BY <1>0, <2>1, <2>3, <3>2, <4>1, <4>2
      <4>3. CASE m # 1
        <5>1. m \in 2..n /\ m - 1 \in 1..n
          BY <4>3
        <5>2. p[m - 1] = Len(f(m - 1)) + 1 /\ Len(f(m - 1)) \in Nat
          BY <2>3, <5>1
        <5>3. \A k \in 1..Len(ss[m]) : f(m)[p[m - 1] + (k - 1)] = ss[m][k]
          <6> SUFFICES ASSUME NEW k \in 1..Len(ss[m])
                       PROVE  f(m)[p[m - 1] + (k - 1)] = ss[m][k]
            OBVIOUS
          <6>1. p[m - 1] + (k - 1) = Len(f(m - 1)) + k
            BY <1>0, <5>2
          <6>2. f(m)[Len(f(m - 1)) + k] = ss[m][k]
            BY <2>5, <5>1
          <6> QED
            BY <6>1, <6>2
        <5> QED
          BY <3>2, <4>1, <5>3
      <4> QED
        BY <4>2, <4>3
    <3> QED
      BY <3>1, <3>2
  <2>8. n \in Lie
    <3>1. 0 \in Lie
      OBVIOUS
    <3> HIDE DEF Lie
    <3>2. \A m \in 0..n : m \in Lie
      BY <1>0, <2>7, <3>1, IndexInduction
    <3> QED
      BY <1>0, <3>2
  <2>9. \A j \in 1..n : Fits(f(n), j)
    BY <2>2, <2>8
  <2>10. Lies(f(n), ss, p)
    <3>1. p[n] = Len(f(n)) + 1
      <4>1. n \in 1..n
        BY <1>0, <2>2
      <4> HIDE DEF n
      <4> QED
        BY <2>3, <4>1
    <3> QED
      BY <2>3, <2>4, <2>6, <2>9, <3>1 DEF Lies
  <2> QED
    BY <2>2, <2>10
<1> QED
  BY <1>1, <1>2

-----------------------------------------------------------------------------
(* Reading. *)

\* The codes are at these places, each followed by the next.
Read(s, size, codes, p) ==
  /\ p[0] = 1
  /\ \A j \in 1..Len(codes) :
       /\ p[j - 1] \in 1..(Len(s) + 4) /\ p[j] \in 1..(Len(s) + 4)
       /\ p[j - 1] + size - 1 <= Len(s)
       /\ DecodeAt(s, p[j - 1], size) = Decoded(codes[j], p[j])
       /\ ~(codes[j] < 0)
       /\ ~ \A k \in p[j - 1]..(p[j - 1] + size - 1) : s[k] = 0

\* What comes after them is the end, or the end of what is in memory.
EndsAt(s, size, codes, e) ==
  /\ e + size - 1 > Len(s) => Codes(s, size) = codes \o <<LostCode>>
  /\ (~(e + size - 1 > Len(s)) /\ \A k \in e..(e + size - 1) : s[k] = 0)
       => Codes(s, size) = codes

\* So the codes are read up to there, and what is there says how they end.
LEMMA CodesRead ==
  ASSUME NEW X, NEW s \in Seq(X), NEW size \in {1, 2, 4},
         NEW C, NEW codes \in Seq(C), NEW p, Read(s, size, codes, p),
         NEW e, e = p[Len(codes)]
  PROVE  EndsAt(s, size, codes, e)
<1> DEFINE n == Len(codes)
<1>0. n \in Nat /\ Len(s) \in Nat /\ DOMAIN codes = 1..n
  OBVIOUS
<1>1. PICK read, T : SolvedBy(s, size, read, T)
  BY CodesSteps, Zenon
<1>solved. /\ Codes(s, size) = read[1]
           /\ \A i \in 1..(Len(s) + 4) :
                read[i] = CodesFrom(s, size, i, read) /\ read[i] \in Seq(T)
  BY <1>1, Zenon DEF SolvedBy
<1> DEFINE U == T \cup C \cup {LostCode}
<1>2. codes \in Seq(U) /\ \A i \in 1..(Len(s) + 4) : read[i] \in Seq(U)
  <2>1. C \subseteq U /\ T \subseteq U
    OBVIOUS
  <2> HIDE DEF U
  <2> QED
    BY <1>solved, <2>1, SeqMonotonic
<1>3. p[0] = 1 /\ \A j \in 0..n : p[j] \in 1..(Len(s) + 4)
  <2>1. p[0] \in 1..(Len(s) + 4)
    BY <1>0 DEF Read
  <2>2. \A j \in 1..n : p[j] \in 1..(Len(s) + 4)
    BY DEF Read
  <2> QED
    BY <1>0, <2>1, <2>2 DEF Read
<1>4. \A j \in 1..n : read[p[j - 1]] = Cat(<<codes[j]>>, read[p[j]])
  <2> SUFFICES ASSUME NEW j \in 1..n PROVE read[p[j - 1]] = Cat(<<codes[j]>>, read[p[j]])
    OBVIOUS
  <2> DEFINE i == p[j - 1]
             d == DecodeAt(s, i, size)
  <2>1. /\ i \in 1..(Len(s) + 4) /\ d = Decoded(codes[j], p[j]) /\ ~(codes[j] < 0)
        /\ i + size - 1 <= Len(s)
        /\ ~ \A k \in i..(i + size - 1) : s[k] = 0
    BY DEF Read
  <2>2. d.code = codes[j] /\ d.next = p[j]
    BY <2>1 DEF Decoded
  <2>3. ~(i + size - 1 > Len(s))
    BY <1>0, <2>1
  <2> HIDE DEF i, d
  <2>4. CodesFrom(s, size, i, read) = <<d.code>> \o read[d.next]
    BY <2>1, <2>2, <2>3, Zenon DEF CodesFrom, d
  <2> QED
    BY <1>solved, <2>1, <2>2, <2>4, Zenon DEF Cat, i
<1> DEFINE Holds == {m \in 0..n : Codes(s, size) = Cat(SubSeq(codes, 1, m), read[p[m]])}
<1>5. 0 \in Holds
  <2>1. SubSeq(codes, 1, 0) = <<>> /\ read[1] \in Seq(U) /\ 1 \in 1..(Len(s) + 4)
    BY <1>0, <1>2
  <2>2. Cat(<<>>, read[1]) = read[1]
    BY <2>1, ConcatEmptySeq DEF Cat
  <2> QED
    <3>1. Codes(s, size) = Cat(SubSeq(codes, 1, 0), read[p[0]])
      BY <1>solved, <1>3, <2>1, <2>2, Zenon
    <3> QED
      BY <1>0, <3>1
<1>6. ASSUME NEW m \in 1..n, m - 1 \in Holds PROVE m \in Holds
  <2> DEFINE a == SubSeq(codes, 1, m - 1)
             b == <<codes[m]>>
             c == read[p[m]]
  <2>1. a \in Seq(U) /\ b \in Seq(U) /\ c \in Seq(U)
    <3>1. p[m] \in 1..(Len(s) + 4) /\ codes[m] \in U
      BY <1>0, <1>2, <1>3
    <3>2. SubSeq(codes, 1, m - 1) \in Seq(U)
      BY <1>0, <1>2
    <3> HIDE DEF U
    <3> QED
      BY <1>2, <3>1, <3>2
  <2>2. Codes(s, size) = Cat(a, Cat(b, c))
    BY <1>4, <1>6
  <2>3. SubSeq(codes, 1, m) = Cat(a, b)
    <3> HIDE DEF U
    <3>1. SubSeq(codes, 1, m) \in Seq(U) /\ a \o b \in Seq(U)
      BY <1>0, <1>2, <2>1
    <3>2. Len(SubSeq(codes, 1, m)) = m /\ Len(a) = m - 1 /\ Len(a \o b) = m
      BY <1>0, <1>2
    <3>3. \A k \in 1..m : SubSeq(codes, 1, m)[k] = (a \o b)[k]
      BY <1>0, <1>2
    <3> QED
      BY <3>1, <3>2, <3>3, SeqEqual DEF Cat
  <2> HIDE DEF a, b, c, U
  <2>4. Cat(a, Cat(b, c)) = Cat(Cat(a, b), c)
    BY <2>1, CatAssociates
  <2> QED
    <3>1. Codes(s, size) = Cat(SubSeq(codes, 1, m), read[p[m]])
      BY <2>2, <2>3, <2>4, Zenon DEF c
    <3>2. m \in 0..n
      BY <1>0
    <3> QED
      BY <3>1, <3>2
<1>7. Codes(s, size) = Cat(codes, read[e])
  <2>1. n \in Holds
    <3> HIDE DEF Holds
    <3>1. \A m \in 0..n : m \in Holds
      <4> HIDE DEF n
      <4> QED
        BY <1>0, <1>5, <1>6, IndexInduction, Zenon
    <3> QED
      BY <1>0, <3>1
  <2>2. SubSeq(codes, 1, n) = codes
    BY <1>2, SubSeqFull
  <2> QED
    BY <2>1, <2>2
<1>8. e \in 1..(Len(s) + 4) /\ read[e] = CodesFrom(s, size, e, read)
  BY <1>0, <1>solved, <1>3
<1>9. CASE e + size - 1 > Len(s)
  <2>1. read[e] = <<LostCode>>
    BY <1>8, <1>9, Zenon DEF CodesFrom
  <2> QED
    BY <1>7, <1>9, <2>1, Zenon DEF Cat, EndsAt
<1>10. CASE ~(e + size - 1 > Len(s)) /\ \A k \in e..(e + size - 1) : s[k] = 0
  <2>1. read[e] = <<>>
    BY <1>8, <1>10, Zenon DEF CodesFrom
  <2>2. Cat(codes, <<>>) = codes
    BY ConcatEmptySeq DEF Cat
  <2> QED
    BY <1>7, <1>10, <2>1, <2>2, Zenon DEF EndsAt
<1> QED
  BY <1>9, <1>10 DEF EndsAt

-----------------------------------------------------------------------------
(* The bytes of a literal. *)

\* A character that survives is stored as its code, and converted to its unit.
LEMMA SurvivorIs ==
  ASSUME NEW type \in CharTypes, NEW c \in Char, Survives(type, c),
         NEW n, n = c.code
  PROVE  /\ OneUnit(n, SizeOf(type))
         /\ StoredChar(c) = Utf8Encode(n)
         /\ Encode(type, n) = Unit(n, SizeOf(type))
<1> DEFINE size == SizeOf(type)
<1>1. n \in Nat
  <2>1. InvalidCode \in Nat
    BY SMT DEF InvalidCode
  <2>2. n \in 0..InvalidCode
    BY Zenon DEF Char
  <2> QED
    BY <2>1, <2>2, SMT
<1>2. size \in {1, 2, 4}
  BY SizeOfType
<1>3. n # 0 /\ (c.how = "escape" \/ (c.how = "plain" /\ n < 128))
  BY SMT DEF Survives
<1>4. /\ size = 1 => n < 128
      /\ size = 2 => n < 65536 /\ ~LooksPaired(n)
      /\ size = 4 => n < 1048576
  BY SMT DEF Survives
<1> HIDE DEF size
<1>5. ShortCode(n) /\ OneUnit(n, size)
  BY <1>1, <1>2, <1>3, <1>4, SMT DEF ShortCode, OneUnit
<1>6. n < 128 => Utf8Encode(n) = <<n>>
  BY <1>1, <1>5, Utf8Bytes, SMT
<1>7. StoredChar(c) = Utf8Encode(n)
  <2>1. CASE c.how = "escape"
    BY <2>1, Zenon DEF StoredChar
  <2>2. CASE c.how = "plain" /\ n < 128
    <3>1. StoredChar(c) = IF n < 128 THEN <<n>> ELSE <<>>
      BY <2>2, Zenon DEF StoredChar
    <3> QED
      BY <1>6, <2>2, <3>1, Zenon
  <2> QED
    BY <1>3, <2>1, <2>2
<1>8. Encode(type, n) = Unit(n, size)
  <2>1. 1 # 2 /\ 1 # 4 /\ 2 # 4
    OBVIOUS
  <2>2. CASE size = 1
    <3>1. Unit(n, 1) = <<n>>
      <4>1. n % 256 = n
        BY <1>1, <1>4, <2>2, SMT
      <4>2. /\ Unit(n, 1) \in Seq(Nat) /\ Len(Unit(n, 1)) = 1
            /\ HoldsCode(Unit(n, 1), n, 1)
        BY <1>2, <1>5, <2>2, UnitIs, Zenon
      <4>3. Unit(n, 1)[1] = n
        BY <4>1, <4>2, SMT DEF HoldsCode
      <4> QED
        BY <1>1, <4>2, <4>3
    <3>2. Encode(type, n) = Utf8Encode(n)
      BY <2>1, <2>2, Zenon DEF Encode, size
    <3> QED
      BY <1>4, <1>6, <2>2, <3>1, <3>2, SMT
  <2>3. CASE size = 2
    <3>1. Encode(type, n) = Utf16Encode(n)
      BY <2>1, <2>3, Zenon DEF Encode, size
    <3>2. Utf16Encode(n) = Unit(n, 2)
      BY <1>1, <1>4, <2>3, SMT DEF Utf16Encode
    <3> QED
      BY <2>3, <3>1, <3>2, Zenon
  <2>4. CASE size = 4
    BY <2>1, <2>4, Zenon DEF Encode, size
  <2> QED
    BY <1>2, <2>2, <2>3, <2>4
<1> QED
  BY <1>5, <1>7, <1>8 DEF size

\* Units, one behind the other, hold the codes of characters.
LaidOut(s, chars, size) ==
  /\ Len(s) = size * Len(chars)
  /\ \A j \in 1..Len(chars) : \A k \in 1..size :
       s[size * (j - 1) + k] = Unit(chars[j].code, size)[k]

AllSurvive(type, chars) == \A k \in DOMAIN chars : Survives(type, chars[k])
CodesOf(chars) == [k \in DOMAIN chars |-> chars[k].code]

\* The codes are read of what is stored of a literal.
LEMMA StoredReads ==
  ASSUME NEW type \in CharTypes, NEW chars \in Seq(Char), AllSurvive(type, chars)
  PROVE  Codes(StoredChars(chars) \o <<0>>, 1) = CodesOf(chars)
<1> DEFINE n == Len(chars)
           ss == [j \in DOMAIN chars |-> StoredChar(chars[j])]
           stored == StoredChars(chars)
           zero == <<0>>
           s == stored \o zero
           codes == CodesOf(chars)
<1>0. n \in Nat /\ DOMAIN chars = 1..n /\ \A j \in 1..n : chars[j] \in Char
  OBVIOUS
<1>1. /\ ss \in SeqsOf(StoredBytes) /\ Len(ss) = n
      /\ stored \in Seq(StoredBytes) /\ stored = FlattenSeq(ss)
  <2>1. Len(ss) = n
    BY <1>0
  <2> HIDE DEF ss
  <2> QED
    BY <2>1, StoredSeqs DEF SeqsOf, StoredChars, ss
<1>2. PICK p : Lies(stored, ss, p)
  BY <1>1, FlattenLies
<1>3. /\ s \in Seq(StoredBytes \cup {0}) /\ Len(s) = Len(stored) + 1 /\ Len(stored) \in Nat
      /\ s[Len(stored) + 1] = 0 /\ \A i \in 1..Len(stored) : s[i] = stored[i]
  <2>1. stored \in Seq(StoredBytes)
    BY <1>1
  <2>2. zero \in Seq({0}) /\ Len(zero) = 1 /\ zero[1] = 0
    OBVIOUS
  <2> HIDE DEF stored, zero
  <2> DEFINE T == StoredBytes \cup {0}
  <2>3. stored \in Seq(T) /\ zero \in Seq(T)
    <3>1. StoredBytes \subseteq T /\ {0} \subseteq T
      OBVIOUS
    <3> HIDE DEF T
    <3> QED
      BY <2>1, <2>2, <3>1, SeqMonotonic
  <2> HIDE DEF T
  <2>4. /\ s \in Seq(T) /\ Len(s) = Len(stored) + Len(zero) /\ Len(stored) \in Nat
        /\ \A i \in 1..Len(stored) : s[i] = stored[i]
        /\ \A i \in 1..Len(zero) : s[Len(stored) + i] = zero[i]
    BY <2>3
  <2>5. Len(s) = Len(stored) + 1 /\ s[Len(stored) + 1] = 0
    <3> HIDE DEF s
    <3>1. 1 \in 1..Len(zero)
      BY <2>2
    <3> QED
      BY <2>2, <2>4, <3>1
  <2> QED
    BY <2>4, <2>5, Zenon DEF T
<1>4. codes \in Seq(Nat) /\ Len(codes) = n /\ \A j \in 1..n : codes[j] = chars[j].code
  <2>1. \A j \in 1..n : chars[j].code \in Nat
    <3>1. \A j \in 1..n : OneUnit(chars[j].code, SizeOf(type))
      BY <1>0, SurvivorIs, Zenon DEF AllSurvive
    <3> QED
      BY <3>1, SMT DEF OneUnit, ShortCode
  <2> QED
    BY <1>0, <2>1 DEF CodesOf
<1> HIDE DEF ss, s, stored, codes
<1>5. ASSUME NEW j \in 1..n
      PROVE  /\ p[j - 1] \in 1..(Len(s) + 4) /\ p[j] \in 1..(Len(s) + 4)
             /\ p[j - 1] + 1 - 1 <= Len(s)
             /\ DecodeAt(s, p[j - 1], 1) = Decoded(codes[j], p[j])
             /\ ~(codes[j] < 0)
             /\ ~ \A k \in p[j - 1]..(p[j - 1] + 1 - 1) : s[k] = 0
  <2> DEFINE i == p[j - 1]
             c == chars[j].code
             e == Utf8Encode(c)
  <2>1. OneUnit(c, SizeOf(type)) /\ StoredChar(chars[j]) = e
    BY <1>0, SurvivorIs, Zenon DEF AllSurvive
  <2>2. ShortCode(c) /\ c \in Nat
    BY <2>1, SMT DEF OneUnit, ShortCode
  <2>3. ss[j] = e
    BY <1>0, <2>1 DEF ss
  <2>4. Len(e) \in Nat /\ Len(e) >= 1
    <3>1. Len(e) \in 1..4
      BY <2>2, Utf8Bytes, SMT
    <3> DEFINE m == Len(e)
    <3>2. m \in 1..4
      BY <3>1
    <3> HIDE DEF m
    <3>3. m \in Nat /\ m >= 1
      BY <3>2
    <3> QED
      BY <3>3 DEF m
  <2>5. /\ i \in Nat \ {0} /\ p[j] = i + Len(e) /\ p[j] <= Len(stored) + 1
        /\ \A k \in 1..Len(e) : stored[i + (k - 1)] = e[k]
    BY <1>1, <1>2, <2>3 DEF Lies
  <2> HIDE DEF i, e, c
  <2>6. /\ i + Len(e) - 1 \in 1..Len(stored)
        /\ \A k \in 1..Len(e) : i + (k - 1) \in 1..Len(stored)
    <3>1. i \in Nat \ {0} /\ Len(stored) \in Nat /\ i + Len(e) <= Len(stored) + 1
      BY <1>3, <2>5
    <3> QED
      BY <2>4, <3>1, Inside, Zenon
  <2>8. HasAt(s, i, e)
    <3>1. DOMAIN s = 1..(Len(stored) + 1)
      BY <1>3
    <3> QED
      BY <1>3, <2>5, <2>6, <3>1 DEF HasAt
  <2>9. Utf8Decode(s, i) = Decoded(c, i + Len(e)) /\ s[i] # 0
    BY <2>2, <2>5, <2>8, Utf8Reads DEF e
  <2>10. DecodeAt(s, i, 1) = Utf8Decode(s, i)
    <3>1. 1 # 2 /\ 1 # 4
      OBVIOUS
    <3> QED
      BY <3>1, Zenon DEF DecodeAt
  <2>11. codes[j] = c
    BY <1>4 DEF c
  <2>12. i \in i..(i + 1 - 1) /\ i + 1 - 1 <= Len(s) /\ i \in 1..(Len(s) + 4) /\ p[j] \in 1..(Len(s) + 4)
    BY <1>3, <2>4, <2>5
  <2>13. ~(c < 0)
    BY <2>2
  <2> QED
    BY <2>5, <2>9, <2>10, <2>11, <2>12, <2>13 DEF i
<1>6. Read(s, 1, codes, p)
  <2>1. p[0] = 1
    BY <1>2 DEF Lies
  <2> QED
    BY <1>4, <1>5, <2>1, Zenon DEF Read
<1>7. Codes(s, 1) = codes
  <2> DEFINE e == p[n]
  <2>1. e = Len(stored) + 1
    BY <1>1, <1>2 DEF Lies
  <2>2. ~(e + 1 - 1 > Len(s)) /\ \A k \in e..(e + 1 - 1) : s[k] = 0
    BY <1>3, <2>1
  <2>3. 1 \in {1, 2, 4} /\ e = p[Len(codes)]
    BY <1>4
  <2>4. s \in Seq(StoredBytes \cup {0}) /\ codes \in Seq(Nat)
    BY <1>3, <1>4
  <2> HIDE DEF e
  <2> QED
    <3>1. EndsAt(s, 1, codes, e)
      BY <1>6, <2>3, <2>4, CodesRead, Zenon
    <3> QED
      BY <2>2, <3>1, Zenon DEF EndsAt
<1> QED
  BY <1>7 DEF s, codes, stored

-----------------------------------------------------------------------------
(* Places of units. *)

\* Units of so many bytes are one behind the other.
LEMMA UnitPlaces ==
  ASSUME NEW size \in {1, 2, 4}, NEW m \in Nat, NEW n \in Nat
  PROVE  /\ size * m \in Nat /\ size * (m + n) = size * m + size * n
         /\ \A j \in 1..m : \A k \in 1..size : size * (j - 1) + k \in 1..(size * m)
<1>1. CASE size = 1
  BY <1>1
<1>2. CASE size = 2
  BY <1>2
<1>3. CASE size = 4
  BY <1>3
<1> QED
  BY <1>1, <1>2, <1>3

\* A place behind m units.
LEMMA LaterPlace ==
  ASSUME NEW size \in {1, 2, 4}, NEW m \in Nat, NEW j \in Nat, j > m, NEW k \in 1..size
  PROVE  size * (j - 1) + k = size * m + (size * ((j - m) - 1) + k)
<1>1. CASE size = 1
  BY <1>1
<1>2. CASE size = 2
  BY <1>2
<1>3. CASE size = 4
  BY <1>3
<1> QED
  BY <1>1, <1>2, <1>3

\* The places of units, from the first.
LEMMA EvenPlaces ==
  ASSUME NEW size \in {1, 2, 4}, NEW n \in Nat, NEW p, p[0] = 1,
         \A j \in 1..n : p[j] = p[j - 1] + size
  PROVE  \A j \in 0..n : p[j] = 1 + size * j
<1> DEFINE Even == {j \in 0..n : p[j] = 1 + size * j}
<1>1. 0 \in Even
  OBVIOUS
<1>2. ASSUME NEW j \in 1..n, j - 1 \in Even PROVE j \in Even
  <2>1. p[j] = (1 + size * (j - 1)) + size
    BY <1>2
  <2>2. (1 + size * (j - 1)) + size = 1 + size * j
    <3>1. CASE size = 1
      BY <3>1
    <3>2. CASE size = 2
      BY <3>2
    <3>3. CASE size = 4
      BY <3>3
    <3> QED
      BY <3>1, <3>2, <3>3
  <2> QED
    BY <2>1, <2>2
<1>3. \A j \in 0..n : j \in Even
  <2> HIDE DEF Even
  <2> QED
    BY <1>1, <1>2, IndexInduction
<1> QED
  BY <1>3

\* Sequences of one element.
LEMMA FlattenSingles ==
  ASSUME NEW S, NEW x \in Seq(S)
  PROVE  FlattenSeq([i \in DOMAIN x |-> <<x[i]>>]) = x
<1> DEFINE ss == [i \in DOMAIN x |-> <<x[i]>>]
           s == FlattenSeq(ss)
           n == Len(x)
<1>1. n \in Nat /\ DOMAIN x = 1..n /\ \A i \in 1..n : x[i] \in S
  OBVIOUS
<1>2. /\ ss \in SeqsOf(S) /\ Len(ss) = n
      /\ \A i \in 1..n : Len(ss[i]) = 1 /\ ss[i][1] = x[i]
  <2>1. \A i \in 1..n : <<x[i]>> \in Seq(S) /\ Len(<<x[i]>>) = 1 /\ <<x[i]>>[1] = x[i]
    BY <1>1
  <2> DEFINE T == Seq(S)
             one(i) == <<x[i]>>
  <2> HIDE DEF T, n, one
  <2>2. ss = [i \in 1..n |-> one(i)]
    BY <1>1 DEF one
  <2>3. \A i \in 1..n : one(i) \in T /\ Len(one(i)) = 1 /\ one(i)[1] = x[i]
    BY <2>1 DEF T, one
  <2> HIDE DEF ss
  <2>4. ss \in Seq(T) /\ Len(ss) = n /\ \A i \in 1..n : ss[i] = one(i)
    BY <1>1, <2>2, <2>3
  <2> QED
    BY <2>3, <2>4 DEF SeqsOf, T
<1> HIDE DEF ss
<1>3. s \in Seq(S)
  BY <1>2, FlattenType DEF SeqsOf
<1>4. PICK p : Lies(s, ss, p)
  BY <1>2, FlattenLies
<1> HIDE DEF s, n
<1>5. /\ p[0] = 1 /\ p[n] = Len(s) + 1
      /\ \A j \in 1..n : /\ p[j] = p[j - 1] + 1
                         /\ s[p[j - 1] + (1 - 1)] = x[j]
  <2>1. \A j \in 1..n : 1 \in 1..Len(ss[j])
    BY <1>2
  <2> QED
    BY <1>2, <1>4, <2>1 DEF Lies
<1>6. \A j \in 0..n : p[j] = 1 + 1 * j
  BY <1>1, <1>5, EvenPlaces
<1>7. Len(s) = n
  <2>1. Len(s) \in Nat
    BY <1>3
  <2> QED
    BY <1>1, <1>5, <1>6, <2>1
<1>8. \A j \in 1..n : s[j] = x[j]
  <2> SUFFICES ASSUME NEW j \in 1..n PROVE s[j] = x[j]
    OBVIOUS
  <2>1. p[j - 1] = 1 + 1 * (j - 1)
    BY <1>1, <1>6
  <2>2. p[j - 1] + (1 - 1) = j
    BY <1>1, <2>1
  <2> QED
    BY <1>5, <2>2
<1>9. s = x
  BY <1>3, <1>7, <1>8, SeqEqual DEF n
<1> QED
  BY <1>9 DEF s, ss

-----------------------------------------------------------------------------
(* The bytes of strings. *)

\* What a token of the source is converted to.
LEMMA SourceTok ==
  ASSUME NEW t \in AllToks
  PROVE  /\ t.chars \in Seq(Char)
         /\ t.kind = "str" => /\ t.type \in CharTypes
                              /\ Convert(t).str = ConvertString(t.type, StoredChars(t.chars))
         /\ t.kind = "id"  => /\ \A c \in ToSet(t.chars) : c.how = "plain" /\ c.code \in 1..127
                              /\ Convert(t).str = StoredChars(t.chars)
<1>1. PICK s \in Sources : t \in ToSet(s)
  BY DEF AllToks
<1>2. PICK i \in DOMAIN s : t = s[i]
  BY <1>1 DEF ToSet
<1>3. t.chars \in Seq(Char)
  <2>1. t \in PpToks
    BY <1>2, SourcesAssumption
  <2> QED
    BY <2>1 DEF PpToks
<1>4. /\ t.kind = "str" => t.type \in CharTypes
      /\ t.kind = "id"  => \A c \in ToSet(t.chars) : c.how = "plain" /\ c.code \in 1..127
  BY <1>2, SourcesAssumption
<1> DEFINE str == CASE t.kind = "str" -> ConvertString(t.type, StoredChars(t.chars))
                    [] t.kind = "id"  -> StoredChars(t.chars)
                    [] OTHER          -> <<>>
<1>5. Convert(t) = [kind |-> t.kind, type |-> t.type, str |-> str]
  BY Zenon DEF Convert, Token
<1>6. Convert(t).str = str
  <2> HIDE DEF str
  <2> QED
    BY <1>5
<1>7. /\ t.kind = "str" => str = ConvertString(t.type, StoredChars(t.chars))
      /\ t.kind = "id"  => str = StoredChars(t.chars)
  BY Zenon
<1> HIDE DEF str
<1> QED
  BY <1>3, <1>4, <1>6, <1>7, Zenon

\* What a literal is converted to are the units of its characters.
LEMMA LiteralLaid ==
  ASSUME NEW t \in AllToks, t.kind = "str", AllSurvive(t.type, t.chars)
  PROVE  LaidOut(Convert(t).str, t.chars, SizeOf(t.type))
<1> DEFINE type == t.type
           chars == t.chars
           size == SizeOf(type)
           n == Len(chars)
           codes == CodesOf(chars)
           es == [i \in DOMAIN codes |-> Encode(type, codes[i])]
           all == FlattenSeq(es)
<1>1. type \in CharTypes /\ chars \in Seq(Char)
  BY SourceTok, Zenon
<1>2. size \in {1, 2, 4}
  BY <1>1, SizeOfType
<1> HIDE DEF type, chars, size
<1>3. n \in Nat /\ DOMAIN chars = 1..n /\ \A j \in 1..n : chars[j] \in Char
  BY <1>1
<1>4. DOMAIN codes = 1..n /\ \A j \in 1..n : codes[j] = chars[j].code
  BY <1>3 DEF CodesOf
<1>5. ASSUME NEW j \in 1..n
      PROVE  /\ OneUnit(codes[j], size) /\ Encode(type, codes[j]) = Unit(codes[j], size)
             /\ Unit(codes[j], size) \in Seq(Nat) /\ Len(Unit(codes[j], size)) = size
  <2>1. chars[j] \in Char /\ Survives(type, chars[j]) /\ codes[j] = chars[j].code
    BY <1>3, <1>4 DEF AllSurvive, type, chars
  <2> HIDE DEF codes
  <2>2. OneUnit(codes[j], size) /\ Encode(type, codes[j]) = Unit(codes[j], size)
    BY <1>1, <2>1, SurvivorIs, Zenon DEF size
  <2>3. Unit(codes[j], size) \in Seq(Nat) /\ Len(Unit(codes[j], size)) = size
    BY <1>2, <2>2, UnitIs, Zenon
  <2> QED
    BY <2>2, <2>3
<1> HIDE DEF codes
<1>6. /\ es \in SeqsOf(Nat) /\ Len(es) = n
      /\ \A j \in 1..n : es[j] = Unit(codes[j], size) /\ Len(es[j]) = size
  <2> DEFINE T == Seq(Nat)
             unit(j) == Unit(codes[j], size)
  <2>1. \A j \in 1..n : Encode(type, codes[j]) = unit(j) /\ unit(j) \in T /\ Len(unit(j)) = size
    BY <1>5, Zenon
  <2>2. es = [i \in 1..n |-> unit(i)]
    BY <1>4, <2>1
  <2> HIDE DEF T, unit, es, n
  <2>3. es \in Seq(T) /\ Len(es) = n /\ \A j \in 1..n : es[j] = unit(j)
    BY <1>3, <2>1, <2>2
  <2> QED
    BY <2>1, <2>3 DEF SeqsOf, T, unit
<1> HIDE DEF es
<1>7. all \in Seq(Nat)
  BY <1>6, FlattenType DEF SeqsOf
<1>8. PICK p : Lies(all, es, p)
  BY <1>6, FlattenLies
<1> HIDE DEF all, n
<1>9. /\ p[0] = 1 /\ p[n] = Len(all) + 1
      /\ \A j \in 1..n : /\ p[j] = p[j - 1] + size
                         /\ \A k \in 1..size : all[p[j - 1] + (k - 1)] = es[j][k]
  BY <1>6, <1>8 DEF Lies
<1>10. \A j \in 0..n : p[j] = 1 + size * j
  BY <1>2, <1>3, <1>9, EvenPlaces
<1>11. Len(all) = size * n /\ size * n \in Nat
  <2>1. size * n \in Nat
    BY <1>2, <1>3, UnitPlaces
  <2>2. p[n] = 1 + size * n
    BY <1>3, <1>10
  <2>3. Len(all) \in Nat
    BY <1>7
  <2> QED
    BY <1>9, <2>1, <2>2, <2>3
<1>12. ASSUME NEW j \in 1..n, NEW k \in 1..size
       PROVE  all[size * (j - 1) + k] = Unit(chars[j].code, size)[k]
  <2>1. p[j - 1] = 1 + size * (j - 1)
    BY <1>3, <1>10
  <2>2. size * (j - 1) \in Nat
    <3>1. j - 1 \in Nat
      BY <1>3
    <3> QED
      BY <1>2, <3>1, UnitPlaces
  <2>3. p[j - 1] + (k - 1) = size * (j - 1) + k
    BY <1>2, <2>1, <2>2
  <2> QED
    BY <1>4, <1>6, <1>9, <2>3
<1>13. LaidOut(all, chars, size)
  BY <1>11, <1>12 DEF LaidOut, n
<1>14. Convert(t).str = all
  <2>1. Convert(t).str = ConvertString(type, StoredChars(chars))
    BY SourceTok, Zenon DEF type, chars
  <2>2. Codes(StoredChars(chars) \o <<0>>, 1) = codes
    BY <1>1, StoredReads DEF codes, type, chars
  <2>3. ConvertString(type, StoredChars(chars)) = SubSeq(all, 1, size * Len(codes))
    BY <2>2, Zenon DEF ConvertString, all, es, size
  <2>4. Len(codes) = n
    BY <1>3 DEF codes, CodesOf, n
  <2>5. SubSeq(all, 1, Len(all)) = all
    BY <1>7, SubSeqFull
  <2> QED
    BY <1>11, <2>1, <2>3, <2>4, <2>5
<1> QED
  BY <1>13, <1>14 DEF type, chars, size

\* Joined, they are those of the joined characters.
LEMMA CatLaid ==
  ASSUME NEW size \in {1, 2, 4}, NEW A, NEW a \in Seq(A), NEW b \in Seq(A),
         NEW C, NEW x \in Seq(C), NEW y \in Seq(C),
         LaidOut(a, x, size), LaidOut(b, y, size)
  PROVE  LaidOut(Cat(a, b), Cat(x, y), size)
<1> DEFINE ab == Cat(a, b)
           xy == Cat(x, y)
           m == Len(x)
           n == Len(y)
           unit(c) == Unit(c.code, size)
<1>1. m \in Nat /\ n \in Nat /\ Len(a) \in Nat /\ Len(b) \in Nat
  OBVIOUS
<1>2. /\ Len(ab) = Len(a) + Len(b)
      /\ \A i \in 1..Len(a) : ab[i] = a[i]
      /\ \A i \in 1..Len(b) : ab[Len(a) + i] = b[i]
  <2>1. IsCat(A, a, b, ab)
    BY CatIs
  <2> QED
    BY <2>1 DEF IsCat
<1>3. /\ Len(xy) = m + n
      /\ \A i \in 1..m : xy[i] = x[i]
      /\ \A i \in 1..n : xy[m + i] = y[i]
  <2>1. IsCat(C, x, y, xy)
    BY CatIs
  <2> QED
    BY <2>1 DEF IsCat
<1>4. /\ Len(a) = size * m /\ Len(b) = size * n
      /\ \A j \in 1..m : \A k \in 1..size : a[size * (j - 1) + k] = unit(x[j])[k]
      /\ \A j \in 1..n : \A k \in 1..size : b[size * (j - 1) + k] = unit(y[j])[k]
  BY DEF LaidOut
<1> HIDE DEF ab, xy, m, n, unit
<1>5. Len(ab) = size * Len(xy)
  <2>1. size * (m + n) = size * m + size * n
    BY <1>1, UnitPlaces
  <2> QED
    BY <1>2, <1>3, <1>4, <2>1
<1>6. ASSUME NEW j \in 1..Len(xy), NEW k \in 1..size
      PROVE  ab[size * (j - 1) + k] = unit(xy[j])[k]
  <2>1. CASE j <= m
    <3>1. j \in 1..m
      BY <1>1, <1>3, <2>1
    <3>2. size * (j - 1) + k \in 1..Len(a)
      BY <1>1, <1>4, <3>1, UnitPlaces
    <3>3. ab[size * (j - 1) + k] = a[size * (j - 1) + k]
      BY <1>2, <3>2, Zenon
    <3>4. xy[j] = x[j]
      BY <1>3, <3>1
    <3> QED
      BY <1>4, <3>1, <3>3, <3>4, Zenon
  <2>2. CASE j > m
    <3> DEFINE i == j - m
               place == size * (i - 1) + k
    <3>1. i \in 1..n /\ m + i = j
      BY <1>1, <1>3, <2>2
    <3>2. size * (j - 1) + k = Len(a) + place
      <4>1. j \in Nat
        BY <1>1, <1>3
      <4> QED
        BY <1>1, <1>4, <2>2, <4>1, LaterPlace
    <3> HIDE DEF i
    <3>3. place \in 1..Len(b)
      BY <1>1, <1>4, <3>1, UnitPlaces
    <3> HIDE DEF place
    <3>4. ab[size * (j - 1) + k] = b[place]
      BY <1>2, <3>2, <3>3, Zenon
    <3>5. xy[j] = y[i]
      BY <1>3, <3>1
    <3>6. b[place] = unit(y[i])[k]
      BY <1>4, <3>1, Zenon DEF place
    <3> QED
      BY <3>4, <3>5, <3>6, Zenon
  <2> QED
    BY <1>1, <1>3, <2>1, <2>2
<1> QED
  BY <1>5, <1>6 DEF LaidOut, ab, xy, unit

\* The units of a code depend on their size alone.
LEMMA SurvivesSize ==
  ASSUME NEW type, NEW other, NEW c, SizeOf(type) = SizeOf(other), Survives(type, c)
  PROVE  Survives(other, c)
  BY SMT DEF Survives

\* The bytes of a run of strings of one size are the units of its characters.
LEMMA RunLaid ==
  ASSUME NEW run \in SomeOf(AllToks), NEW size \in {1, 2, 4},
         \A k \in DOMAIN run : /\ run[k].kind = "str" /\ SizeOf(run[k].type) = size
                               /\ AllSurvive(run[k].type, run[k].chars)
  PROVE  LaidOut(BytesOf(run), CharsOf(run), size)
<1> DEFINE n == Len(run)
           bb == [k \in DOMAIN run |-> Convert(run[k]).str]
           cc == [k \in DOMAIN run |-> run[k].chars]
           Laid == {0} \cup {m \in 1..n : LaidOut(Flat(bb, m), Flat(cc, m), size)}
<1>1. n \in Nat /\ n >= 1 /\ DOMAIN run = 1..n /\ \A k \in 1..n : run[k] \in AllToks
  BY DEF SomeOf
<1> HIDE DEF n
<1>2. /\ bb \in Seq(Seq(Byte)) /\ Len(bb) = n
      /\ \A k \in 1..n : bb[k] = Convert(run[k]).str /\ bb[k] \in Seq(Byte)
  <2> DEFINE T == Seq(Byte)
  <2> DEFINE of(k) == Convert(run[k]).str
  <2>1. \A k \in 1..n : of(k) \in T
    BY <1>1, ConvertedTok
  <2>2. bb = [k \in 1..n |-> of(k)]
    BY <1>1
  <2> HIDE DEF T, of, bb
  <2>3. bb \in Seq(T) /\ Len(bb) = n /\ \A k \in 1..n : bb[k] = of(k) /\ bb[k] \in T
    BY <1>1, <2>1, <2>2
  <2> QED
    BY <2>3 DEF T, of
<1>3. /\ cc \in Seq(Seq(Char)) /\ Len(cc) = n
      /\ \A k \in 1..n : cc[k] = run[k].chars /\ cc[k] \in Seq(Char)
  <2> DEFINE T == Seq(Char)
  <2> DEFINE of(k) == run[k].chars
  <2>1. \A k \in 1..n : of(k) \in T
    BY <1>1, SourceTok, Zenon
  <2>2. cc = [k \in 1..n |-> of(k)]
    BY <1>1
  <2> HIDE DEF T, of, cc
  <2>3. cc \in Seq(T) /\ Len(cc) = n /\ \A k \in 1..n : cc[k] = of(k) /\ cc[k] \in T
    BY <1>1, <2>1, <2>2
  <2> QED
    BY <2>3 DEF T, of
<1> HIDE DEF bb, cc
<1>4. bb # <<>> /\ cc # <<>>
  BY <1>1, <1>2, <1>3
<1>5. /\ Flat(bb, 1) = bb[1] /\ \A i \in 2..n : Flat(bb, i) = Cat(Flat(bb, i - 1), bb[i])
      /\ \A i \in 1..n : Flat(bb, i) \in Seq(Byte)
  BY <1>2, <1>4, FlatSteps
<1>6. /\ Flat(cc, 1) = cc[1] /\ \A i \in 2..n : Flat(cc, i) = Cat(Flat(cc, i - 1), cc[i])
      /\ \A i \in 1..n : Flat(cc, i) \in Seq(Char)
  BY <1>3, <1>4, FlatSteps
<1>7. \A k \in 1..n : LaidOut(bb[k], cc[k], size)
  <2> SUFFICES ASSUME NEW k \in 1..n PROVE LaidOut(bb[k], cc[k], size)
    OBVIOUS
  <2>1. /\ run[k] \in AllToks /\ run[k].kind = "str" /\ SizeOf(run[k].type) = size
        /\ AllSurvive(run[k].type, run[k].chars)
    BY <1>1
  <2>2. LaidOut(Convert(run[k]).str, run[k].chars, size)
    BY <2>1, LiteralLaid
  <2> QED
    BY <1>2, <1>3, <2>2
<1>8. ASSUME NEW m \in 1..n, m - 1 \in Laid PROVE m \in Laid
  <2>1. CASE m = 1
    BY <1>5, <1>6, <1>7, <2>1
  <2>2. CASE m # 1
    <3>1. m \in 2..n /\ m - 1 \in 1..n
      BY <1>1, <2>2
    <3>2. LaidOut(Flat(bb, m - 1), Flat(cc, m - 1), size)
      BY <1>8, <3>1
    <3>3. LaidOut(Cat(Flat(bb, m - 1), bb[m]), Cat(Flat(cc, m - 1), cc[m]), size)
      BY <1>2, <1>3, <1>5, <1>6, <1>7, <3>1, <3>2, CatLaid, Zenon
    <3> QED
      BY <1>5, <1>6, <3>1, <3>3
  <2> QED
    BY <2>1, <2>2
<1>9. n \in Laid
  <2>1. 0 \in Laid
    OBVIOUS
  <2> HIDE DEF Laid
  <2>2. \A m \in 0..n : m \in Laid
    BY <1>1, <1>8, <2>1, IndexInduction
  <2> QED
    BY <1>1, <2>2
<1>10. BytesOf(run) = Flat(bb, n) /\ CharsOf(run) = Flat(cc, n)
  <2>1. BytesOf(run) = FlattenSeq(bb) /\ CharsOf(run) = FlattenSeq(cc)
    BY Zenon DEF BytesOf, CharsOf, bb, cc
  <2>2. Len(bb) # 0 /\ Len(cc) # 0
    BY <1>1, <1>2, <1>3
  <2> QED
    BY <1>2, <1>3, <2>1, <2>2, FlattenIs
<1> QED
  BY <1>1, <1>9, <1>10

-----------------------------------------------------------------------------
(* What is printed. *)

\* The code of each character is one that is neither 0 nor negative.
LEMMA UnitCodes ==
  ASSUME NEW C, NEW chars \in Seq(C), NEW size, \A j \in DOMAIN chars : OneUnit(chars[j].code, size)
  PROVE  /\ CodesOf(chars) \in Seq(Nat) /\ Len(CodesOf(chars)) = Len(chars)
         /\ \A j \in 1..Len(chars) : /\ CodesOf(chars)[j] = chars[j].code
                                     /\ OneUnit(CodesOf(chars)[j], size)
<1> DEFINE n == Len(chars)
           code(j) == chars[j].code
<1>1. n \in Nat /\ DOMAIN chars = 1..n
  OBVIOUS
<1>2. \A j \in 1..n : code(j) \in Nat
  <2>1. \A c : OneUnit(c, size) => c \in Nat
    BY SMT DEF OneUnit, ShortCode
  <2> QED
    BY <1>1, <2>1, Zenon
<1>3. CodesOf(chars) = [j \in 1..n |-> code(j)]
  BY <1>1 DEF CodesOf
<1>4. \A j \in 1..n : OneUnit(code(j), size)
  BY <1>1
<1> HIDE DEF n, code
<1>5. /\ CodesOf(chars) \in Seq(Nat) /\ Len(CodesOf(chars)) = n
      /\ \A j \in 1..n : CodesOf(chars)[j] = code(j)
  BY <1>1, <1>2, <1>3
<1> QED
  BY <1>4, <1>5 DEF n, code

\* Where a string begins with the units of characters, they are read.
LEMMA LaidReads ==
  ASSUME NEW size \in {1, 2, 4}, NEW A, NEW bytes \in Seq(A), NEW tail \in Seq(A),
         NEW C, NEW chars \in Seq(C), \A j \in DOMAIN chars : OneUnit(chars[j].code, size),
         LaidOut(bytes, chars, size)
  PROVE  Read(Cat(bytes, tail), size, CodesOf(chars), [j \in 0..Len(chars) |-> 1 + size * j])
<1> DEFINE s == Cat(bytes, tail)
           n == Len(chars)
           codes == CodesOf(chars)
           p == [j \in 0..n |-> 1 + size * j]
<1>1. n \in Nat /\ Len(bytes) \in Nat /\ Len(tail) \in Nat
  OBVIOUS
<1>2. /\ s \in Seq(A) /\ Len(s) = Len(bytes) + Len(tail)
      /\ \A i \in 1..Len(bytes) : s[i] = bytes[i]
  <2>1. IsCat(A, bytes, tail, s)
    BY CatIs
  <2> QED
    BY <2>1 DEF IsCat
<1>3. /\ codes \in Seq(Nat) /\ Len(codes) = n
      /\ \A j \in 1..n : codes[j] = chars[j].code /\ OneUnit(codes[j], size)
  BY UnitCodes
<1>4. /\ Len(bytes) = size * n
      /\ \A j \in 1..n : \A k \in 1..size : bytes[size * (j - 1) + k] = Unit(chars[j].code, size)[k]
  BY DEF LaidOut
<1>5. \A j \in 0..n : p[j] = 1 + size * j
  OBVIOUS
<1> HIDE DEF s, n, codes, p
<1>6. ASSUME NEW j \in 1..n
      PROVE  /\ p[j - 1] \in 1..(Len(s) + 4) /\ p[j] \in 1..(Len(s) + 4)
             /\ p[j - 1] + size - 1 <= Len(s)
             /\ DecodeAt(s, p[j - 1], size) = Decoded(codes[j], p[j])
             /\ ~(codes[j] < 0)
             /\ ~ \A k \in p[j - 1]..(p[j - 1] + size - 1) : s[k] = 0
  <2> DEFINE i == p[j - 1]
             m == size * (j - 1)
             u == Unit(codes[j], size)
  <2>1. i = 1 + m /\ p[j] = i + size /\ m \in Nat
    <3>1. p[j - 1] = 1 + size * (j - 1) /\ p[j] = 1 + size * j
      BY <1>1, <1>5
    <3>2. size * ((j - 1) + 1) = size * (j - 1) + size * 1 /\ size * (j - 1) \in Nat
      <4>1. j - 1 \in Nat /\ 1 \in Nat
        BY <1>1
      <4> QED
        BY <4>1, UnitPlaces
    <3>3. (j - 1) + 1 = j /\ size * 1 = size
      OBVIOUS
    <3> QED
      BY <3>1, <3>2, <3>3
  <2>2. \A k \in 1..size : m + k \in 1..Len(bytes)
    BY <1>1, <1>4, UnitPlaces
  <2>3. \A k \in 1..size : bytes[m + k] = u[k]
    <3>1. codes[j] = chars[j].code
      BY <1>3, Zenon
    <3> QED
      BY <1>4, <3>1, Zenon
  <2>4. Len(u) = size
    BY <1>3, UnitIs, Zenon
  <2> HIDE DEF i, m, u
  <2>5. m + size <= Len(bytes)
    <3>1. size \in 1..size
      OBVIOUS
    <3> QED
      BY <1>1, <2>2, <3>1
  <2>6. i + size - 1 <= Len(s) /\ i \in 1..(Len(s) + 4) /\ p[j] \in 1..(Len(s) + 4) /\ i \in Nat
    BY <1>1, <1>2, <2>1, <2>5
  <2>7. HasAt(s, i, u)
    <3>1. DOMAIN s = 1..Len(s) /\ Len(s) \in Nat
      BY <1>2
    <3>2. i + Len(u) - 1 \in DOMAIN s
      BY <2>4, <2>6, <3>1
    <3>3. ASSUME NEW k \in 1..Len(u) PROVE i + (k - 1) \in DOMAIN s /\ s[i + (k - 1)] = u[k]
      <4>1. k \in 1..size /\ i + (k - 1) = m + k
        BY <2>1, <2>4
      <4>2. m + k \in 1..Len(bytes)
        BY <2>2, <4>1
      <4>3. m + k \in DOMAIN s
        BY <1>1, <1>2, <3>1, <4>2
      <4> QED
        BY <1>2, <2>3, <4>1, <4>2, <4>3
    <3> QED
      BY <3>2, <3>3 DEF HasAt
  <2>8. /\ DecodeAt(s, i, size) = Decoded(codes[j], i + size)
        /\ ~ \A k \in i..(i + size - 1) : s[k] = 0
    <3> DEFINE c == codes[j]
    <3>1. OneUnit(c, size) /\ HasAt(s, i, Unit(c, size)) /\ i \in Nat
      BY <1>3, <2>6, <2>7 DEF u
    <3> HIDE DEF c
    <3>2. /\ DecodeAt(s, i, size) = Decoded(c, i + size)
          /\ ~ \A k \in i..(i + size - 1) : s[k] = 0
      BY <3>1, UnitReads, Zenon
    <3> QED
      BY <3>2 DEF c
  <2>9. ~(codes[j] < 0)
    <3>1. codes[j] \in Nat
      BY <1>3
    <3> QED
      BY <3>1
  <2> QED
    BY <2>1, <2>6, <2>8, <2>9 DEF i
<1>7. p[0] = 1
  BY <1>1, <1>5
<1>8. Read(s, size, codes, p)
  BY <1>3, <1>6, <1>7 DEF Read
<1> QED
  BY <1>8 DEF s, n, codes, p

\* How a string ends: a byte of characters, or as many as a unit has, that are 0, or
\* less than a unit has.
Ends(tail, size) ==
  /\ Len(tail) >= 1 /\ tail[1] = 0
  /\ \/ size = 1
     \/ Len(tail) < size
     \/ Len(tail) = size /\ \A k \in 1..size : tail[k] = 0

\* They are all that is read, or the last before what is lost.
LEMMA LaidCodes ==
  ASSUME NEW size \in {1, 2, 4}, NEW bytes \in Seq(Byte), NEW tail \in Seq(Byte),
         NEW chars \in Seq(Char), \A j \in DOMAIN chars : OneUnit(chars[j].code, size),
         LaidOut(bytes, chars, size), Ends(tail, size)
  PROVE  \/ Codes(Cat(bytes, tail), size) = CodesOf(chars)
         \/ size > 1 /\ Codes(Cat(bytes, tail), size) = CodesOf(chars) \o <<LostCode>>
<1> DEFINE s == Cat(bytes, tail)
           n == Len(chars)
           codes == CodesOf(chars)
           p == [j \in 0..n |-> 1 + size * j]
           e == p[n]
<1>1. n \in Nat /\ Len(bytes) \in Nat /\ Len(tail) \in Nat
  OBVIOUS
<1>2. /\ s \in Seq(Byte) /\ Len(s) = Len(bytes) + Len(tail)
      /\ \A i \in 1..Len(tail) : s[Len(bytes) + i] = tail[i]
  <2>1. IsCat(Byte, bytes, tail, s)
    BY CatIs
  <2> QED
    BY <2>1 DEF IsCat
<1>3. codes \in Seq(Nat) /\ Len(codes) = n
  BY UnitCodes
<1>4. Read(s, size, codes, p)
  BY LaidReads
<1>5. e = Len(bytes) + 1
  <2>1. Len(bytes) = size * n
    BY DEF LaidOut
  <2>2. size * n \in Nat /\ e = 1 + size * n
    BY <1>1, UnitPlaces
  <2> QED
    BY <2>1, <2>2
<1>6. e = p[Len(codes)]
  BY <1>3
<1> HIDE DEF s, n, codes, p, e
<1>7. EndsAt(s, size, codes, e)
  BY <1>2, <1>3, <1>4, <1>6, CodesRead, Zenon
<1>8. CASE Len(tail) < size
  <2>1. e + size - 1 > Len(s) /\ size > 1
    BY <1>1, <1>2, <1>5, <1>8 DEF Ends
  <2> QED
    BY <1>7, <2>1, Zenon DEF EndsAt, s, codes
<1>9. CASE ~(Len(tail) < size)
  <2>1. ~(e + size - 1 > Len(s))
    BY <1>1, <1>2, <1>5, <1>9
  <2>2. \A k \in 1..size : k \in 1..Len(tail) /\ tail[k] = 0
    BY <1>1, <1>9 DEF Ends
  <2>3. ASSUME NEW k \in e..(e + size - 1) PROVE s[k] = 0
    <3> DEFINE i == k - Len(bytes)
    <3>1. i \in 1..size /\ Len(bytes) + i = k
      BY <1>1, <1>5
    <3> HIDE DEF i
    <3> QED
      BY <1>2, <2>2, <3>1
  <2> QED
    BY <1>7, <2>1, <2>3, Zenon DEF EndsAt, s, codes
<1> QED
  BY <1>8, <1>9

\* Codes that are neither 0 nor too large are written as they are.
LEMMA WrittenIs ==
  ASSUME NEW n, NEW size, n = LostCode \/ OneUnit(n, size)
  PROVE  Written(n) = <<n>> /\ n \in Int
<1>1. n \in Int /\ n # 0 /\ n <= MaxCode
  BY SMT DEF OneUnit, ShortCode, LostCode, MaxCode
<1> QED
  BY <1>1, SMT DEF Written

\* If all of a string's codes are, the codes are printed.
LEMMA PrintedIs ==
  ASSUME NEW type, NEW str, NEW codes \in Seq(Int), Codes(str \o << 0 >>, SizeOf(type)) = codes,
         \A j \in DOMAIN codes : Written(codes[j]) = <<codes[j]>>
  PROVE  PrintedCodes(type, str) = codes
<1>1. PrintedCodes(type, str) = FlattenSeq([i \in DOMAIN codes |-> Written(codes[i])])
  BY Zenon DEF PrintedCodes
<1>2. [i \in DOMAIN codes |-> Written(codes[i])] = [i \in DOMAIN codes |-> <<codes[i]>>]
  OBVIOUS
<1> QED
  BY <1>1, <1>2, FlattenSingles, Zenon

\* Where the end of a string is copied with it.
EndsIn(str, bytes, tail) == str \o <<0>> = Cat(bytes, tail)

\* A string that begins with the units of characters shows them.
LEMMA LaidShows ==
  ASSUME NEW type \in CharTypes, NEW bytes \in Seq(Byte), NEW tail \in Seq(Byte),
         NEW chars \in Seq(Char),
         \A j \in DOMAIN chars : OneUnit(chars[j].code, SizeOf(type)),
         LaidOut(bytes, chars, SizeOf(type)), Ends(tail, SizeOf(type)),
         NEW str, EndsIn(str, bytes, tail)
  PROVE  \/ PrintedCodes(type, str) = CodesOf(chars)
         \/ SizeOf(type) > 1 /\ PrintedCodes(type, str) = Append(CodesOf(chars), LostCode)
<1> DEFINE size == SizeOf(type)
           codes == CodesOf(chars)
           read == Codes(Cat(bytes, tail), size)
<1>1. size \in {1, 2, 4}
  BY SizeOfType
<1>2. /\ codes \in Seq(Nat) /\ Len(codes) = Len(chars) /\ Len(chars) \in Nat
      /\ \A j \in 1..Len(chars) : OneUnit(codes[j], size)
  <2>1. Len(chars) \in Nat
    OBVIOUS
  <2>2. /\ codes \in Seq(Nat) /\ Len(codes) = Len(chars)
        /\ \A j \in 1..Len(chars) : OneUnit(codes[j], size)
    BY UnitCodes, Zenon
  <2> QED
    BY <2>1, <2>2, Zenon
<1>3. read = codes \/ (size > 1 /\ read = codes \o <<LostCode>>)
  <2>1. /\ LaidOut(bytes, chars, size) /\ Ends(tail, size)
        /\ \A j \in DOMAIN chars : OneUnit(chars[j].code, size)
    OBVIOUS
  <2> HIDE DEF size
  <2> QED
    BY <1>1, <2>1, LaidCodes, Zenon
<1> HIDE DEF size, codes, read
<1>4. codes \in Seq(Int) /\ DOMAIN codes = 1..Len(chars) /\ LostCode \in Int
  <2>1. Nat \subseteq Int
    OBVIOUS
  <2>2. codes \in Seq(Int)
    BY <1>2, <2>1, SeqMonotonic
  <2> QED
    BY <1>2, <2>2 DEF LostCode
<1>5. \A j \in 1..Len(chars) : Written(codes[j]) = <<codes[j]>>
  BY <1>2, WrittenIs, Zenon
<1>6. Codes(str \o <<0>>, size) = read
  BY Zenon DEF read, EndsIn
<1>7. CASE read = codes
  BY <1>4, <1>5, <1>6, <1>7, PrintedIs, Zenon DEF size, codes
<1>8. CASE size > 1 /\ read = codes \o <<LostCode>>
  <2> DEFINE more == Append(codes, LostCode)
  <2>1. read = more
    BY <1>4, <1>8
  <2>2. /\ more \in Seq(Int) /\ DOMAIN more = 1..(Len(chars) + 1)
        /\ \A j \in 1..Len(chars) : more[j] = codes[j]
        /\ more[Len(chars) + 1] = LostCode
    <3> DEFINE n == Len(chars)
    <3>1. n \in Nat /\ Len(codes) = n
      BY <1>2
    <3> HIDE DEF n
    <3> QED
      BY <1>4, <3>1, AppendProperties DEF n
  <2> HIDE DEF more
  <2>3. Written(LostCode) = <<LostCode>>
    BY WrittenIs, Zenon
  <2>4. \A j \in DOMAIN more : Written(more[j]) = <<more[j]>>
    <3> SUFFICES ASSUME NEW j \in DOMAIN more PROVE Written(more[j]) = <<more[j]>>
      OBVIOUS
    <3>1. j \in 1..Len(chars) \/ j = Len(chars) + 1
      BY <1>2, <2>2
    <3> QED
      BY <1>5, <2>2, <2>3, <3>1, Zenon
  <2>5. PrintedCodes(type, str) = more
    BY <1>6, <2>1, <2>2, <2>4, PrintedIs, Zenon DEF size
  <2> QED
    BY <1>8, <2>5 DEF more, size, codes
<1> QED
  BY <1>3, <1>7, <1>8

-----------------------------------------------------------------------------
(* The runs that are shown. *)

\* A run is of strings or is one token.
OneKind(run) ==
  /\ run[1].kind = "str" => \A k \in DOMAIN run : run[k].kind = "str"
  /\ run[1].kind # "str" => Len(run) = 1

\* It holds of the runs of any number of tokens.
LEMMA RunsOneKind ==
  ASSUME NEW T, NEW toks \in Seq(T)
  PROVE  \A k \in 0..Len(toks) : \A j \in DOMAIN RunsOf(toks, k) : OneKind(RunsOf(toks, k)[j])
<1> DEFINE Kinds == {k \in 0..Len(toks) : \A j \in DOMAIN RunsOf(toks, k) : OneKind(RunsOf(toks, k)[j])}
<1>0. Len(toks) \in Nat
  OBVIOUS
<1>1. 0 \in Kinds
  <2>1. RunsOf(toks, 0) = <<>>
    BY <1>0, RunsSteps
  <2>2. DOMAIN RunsOf(toks, 0) = {}
    BY <2>1
  <2> QED
    BY <1>0, <2>2
<1>2. ASSUME NEW k \in 1..Len(toks), k - 1 \in Kinds PROVE k \in Kinds
  <2> DEFINE old == RunsOf(toks, k - 1)
             new == RunsOf(toks, k)
             n == Len(old)
             tok == toks[k]
  <2>1. new = NextRuns(old, toks, k)
    BY <1>0, RunsSteps
  <2>2. RunsFit(T, toks, k - 1)
    <3>1. k - 1 \in 0..Len(toks)
      BY <1>0
    <3> QED
      BY <3>1, RunsShape
  <2>3. /\ old \in Seq(SomeOf(T))
        /\ k - 1 = 0 <=> old = <<>>
        /\ k - 1 > 0 => old[Len(old)][1].kind = toks[k - 1].kind
    BY <2>2 DEF RunsFit
  <2>4. \A j \in DOMAIN old : OneKind(old[j])
    BY <1>2
  <2> HIDE DEF old
  <2>5. n \in Nat /\ DOMAIN old = 1..n /\ \A j \in 1..n : old[j] \in SomeOf(T)
    BY <2>3
  <2>6. Continues(toks, k) => old # <<>> /\ n \in 1..n /\ old[n][1].kind = "str" /\ tok.kind = "str"
    BY <2>3, <2>5 DEF Continues
  <2>7. new \in Seq(SomeOf(T))
    BY <2>1, <2>3, <2>6, NextRunsIs
  <2>8. CASE Continues(toks, k)
    <3> DEFINE run == old[n]
               more == Append(run, tok)
    <3>1. /\ Len(new) = n /\ \A j \in 1..(n - 1) : new[j] = old[j]
          /\ new[n] = more
      BY <2>1, <2>3, <2>6, <2>8, NextRunsIs
    <3>2. run \in Seq(T) /\ run # <<>> /\ OneKind(run) /\ run[1].kind = "str"
      BY <2>4, <2>5, <2>6, <2>8 DEF SomeOf
    <3>3. tok \in T /\ tok.kind = "str"
      BY <2>6, <2>8
    <3> HIDE DEF run, tok, n, new
    <3>4. /\ Len(run) \in Nat /\ Len(run) >= 1 /\ DOMAIN run = 1..Len(run)
          /\ DOMAIN more = 1..(Len(run) + 1)
          /\ \A i \in 1..Len(run) : more[i] = run[i]
          /\ more[Len(run) + 1] = tok
      BY <3>2, <3>3
    <3>5. \A i \in 1..Len(run) : run[i].kind = "str"
      BY <3>2, <3>4 DEF OneKind
    <3> HIDE DEF more
    <3>6. \A i \in DOMAIN more : more[i].kind = "str"
      BY <3>3, <3>4, <3>5
    <3>7. OneKind(more)
      <4>1. 1 \in DOMAIN more
        BY <3>4
      <4> QED
        BY <3>6, <4>1 DEF OneKind
    <3>8. DOMAIN new = 1..n
      BY <2>7, <3>1
    <3>9. \A j \in DOMAIN new : OneKind(new[j])
      BY <2>4, <2>5, <3>1, <3>7, <3>8
    <3> QED
      BY <1>0, <3>9 DEF new
  <2>9. CASE ~Continues(toks, k)
    <3> DEFINE one == <<tok>>
    <3>1. /\ Len(new) = n + 1 /\ \A j \in 1..n : new[j] = old[j]
          /\ new[n + 1] = one
      BY <2>1, <2>3, <2>9, NextRunsIs
    <3>2. OneKind(one)
      <4>1. DOMAIN one = {1} /\ Len(one) = 1
        OBVIOUS
      <4> HIDE DEF one
      <4> QED
        BY <4>1 DEF OneKind
    <3> HIDE DEF one, n, new
    <3>3. DOMAIN new = 1..(n + 1)
      BY <2>7, <3>1
    <3>4. \A j \in DOMAIN new : OneKind(new[j])
      BY <2>4, <2>5, <3>1, <3>2, <3>3
    <3> QED
      BY <1>0, <3>4 DEF new
  <2> QED
    BY <2>8, <2>9
<1>3. \A k \in 0..Len(toks) : k \in Kinds
  <2> HIDE DEF Kinds
  <2> QED
    BY <1>0, <1>1, <1>2, IndexInduction, Zenon
<1> QED
  BY <1>3

\* An identifier of one character is one byte.
LEMMA ShortIdIs ==
  ASSUME NEW t \in AllToks, t.kind = "id", Len(t.chars) = 1
  PROVE  Len(Convert(t).str) = 1
<1> DEFINE c == t.chars[1]
           ss == [i \in DOMAIN t.chars |-> StoredChar(t.chars[i])]
<1>1. /\ t.chars \in Seq(Char) /\ Convert(t).str = StoredChars(t.chars)
      /\ \A d \in ToSet(t.chars) : d.how = "plain" /\ d.code \in 1..127
  BY SourceTok, Zenon
<1>2. DOMAIN t.chars = {1}
  BY <1>1
<1>3. c.how = "plain" /\ c.code \in 1..127
  <2>1. c \in ToSet(t.chars)
    BY <1>2 DEF ToSet
  <2> HIDE DEF c
  <2> QED
    BY <1>1, <2>1
<1>4. StoredChar(c) = <<c.code>>
  <2>1. c.code < 128
    BY <1>3
  <2>2. StoredChar(c) = IF c.code < 128 THEN <<c.code>> ELSE <<>>
    BY <1>3, Zenon DEF StoredChar
  <2> HIDE DEF c
  <2> QED
    BY <2>1, <2>2, Zenon
<1>5. ss = <<StoredChar(c)>>
  <2> DEFINE s == StoredChar(c)
  <2>1. ss = [i \in {1} |-> s]
    BY <1>2
  <2> HIDE DEF s, ss
  <2>2. ss \in Seq({s}) /\ Len(ss) = 1 /\ ss[1] = s
    <3>1. {1} = 1..1
      OBVIOUS
    <3> QED
      BY <2>1, <3>1
  <2>3. <<s>> \in Seq({s}) /\ Len(<<s>>) = 1 /\ <<s>>[1] = s
    OBVIOUS
  <2> DEFINE one == <<s>>
  <2>4. one \in Seq({s}) /\ Len(one) = 1 /\ one[1] = s
    BY <2>3
  <2> HIDE DEF one
  <2>5. \A i \in 1..Len(ss) : ss[i] = one[i]
    BY <2>2, <2>4
  <2>6. ss = one
    BY <2>2, <2>4, <2>5, SeqEqual
  <2> QED
    BY <2>6 DEF one, s
<1>6. FlattenSeq(<<StoredChar(c)>>) = StoredChar(c)
  <2> DEFINE s == StoredChar(c)
  <2>1. s \in Seq({c.code})
    BY <1>4
  <2> HIDE DEF s
  <2> QED
    BY <2>1, FlattenOne DEF s
<1>7. StoredChars(t.chars) = <<c.code>>
  BY <1>4, <1>5, <1>6, Zenon DEF StoredChars
<1> QED
  BY <1>1, <1>7

\* The characters of a run, by its tokens.
PartsOf(run) == [k \in DOMAIN run |-> run[k].chars]

\* They are sequences of characters, and joined the characters of the run.
LEMMA CharsOfType ==
  ASSUME NEW run \in SomeOf(AllToks)
  PROVE  /\ PartsOf(run) \in SeqsOf(Char) /\ Len(PartsOf(run)) = Len(run)
         /\ \A k \in DOMAIN run : PartsOf(run)[k] = run[k].chars /\ run[k].chars \in Seq(Char)
         /\ CharsOf(run) \in Seq(Char) /\ CharsOf(run) = FlattenSeq(PartsOf(run))
<1> DEFINE n == Len(run)
           cc == PartsOf(run)
<1>1. n \in Nat /\ DOMAIN run = 1..n /\ \A k \in 1..n : run[k] \in AllToks
  BY DEF SomeOf
<1> HIDE DEF n
<1>2. \A k \in 1..n : run[k].chars \in Seq(Char)
  BY <1>1, SourceTok, Zenon
<1>3. /\ cc \in SeqsOf(Char) /\ Len(cc) = n
      /\ \A k \in 1..n : cc[k] = run[k].chars
  <2> DEFINE T == Seq(Char)
             of(k) == run[k].chars
  <2>1. \A k \in 1..n : of(k) \in T
    BY <1>2
  <2>2. cc = [k \in 1..n |-> of(k)]
    BY <1>1 DEF PartsOf
  <2> HIDE DEF T, of, cc
  <2>3. cc \in Seq(T) /\ Len(cc) = n /\ \A k \in 1..n : cc[k] = of(k)
    BY <1>1, <2>1, <2>2
  <2> QED
    BY <2>3 DEF T, of, SeqsOf
<1>4. CharsOf(run) = FlattenSeq(cc)
  BY Zenon DEF CharsOf, PartsOf
<1> HIDE DEF cc
<1>5. CharsOf(run) \in Seq(Char)
  BY <1>3, <1>4, FlattenType DEF SeqsOf
<1> QED
  BY <1>1, <1>2, <1>3, <1>4, <1>5 DEF n, cc

\* The characters of a run survive, all of one size.
Survivors(run, type) ==
  /\ type = run[1].type
  /\ \A k \in DOMAIN run : SizeOf(run[k].type) = SizeOf(type)
  /\ \A k \in DOMAIN CharsOf(run) : Survives(type, CharsOf(run)[k])

\* Each string of a run survives if the characters of the run do.
LEMMA RunSurvives ==
  ASSUME NEW run \in SomeOf(AllToks), run[1].kind = "str", OneKind(run),
         NEW type, Survivors(run, type)
  PROVE  \A k \in DOMAIN run : /\ run[k].kind = "str" /\ SizeOf(run[k].type) = SizeOf(type)
                               /\ AllSurvive(run[k].type, run[k].chars)
<1> DEFINE n == Len(run)
           cc == PartsOf(run)
           chars == CharsOf(run)
<1>1. n \in Nat /\ n >= 1 /\ DOMAIN run = 1..n /\ \A k \in 1..n : run[k] \in AllToks
  BY DEF SomeOf
<1> HIDE DEF n
<1>2. \A k \in 1..n : run[k].chars \in Seq(Char) /\ cc[k] = run[k].chars
  BY <1>1, CharsOfType
<1>3. cc \in SeqsOf(Char) /\ Len(cc) = n
  BY CharsOfType DEF n
<1>4. chars = FlattenSeq(cc) /\ chars \in Seq(Char)
  BY CharsOfType
<1> HIDE DEF cc
<1>6. PICK p : Lies(chars, cc, p)
  BY <1>3, <1>4, FlattenLies
<1>7. \A k \in DOMAIN chars : Survives(type, chars[k])
  BY DEF Survivors
<1>size. \A k \in DOMAIN run : SizeOf(run[k].type) = SizeOf(type)
  BY DEF Survivors
<1> HIDE DEF chars
<1>8. ASSUME NEW j \in 1..n, NEW k \in DOMAIN run[j].chars
      PROVE  Survives(run[j].type, run[j].chars[k])
  <2> DEFINE part == run[j].chars
             i == p[j - 1] + (k - 1)
  <2>1. part \in Seq(Char) /\ cc[j] = part
    BY <1>2
  <2> HIDE DEF part
  <2>2. k \in 1..Len(part) /\ Len(part) \in Nat /\ Len(chars) \in Nat /\ DOMAIN chars = 1..Len(chars)
    BY <1>4, <2>1 DEF part
  <2>3. /\ p[j - 1] \in Nat \ {0} /\ p[j] = p[j - 1] + Len(part) /\ p[j] <= Len(chars) + 1
        /\ chars[i] = part[k]
    BY <1>3, <1>6, <2>1, <2>2 DEF Lies
  <2>4. i \in DOMAIN chars
    <3> DEFINE m == Len(part)
               o == p[j - 1]
               z == Len(chars)
    <3>1. o \in Nat \ {0} /\ m \in Nat /\ z \in Nat /\ o + m <= z + 1 /\ k \in 1..m
      BY <2>2, <2>3
    <3> HIDE DEF m, o, z
    <3>2. o + (k - 1) \in 1..z
      BY <3>1
    <3> QED
      BY <2>2, <3>2 DEF o, z
  <2> HIDE DEF i
  <2>5. Survives(type, part[k])
    BY <1>7, <2>3, <2>4, Zenon
  <2>6. SizeOf(type) = SizeOf(run[j].type)
    BY <1>1, <1>size
  <2> QED
    BY <2>5, <2>6, SurvivesSize, Zenon DEF part
<1>9. \A k \in DOMAIN run : run[k].kind = "str"
  BY DEF OneKind
<1> QED
  BY <1>1, <1>8, <1>9, <1>size DEF AllSurvive

\* A string of a run is printed with the characters of the run.
LEMMA RunShows ==
  ASSUME NEW run \in SomeOf(AllToks), run[1].kind = "str", OneKind(run),
         NEW type, Survivors(run, type),
         NEW tail \in Seq(Byte), Ends(tail, SizeOf(type)),
         NEW str, EndsIn(str, BytesOf(run), tail)
  PROVE  LET text == [k \in DOMAIN CharsOf(run) |-> CharsOf(run)[k].code] IN
         \/ PrintedCodes(type, str) = text
         \/ SizeOf(type) > 1 /\ PrintedCodes(type, str) = Append(text, LostCode)
<1> DEFINE chars == CharsOf(run)
           size == SizeOf(type)
<1>1. run[1] \in AllToks
  <2>1. run \in Seq(AllToks) /\ run # <<>>
    BY DEF SomeOf
  <2> QED
    BY <2>1
<1>2. type \in CharTypes
  BY <1>1, SourceTok, Zenon DEF Survivors
<1>3. size \in {1, 2, 4}
  BY <1>2, SizeOfType
<1>4. chars \in Seq(Char)
  BY CharsOfType
<1>5. LaidOut(BytesOf(run), chars, size)
  <2>1. \A k \in DOMAIN run : /\ run[k].kind = "str" /\ SizeOf(run[k].type) = size
                              /\ AllSurvive(run[k].type, run[k].chars)
    BY RunSurvives
  <2> HIDE DEF size
  <2> QED
    BY <1>3, <2>1, RunLaid
<1>6. \A j \in DOMAIN chars : OneUnit(chars[j].code, size)
  <2> SUFFICES ASSUME NEW j \in DOMAIN chars PROVE OneUnit(chars[j].code, size)
    OBVIOUS
  <2>1. chars[j] \in Char /\ Survives(type, chars[j])
    BY <1>4 DEF Survivors
  <2> HIDE DEF chars
  <2> QED
    BY <1>2, <2>1, SurvivorIs, Zenon
<1>7. BytesOf(run) \in Seq(Byte)
  BY BytesOfType
<1>8. \/ PrintedCodes(type, str) = CodesOf(chars)
      \/ size > 1 /\ PrintedCodes(type, str) = Append(CodesOf(chars), LostCode)
  <2> DEFINE bytes == BytesOf(run)
  <2>1. /\ EndsIn(str, bytes, tail) /\ Ends(tail, SizeOf(type))
        /\ bytes \in Seq(Byte) /\ LaidOut(bytes, chars, SizeOf(type))
        /\ \A j \in DOMAIN chars : OneUnit(chars[j].code, SizeOf(type))
    BY <1>5, <1>6, <1>7
  <2> HIDE DEF chars, bytes
  <2>2. \/ PrintedCodes(type, str) = CodesOf(chars)
        \/ SizeOf(type) > 1 /\ PrintedCodes(type, str) = Append(CodesOf(chars), LostCode)
    BY <1>2, <1>4, <2>1, LaidShows
  <2> QED
    BY <2>2
<1> QED
  BY <1>8, Zenon DEF CodesOf

\* The byte after a string, and the bytes with those of an identifier before it.
LEMMA EndOfStr ==
  ASSUME NEW str \in Seq(Byte), NEW size \in {1, 2, 4}
  PROVE  \E tail \in Seq(Byte) : Ends(tail, size) /\ EndsIn(str, str, tail)
<1> DEFINE zero == <<0>>
<1>1. zero \in Seq(Byte) /\ Len(zero) = 1 /\ zero[1] = 0
  BY DEF Byte, Nul
<1>2. EndsIn(str, str, zero)
  BY Zenon DEF EndsIn, Cat
<1> HIDE DEF zero
<1>3. Ends(zero, size)
  <2>1. Len(zero) >= 1 /\ (size = 1 \/ Len(zero) < size)
    BY <1>1
  <2> QED
    BY <1>1, <2>1, Zenon DEF Ends
<1> QED
  BY <1>1, <1>2, <1>3, Zenon

\* Before an identifier there is more, of which what matters is where it is short.
LEMMA EndBeforeId ==
  ASSUME NEW bytes \in Seq(Byte), NEW size \in {1, 2, 4}, NEW id \in Seq(Byte), id # <<>>,
         size = 1 \/ Len(id) = 1
  PROVE  \E tail \in Seq(Byte) : /\ Ends(tail, size)
                                 /\ EndsIn(bytes \o <<Nul>> \o Tail(id), bytes, tail)
<1> DEFINE zero == <<0>>
           more == Tail(id)
           both == zero \o more
           tail == both \o zero
<1>1. zero \in Seq(Byte) /\ Len(zero) = 1 /\ zero[1] = 0 /\ zero = <<Nul>>
  BY DEF Byte, Nul
<1>2. more \in Seq(Byte) /\ Len(more) \in Nat /\ (Len(id) = 1 => Len(more) = 0)
  OBVIOUS
<1> HIDE DEF zero, more
<1>3. both \in Seq(Byte) /\ Len(both) = 1 + Len(more) /\ both[1] = 0
  <2>1. IsCat(Byte, zero, more, Cat(zero, more))
    BY <1>1, <1>2, CatIs
  <2>2. Cat(zero, more) = both
    BY Zenon DEF Cat
  <2>3. 1 \in 1..Len(zero)
    BY <1>1
  <2> QED
    BY <1>1, <2>1, <2>2, <2>3, Zenon DEF IsCat
<1> HIDE DEF both
<1>4. /\ tail \in Seq(Byte) /\ Len(tail) = Len(both) + 1
      /\ tail[1] = 0 /\ tail[Len(both) + 1] = 0
  <2>1. IsCat(Byte, both, zero, Cat(both, zero))
    BY <1>1, <1>3, CatIs
  <2>2. Cat(both, zero) = tail
    BY Zenon DEF Cat
  <2>3. 1 \in 1..Len(zero) /\ 1 \in 1..Len(both)
    BY <1>1, <1>2, <1>3
  <2> QED
    BY <1>1, <1>3, <2>1, <2>2, <2>3, Zenon DEF IsCat
<1>5. (bytes \o <<Nul>> \o Tail(id)) \o <<0>> = bytes \o tail
  <2>1. (bytes \o zero) \o more = bytes \o both
    BY <1>1, <1>2, CatAssociates DEF both, Cat
  <2>2. (bytes \o both) \o zero = bytes \o (both \o zero)
    <3>1. zero \in Seq(Byte) /\ both \in Seq(Byte)
      BY <1>1, <1>3
    <3>2. Cat(bytes, Cat(both, zero)) = Cat(Cat(bytes, both), zero)
      BY <3>1, CatAssociates
    <3> QED
      BY <3>2, Zenon DEF Cat
  <2> QED
    BY <1>1, <2>1, <2>2, Zenon DEF more, zero
<1> HIDE DEF tail
<1>6. Ends(tail, size)
  <2>1. Len(tail) >= 1
    BY <1>2, <1>3, <1>4
  <2>2. CASE size = 1
    BY <1>4, <2>1, <2>2, Zenon DEF Ends
  <2>3. CASE size # 1
    <3>1. Len(tail) = 2 /\ tail[2] = 0
      BY <1>2, <1>3, <1>4, <2>3
    <3>2. CASE size = 2
      <4>1. \A k \in 1..2 : tail[k] = 0
        <5>1. \A k \in 1..2 : k = 1 \/ k = 2
          OBVIOUS
        <5> QED
          BY <1>4, <3>1, <5>1, Zenon
      <4> QED
        BY <1>4, <2>1, <3>1, <3>2, <4>1, Zenon DEF Ends
    <3>3. CASE size = 4
      <4>1. Len(tail) < size
        BY <3>1, <3>3
      <4> QED
        BY <1>4, <2>1, <4>1, Zenon DEF Ends
    <3> QED
      BY <2>3, <3>2, <3>3
  <2> QED
    BY <2>2, <2>3
<1>7. EndsIn(bytes \o <<Nul>> \o Tail(id), bytes, tail)
  BY <1>5, Zenon DEF EndsIn, Cat
<1> QED
  BY <1>4, <1>6, <1>7, Zenon

\* The strings show their text.
LEMMA StringsShowTextFollows == TokensInv => StringsShowText
<1> SUFFICES ASSUME TokensInv, call = Idle PROVE StringsShowText
  BY DEF StringsShowText
<1> DEFINE all == Runs(source)
           n == Len(all) - Len(Runs(rest))
<1>1. HeldFrom(source, rest)
  BY DEF TokensInv
<1>2. source \in Seq(AllToks) /\ rest \in Seq(CTok)
  BY <1>1 DEF HeldFrom
<1>3. /\ all \in Seq(SomeOf(AllToks)) /\ DOMAIN all = 1..Len(all) /\ Len(all) \in Nat
      /\ \A j \in 1..Len(all) : OneKind(all[j]) /\ all[j] \in SomeOf(AllToks)
  <2> DEFINE k == Len(source)
  <2>1. k \in 0..Len(source)
    BY <1>2
  <2>2. RunsFit(AllToks, source, k)
    BY <1>2, <2>1, RunsShape
  <2>3. all = RunsOf(source, k)
    BY Zenon DEF Runs
  <2>4. \A j \in DOMAIN all : OneKind(all[j])
    BY <1>2, <2>1, <2>3, RunsOneKind
  <2>5. all \in Seq(SomeOf(AllToks))
    BY <2>2, <2>3, Zenon DEF RunsFit
  <2> HIDE DEF all
  <2> QED
    BY <2>4, <2>5
<1>4. Len(Runs(rest)) \in Nat
  <2>1. Len(rest) \in 0..Len(rest)
    BY <1>2
  <2>2. RunsFit(CTok, rest, Len(rest))
    BY <1>2, <2>1, RunsShape
  <2>3. Runs(rest) \in Seq(SomeOf(CTok))
    BY <2>2, Zenon DEF RunsFit, Runs
  <2> QED
    BY <2>3
<1>5. \A i \in DOMAIN Seen : IF i <= n THEN ShowsRun(Seen[i], all, i) ELSE Seen[i].kind = "eof"
  BY StringsJoinedFollows, Zenon DEF StringsJoined
<1>6. DOMAIN Seen \subseteq Nat \ {0}
  <2>1. list \in Seq(CTok) /\ taken \in Seq(CTok)
    BY DEF TokensInv
  <2>2. IsCat(CTok, taken, list, Cat(taken, list))
    BY <2>1, CatIs
  <2>3. Seen \in Seq(CTok)
    BY <2>2, Zenon DEF IsCat, Seen, Cat
  <2> QED
    BY <2>3
<1> HIDE DEF all
<1>7. ASSUME NEW i \in DOMAIN Seen, Seen[i].kind = "str", Seen[i].str # Lost,
             NEW run, run = all[i], NEW type, type = run[1].type,
             \A k \in DOMAIN run : SizeOf(run[k].type) = SizeOf(type),
             \A k \in DOMAIN CharsOf(run) : Survives(type, CharsOf(run)[k]),
             BeforeId(all, i) => SizeOf(type) = 1 \/ Len(all[i + 1][1].chars) = 1
      PROVE  LET text == [k \in DOMAIN CharsOf(run) |-> CharsOf(run)[k].code] IN
             \/ PrintedCodes(type, Seen[i].str) = text
             \/ SizeOf(type) > 1 /\ PrintedCodes(type, Seen[i].str) = Append(text, LostCode)
  <2> DEFINE str == Seen[i].str
             bytes == BytesOf(run)
             size == SizeOf(type)
  <2>1. i <= n /\ ShowsRun(Seen[i], all, i)
    BY <1>5, <1>7
  <2>2. i \in 1..Len(all)
    BY <1>3, <1>4, <1>6, <2>1
  <2>3. run \in SomeOf(AllToks) /\ OneKind(run) /\ run[1].kind = "str" /\ str = StrHolds(all, i)
    BY <1>3, <1>7, <2>1, <2>2, Zenon DEF ShowsRun
  <2>4. Survivors(run, type)
    BY <1>7, Zenon DEF Survivors
  <2>5. type \in CharTypes
    <3>1. run[1] \in AllToks
      <4>1. run \in Seq(AllToks) /\ run # <<>>
        BY <2>3 DEF SomeOf
      <4> QED
        BY <4>1
    <3> QED
      BY <1>7, <2>3, <3>1, SourceTok, Zenon
  <2>6. size \in {1, 2, 4}
    BY <2>5, SizeOfType
  <2>7. bytes \in Seq(Byte)
    BY <2>3, BytesOfType
  <2>8. \E tail \in Seq(Byte) : Ends(tail, size) /\ EndsIn(str, bytes, tail)
    <3>1. CASE BeforeId(all, i)
      <4> DEFINE next == all[i + 1]
                 t == next[1]
                 id == BytesOf(next)
      <4>1. i + 1 \in 1..Len(all) /\ t.kind = "id"
        BY <1>3, <2>2, <3>1 DEF BeforeId
      <4>2. next \in Seq(AllToks) /\ Len(next) = 1
        BY <1>3, <4>1 DEF OneKind, SomeOf
      <4>3. t \in AllToks /\ next = <<t>>
        <5> HIDE DEF next
        <5>1. next[1] \in AllToks
          BY <4>2
        <5> DEFINE u == next[1]
                   one == <<u>>
        <5>2. one \in Seq(AllToks) /\ Len(one) = 1 /\ one[1] = u
          BY <5>1
        <5>3. \A k \in 1..Len(next) : next[k] = one[k]
          <6> HIDE DEF one
          <6> QED
            BY <4>2, <5>2
        <5> HIDE DEF one
        <5>4. next = one
          BY <4>2, <5>2, <5>3, SeqEqual
        <5> QED
          BY <5>1, <5>4 DEF one
      <4>4. id = Convert(t).str /\ id \in Seq(Byte) /\ id # <<>>
        <5>1. BytesOf(<<t>>) = Convert(t).str
          BY <4>3, BytesOfOne
        <5>2. Convert(t).str \in Seq(Byte) /\ Convert(t).str # <<>>
          BY <4>1, <4>3, ConvertedTok
        <5> HIDE DEF t, next
        <5> QED
          BY <4>3, <5>1, <5>2, Zenon
      <4>5. size = 1 \/ Len(id) = 1
        <5>1. size = 1 \/ Len(t.chars) = 1
          BY <1>7, <3>1
        <5>2. Len(t.chars) = 1 => Len(Convert(t).str) = 1
          BY <4>1, <4>3, ShortIdIs
        <5> HIDE DEF id, t
        <5> QED
          BY <4>4, <5>1, <5>2, Zenon
      <4>6. str = bytes \o <<Nul>> \o Tail(id)
        BY <1>7, <2>3, <3>1, Zenon DEF StrHolds
      <4> HIDE DEF id, bytes, size, str
      <4> QED
        BY <2>6, <2>7, <4>4, <4>5, <4>6, EndBeforeId, Zenon
    <3>2. CASE ~BeforeId(all, i)
      <4>1. str = bytes
        BY <1>7, <2>3, <3>2, Zenon DEF StrHolds
      <4> HIDE DEF bytes, size, str
      <4> QED
        BY <2>6, <2>7, <4>1, EndOfStr, Zenon
    <3> QED
      BY <3>1, <3>2
  <2>9. PICK tail \in Seq(Byte) : Ends(tail, size) /\ EndsIn(str, bytes, tail)
    BY <2>8
  <2> QED
    BY <2>3, <2>4, <2>9, RunShows
<1> QED
  BY <1>7, Zenon DEF StringsShowText, all

\* What is listed has a kind, and a call stays within the list.
THEOREM TokensTypeOK == Spec => []TypeOK
<1>1. Spec => []TokensInv
  BY TokensInvHolds
<1>2. TokensInv => TypeOK
  BY TypeOKFollows
<1> QED
  BY <1>1, <1>2, PTL

\* Between calls, the tokens eaten and listed are those of the source, in order, with
\* strings joined, whatever is in the strings and however far the client looks ahead.
THEOREM TokensStringsJoined == Spec => []StringsJoined
<1>1. Spec => []TokensInv
  BY TokensInvHolds
<1>2. TokensInv => StringsJoined
  BY StringsJoinedFollows
<1> QED
  BY <1>1, <1>2, PTL

\* Whatever is in the source, the strings whose characters survive are printed with those
\* characters, in order and no others.
THEOREM TokensStringsShowText == Spec => []StringsShowText
<1>1. Spec => []TokensInv
  BY TokensInvHolds
<1>2. TokensInv => StringsShowText
  BY StringsShowTextFollows
<1> QED
  BY <1>1, <1>2, PTL
=============================================================================
