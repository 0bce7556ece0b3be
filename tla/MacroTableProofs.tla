--------------------------- MODULE MacroTableProofs ---------------------------
(***************************************************************************)
(* Proofs about the table of macros, for any names, hashes and number of   *)
(* chains:                                                                 *)
(*   TableTypeOK       the type invariant,                                 *)
(*   TableOneRecord    a chain has one record per hash, its own,           *)
(*   TableIsMap        the table implements a map from hashes to records,  *)
(*   TableFinds        a name alone with its hash finds its definition.    *)
(***************************************************************************)
EXTENDS MacroTable, TLAPS, SequenceTheorems, WellFoundedInduction

Item == [hash : Keys, macro : Record]

\* A chain with at most one record per hash.
Distinct(chain) ==
  \A i, j \in DOMAIN chain : chain[i].hash = chain[j].hash => i = j

-----------------------------------------------------------------------------
(* The search of a chain. *)

\* The order of the naturals, as the relation the library calls well-founded.
LEMMA LessInRel == \A a, b \in Nat : a < b => <<a, b>> \in OpToRel(<, Nat)
  BY DEF OpToRel

\* A search ends at the first record with the hash, or at the end of the chain.
LEMMA SlotIsFirst ==
  ASSUME NEW chain \in Seq(Item), NEW h
  PROVE  /\ Slot(chain, h) \in 1..(Len(chain) + 1)
         /\ Slot(chain, h) <= Len(chain) => chain[Slot(chain, h)].hash = h
         /\ \A j \in 1..(Slot(chain, h) - 1) : chain[j].hash # h
<1> DEFINE Hits == {i \in 1..(Len(chain) + 1) : i <= Len(chain) => chain[i].hash = h}
<1>1. Len(chain) \in Nat
  OBVIOUS
<1>2. Len(chain) + 1 \in Hits
  BY <1>1
<1>3. Hits \subseteq Nat
  BY <1>1
<1>4. PICK x \in Hits : \A y \in Hits : ~(<<y, x>> \in OpToRel(<, Nat))
  BY <1>2, <1>3, NatLessThanWellFounded, WFMin, Zenon
<1>5. x \in 1..(Len(chain) + 1) /\ (x <= Len(chain) => chain[x].hash = h)
  OBVIOUS
<1>6. ASSUME NEW j \in 1..(x - 1) PROVE chain[j].hash # h
  <2>1. j \in Nat /\ j < x /\ j \in 1..(Len(chain) + 1)
    BY <1>1, <1>5
  <2>2. j \notin Hits
    BY <1>3, <1>4, <2>1, LessInRel, Zenon
  <2> QED
    BY <2>1, <2>2
<1> HIDE DEF Hits
<1> QED
  BY <1>5, <1>6 DEF Slot

\* A record in the chain is found, if it is the only one with its hash.
LEMMA FindsRecord ==
  ASSUME NEW chain \in Seq(Item), Distinct(chain), NEW i \in DOMAIN chain
  PROVE  /\ Found(chain, chain[i].hash)
         /\ Slot(chain, chain[i].hash) = i
         /\ InChain(chain, chain[i].hash) = chain[i].macro
<1> DEFINE s == Slot(chain, chain[i].hash)
<1>1. /\ s \in 1..(Len(chain) + 1)
      /\ s <= Len(chain) => chain[s].hash = chain[i].hash
      /\ \A j \in 1..(s - 1) : chain[j].hash # chain[i].hash
  BY SlotIsFirst
<1>2. i \in 1..Len(chain) /\ Len(chain) \in Nat
  OBVIOUS
<1>3. ~(i \in 1..(s - 1))
  BY <1>1
<1>4. s <= Len(chain)
  BY <1>1, <1>2, <1>3
<1>5. s \in DOMAIN chain
  BY <1>1, <1>2, <1>4
<1>6. s = i
  BY <1>1, <1>4, <1>5 DEF Distinct
<1> QED
  BY <1>4, <1>6 DEF Found, InChain

\* Without a record for the hash, nothing is found.
LEMMA FindsNothing ==
  ASSUME NEW chain \in Seq(Item), NEW h, \A i \in DOMAIN chain : chain[i].hash # h
  PROVE  ~Found(chain, h) /\ InChain(chain, h) = NoRecord
<1>1. /\ Slot(chain, h) \in 1..(Len(chain) + 1)
      /\ Slot(chain, h) <= Len(chain) => chain[Slot(chain, h)].hash = h
  BY SlotIsFirst
<1>2. ~Found(chain, h)
  BY <1>1 DEF Found
<1> QED
  BY <1>2 DEF InChain

\* What is not found is not in the chain.
LEMMA NotFound ==
  ASSUME NEW chain \in Seq(Item), NEW h, ~Found(chain, h)
  PROVE  \A i \in DOMAIN chain : chain[i].hash # h
<1>1. /\ Slot(chain, h) \in 1..(Len(chain) + 1)
      /\ \A j \in 1..(Slot(chain, h) - 1) : chain[j].hash # h
  BY SlotIsFirst
<1>2. Slot(chain, h) = Len(chain) + 1
  BY <1>1 DEF Found
<1> QED
  BY <1>1, <1>2

-----------------------------------------------------------------------------
(* A record after a definition. *)

LEMMA DefinedType ==
  ASSUME NEW r \in Record \cup {NoRecord}, NEW n \in Names, NEW d \in Definition
  PROVE  Defined(r, n, d) \in Record
<1>1. r.count \in Nat /\ r.variadic \in BOOLEAN
  <2>1. CASE r \in Record
    BY <2>1 DEF Record
  <2>2. CASE r = NoRecord
    BY <2>2, Zenon DEF NoRecord
  <2> QED
    BY <2>1, <2>2
<1>2. /\ d.kind \in {"obj", "func"} /\ d.variadic \in BOOLEAN
      /\ d.params \in Nat /\ d.body \in STRING
  BY DEF Definition
<1>3. (IF d.variadic THEN TRUE ELSE r.variadic) \in BOOLEAN
  BY <1>1, <1>2, Zenon
<1>4. r.count + d.params \in Nat
  BY <1>1, <1>2
<1> QED
  BY <1>2, <1>3, <1>4, Zenon DEF Defined, Record

\* What a search returns is a record or none.
LEMMA InChainType ==
  ASSUME NEW chain \in Seq(Item), NEW h
  PROVE  InChain(chain, h) \in Record \cup {NoRecord}
<1>1. Slot(chain, h) \in 1..(Len(chain) + 1)
  BY SlotIsFirst
<1>2. CASE Found(chain, h)
  <2>1. Slot(chain, h) \in DOMAIN chain
    BY <1>1, <1>2 DEF Found
  <2>2. chain[Slot(chain, h)] \in Item
    BY <2>1
  <2> QED
    BY <1>2, <2>2 DEF InChain, Item
<1>3. CASE ~Found(chain, h)
  BY <1>3 DEF InChain
<1> QED
  BY <1>2, <1>3

-----------------------------------------------------------------------------
(* What the operations do to a chain. *)

\* A sequence without the element at place s.
LEMMA WithoutPlace ==
  ASSUME NEW T, NEW c \in Seq(T), NEW s \in 1..Len(c)
  PROVE  LET r == SubSeq(c, 1, s - 1) \o SubSeq(c, s + 1, Len(c))
         IN  /\ r \in Seq(T)
             /\ DOMAIN r = 1..(Len(c) - 1)
             /\ \A i \in DOMAIN r : r[i] = c[IF i < s THEN i ELSE i + 1]
<1> DEFINE front == SubSeq(c, 1, s - 1)
           back  == SubSeq(c, s + 1, Len(c))
           r == front \o back
<1>1. s \in Nat /\ 1 <= s /\ s <= Len(c) /\ Len(c) \in Nat
  OBVIOUS
<1>2. /\ front \in Seq(T) /\ Len(front) = s - 1
      /\ \A i \in 1..(s - 1) : front[i] = c[i]
  BY <1>1
<1>3. /\ back \in Seq(T) /\ Len(back) = Len(c) - s
      /\ \A i \in 1..(Len(c) - s) : back[i] = c[s + i]
  BY <1>1
<1> HIDE DEF front, back
<1>4. /\ r \in Seq(T) /\ Len(r) = Len(front) + Len(back)
      /\ \A i \in 1..(Len(front) + Len(back)) :
           r[i] = IF i <= Len(front) THEN front[i] ELSE back[i - Len(front)]
  BY <1>2, <1>3, ConcatProperties, Zenon
<1> HIDE DEF r
<1>5. r \in Seq(T) /\ DOMAIN r = 1..(Len(c) - 1)
  BY <1>1, <1>2, <1>3, <1>4
<1>6. ASSUME NEW i \in 1..(Len(c) - 1) PROVE r[i] = c[IF i < s THEN i ELSE i + 1]
  <2>1. CASE i < s
    <3>1. i \in 1..Len(front)
      BY <1>1, <1>2, <2>1
    <3>2. r[i] = front[i]
      <4>1. i \in 1..(Len(front) + Len(back)) /\ i <= Len(front)
        BY <1>1, <1>2, <1>3, <3>1
      <4> QED
        BY <1>4, <4>1, Zenon
    <3> QED
      BY <1>2, <2>1, <3>1, <3>2
  <2>2. CASE ~(i < s)
    <3>1. i - Len(front) \in 1..(Len(c) - s) /\ s + (i - Len(front)) = i + 1
      BY <1>1, <1>2, <2>2
    <3>2. i \in (Len(front) + 1)..(Len(front) + Len(back))
      BY <1>1, <1>2, <1>3, <2>2
    <3>3. r[i] = back[i - Len(front)]
      BY <1>1, <1>2, <1>3, <1>4, <3>2
    <3> QED
      BY <1>3, <2>2, <3>1, <3>3
  <2> QED
    BY <2>1, <2>2
<1> QED
  BY <1>5, <1>6 DEF r, front, back

\* Two chains with the same records of a hash answer a search for it alike.
LEMMA SameAnswer ==
  ASSUME NEW c1 \in Seq(Item), Distinct(c1), NEW c2 \in Seq(Item), Distinct(c2),
         NEW k,
         \A i \in DOMAIN c1 : c1[i].hash = k => \E j \in DOMAIN c2 : c2[j] = c1[i],
         \A j \in DOMAIN c2 : c2[j].hash = k => \E i \in DOMAIN c1 : c1[i] = c2[j]
  PROVE  InChain(c1, k) = InChain(c2, k)
<1>1. CASE \E i \in DOMAIN c1 : c1[i].hash = k
  <2>1. PICK i \in DOMAIN c1 : c1[i].hash = k
    BY <1>1
  <2>2. PICK j \in DOMAIN c2 : c2[j] = c1[i]
    BY <2>1
  <2>3. InChain(c1, k) = c1[i].macro
    BY <2>1, FindsRecord
  <2>4. InChain(c2, k) = c2[j].macro
    BY <2>1, <2>2, FindsRecord
  <2> QED
    BY <2>2, <2>3, <2>4
<1>2. CASE \A i \in DOMAIN c1 : c1[i].hash # k
  <2>1. \A j \in DOMAIN c2 : c2[j].hash # k
    BY <1>2
  <2> QED
    BY <1>2, <2>1, FindsNothing
<1> QED
  BY <1>1, <1>2

\* A definition changes the answer for its own hash and no other.
LEMMA StoredChain ==
  ASSUME TableAssumption,
         NEW chain \in Seq(Item), Distinct(chain),
         NEW n \in Names, NEW d \in Definitions
  PROVE  LET h == Hash[n]
             new == Stored(chain, h, n, d)
         IN  /\ new \in Seq(Item)
             /\ Distinct(new)
             /\ \A i \in DOMAIN new :
                  new[i].hash = h \/ \E j \in DOMAIN chain : chain[j] = new[i]
             /\ InChain(new, h) = Defined(InChain(chain, h), n, d)
             /\ \A k \in Keys \ {h} : InChain(new, k) = InChain(chain, k)
<1> DEFINE h == Hash[n]
           new == Stored(chain, h, n, d)
           s == Slot(chain, h)
           e == Entry(h, Defined(InChain(chain, h), n, d))
<1>1. d \in Definition /\ h \in Keys
  BY DEF TableAssumption, Keys
<1>2. e \in Item /\ e.hash = h /\ e.macro = Defined(InChain(chain, h), n, d)
  <2>1. Defined(InChain(chain, h), n, d) \in Record
    BY <1>1, InChainType, DefinedType
  <2> QED
    BY <1>1, <2>1 DEF Entry, Item
<1>3. /\ new \in Seq(Item)
      /\ Distinct(new)
      /\ \E i \in DOMAIN new : new[i] = e
      /\ \A i \in DOMAIN new : new[i] = e \/ \E j \in DOMAIN chain : chain[j] = new[i]
      /\ \A j \in DOMAIN chain : chain[j].hash # h => \E i \in DOMAIN new : new[i] = chain[j]
  <2>1. CASE Found(chain, h)
    <3>1. s \in DOMAIN chain /\ chain[s].hash = h
      BY <2>1, SlotIsFirst DEF Found
    <3>2. new = [chain EXCEPT ![s] = e]
      BY <2>1, <3>1 DEF Stored, InChain
    <3>3. new \in Seq(Item) /\ DOMAIN new = DOMAIN chain
      BY <1>2, <3>1, <3>2
    <3>4. \A i \in DOMAIN new : new[i] = IF i = s THEN e ELSE chain[i]
      BY <3>1, <3>2
    <3>5. \A i \in DOMAIN new : new[i].hash = chain[i].hash
      BY <1>2, <3>1, <3>3, <3>4
    <3>6. Distinct(new)
      BY <3>3, <3>5 DEF Distinct
    <3> HIDE DEF new, e, s
    <3> QED
      BY <3>1, <3>3, <3>4, <3>6
  <2>2. CASE ~Found(chain, h)
    <3>1. \A i \in DOMAIN chain : chain[i].hash # h
      BY <2>2, NotFound
    <3>2. new = Append(chain, e)
      BY <2>2 DEF Stored, InChain
    <3>3. /\ new \in Seq(Item)
          /\ DOMAIN new = 1..(Len(chain) + 1)
          /\ new[Len(chain) + 1] = e
          /\ \A i \in DOMAIN chain : new[i] = chain[i]
      BY <1>2, <3>2
    <3>4. \A i \in DOMAIN new : i \in DOMAIN chain \/ i = Len(chain) + 1
      BY <3>3
    <3>5. Distinct(new)
      BY <1>2, <3>1, <3>3, <3>4 DEF Distinct
    <3>6. Len(chain) + 1 \in DOMAIN new /\ DOMAIN chain \subseteq DOMAIN new
      BY <3>3
    <3> HIDE DEF new, e
    <3> QED
      BY <3>3, <3>4, <3>5, <3>6
  <2> QED
    BY <2>1, <2>2
<1>4. InChain(new, h) = Defined(InChain(chain, h), n, d)
  <2>1. PICK i \in DOMAIN new : new[i] = e
    BY <1>3
  <2>2. InChain(new, new[i].hash) = new[i].macro
    BY <1>3, FindsRecord
  <2> HIDE DEF new, e
  <2> QED
    BY <1>2, <2>1, <2>2
<1>5. ASSUME NEW k \in Keys \ {h} PROVE InChain(new, k) = InChain(chain, k)
  <2>1. \A i \in DOMAIN new :
          new[i].hash = k => \E j \in DOMAIN chain : chain[j] = new[i]
    BY <1>2, <1>3
  <2>2. \A j \in DOMAIN chain :
          chain[j].hash = k => \E i \in DOMAIN new : new[i] = chain[j]
    BY <1>3
  <2> HIDE DEF new
  <2> QED
    BY <1>3, <2>1, <2>2, SameAnswer
<1>6. \A i \in DOMAIN new :
        new[i].hash = h \/ \E j \in DOMAIN chain : chain[j] = new[i]
  BY <1>2, <1>3
<1> HIDE DEF new
<1> QED
  BY <1>3, <1>4, <1>5, <1>6 DEF new

\* #undef takes the answer for its hash away and changes no other.
LEMMA UnlinkedChain ==
  ASSUME NEW chain \in Seq(Item), Distinct(chain), NEW h
  PROVE  LET new == Unlinked(chain, h)
         IN  /\ new \in Seq(Item)
             /\ Distinct(new)
             /\ \A i \in DOMAIN new : \E j \in DOMAIN chain : chain[j] = new[i]
             /\ InChain(new, h) = NoRecord
             /\ \A k \in Keys \ {h} : InChain(new, k) = InChain(chain, k)
<1> DEFINE new == Unlinked(chain, h)
           s == Slot(chain, h)
           old(i) == IF i < s THEN i ELSE i + 1
<1>1. CASE ~Found(chain, h)
  <2>1. \A i \in DOMAIN chain : chain[i].hash # h
    BY <1>1, NotFound
  <2> QED
    BY <1>1, <2>1, FindsNothing DEF Unlinked
<1>2. CASE Found(chain, h)
  <2>1. s \in 1..Len(chain) /\ chain[s].hash = h /\ Len(chain) \in Nat
    BY <1>2, SlotIsFirst DEF Found
  <2>2. /\ new \in Seq(Item)
        /\ DOMAIN new = 1..(Len(chain) - 1)
        /\ \A i \in DOMAIN new : new[i] = chain[old(i)]
    <3>1. new = SubSeq(chain, 1, s - 1) \o SubSeq(chain, s + 1, Len(chain))
      BY <1>2 DEF Unlinked
    <3> HIDE DEF new, s
    <3> QED
      BY <2>1, <3>1, WithoutPlace
  <2>3. \A i \in DOMAIN new : old(i) \in DOMAIN chain /\ old(i) # s
    BY <2>1, <2>2
  <2>4. \A i, j \in DOMAIN new : old(i) = old(j) => i = j
    BY <2>1, <2>2
  <2>5. \A j \in DOMAIN chain : j # s => \E i \in DOMAIN new : new[i] = chain[j]
    <3>1. ASSUME NEW j \in DOMAIN chain, j # s
          PROVE  \E i \in DOMAIN new : old(i) = j
      <4> DEFINE i == IF j < s THEN j ELSE j - 1
      <4>1. i \in 1..(Len(chain) - 1) /\ old(i) = j
        BY <2>1, <3>1
      <4> HIDE DEF i
      <4> QED
        BY <2>2, <4>1
    <3> HIDE DEF new, old
    <3> QED
      BY <2>2, <3>1
  <2> HIDE DEF new, old
  <2>6. Distinct(new)
    BY <2>2, <2>3, <2>4 DEF Distinct
  <2>7. \A i \in DOMAIN new : new[i].hash # h
    BY <2>1, <2>2, <2>3 DEF Distinct
  <2>8. InChain(new, h) = NoRecord
    BY <2>2, <2>7, FindsNothing
  <2>9. ASSUME NEW k \in Keys \ {h} PROVE InChain(new, k) = InChain(chain, k)
    <3>1. \A j \in DOMAIN chain :
            chain[j].hash = k => \E i \in DOMAIN new : new[i] = chain[j]
      BY <2>1, <2>5
    <3>2. \A i \in DOMAIN new : \E j \in DOMAIN chain : chain[j] = new[i]
      BY <2>2, <2>3
    <3> QED
      BY <2>2, <2>6, <3>1, <3>2, SameAnswer
  <2> QED
    BY <2>2, <2>3, <2>6, <2>8, <2>9 DEF new
<1> QED
  BY <1>1, <1>2

-----------------------------------------------------------------------------
(* The table. *)

\* Buckets are places in the table.
LEMMA BucketType ==
  ASSUME TableAssumption, NEW h \in Nat
  PROVE  Bucket(h) \in 0..(Size - 1)
  BY DEF TableAssumption, Bucket

LEMMA HashType ==
  ASSUME TableAssumption
  PROVE  /\ Keys \subseteq Nat
         /\ \A n \in Names : Hash[n] \in Keys
  BY DEF TableAssumption, Keys

\* The chains of a well-formed table.
LEMMA Chains ==
  ASSUME TypeOK, OneRecordPerHash, NEW b \in 0..(Size - 1)
  PROVE  table[b] \in Seq(Item) /\ Distinct(table[b])
  BY DEF TypeOK, OneRecordPerHash, Distinct, Item

\* Replacing one chain, the one of hash h, by one whose records are of h or of the
\* old chain keeps the table well-formed.
LEMMA NewChain ==
  ASSUME TableAssumption, TypeOK, OneRecordPerHash,
         NEW h \in Keys, NEW new \in Seq(Item), Distinct(new),
         \A i \in DOMAIN new :
           new[i].hash = h \/ \E j \in DOMAIN table[Bucket(h)] : table[Bucket(h)][j] = new[i],
         table' = [table EXCEPT ![Bucket(h)] = new]
  PROVE  /\ table' \in [0..(Size - 1) -> Seq(Item)]
         /\ OneRecordPerHash'
<1>1. Bucket(h) \in 0..(Size - 1)
  BY BucketType, HashType
<1>2. table \in [0..(Size - 1) -> Seq(Item)]
  BY DEF TypeOK, Item
<1>3. table' \in [0..(Size - 1) -> Seq(Item)]
  BY <1>1, <1>2
<1>4. ASSUME NEW b \in 0..(Size - 1), NEW i \in DOMAIN table'[b]
      PROVE  /\ Bucket(table'[b][i].hash) = b
             /\ \A j \in DOMAIN table'[b] : table'[b][i].hash = table'[b][j].hash => i = j
  <2>1. CASE b = Bucket(h)
    <3>1. table'[b] = new
      BY <1>1, <1>2, <2>1
    <3>2. \A j \in DOMAIN table[b] : Bucket(table[b][j].hash) = b
      BY <1>1, <1>2 DEF OneRecordPerHash
    <3>3. Bucket(new[i].hash) = b
      BY <2>1, <3>1, <3>2
    <3> QED
      BY <3>1, <3>3 DEF Distinct
  <2>2. CASE b # Bucket(h)
    <3>1. table'[b] = table[b] /\ b \in DOMAIN table
      BY <1>1, <1>2, <2>2
    <3>2. i \in DOMAIN table[b]
      BY <3>1
    <3>3. /\ Bucket(table[b][i].hash) = b
          /\ \A j \in DOMAIN table[b] : table[b][i].hash = table[b][j].hash => i = j
      BY <3>1, <3>2 DEF OneRecordPerHash
    <3>4. DOMAIN table'[b] = DOMAIN table[b]
      BY <3>1
    <3>5. Bucket(table'[b][i].hash) = b
      BY <3>1, <3>3
    <3>6. ASSUME NEW j \in DOMAIN table'[b], table'[b][i].hash = table'[b][j].hash
          PROVE  i = j
      BY <3>1, <3>3, <3>4, <3>6
    <3> QED
      BY <3>5, <3>6
  <2> QED
    BY <2>1, <2>2
<1>5. OneRecordPerHash'
  BY <1>3, <1>4 DEF OneRecordPerHash
<1> QED
  BY <1>3, <1>5

\* The map of a table in which one chain is replaced.
LEMMA NewMap ==
  ASSUME TableAssumption, TypeOK,
         NEW h \in Keys, NEW new,
         \A k \in Keys \ {h} : InChain(new, k) = InChain(table[Bucket(h)], k),
         table' = [table EXCEPT ![Bucket(h)] = new]
  PROVE  [k \in Keys |-> Lookup(k)]'
           = [[k \in Keys |-> Lookup(k)] EXCEPT ![h] = InChain(new, h)]
<1>1. \A k \in Keys : Bucket(k) \in 0..(Size - 1)
  BY BucketType, HashType
<1>2. DOMAIN table = 0..(Size - 1)
  BY DEF TypeOK
<1>3. ASSUME NEW k \in Keys
      PROVE  Lookup(k)' = IF k = h THEN InChain(new, h) ELSE Lookup(k)
  <2>1. CASE Bucket(k) = Bucket(h)
    BY <1>1, <1>2, <2>1 DEF Lookup
  <2>2. CASE Bucket(k) # Bucket(h)
    BY <1>1, <1>2, <2>2 DEF Lookup
  <2> QED
    BY <2>1, <2>2
<1> QED
  BY <1>3

\* A definition keeps the table well-formed and is one of the map.
LEMMA StoreStep ==
  ASSUME TableAssumption, TypeOK, OneRecordPerHash,
         NEW n \in Names, NEW d \in Definitions, Store(n, d)
  PROVE  /\ table' \in [0..(Size - 1) -> Seq(Item)]
         /\ defs' \in [Names -> Seq(Definitions)]
         /\ OneRecordPerHash'
         /\ Map!Define(Hash[n], n, d)
<1> DEFINE h == Hash[n]
           chain == table[Bucket(h)]
           new == Stored(chain, h, n, d)
<1>1. h \in Keys /\ Bucket(h) \in 0..(Size - 1)
  BY BucketType, HashType
<1>2. chain \in Seq(Item) /\ Distinct(chain)
  BY <1>1, Chains
<1>3. table' = [table EXCEPT ![Bucket(h)] = new]
  BY <1>1 DEF Store, TypeOK
<1>4. /\ new \in Seq(Item)
      /\ Distinct(new)
      /\ \A i \in DOMAIN new :
           new[i].hash = h \/ \E j \in DOMAIN chain : chain[j] = new[i]
      /\ InChain(new, h) = Defined(InChain(chain, h), n, d)
      /\ \A k \in Keys \ {h} : InChain(new, k) = InChain(chain, k)
  BY <1>2, StoredChain
<1> HIDE DEF new
<1>5. table' \in [0..(Size - 1) -> Seq(Item)] /\ OneRecordPerHash'
  BY <1>1, <1>3, <1>4, NewChain
<1>6. [k \in Keys |-> Lookup(k)]'
        = [[k \in Keys |-> Lookup(k)] EXCEPT ![h] = Defined(@, n, d)]
  BY <1>1, <1>3, <1>4, NewMap DEF Lookup
<1>7. defs' \in [Names -> Seq(Definitions)]
  BY DEF Store, TypeOK
<1> QED
  BY <1>5, <1>6, <1>7 DEF Map!Define, Map!Defined, Defined

\* So does an #undef.
LEMMA UndefStep ==
  ASSUME TableAssumption, TypeOK, OneRecordPerHash, NEW n \in Names, Undef(n)
  PROVE  /\ table' \in [0..(Size - 1) -> Seq(Item)]
         /\ defs' \in [Names -> Seq(Definitions)]
         /\ OneRecordPerHash'
         /\ Map!Undef(Hash[n])
<1> DEFINE h == Hash[n]
           chain == table[Bucket(h)]
           new == Unlinked(chain, h)
<1>1. h \in Keys /\ Bucket(h) \in 0..(Size - 1)
  BY BucketType, HashType
<1>2. chain \in Seq(Item) /\ Distinct(chain)
  BY <1>1, Chains
<1>3. table' = [table EXCEPT ![Bucket(h)] = new]
  BY <1>1 DEF Undef, TypeOK
<1>4. /\ new \in Seq(Item)
      /\ Distinct(new)
      /\ \A i \in DOMAIN new : \E j \in DOMAIN chain : chain[j] = new[i]
      /\ InChain(new, h) = NoRecord
      /\ \A k \in Keys \ {h} : InChain(new, k) = InChain(chain, k)
  BY <1>2, UnlinkedChain
<1> HIDE DEF new
<1>5. table' \in [0..(Size - 1) -> Seq(Item)] /\ OneRecordPerHash'
  <2>1. \A i \in DOMAIN new :
          new[i].hash = h \/ \E j \in DOMAIN chain : chain[j] = new[i]
    BY <1>4
  <2> HIDE DEF h
  <2> QED
    BY <1>1, <1>3, <1>4, <2>1, NewChain
<1>6. [k \in Keys |-> Lookup(k)]'
        = [[k \in Keys |-> Lookup(k)] EXCEPT ![h] = NoRecord]
  BY <1>1, <1>3, <1>4, NewMap
<1>7. defs' \in [Names -> Seq(Definitions)]
  BY DEF Undef, TypeOK
<1> QED
  BY <1>5, <1>6, <1>7 DEF Map!Undef, Map!NoRecord, NoRecord

-----------------------------------------------------------------------------
(* The theorems. *)

Inv == TypeOK /\ OneRecordPerHash

LEMMA InitInv == ASSUME TableAssumption, Init PROVE Inv
<1>1. TypeOK
  BY DEF Init, TypeOK, TableAssumption
<1>2. OneRecordPerHash
  BY DEF Init, OneRecordPerHash
<1> QED
  BY <1>1, <1>2 DEF Inv

\* Every step keeps the invariant and is one of the map, or leaves it alone.
LEMMA Step ==
  ASSUME TableAssumption, Inv, [Next]_vars
  PROVE  Inv' /\ [Map!Next]_([k \in Keys |-> Lookup(k)])
<1>1. CASE Predefine
  <2>1. Head(pending) \in Names /\ Tail(pending) \in Seq(Names)
    BY <1>1 DEF Predefine, Inv, TypeOK
  <2>2. Object \in Definitions /\ Store(Head(pending), Object)
    BY <1>1 DEF Predefine, TableAssumption
  <2>3. /\ table' \in [0..(Size - 1) -> Seq(Item)]
        /\ defs' \in [Names -> Seq(Definitions)]
        /\ OneRecordPerHash'
        /\ Map!Define(Hash[Head(pending)], Head(pending), Object)
    BY <2>1, <2>2, StoreStep DEF Inv
  <2>4. pending' \in Seq(Names)
    BY <1>1, <2>1 DEF Predefine
  <2>5. Map!Next
    BY <2>1, <2>2, <2>3, HashType DEF Map!Next
  <2> QED
    BY <2>3, <2>4, <2>5 DEF Inv, TypeOK, Item
<1>2. ASSUME NEW n \in Names, NEW d \in Definitions, Define(n, d)
      PROVE  Inv' /\ Map!Next
  <2>1. /\ table' \in [0..(Size - 1) -> Seq(Item)]
        /\ defs' \in [Names -> Seq(Definitions)]
        /\ OneRecordPerHash'
        /\ Map!Define(Hash[n], n, d)
    BY <1>2, StoreStep DEF Define, Inv
  <2>2. pending' \in Seq(Names)
    BY <1>2 DEF Define, Inv, TypeOK
  <2>3. Map!Next
    BY <2>1, HashType DEF Map!Next
  <2> QED
    BY <2>1, <2>2, <2>3 DEF Inv, TypeOK, Item
<1>3. ASSUME NEW n \in Names, Undef(n)
      PROVE  Inv' /\ Map!Next
  <2>1. /\ table' \in [0..(Size - 1) -> Seq(Item)]
        /\ defs' \in [Names -> Seq(Definitions)]
        /\ OneRecordPerHash'
        /\ Map!Undef(Hash[n])
    BY <1>3, UndefStep DEF Inv
  <2>2. pending' \in Seq(Names)
    BY <1>3 DEF Undef, Inv, TypeOK
  <2>3. Map!Next
    BY <2>1, HashType DEF Map!Next
  <2> QED
    BY <2>1, <2>2, <2>3 DEF Inv, TypeOK, Item
<1>4. CASE UNCHANGED vars
  <2>1. table' = table /\ pending' = pending /\ defs' = defs
    BY <1>4 DEF vars
  <2>2. Inv'
    BY <2>1 DEF Inv, TypeOK, OneRecordPerHash
  <2>3. [k \in Keys |-> Lookup(k)]' = [k \in Keys |-> Lookup(k)]
    BY <2>1 DEF Lookup
  <2> QED
    BY <2>2, <2>3
<1> QED
  BY <1>1, <1>2, <1>3, <1>4 DEF Next

\* The type invariant, for any names, hashes and number of chains.
THEOREM TableTypeOK == Spec => []TypeOK
<1>1. Init => Inv
  BY TableAssumption, InitInv
<1>2. Inv /\ [Next]_vars => Inv'
  BY TableAssumption, Step
<1>3. Inv => TypeOK
  BY DEF Inv
<1> QED
  BY <1>1, <1>2, <1>3, PTL DEF Spec

\* Every record is in the chain of its hash, alone with that hash: the search of
\* hash_table_sc_get_u32_ may stop at the first, and #undef removes the macro.
THEOREM TableOneRecord == Spec => []OneRecordPerHash
<1>1. Init => Inv
  BY TableAssumption, InitInv
<1>2. Inv /\ [Next]_vars => Inv'
  BY TableAssumption, Step
<1>3. Inv => OneRecordPerHash
  BY DEF Inv
<1> QED
  BY <1>1, <1>2, <1>3, PTL DEF Spec

\* The table implements the map: a definition or an #undef changes what is found
\* for its own hash, whatever else is in the chain it goes through.
THEOREM TableIsMap == Spec => ImplementsMap
<1>1. Init => Inv
  BY TableAssumption, InitInv
<1>2. Init => Map!Init
  <2>1. ASSUME Init, NEW k \in Keys PROVE Lookup(k) = NoRecord
    <3>1. table[Bucket(k)] = <<>>
      BY <2>1, TableAssumption, BucketType, HashType DEF Init
    <3>2. <<>> \in Seq(Item) /\ DOMAIN <<>> = {}
      OBVIOUS
    <3> QED
      BY <3>1, <3>2, FindsNothing DEF Lookup
  <2> QED
    BY <2>1 DEF Map!Init, Map!NoRecord, NoRecord
<1>3. Inv /\ [Next]_vars => Inv' /\ [Map!Next]_([k \in Keys |-> Lookup(k)])
  BY TableAssumption, Step
<1> QED
  BY <1>1, <1>2, <1>3, PTL DEF Spec, ImplementsMap, Map!Spec

-----------------------------------------------------------------------------
(* What is found for one name. *)

\* The conjunct of FindsDefinition for record r and the definitions s of n.
Finds(n, r, s) ==
  IF s = <<>> THEN r = NoRecord
  ELSE /\ r.name = n
       /\ r.kind = s[Len(s)].kind /\ r.body = s[Len(s)].body
       /\ Len(s) = 1 => /\ r.count = s[1].params
                        /\ r.variadic = s[1].variadic

LEMMA FindsIsConjunct ==
  FindsDefinition <=> \A n \in Names : Alone(n) => Finds(n, Lookup(Hash[n]), defs[n])
  BY DEF FindsDefinition, Finds

\* One more definition.
LEMMA DefinedFinds ==
  ASSUME NEW n, NEW r, NEW s \in Seq(Definitions), NEW d \in Definitions,
         Definitions \subseteq Definition, Finds(n, r, s)
  PROVE  Finds(n, Defined(r, n, d), Append(s, d))
<1> DEFINE t == Append(s, d)
           q == Defined(r, n, d)
<1>1. t # <<>> /\ Len(t) = Len(s) + 1 /\ t[Len(t)] = d /\ Len(s) \in Nat
  OBVIOUS
<1>2. q.name = n /\ q.kind = d.kind /\ q.body = d.body
  BY DEF Defined
<1>3. ASSUME Len(t) = 1 PROVE q.count = t[1].params /\ q.variadic = t[1].variadic
  <2>1. s = <<>> /\ t[1] = d
    BY <1>1, <1>3
  <2>2. r.count = 0 /\ r.variadic = FALSE
    <3>1. r = NoRecord
      BY <2>1 DEF Finds
    <3> QED
      BY <3>1, Zenon DEF NoRecord
  <2>3. d.params \in Nat /\ d.variadic \in BOOLEAN
    BY DEF Definition
  <2>4. q.count = r.count + d.params /\ q.variadic = (IF d.variadic THEN TRUE ELSE r.variadic)
    BY Zenon DEF Defined
  <2>5. q.count = d.params
    BY <2>2, <2>3, <2>4
  <2>6. q.variadic = d.variadic
    BY <2>2, <2>3, <2>4, Zenon
  <2> QED
    BY <2>1, <2>5, <2>6
<1> HIDE DEF t, q
<1> QED
  BY <1>1, <1>2, <1>3, Zenon DEF Finds, t, q

\* A definition of one name.
LEMMA StoreFinds ==
  ASSUME TableAssumption, Inv, FindsDefinition,
         NEW m \in Names, NEW d \in Definitions, Store(m, d)
  PROVE  FindsDefinition'
<1>1. Map!Define(Hash[m], m, d)
  BY StoreStep DEF Inv
<1>2. \A k \in Keys :
        Lookup(k)' = IF k = Hash[m] THEN Defined(Lookup(k), m, d) ELSE Lookup(k)
  BY <1>1, HashType DEF Map!Define, Map!Defined, Defined
<1>3. \A n \in Names : defs'[n] = IF n = m THEN Append(defs[n], d) ELSE defs[n]
  BY DEF Store, Inv, TypeOK
<1>4. ASSUME NEW n \in Names, Alone(n)
      PROVE  Finds(n, Lookup(Hash[n])', defs'[n])
  <2>1. Finds(n, Lookup(Hash[n]), defs[n])
    BY <1>4, FindsIsConjunct
  <2>2. CASE n = m
    <3>1. defs[n] \in Seq(Definitions)
      BY DEF Inv, TypeOK
    <3>2. Definitions \subseteq Definition
      BY DEF TableAssumption
    <3>3. Finds(n, Defined(Lookup(Hash[n]), n, d), Append(defs[n], d))
      BY <2>1, <3>1, <3>2, DefinedFinds
    <3> QED
      BY <1>2, <1>3, <2>2, <3>3, HashType
  <2>3. CASE n # m
    <3>1. Hash[n] # Hash[m]
      BY <1>4, <2>3 DEF Alone
    <3> QED
      BY <1>2, <1>3, <2>1, <2>3, <3>1, HashType
  <2> QED
    BY <2>2, <2>3
<1> QED
  BY <1>4 DEF FindsDefinition, Finds, Alone

\* An #undef of one name.
LEMMA UndefFinds ==
  ASSUME TableAssumption, Inv, FindsDefinition, NEW m \in Names, Undef(m)
  PROVE  FindsDefinition'
<1>1. Map!Undef(Hash[m])
  BY UndefStep DEF Inv
<1>2. \A k \in Keys : Lookup(k)' = IF k = Hash[m] THEN NoRecord ELSE Lookup(k)
  BY <1>1, HashType DEF Map!Undef, Map!NoRecord, NoRecord
<1>3. \A n \in Names : defs'[n] = IF n = m THEN <<>> ELSE defs[n]
  BY DEF Undef, Inv, TypeOK
<1>4. ASSUME NEW n \in Names, Alone(n)
      PROVE  Finds(n, Lookup(Hash[n])', defs'[n])
  <2>1. CASE n = m
    BY <1>2, <1>3, <2>1, HashType DEF Finds
  <2>2. CASE n # m
    <3>1. Hash[n] # Hash[m]
      BY <1>4, <2>2 DEF Alone
    <3>2. Finds(n, Lookup(Hash[n]), defs[n])
      BY <1>4, FindsIsConjunct
    <3> QED
      BY <1>2, <1>3, <2>2, <3>1, <3>2, HashType
  <2> QED
    BY <2>1, <2>2
<1> QED
  BY <1>4 DEF FindsDefinition, Finds, Alone

\* A name that shares its hash with no other is a macro exactly while it is defined,
\* with what its last definition says, whatever is defined and undefined around it.
THEOREM TableFinds == Spec => []FindsDefinition
<1>1. ASSUME Init PROVE FindsDefinition
  <2>1. ASSUME NEW n \in Names PROVE Lookup(Hash[n]) = NoRecord /\ defs[n] = <<>>
    <3>1. table[Bucket(Hash[n])] = <<>> /\ defs[n] = <<>>
      BY <1>1, TableAssumption, BucketType, HashType DEF Init
    <3>2. <<>> \in Seq(Item) /\ DOMAIN <<>> = {}
      OBVIOUS
    <3> QED
      BY <3>1, <3>2, FindsNothing DEF Lookup
  <2> QED
    BY <2>1 DEF FindsDefinition
<1>2. Init => Inv
  BY TableAssumption, InitInv
<1>3. Inv /\ [Next]_vars => Inv'
  BY TableAssumption, Step
<1>4. ASSUME Inv, FindsDefinition, [Next]_vars PROVE FindsDefinition'
  <2>1. CASE Predefine
    <3>1. Head(pending) \in Names
      BY <1>4, <2>1 DEF Predefine, Inv, TypeOK
    <3>2. Object \in Definitions /\ Store(Head(pending), Object)
      BY <2>1, TableAssumption DEF Predefine, TableAssumption
    <3> QED
      BY <1>4, <3>1, <3>2, TableAssumption, StoreFinds
  <2>2. ASSUME NEW n \in Names, NEW d \in Definitions, Define(n, d)
        PROVE  FindsDefinition'
    BY <1>4, <2>2, TableAssumption, StoreFinds DEF Define
  <2>3. ASSUME NEW n \in Names, Undef(n) PROVE FindsDefinition'
    BY <1>4, <2>3, TableAssumption, UndefFinds
  <2>4. CASE UNCHANGED vars
    BY <1>4, <2>4 DEF vars, FindsDefinition, Lookup
  <2> QED
    BY <1>4, <2>1, <2>2, <2>3, <2>4 DEF Next
<1> QED
  BY <1>1, <1>2, <1>3, <1>4, PTL DEF Spec
=============================================================================
