------------------------------ MODULE MacroTable ------------------------------
(***************************************************************************)
(* The hash table of macros (preprocessor.c, hashing.c): an array of       *)
(* chains, searched by the hash of a name and by nothing else.  A chain is *)
(* a sequence of records; the pointer that hash_table_sc_get_u32_ returns  *)
(* is the place in it where the search ended.                              *)
(***************************************************************************)
EXTENDS MacroRecord, Sequences

CONSTANTS
  Names,
  Hash,         \* hash_string: [Names -> Nat]; two names may have one hash
  Size,         \* PREPROCESSOR_MACRO_HASH_SIZE
  Definitions,  \* what the #defines of a source say
  Predefined,   \* the names pp_init defines, in order
  MaxDefs       \* bound: definitions of a name without an #undef

Object == [kind |-> "obj", variadic |-> FALSE, params |-> 0, body |-> "1"]

\* The assertion of predefined_macro (preprocessor.c:745) holds when the program
\* starts: no two predefined names have one hash.
ASSUME TableAssumption ==
  /\ Hash \in [Names -> Nat]
  /\ Size \in Nat \ {0}
  /\ Definitions \subseteq Definition /\ Object \in Definitions
  /\ Predefined \in Seq(Names)
  /\ MaxDefs \in Nat \ {0}
  /\ \A i, j \in DOMAIN Predefined :
       Hash[Predefined[i]] = Hash[Predefined[j]] => i = j

VARIABLES
  table,    \* pp->macro_hash
  pending,  \* the predefined macros still to come
  defs      \* history: the definitions of each name since its last #undef

vars == <<table, pending, defs>>

-----------------------------------------------------------------------------
(* hash_table_sc_get_u32_ *)

\* hash & (Size - 1): Size is a power of two.
Bucket(h) == h % Size

\* Plausible bug: any record of the bucket will do.
SlotFirst(chain, h) == 1

\* The place where the search of a chain ends: the first record with that hash,
\* or the end of the chain.
Slot(chain, h) ==
  CHOOSE i \in 1..(Len(chain) + 1) :
    /\ i <= Len(chain) => chain[i].hash = h
    /\ \A j \in 1..(i - 1) : chain[j].hash # h

Found(chain, h) == Slot(chain, h) <= Len(chain)

InChain(chain, h) ==
  IF Found(chain, h) THEN chain[Slot(chain, h)].macro ELSE NoRecord

\* GET_MACRO
Lookup(h) == InChain(table[Bucket(h)], h)

-----------------------------------------------------------------------------
Entry(h, m) == [hash |-> h, macro |-> m]

\* Plausible bug: a new record is linked in even where one was found.
StoredTwice(chain, h, n, d) ==
  Append(chain, Entry(h, Defined(InChain(chain, h), n, d)))

\* *macrop after a definition: the record found is written over, or a new one
\* is linked in where the search ended.
Stored(chain, h, n, d) ==
  IF Found(chain, h)
  THEN [chain EXCEPT ![Slot(chain, h)] = Entry(h, Defined(@.macro, n, d))]
  ELSE Append(chain, Entry(h, Defined(NoRecord, n, d)))

\* Plausible bug: the chain is cut off where the record was.
CutOff(chain, h) ==
  IF Found(chain, h) THEN SubSeq(chain, 1, Slot(chain, h) - 1) ELSE chain

\* *macrop = macro->next
Unlinked(chain, h) ==
  IF Found(chain, h)
  THEN SubSeq(chain, 1, Slot(chain, h) - 1)
         \o SubSeq(chain, Slot(chain, h) + 1, Len(chain))
  ELSE chain

Init ==
  /\ table = [b \in 0..(Size - 1) |-> <<>>]
  /\ pending = Predefined
  /\ defs = [n \in Names |-> <<>>]

Store(n, d) ==
  LET b == Bucket(Hash[n]) IN
  /\ table' = [table EXCEPT ![b] = Stored(@, Hash[n], n, d)]
  /\ defs' = [defs EXCEPT ![n] = Append(@, d)]

\* predefined_macro
Predefine ==
  /\ pending # <<>>
  /\ Store(Head(pending), Object)
  /\ pending' = Tail(pending)

\* define_macro
Define(n, d) ==
  /\ pending = <<>>
  /\ Len(defs[n]) < MaxDefs
  /\ Store(n, d)
  /\ UNCHANGED pending

\* undef_macro
Undef(n) ==
  LET b == Bucket(Hash[n]) IN
  /\ pending = <<>>
  /\ table' = [table EXCEPT ![b] = Unlinked(@, Hash[n])]
  /\ defs' = [defs EXCEPT ![n] = <<>>]
  /\ UNCHANGED pending

Next ==
  \/ Predefine
  \/ \E n \in Names : Undef(n) \/ \E d \in Definitions : Define(n, d)

Spec == Init /\ [][Next]_vars

-----------------------------------------------------------------------------
Keys == {Hash[n] : n \in Names}

Record ==
  [name : Names, kind : {"obj", "func"}, variadic : BOOLEAN, count : Nat,
   body : STRING]

\* Type invariant.
TypeOK ==
  /\ table \in [0..(Size - 1) -> Seq([hash : Keys, macro : Record])]
  /\ pending \in Seq(Names)
  /\ defs \in [Names -> Seq(Definitions)]

\* A record is in the chain of its hash, and no chain has two with one hash: what
\* a search relies on when it stops at the first, and #undef when it unlinks one.
OneRecordPerHash ==
  \A b \in DOMAIN table : \A i \in DOMAIN table[b] :
    /\ Bucket(table[b][i].hash) = b
    /\ \A j \in DOMAIN table[b] : table[b][i].hash = table[b][j].hash => i = j

\* The table is the map it stands for: an insertion or a removal in one chain
\* changes what is found for the hash it is about, and nothing else.
Map == INSTANCE MacroMap WITH map <- [k \in Keys |-> Lookup(k)]
ImplementsMap == Map!Spec

Alone(n) == \A m \in Names : Hash[m] = Hash[n] => m = n

\* A name that shares its hash with no other is a macro exactly while it is
\* defined, with the kind and body of the last definition, and with the parameters
\* of that definition if it is the only one since the last #undef.  (A redefinition
\* goes on counting: preprocessor.c:323-330 reuses the record.)
FindsDefinition ==
  \A n \in Names : Alone(n) =>
    LET r == Lookup(Hash[n])
        s == defs[n]
    IN  IF s = <<>> THEN r = NoRecord
        ELSE /\ r.name = n
             /\ r.kind = s[Len(s)].kind /\ r.body = s[Len(s)].body
             /\ Len(s) = 1 => /\ r.count = s[1].params
                              /\ r.variadic = s[1].variadic
=============================================================================
