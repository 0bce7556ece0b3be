------------------------------- MODULE CNumbers -------------------------------
(***************************************************************************)
(* Constants: what convert_c_number (c_types.c) makes of a number's        *)
(* spelling and convert_pp_token (c_lang.c) of a character's.              *)
(*                                                                         *)
(* A spelling is taken apart here: the base its prefix says and the number *)
(* its digits stand for, or the codes of its characters; what follows the  *)
(* digits.  The widths of the types are parameters, so that the limits are *)
(* within reach.                                                           *)
(***************************************************************************)
EXTENDS CStrings

CONSTANTS ByteBits, IntBits, LongBits, LLongBits

\* What a spelling can be: an integer, one that begins with 0 and has a digit
\* that is not octal, a number with a point or an exponent, a character.
Forms == {"int", "badoctal", "real", "char"}

Literal ==
  [form : Forms, base : {2, 8, 10, 16}, value : Nat,
   suffix : {"", "u", "l", "ul", "lu", "ll", "ull", "llu", "f"},
   codes : Seq(Nat), kind : {"char", "uchar", "wchar", "char16", "char32"}]

ASSUME NumbersAssumption ==
  /\ ByteBits \in Nat \ {0}
  /\ IntBits \in Nat /\ LongBits \in Nat /\ LLongBits \in Nat
  /\ 1 < IntBits /\ IntBits < LongBits /\ LongBits <= LLongBits

-----------------------------------------------------------------------------
Bits(kind) ==
  CASE kind \in {"sint", "uint"}     -> IntBits
    [] kind \in {"slint", "ulint"}   -> LongBits
    [] kind \in {"sllint", "ullint"} -> LLongBits

SignedInt   == {"sint", "slint", "sllint"}
UnsignedInt == {"uint", "ulint", "ullint"}

\* INT_MAX, UINT_MAX and so on.
LimitOf(kind) == IF kind \in SignedInt THEN 2^(Bits(kind) - 1) - 1 ELSE 2^Bits(kind) - 1

\* c_type_kind_is_int, for the kinds a constant can have: wchar is none.
IsInt(kind) == kind \in SignedInt \cup UnsignedInt \cup {"char", "uchar", "char16", "char32"}

\* Plausible bug: the decimal constants try the unsigned types as well.
TriedAnyBase(base, suffix) ==
  CASE suffix \in {"llu", "ull"} -> <<"ullint">>
    [] suffix = "ll" -> <<"sllint", "ullint">>
    [] suffix = "lu" -> <<"ulint", "ullint">>
    [] suffix = "l"  -> <<"slint", "ulint", "sllint", "ullint">>
    [] suffix = "u"  -> <<"uint", "ulint", "ullint">>
    [] suffix = ""   -> <<"sint", "uint", "slint", "ulint", "sllint", "ullint">>

\* The types convert_c_int tries, in order; the last one is taken unasked.
Tried(base, suffix) ==
  CASE suffix \in {"llu", "ull"} -> <<"ullint">>
    [] suffix = "ll" -> IF base = 10 THEN <<"sllint">> ELSE <<"sllint", "ullint">>
    [] suffix = "lu" -> <<"ulint", "ullint">>
    [] suffix = "l"  -> IF base = 10 THEN <<"slint", "sllint">>
                        ELSE <<"slint", "ulint", "sllint", "ullint">>
    [] suffix = "u"  -> <<"uint", "ulint", "ullint">>
    [] suffix = ""   -> IF base = 10 THEN <<"sint", "slint", "sllint">>
                        ELSE <<"sint", "uint", "slint", "ulint", "sllint", "ullint">>

Number(kind, value) == [kind |-> kind, value |-> value]
Invalid == Number("none", 0)
RealValue == -1   \* stands for the value of a number that is not an integer

\* strtoull stops at the largest value.
Saturated(value) == LET top == 2^LLongBits - 1 IN IF value > top THEN top ELSE value

\* There is no "ul": only the other order of the two is compared with.
ConvertInt(lit) ==
  LET value == Saturated(lit.value)
      tried == Tried(lit.base, lit.suffix)
      fits  == {i \in DOMAIN tried : value <= LimitOf(tried[i]) \/ i = Len(tried)}
  IN  Number(tried[CHOOSE i \in fits : \A j \in fits : i <= j], value)

\* What is no integer is tried as a floating constant; strtold reads decimal and
\* hexadecimal digits.
ConvertFloat(lit) ==
  IF lit.base = 2 THEN Invalid
  ELSE CASE lit.suffix = ""  -> Number("double", RealValue)
         [] lit.suffix = "f" -> Number("float", RealValue)
         [] lit.suffix = "l" -> Number("ldouble", RealValue)
         [] OTHER            -> Invalid

\* Plausible bug: the value keeps every character.
ConvertCharWide(lit) ==
  Number(lit.kind, FoldLeft(LAMBDA v, c : v * 2^(ByteBits * SizeOf(lit.kind)) + c, 0, lit.codes))

\* The characters are shifted into the value until one is too large, and the value
\* is cut to the size of one.  A size of four bytes shifts an int by all of its bits,
\* which is undefined: the shift counts as none, every character but NUL is too
\* large, and the mask is empty; with a bound or mask of 0 the value is 0 as well.
ConvertChar(lit) ==
  LET unit == IF SizeOf(lit.kind) = 4 THEN 1 ELSE 2^(ByteBits * SizeOf(lit.kind))
      large == {i \in DOMAIN lit.codes : lit.codes[i] >= unit}
      upto == IF large = {} THEN Len(lit.codes)
              ELSE (CHOOSE i \in large : \A j \in large : i <= j) - 1
      value == FoldLeft(LAMBDA v, c : v * unit + c, 0, SubSeq(lit.codes, 1, upto))
  IN  Number(lit.kind, value % unit)

Convert(lit) ==
  CASE lit.form = "char" -> ConvertChar(lit)
    [] lit.form = "int" /\ lit.suffix \notin {"ul", "f"} -> ConvertInt(lit)
    [] OTHER -> ConvertFloat(lit)

-----------------------------------------------------------------------------
(* C11 6.4.4.1: the type of an integer constant is the first of the types   *)
(* of its suffix, by rank, signed before unsigned, that can represent it;   *)
(* unsigned ones without a "u" only for a base other than 10.               *)

Rank(kind) == CASE kind \in {"sint", "uint"} -> 1 [] kind \in {"slint", "ulint"} -> 2
                [] kind \in {"sllint", "ullint"} -> 3

Allowed(lit) ==
  LET u == lit.suffix \in {"u", "ul", "lu", "ull", "llu"}
      least == CASE lit.suffix \in {"ll", "ull", "llu"} -> 3
                 [] lit.suffix \in {"l", "ul", "lu"} -> 2 [] OTHER -> 1
  IN  {k \in SignedInt \cup UnsignedInt :
         /\ Rank(k) >= least
         /\ lit.value <= LimitOf(k)
         /\ k \in SignedInt => ~u
         /\ k \in UnsignedInt => u \/ lit.base # 10}

CType(lit) ==
  CHOOSE k \in Allowed(lit) :
    \A m \in Allowed(lit) : \/ Rank(k) < Rank(m)
                            \/ Rank(k) = Rank(m) /\ (k \in SignedInt \/ m = k)
=============================================================================
