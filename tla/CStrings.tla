------------------------------- MODULE CStrings -------------------------------
(***************************************************************************)
(* The characters of strings, from the source to the output: what the      *)
(* lexer stores of a literal (pp_lexer.c), what convert_pp_token makes of  *)
(* it (c_lang.c), and what is printed of that (buffer_writer.c), with the  *)
(* encodings between them (unicode.c).                                     *)
(*                                                                         *)
(* A string is its bytes, the least significant one of a unit first; a     *)
(* character of a literal is its code and how it is written.               *)
(***************************************************************************)
EXTENDS Integers, Sequences, SequencesExt

\* The standard types of characters.
CharTypes == {"char", "uchar", "char16", "char32", "wchar"}

\* The size of a standard type of characters, in bytes.
SizeOf(type) == CASE type \in {"char", "uchar"}   -> 1
                  [] type = "char16"              -> 2
                  [] type \in {"wchar", "char32"} -> 4

MaxCode     == 1114111   \* 0x10FFFF
InvalidCode == 1114112   \* stands for 0xFFFFFFFF
LostCode    == -1        \* what is read of memory that is not the string's
EndlessCode == -2        \* the reader stays where it is

\* The unit of so many bytes that is n.
Weight == <<1, 256, 65536, 16777216>>
Unit(n, size) == [k \in 1..size |-> (n \div Weight[k]) % 256]

-----------------------------------------------------------------------------
(* unicode.c *)

\* A continuation byte, with the six bits of this weight.
Bits6(n, weight) == 128 + ((n \div weight) % 64)

\* Is it a code of so many bytes?
TwoBytes(n)   == 128 <= n /\ n < 2048
ThreeBytes(n) == 2048 <= n /\ n < 65536
FourBytes(n)  == 65536 <= n /\ n <= MaxCode

\* A code that is too large has no bytes.
Utf8Encode(n) ==
  CASE n < 128       -> <<n>>
    [] TwoBytes(n)   -> <<192 + n \div 64, Bits6(n, 1)>>
    [] ThreeBytes(n) -> <<224 + n \div 4096, Bits6(n, 64), Bits6(n, 1)>>
    [] FourBytes(n)  ->
         <<240 + n \div 262144, Bits6(n, 4096), Bits6(n, 64), Bits6(n, 1)>>
    [] OTHER         -> <<>>

\* A reader takes the bytes in memory, and a place in them, to a code and the next
\* place.
Decoded(code, next) == [code |-> code, next |-> next]

\* The bits of each byte are put behind those before.  Of the first of four bytes only
\* two bits are kept.
Utf8Value(s, i, size) ==
  CASE size = 1 -> s[i]
    [] size = 2 -> (s[i] % 32) * 64 + (s[i + 1] % 64)
    [] size = 3 -> (s[i] % 16) * 4096 + (s[i + 1] % 64) * 64 + (s[i + 2] % 64)
    [] size = 4 -> (s[i] % 4) * 262144 + (s[i + 1] % 64) * 4096 + (s[i + 2] % 64) * 64
                     + (s[i + 3] % 64)

\* What cannot begin a character is not stepped over.
Utf8Decode(s, i) ==
  LET size == CASE s[i] < 128 -> 1 [] s[i] \in 192..223 -> 2 [] s[i] \in 224..239 -> 3
                [] s[i] \in 240..247 -> 4 [] OTHER -> 0
      tails == (i + 1)..(i + size - 1)
      good(k) == k \in DOMAIN s /\ s[k] \in 128..191
      bad == {k \in tails : ~good(k)}
  IN  CASE size = 0 -> Decoded(EndlessCode, i)
        [] size > 0 /\ bad = {} -> Decoded(Utf8Value(s, i, size), i + size)
        \* They are looked at one after the other.
        [] OTHER -> IF (CHOOSE k \in bad : \A m \in bad : k <= m) \in DOMAIN s
                    THEN Decoded(InvalidCode, i + size) ELSE Decoded(LostCode, i)

Utf16Encode(n) ==
  IF n < 65536 THEN Unit(n, 2)
  ELSE Unit(55296 + (((n - 65536) \div 1024) % 1024), 2) \o Unit(56320 + (n % 1024), 2)

\* *p & 0xD800: one of four bits is set, as in all surrogates and in much else.
LooksPaired(u) == u >= 16384 \/ u % 8192 >= 2048

\* The code of a pair is not moved back up by 0x10000.
Utf16Decode(s, i) ==
  LET unit(k) == IF k + 1 \in DOMAIN s THEN s[k] + 256 * s[k + 1] ELSE LostCode IN
  CASE unit(i) = LostCode -> Decoded(LostCode, i)
    [] unit(i) # LostCode /\ ~LooksPaired(unit(i)) -> Decoded(unit(i), i + 2)
    [] OTHER -> IF unit(i + 2) = LostCode THEN Decoded(LostCode, i)
                ELSE Decoded(((unit(i) % 1024) * 1024) + (unit(i + 2) % 1024), i + 4)

\* Units of four bytes are read as they are; they are too large for the model checker
\* where strings of other units have been joined to them.
Utf32Decode(s, i) ==
  IF i + 3 \notin DOMAIN s THEN Decoded(LostCode, i)
  ELSE Decoded(IF s[i + 2] > 16 \/ s[i + 3] > 0 THEN InvalidCode
               ELSE s[i] + 256 * s[i + 1] + 65536 * s[i + 2], i + 4)

DecodeAt(s, i, size) ==
  CASE size = 1 -> Utf8Decode(s, i) [] size = 2 -> Utf16Decode(s, i) [] size = 4 -> Utf32Decode(s, i)

\* while (*cursor): the codes before the first unit that is 0.
Codes(s, size) ==
  LET from[i \in 1..(Len(s) + 4)] ==
        IF i + size - 1 > Len(s) THEN <<LostCode>>
        ELSE LET d    == DecodeAt(s, i, size)
                 zero == \A k \in i..(i + size - 1) : s[k] = 0 IN
             CASE zero                 -> <<>>
               [] ~zero /\ d.code < 0  -> <<d.code>>
               [] OTHER                -> <<d.code>> \o from[d.next]
  IN  from[1]

-----------------------------------------------------------------------------
(* Literals *)

\* A character is written as it is, as an escape sequence, or as one of the form
\* "\u" with four hexadecimal digits or "\U" with eight.
Char == [how : {"plain", "escape", "universal"}, code : 0..InvalidCode]

\* The digits, from the first.
HexDigits(n) ==
  LET size == IF n < 65536 THEN 4 ELSE 8
      digit(k) == (n \div 16^k) % 16
  IN  [i \in 1..size |-> digit(size - i) + (IF digit(size - i) < 10 THEN 48 ELSE 87)]

\* read_utf8_string_literal.  A byte of the source is a char, which is signed: from
\* 128 on it is a code that is too large.  read_unicode_value does not step over the
\* digits it reads, which are read once more as characters.
StoredChar(c) ==
  CASE c.how = "plain"  -> IF c.code < 128 THEN <<c.code>> ELSE <<>>
    [] c.how = "escape" -> Utf8Encode(c.code)
    [] OTHER            -> Utf8Encode(c.code) \o HexDigits(c.code)

StoredChars(chars) == FlattenSeq([i \in DOMAIN chars |-> StoredChar(chars[i])])

Encode(type, n) ==
  CASE SizeOf(type) = 1 -> Utf8Encode(n)
    [] SizeOf(type) = 2 -> Utf16Encode(n)
    [] SizeOf(type) = 4 -> Unit(n, 4)

\* Plausible bug: the characters are counted without their size.
ConvertStringCounted(type, stored) ==
  LET codes == Codes(stored \o <<0>>, 1) IN
  SubSeq(FlattenSeq([i \in DOMAIN codes |-> Encode(type, codes[i])]), 1, Len(codes))

\* convert_pp_token: as many units are taken as there are characters, also where one
\* has several.
ConvertString(type, stored) ==
  LET codes == Codes(stored \o <<0>>, 1) IN
  SubSeq(FlattenSeq([i \in DOMAIN codes |-> Encode(type, codes[i])]),
         1, SizeOf(type) * Len(codes))

\* write_cp: what is seen of a code, which is written as its bytes or an escape sequence;
\* 0 and what is too large leave nothing.
Written(n) == IF n # 0 /\ n <= MaxCode THEN <<n>> ELSE <<>>

\* fmt_c_strw: the codes that are printed of a string, read up to the first unit that
\* is 0; the string has one byte after it that is.
PrintedCodes(type, str) ==
  LET codes == Codes(str \o <<0>>, SizeOf(type))
  IN  FlattenSeq([i \in DOMAIN codes |-> Written(codes[i])])
=============================================================================
