------------------------------ MODULE TokenIter ------------------------------
(***************************************************************************)
(* The iterator of C tokens (token_iter.c), which the parser reads: peeked *)
(* tokens are kept in a list, and a string is joined with the strings that *)
(* follow it, so that lexing one reads on to the token after it.  One      *)
(* action is one turn of a loop of ti_peek_forward, or a call of ti_eat.   *)
(*                                                                         *)
(* The spelling of a token is written by pp_parse into a buffer on the     *)
(* stack of ti_peek_forward, of which a token is meant to get a copy.  A   *)
(* spelling that is left in the buffer is gone when the call returns: it   *)
(* is Lost, as nothing is known of what will be read there.  Spellings are *)
(* their bytes, as CStrings has them.                                      *)
(*                                                                         *)
(* "taken" is not in the code: the tokens the client has eaten.            *)
(***************************************************************************)
EXTENDS CStrings

CONSTANTS Sources,  \* the preprocessing tokens that pp_parse converts, one by one
          Lost
\* What the preprocessor has tokens of: an identifier is one or more ASCII characters.
PpToks == [kind : {"id", "str", "kw"}, type : CharTypes \cup {"none"}, chars : Seq(Char)]

ASSUME SourcesAssumption ==
  /\ Sources \subseteq Seq(PpToks)
  /\ \A s \in Sources : \A i \in DOMAIN s :
       /\ s[i].kind = "str" => s[i].type \in CharTypes
       /\ s[i].kind = "id"  => /\ s[i].chars # <<>>
                               /\ \A c \in ToSet(s[i].chars) : c.how = "plain" /\ c.code \in 1..127

Nul == 0

\* A preprocessing token: its kind, the type of a string's characters, and the
\* characters of its spelling, as CStrings has those of literals.
PpTok(kind, type, chars) == [kind |-> kind, type |-> type, chars |-> chars]

\* A C token: a string has the type of its characters.
Token(kind, type, str) == [kind |-> kind, type |-> type, str |-> str]

VARIABLES
  source,           \* all the preprocessing tokens
  rest,             \* the C tokens that pp_parse has not yielded yet
  list,             \* it->token_list
  call,             \* the call of ti_peek_forward that runs, and its locals
  taken

vars == <<source, rest, list, call, taken>>

Idle == [in |-> "idle"]

\* convert_pp_token.  A keyword, punctuator or number sets no size: no bytes stand
\* for it.
Convert(tok) ==
  LET stored == StoredChars(tok.chars) IN
  Token(tok.kind, tok.type,
        CASE tok.kind = "str" -> ConvertString(tok.type, stored)
          [] tok.kind = "id"  -> stored
          [] OTHER            -> <<>>)

\* pp_parse: the next token.
EofTok == Token("eof", "none", <<>>)
Yield == IF rest = <<>> THEN EofTok ELSE Head(rest)
Yielded == rest' = IF rest = <<>> THEN rest ELSE Tail(rest)

Spelled(tok) == tok.kind \in {"id", "str"}

-----------------------------------------------------------------------------
Init ==
  /\ source \in Sources
  /\ rest = [i \in DOMAIN source |-> Convert(source[i])]
  /\ list = <<>> /\ taken = <<>>
  /\ call = Idle

\* ti_peek_forward(it, count) is entered: tokp is the place after "pos" tokens, buf
\* holds the first buf_size characters of the buffer.
PeekForward(count) ==
  /\ call = Idle
  /\ call' = [in |-> "loop", count |-> count, idx |-> 0, pos |-> 1, buf |-> <<>>]
  /\ UNCHANGED <<source, rest, list, taken>>

InLoop == call.in = "loop" /\ (call.idx # call.count \/ call.pos > Len(list))
CanSkip == call.idx < call.count /\ call.pos < Len(list)

\* Plausible bug: the inner loop does not advance.
SkipStays == InLoop /\ CanSkip /\ UNCHANGED vars

\* The inner loop, over what is listed.
Skip ==
  /\ InLoop /\ CanSkip
  /\ call' = [call EXCEPT !.idx = @ + 1, !.pos = @ + 1]
  /\ UNCHANGED <<source, rest, list, taken>>

\* Plausible bug: the first token counts.
LexCounts ==
  LET tok == Yield
      buf == IF Spelled(tok) THEN tok.str ELSE call.buf IN
  /\ InLoop /\ ~CanSkip
  /\ Yielded
  /\ list' = Append(list, Token(tok.kind, tok.type, buf))
  /\ call' = [call EXCEPT !.buf = buf,
                          !.in  = IF tok.kind = "str" THEN "join" ELSE "loop",
                          !.pos = IF @ <= Len(list) THEN @ + 1 ELSE @,
                          !.idx = @ + 1]
  /\ UNCHANGED <<source, taken>>

\* A token is lexed and linked.  buf_size stays what it was after a token without a
\* spelling, which then gets a copy of an earlier one that nobody looks at.
Lex ==
  LET tok   == Yield
      buf   == IF Spelled(tok) THEN tok.str ELSE call.buf
      after == call.pos <= Len(list)     \* *tokp is not NULL
  IN
  /\ InLoop /\ ~CanSkip
  /\ Yielded
  /\ list' = Append(list, Token(tok.kind, tok.type, buf))
  /\ call' = [call EXCEPT !.buf = buf,
                          !.in  = IF tok.kind = "str" THEN "join" ELSE "loop",
                          !.pos = IF after THEN @ + 1 ELSE @,
                          !.idx = IF after THEN @ + 1 ELSE @]
  /\ UNCHANGED <<source, taken>>

\* A string after a string is added to the buffer.
Join ==
  /\ call.in = "join" /\ Yield.kind = "str"
  /\ Yielded
  /\ call' = [call EXCEPT !.buf = @ \o Yield.str]
  /\ UNCHANGED <<source, list, taken>>

\* The bytes of the token that ends a string are in the buffer after those of the
\* string; the first is overwritten by the end of the string, and the copy made for
\* the string is as long as both.
Ended(buf, tok) ==
  IF tok.kind = "id" THEN buf \o <<Nul>> \o Tail(tok.str) ELSE buf

\* Plausible bug: the token that ends a string is not linked.
JoinEndUnlinked ==
  /\ call.in = "join" /\ Yield.kind # "str"
  /\ Yielded
  /\ LET buf == Ended(call.buf, Yield) IN
     /\ list' = [list EXCEPT ![call.pos].str = buf]
     /\ call' = [call EXCEPT !.in = "loop", !.buf = buf]
  /\ UNCHANGED <<source, taken>>

\* Any other token is the sentinel: it is linked after the string.  Where there is
\* nothing in the buffer no copy is made, and the string stays in the buffer.
JoinEnd ==
  /\ call.in = "join" /\ Yield.kind # "str"
  /\ Yielded
  /\ LET buf  == Ended(call.buf, Yield)
         copy == IF buf = <<>> THEN Lost ELSE buf
         str  == IF Yield.kind = "id" THEN Lost ELSE <<>> IN
     /\ list' = [list EXCEPT ![call.pos].str = copy]
                   \o <<Token(Yield.kind, Yield.type, str)>>
     /\ call' = [call EXCEPT !.in = "loop", !.buf = buf]
  /\ UNCHANGED <<source, taken>>

\* return *tokp
Return ==
  /\ call.in = "loop" /\ ~InLoop
  /\ call' = Idle
  /\ UNCHANGED <<source, rest, list, taken>>

\* ti_eat, of a client that has peeked and has not come to the end.  One that eats two
\* has looked at both.
Eat ==
  /\ call = Idle /\ list # <<>> /\ list[1].kind # "eof"
  /\ list' = Tail(list)
  /\ taken' = Append(taken, list[1])
  /\ UNCHANGED <<source, rest, call>>

Peek     == PeekForward(0)       \* ti_peek
LookPast == list # <<>> /\ PeekForward(1)

Next == Peek \/ LookPast \/ Skip \/ Lex \/ Join \/ JoinEnd \/ Return \/ Eat

Spec == Init /\ [][Next]_vars

\* A call goes on until it returns; the parser goes on to peek and eat.
FairSpec ==
  /\ Spec
  /\ WF_vars(Skip \/ Lex \/ Join \/ JoinEnd \/ Return)
  /\ WF_vars(Peek /\ list = <<>>) /\ SF_vars(Eat)

-----------------------------------------------------------------------------
\* Type invariant.
TypeOK ==
  /\ \A t \in ToSet(list) : t.kind \in {"id", "str", "kw", "eof"}
  /\ call # Idle => /\ call.idx <= call.count
                    /\ call.pos \in 1..(Len(list) + 1)
                    /\ call.in = "join" => list[call.pos].kind = "str"

\* What the parser is to see: every run of strings as one, which is here the sequence
\* of its strings, and every other token as a sequence of one.
Continues(toks, k) == k > 1 /\ toks[k].kind = "str" /\ toks[k - 1].kind = "str"

\* The runs with one more token, the i-th.
NextRuns(runs, toks, i) ==
  IF Continues(toks, i) THEN [runs EXCEPT ![Len(runs)] = Append(@, toks[i])]
  ELSE Append(runs, <<toks[i]>>)

\* The first k tokens, in runs.
RunsOf(toks, k) ==
  LET upto[i \in 0..Len(toks)] == IF i = 0 THEN <<>> ELSE NextRuns(upto[i - 1], toks, i)
  IN  upto[k]

Runs(toks) == RunsOf(toks, Len(toks))

BytesOf(run) == FlattenSeq([k \in DOMAIN run |-> Convert(run[k]).str])
CharsOf(run) == FlattenSeq([k \in DOMAIN run |-> run[k].chars])

\* The tokens eaten and those listed.
Seen == taken \o list

BeforeId(all, i) == i < Len(all) /\ all[i + 1][1].kind = "id"
AfterStr(all, i) == i > 1 /\ all[i - 1][1].kind = "str"

\* What a string holds: its bytes and, where an identifier follows, behind its end the
\* rest of the identifier.
StrHolds(all, i) ==
  LET bytes == BytesOf(all[i]) IN
  IF BeforeId(all, i) THEN bytes \o <<Nul>> \o Tail(BytesOf(all[i + 1]))
  ELSE IF bytes = <<>> THEN Lost ELSE bytes

\* A token is what the i-th run is to be seen as.
ShowsRun(t, all, i) ==
  /\ t.kind = all[i][1].kind /\ t.type = all[i][1].type
  /\ t.kind = "id"  => t.str = IF AfterStr(all, i) THEN Lost ELSE BytesOf(all[i])
  /\ t.kind = "str" => t.str = StrHolds(all, i)

\* Between calls, the tokens eaten, those listed and those to come are the tokens of
\* the source, in order, with strings joined, and what is listed after them is the
\* end: no token is lost between two strings or after one, none is joined across
\* another.  No spelling is lost, however far the client looks ahead, but that of an
\* identifier right behind a string, which is linked with its spelling in the buffer
\* of the call (token_iter.c:55), and that of an empty string, of which no copy is
\* made unless an identifier follows it (:65).
StringsJoined ==
  call = Idle =>
    LET all == Runs(source)
        n   == Len(all) - Len(Runs(rest)) IN
    /\ n <= Len(Seen) /\ (rest # <<>> => Len(Seen) = n)
    /\ \A i \in DOMAIN Seen : IF i <= n THEN ShowsRun(Seen[i], all, i) ELSE Seen[i].kind = "eof"

\* A character that has one unit, that its reader knows, and that is not the end.
Survives(type, c) ==
  /\ c.code # 0 /\ (c.how = "escape" \/ (c.how = "plain" /\ c.code < 128))
  /\ SizeOf(type) = 1 => c.code < 128
  /\ SizeOf(type) = 2 => c.code < 65536 /\ ~LooksPaired(c.code)
  /\ SizeOf(type) = 4 => c.code < 1048576

\* A run of strings of one size of characters is printed with the characters that are
\* written in the source, in order, and no others.  Not of others: the digits of "\u"
\* are characters too (pp_lexer.c:160), a character of the source that is no ASCII is
\* left out (:257); one of several units takes the last ones from the end of the string
\* (c_lang.c:269), one of one unit is taken for a surrogate (unicode.c:135), the
\* largest are taken for smaller ones (:88).  Nothing is known of what stands behind
\* the end of a string of units of several bytes, of which only one byte is copied;
\* and an identifier of several characters there is taken for one.
StringsShowText ==
  call = Idle =>
    LET all == Runs(source) IN
    \A i \in DOMAIN Seen :
      LET run   == all[i]
          type  == run[1].type
          text  == [k \in DOMAIN CharsOf(run) |-> CharsOf(run)[k].code]
          shown == PrintedCodes(type, Seen[i].str) IN
      (/\ Seen[i].kind = "str" /\ Seen[i].str # Lost
       /\ \A k \in DOMAIN run : SizeOf(run[k].type) = SizeOf(type)
       /\ \A k \in DOMAIN CharsOf(run) : Survives(type, CharsOf(run)[k])
       /\ BeforeId(all, i) => SizeOf(type) = 1 \/ Len(all[i + 1][1].chars) = 1)
      => \/ shown = text
         \/ SizeOf(type) > 1 /\ shown = Append(text, LostCode)

\* A call of ti_peek_forward returns, and a parser that goes on eating comes to the
\* end.
ReachesTheEnd == <>(list # <<>> /\ list[1].kind = "eof")
=============================================================================
