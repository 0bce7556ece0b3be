--------------------------- MODULE PpTokenIterOps ---------------------------
(***************************************************************************)
(* The data structure of pp_token_iter.c: a stack of entries, one per open *)
(* file (or one without a lexer, for a bare list of tokens).  An entry has *)
(* the tokens already lexed and not yet eaten ("list", token_list in the   *)
(* code) and what its lexer will still produce ("rest").  The lexer's      *)
(* output depends on its file alone, so it is a sequence fixed from the    *)
(* start.  The head of the stack, stack[1], is the innermost include.      *)
(*                                                                         *)
(* The loops of ppti_peek_forward and ppti_eat are given here by what they *)
(* compute; PpPeekWalk steps through the first one iteration by iteration  *)
(* and is checked to end where these operators say.                        *)
(*                                                                         *)
(* Definitions under "Plausible bugs" are wrong on purpose: each is what   *)
(* an operator would be after a slip in the C code, and is there to show   *)
(* that the properties notice.                                             *)
(***************************************************************************)
EXTENDS Naturals, Sequences

\* ppti_entry.  lexer: "lexer # NULL"; an entry without one has no rest.
Entry(T) == [list : Seq(T), lexer : BOOLEAN, rest : Seq(T)]

FileEntry(toks) == [list |-> <<>>, lexer |-> TRUE, rest |-> toks]
ListEntry(toks) == [list |-> toks, lexer |-> FALSE, rest |-> <<>>]

Tokens(e) == e.list \o e.rest
Size(e)   == Len(e.list) + Len(e.rest)

\* Where an entry without a lexer can be: ppti_insert_tok_list makes one when
\* there is no entry, and only files are put on top of it.
ListsAtBottom(stack) ==
  \A i \in DOMAIN stack : ~stack[i].lexer => i = Len(stack) /\ stack[i].rest = <<>>

\* What the first n entries of a stack hold, in the order it is read.
ReadOrder(stack, n) ==
  LET upto[i \in 0..Len(stack)] ==
        IF i = 0 THEN <<>> ELSE upto[i - 1] \o Tokens(stack[i])
  IN  upto[n]

LeastOf(S) == CHOOSE i \in S : \A j \in S : i <= j

-----------------------------------------------------------------------------
(* Lexing ahead. *)

Drained(e) == [e EXCEPT !.list = Tokens(e), !.rest = <<>>]

\* Lex until the list holds n tokens (Size(e) >= n).
Filled(e, n) ==
  IF Len(e.list) >= n
  THEN e
  ELSE [e EXCEPT !.list = SubSeq(Tokens(e), 1, n),
                 !.rest = SubSeq(Tokens(e), n + 1, Size(e))]

(***************************************************************************)
(* Where ppti_peek_forward(count) stops, for count = 0 (ppti_peek) and     *)
(* count = 1, the only values the program uses.  The walk leaves an        *)
(* exhausted entry without counting the token it stands on, so an entry    *)
(* with no more than count tokens does not advance the walk at all, and    *)
(* the token found is number count + 1 of the first entry that has that    *)
(* many.  An entry without a lexer ends the walk.                          *)
(***************************************************************************)
Stops(stack, count) ==
  {i \in DOMAIN stack : /\ Size(stack[i]) > count
                        /\ \A j \in 1..(i - 1) : stack[j].lexer}

\* Plausible bug: the search gives up after the innermost entry.
TopEntryOnly(stack, count) == Stops(stack, count) \cap {1}

PeekStops(stack, count) == Stops(stack, count)

\* Plausible bug: past the end the last link is returned, which is NULL.
PeekForwardNull(stack, count, eof) ==
  LET S == PeekStops(stack, count)
  IN  IF S = {} THEN <<>> ELSE Tokens(stack[LeastOf(S)])[count + 1]

PeekForward(stack, count, eof) ==
  LET S == PeekStops(stack, count)
  IN  IF S = {} THEN eof ELSE Tokens(stack[LeastOf(S)])[count + 1]

\* Plausible bug: the token found is lexed but not linked into the list.
PeekedUnlinked(stack, count) ==
  [i \in DOMAIN stack |->
     CASE \E k \in PeekStops(stack, count) : k < i -> stack[i]
       [] PeekStops(stack, count) # {} /\ i = LeastOf(PeekStops(stack, count))
            -> stack[i]
       [] OTHER -> Drained(stack[i])]

\* The entries after ppti_peek_forward(count): the ones passed over have been
\* lexed to their end, the one where it stopped as far as the token found.
Peeked(stack, count) ==
  LET S == PeekStops(stack, count)
  IN  [i \in DOMAIN stack |->
         IF \E k \in S : k < i THEN stack[i]
         ELSE IF i \in S THEN Filled(stack[i], count + 1)
         ELSE Drained(stack[i])]

-----------------------------------------------------------------------------
(* Eating. *)

Unlisted(stack) == {i \in DOMAIN stack : stack[i].list # <<>>}

\* Plausible bug: popping an entry uses up the ppti_eat that found it empty.
EatPopsOnce(stack) ==
  IF stack = <<>> THEN <<>>
  ELSE IF Head(stack).list = <<>> THEN Tail(stack)
  ELSE <<[Head(stack) EXCEPT !.list = Tail(@)]>> \o Tail(stack)

\* Plausible bug: an entry whose list is empty stays on the stack.
EatStays(stack) ==
  IF stack = <<>> \/ Head(stack).list = <<>> THEN stack
  ELSE <<[Head(stack) EXCEPT !.list = Tail(@)]>> \o Tail(stack)

\* ppti_eat: entries whose list is empty are popped (with whatever their lexer
\* had left), then one token goes from the first list that has one.
Eat(stack) ==
  LET L == Unlisted(stack)
      k == LeastOf(L)
  IN  IF L = {} THEN <<>>
      ELSE [i \in 1..(Len(stack) - k + 1) |->
              IF i = 1 THEN [stack[k] EXCEPT !.list = Tail(@)]
                       ELSE stack[i + k - 1]]

-----------------------------------------------------------------------------
(* Inserting. *)

\* ppti_insert_tok_list
InsertTokList(stack, toks) ==
  IF stack = <<>> THEN <<ListEntry(toks)>>
  ELSE [stack EXCEPT ![1].list = toks \o @]

\* ppti_include_file, of a file whose tokens are toks
IncludeFile(stack, toks) == <<FileEntry(toks)>> \o stack

=============================================================================
