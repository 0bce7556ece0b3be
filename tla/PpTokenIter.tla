----------------------------- MODULE PpTokenIter -----------------------------
(***************************************************************************)
(* The preprocessor's token iterator (pp_token_iter.c) and the way         *)
(* preprocessor.c drives it: a token is peeked before it is eaten, both    *)
(* tokens of a '#' or a macro call are peeked before ppti_eat_multiple(2), *)
(* and a file is included, or an expansion inserted, at any point.         *)
(*                                                                         *)
(* "ready" is not in the code: it counts the tokens the client has peeked  *)
(* and not eaten yet, the precondition under which the code calls ppti_eat *)
(* (a client that reads a token after ppti_eat freed it breaks it: see     *)
(* skip_cond_incl).                                                        *)
(***************************************************************************)
EXTENDS PpTokenIterOps

CONSTANTS Token,      \* the tokens of the sources
          Eof,        \* it->eof_token
          Sources,    \* what a file or a macro expansion can consist of
          MaxPastes   \* bound: includes and insertions in one run

ASSUME SourcesAssumption ==
  /\ Sources \subseteq Seq(Token)
  /\ MaxPastes \in Nat

VARIABLES stack,      \* it->it
          ready,      \* tokens peeked and not yet eaten
          tok,        \* the token the last peek returned
          pastes      \* includes and insertions so far (only bounds the run)

vars == <<stack, ready, tok, pastes>>

\* The tokens that are still to be read.
Flat == ReadOrder(stack, Len(stack))

-----------------------------------------------------------------------------
\* pp_init includes the main file into an empty iterator.
Init ==
  /\ \E s \in Sources : stack = IncludeFile(<<>>, s)
  /\ ready = 0
  /\ tok = Eof
  /\ pastes = 0

\* ppti_peek
Peek ==
  /\ tok' = PeekForward(stack, 0, Eof)
  /\ stack' = Peeked(stack, 0)
  /\ ready' = 1
  /\ UNCHANGED pastes

\* ppti_peek_forward(it, 1), of a client that has the first token already
LookPast ==
  /\ ready > 0
  /\ tok' = PeekForward(stack, 1, Eof)
  /\ stack' = Peeked(stack, 1)
  /\ ready' = 2
  /\ UNCHANGED pastes

\* ppti_eat
EatToken ==
  /\ ready > 0
  /\ stack' = Eat(stack)
  /\ ready' = ready - 1
  /\ UNCHANGED <<tok, pastes>>

\* ppti_include_file
Include ==
  /\ pastes < MaxPastes
  /\ \E s \in Sources : stack' = IncludeFile(stack, s)
  /\ ready' = 0
  /\ pastes' = pastes + 1
  /\ UNCHANGED tok

\* ppti_insert_tok_list; its assert is why the list is not empty
Insert ==
  /\ pastes < MaxPastes
  /\ \E s \in Sources \ {<<>>} : stack' = InsertTokList(stack, s)
  /\ ready' = 0
  /\ pastes' = pastes + 1
  /\ UNCHANGED tok

Next == Peek \/ LookPast \/ EatToken \/ Include \/ Insert

Spec == Init /\ [][Next]_vars

\* pp_parse is called until it returns the end of input: the reader never stops
\* peeking and eating.
FairSpec == Spec /\ WF_vars(Peek /\ ready = 0) /\ WF_vars(EatToken)

-----------------------------------------------------------------------------
\* Type invariant.
TypeOK ==
  /\ stack \in Seq(Entry(Token))
  /\ ready \in 0..2
  /\ tok \in Token \cup {Eof}
  /\ pastes \in Nat

\* A lexer that still has tokens sits in or below an entry with enough of them
\* lexed: the next "ready" calls of ppti_eat find a token in a list before they
\* reach a file that is not read to its end.
LexedAhead ==
  ready > 0 => \A i \in DOMAIN stack :
                 stack[i].rest # <<>> =>
                   \E j \in 1..i : Len(stack[j].list) >= ready

\* ppti_eat frees an entry and its lexer as soon as the entry's list is empty,
\* without asking the lexer whether the file has ended.  For a client that peeks
\* first no entry leaves the stack with tokens unread (pp_token_iter.c:139-152).
NoUnreadTokenDropped ==
  [][\A i \in 1..(Len(stack) - Len(stack')) : Size(stack[i]) = 0]_vars

\* A lookahead by one that stays within a file shows the very next token: while
\* the client has peeked two tokens and the first unread ones are in one entry,
\* the token it looked at is the one ppti_eat_multiple(2) will remove last.  (Where
\* the first token ends a file it need not be: the walk crosses into the including
\* file without counting the token it stands on, pp_token_iter.c:78.)
LookPastIsNextInFile ==
  ready = 2 =>
    \A i \in DOMAIN stack :
      /\ Size(stack[i]) >= 2
      /\ \A j \in 1..(i - 1) : Size(stack[j]) = 0
      => tok = Tokens(stack[i])[2]

\* Includes and expansions being finite, a client that goes on peeking and
\* eating comes to the end of the input and stays there.
ReachesTheEnd == <>[](Flat = <<>>)

\* The iterator implements the flat stream of tokens that its header describes.
Stream == INSTANCE TokenStream
            WITH stream <- Flat, Chunks <- Sources
ImplementsStream == Stream!Spec

=============================================================================
