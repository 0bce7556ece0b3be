----------------------------- MODULE TokenStream -----------------------------
(***************************************************************************)
(* What pp_token_iter.h promises, without files, lexers or stacks: one     *)
(* stream of tokens.  Peeking shows its first token and changes nothing,   *)
(* eating removes that token and no other, including a file or inserting a *)
(* macro's expansion pastes tokens in front of what is still unread.       *)
(* Looking one token further is only promised to show some later token of  *)
(* the stream (or its end): PpTokenIter says when it is the next one.      *)
(***************************************************************************)
EXTENDS Naturals, Sequences

CONSTANTS Chunks,   \* the token sequences that files and expansions consist of
          Eof       \* the end-of-input token

VARIABLES stream,   \* the tokens not eaten yet
          tok,      \* the token the client looked at last
          ready     \* how many it has looked at and not eaten

vars == <<stream, tok, ready>>

NthOrEof(n) == IF n \in DOMAIN stream THEN stream[n] ELSE Eof

Init == /\ stream \in Chunks
        /\ tok = Eof
        /\ ready = 0

Peek == /\ tok' = NthOrEof(1)
        /\ ready' = 1
        /\ UNCHANGED stream

LookPast == /\ ready > 0
            /\ tok' \in {NthOrEof(n) : n \in 2..(Len(stream) + 2)}
            /\ ready' = 2
            /\ UNCHANGED stream

Eat == /\ ready > 0
       /\ stream' = IF stream = <<>> THEN <<>> ELSE Tail(stream)
       /\ ready' = ready - 1
       /\ UNCHANGED tok

Paste == /\ \E c \in Chunks : stream' = c \o stream
         /\ ready' = 0
         /\ UNCHANGED tok

Next == Peek \/ LookPast \/ Eat \/ Paste

Spec == Init /\ [][Next]_vars

=============================================================================
