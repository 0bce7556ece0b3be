------------------------------ MODULE PpPeekWalk ------------------------------
(***************************************************************************)
(* ppti_peek_forward as it is written: one action per way an iteration of  *)
(* its loop can go.  The walk must end with the token and the entries that *)
(* PeekForward and Peeked of PpTokenIterOps give in one step.              *)
(***************************************************************************)
EXTENDS PpTokenIterOps

CONSTANTS Token,
          Stacks,    \* the iterators to look ahead in
          Counts,    \* how far
          Eof        \* it->eof_token

ASSUME CountsAssumption == Counts \subseteq {0, 1}

\* PpTokenIter's stacks are of this kind (PpTokenIterProofs, IterTypeOK and
\* IterBareListLast).
ASSUME StacksAssumption ==
  \A s \in Stacks : s \in Seq(Entry(Token)) /\ ListsAtBottom(s)

VARIABLES stack,     \* the entries, with the tokens lexed so far
          initial,   \* the entries before the call
          count,     \* the argument
          e,         \* the entry the loop looks at; Len(stack) + 1 is NULL
          te, at,    \* tokp: the link after "at" tokens of the list of entry te
          idx,       \* the loop's token counter
          tok        \* the result; <<>> until the call returns

vars == <<stack, initial, count, e, te, at, idx, tok>>

Init ==
  /\ stack \in Stacks
  /\ initial = stack
  /\ count \in Counts
  /\ e = 1
  /\ te = 1
  /\ at = 0
  /\ idx = 0
  /\ tok = <<>>

List     == stack[te].list
HasTok   == stack # <<>> /\ at < Len(List)      \* *tokp # NULL
HasNext  == stack # <<>> /\ at + 1 < Len(List)  \* (*tokp)->next # NULL
Running  == tok = <<>>

Frozen == UNCHANGED <<initial, count>>

\* Plausible bug: the inner while does not move.
SkipStays ==
  /\ Running /\ HasNext /\ idx # count
  /\ UNCHANGED vars

\* One turn of the inner while.
SkipListed ==
  /\ Running /\ HasNext /\ idx # count
  /\ at' = at + 1
  /\ idx' = idx + 1
  /\ Frozen /\ UNCHANGED <<stack, e, te, tok>>

AtLexer == /\ Running
           /\ ~(HasNext /\ idx # count)
           /\ ~(HasTok /\ idx = count)
           /\ e \in DOMAIN stack
           /\ stack[e].lexer

\* The lexer is at its end: on to the next entry, with idx as it is.
NextEntry ==
  /\ AtLexer
  /\ stack[e].rest = <<>>
  /\ e' = e + 1
  /\ IF e' \in DOMAIN stack THEN te' = e' /\ at' = 0 ELSE UNCHANGED <<te, at>>
  /\ Frozen /\ UNCHANGED <<stack, idx, tok>>

\* Plausible bug: the first token of an entry is counted like the others.
LexTokenCounts ==
  /\ AtLexer
  /\ stack[e].rest # <<>>
  /\ stack' = [stack EXCEPT ![e].list = Append(@, Head(stack[e].rest)),
                            ![e].rest = Tail(@)]
  /\ at' = IF HasTok THEN at + 1 ELSE at
  /\ idx' = idx + 1
  /\ Frozen /\ UNCHANGED <<e, te, tok>>

\* The lexer produced a token, which is linked in after *tokp.
LexToken ==
  /\ AtLexer
  /\ stack[e].rest # <<>>
  /\ stack' = [stack EXCEPT ![e].list = Append(@, Head(stack[e].rest)),
                            ![e].rest = Tail(@)]
  /\ IF HasTok THEN at' = at + 1 /\ idx' = idx + 1 ELSE UNCHANGED <<at, idx>>
  /\ Frozen /\ UNCHANGED <<e, te, tok>>

\* Plausible bug: the last link is returned whatever it counts to.
ReturnAny ==
  /\ Running /\ ~AtLexer
  /\ ~(HasNext /\ idx # count)
  /\ tok' = <<IF HasTok THEN List[at + 1] ELSE Eof>>
  /\ Frozen /\ UNCHANGED <<stack, e, te, at, idx>>

Return ==
  /\ Running /\ ~AtLexer
  /\ ~(HasNext /\ idx # count)
  /\ tok' = <<IF HasTok /\ idx = count THEN List[at + 1] ELSE Eof>>
  /\ Frozen /\ UNCHANGED <<stack, e, te, at, idx>>

Next == SkipListed \/ NextEntry \/ LexToken \/ Return

Spec == Init /\ [][Next]_vars /\ WF_vars(Next)

-----------------------------------------------------------------------------
\* Type invariant; tokp always points into the list of an entry that exists.
TypeOK ==
  /\ e \in 1..(Len(stack) + 1)
  /\ stack # <<>> => te \in DOMAIN stack /\ at \in 0..Len(List)
  /\ idx \in 0..count

\* The loop computes what PpTokenIterOps says: the token it returns, and the
\* tokens it has moved from the lexers to the lists.
WalkIsPeek ==
  ~Running => /\ tok = <<PeekForward(initial, count, Eof)>>
              /\ stack = Peeked(initial, count)

\* The call always returns.
Returns == <>~Running

=============================================================================
