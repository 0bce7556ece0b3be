------------------------- MODULE PreprocessorProofs -------------------------
(***************************************************************************)
(* Proofs about the preprocessor, for any main file, headers, predefined   *)
(* macros and values of #if expressions: the type invariant, that no step  *)
(* loses a token that was still to be read, and that macros have the       *)
(* parameters they count.                                                  *)
(*                                                                         *)
(* The invariant adds to the types what the loops rely on (Frame).  It and *)
(* the tokens a step takes from the main input are treated together, with  *)
(* one lemma for each group of directives.                                 *)
(***************************************************************************)
EXTENDS PpCalls, PpTokenIterOpsProofs

-----------------------------------------------------------------------------
(* What a step does to the tokens still to be read. *)

\* All that the entries of a stack hold, in the order it is read.
Rest(s) == ReadOrder(s, Len(s))

Behind(f, n) == SubSeq(f, n + 1, Len(f))

\* Between s and t at most n tokens have been eaten.
Reads(s, t, n) == \E m \in 0..n : Rest(t) = Behind(Rest(s), m)

\* And some may have been put in front of what is left.
Leaves(s, t, n) ==
  \E k \in 0..Len(Rest(t)), m \in 0..n : Behind(Rest(t), k) = Behind(Rest(s), m)

\* What lies behind the first tokens of a sequence.
LEMMA BehindIs ==
  ASSUME NEW T, NEW f \in Seq(T)
  PROVE  /\ Behind(f, 0) = f
         /\ Behind(f, 1) = IF f = <<>> THEN <<>> ELSE Tail(f)
         /\ \A n \in Nat : Behind(f, n) \in Seq(T)
         /\ \A c \in Seq(T) : Behind(c \o f, Len(c)) = f
<1>0. Len(f) \in Nat
  BY LenProperties
<1>1. Behind(f, 0) = f
  BY DEF Behind
<1>2. Behind(f, 1) = IF f = <<>> THEN <<>> ELSE Tail(f)
  <2>1. CASE f = <<>>
    BY <2>1 DEF Behind
  <2>2. CASE f # <<>>
    BY <2>2, TailIsSubSeq DEF Behind
  <2> QED
    BY <2>1, <2>2
<1>3. \A n \in Nat : Behind(f, n) \in Seq(T)
  BY <1>0 DEF Behind
<1>4. ASSUME NEW c \in Seq(T) PROVE Behind(c \o f, Len(c)) = f
  BY DEF Behind
<1> QED
  BY <1>1, <1>2, <1>3, <1>4

\* What lies behind what lies behind.
LEMMA BehindBehind ==
  ASSUME NEW T, NEW f \in Seq(T), NEW m \in Nat, NEW n \in Nat
  PROVE  Behind(Behind(f, m), n) = Behind(f, m + n)
<1> DEFINE g == Behind(f, m)
           h == Behind(g, n)
           k == Behind(f, m + n)
<1>0. Len(f) \in Nat /\ g \in Seq(T)
  BY BehindIs, LenProperties
<1>1. h \in Seq(T) /\ k \in Seq(T)
  <2>1. m + n \in Nat
    OBVIOUS
  <2>2. k \in Seq(T)
    BY <2>1, BehindIs
  <2> HIDE DEF g
  <2>3. h \in Seq(T)
    BY <1>0, BehindIs
  <2> QED
    BY <2>2, <2>3
<1>2. Len(g) = (IF m <= Len(f) THEN Len(f) - m ELSE 0) /\ \A i \in 1..Len(g) : g[i] = f[i + m]
  BY <1>0 DEF Behind
<1>3. Len(k) = (IF m + n <= Len(f) THEN Len(f) - (m + n) ELSE 0) /\ \A i \in 1..Len(k) : k[i] = f[i + m + n]
  BY <1>0 DEF Behind
<1>4. Len(h) = (IF n <= Len(g) THEN Len(g) - n ELSE 0) /\ \A i \in 1..Len(h) : h[i] = g[i + n]
  <2> HIDE DEF g
  <2> QED
    BY <1>0 DEF Behind
<1> HIDE DEF g, h, k
<1>5. Len(h) = Len(k)
  BY <1>0, <1>2, <1>3, <1>4
<1>6. \A i \in 1..Len(h) : h[i] = k[i]
  <2> SUFFICES ASSUME NEW i \in 1..Len(h) PROVE h[i] = k[i]
    OBVIOUS
  <2>1. h[i] = g[i + n] /\ i + n \in 1..Len(g)
    BY <1>0, <1>2, <1>4
  <2>2. g[i + n] = f[(i + n) + m]
    BY <1>2, <2>1
  <2>3. k[i] = f[i + m + n] /\ i + m + n = (i + n) + m
    BY <1>3, <1>5
  <2> QED
    BY <2>1, <2>2, <2>3
<1>7. h = k
  BY <1>1, <1>5, <1>6, SeqEqual
<1> QED
  BY <1>7 DEF g, h, k

\* The order of a stack is a sequence of tokens.
LEMMA RestIsSeq ==
  ASSUME NEW s \in Stacks
  PROVE  Rest(s) \in Toks
<1>1. Len(s) \in 0..Len(s)
  BY LenProperties DEF Stacks
<1> QED
  BY <1>1, ReadOrderSteps DEF Stacks, Rest, Toks

\* ppti_eat of a stack whose first n tokens have been peeked.
LEMMA EatReads ==
  ASSUME NEW s \in Stacks, NEW n \in Nat, n > 0,
         \A i \in 1..Len(s) : s[i].rest # <<>> => \E j \in 1..i : Len(s[j].list) >= n
  PROVE  /\ Eat(s) \in Stacks
         /\ Rest(Eat(s)) = Behind(Rest(s), 1)
         /\ n - 1 > 0 => \A i \in 1..Len(Eat(s)) : Eat(s)[i].rest # <<>> =>
                           \E j \in 1..i : Len(Eat(s)[j].list) >= n - 1
<1>1. /\ Eat(s) \in Stacks
      /\ n - 1 > 0 => \A i \in 1..Len(Eat(s)) : Eat(s)[i].rest # <<>> =>
                        \E j \in 1..i : Len(Eat(s)[j].list) >= n - 1
  BY EatenStack DEF Stacks
<1>2. \A f : f = Rest(s) => Rest(Eat(s)) = IF f = <<>> THEN <<>> ELSE Tail(f)
  BY EatenOrder DEF Stacks, Rest
<1>3. Rest(Eat(s)) = Behind(Rest(s), 1)
  <2>1. Rest(s) \in Seq(PpToken)
    BY RestIsSeq DEF Toks
  <2>2. Behind(Rest(s), 1) = IF Rest(s) = <<>> THEN <<>> ELSE Tail(Rest(s))
    BY <2>1, BehindIs
  <2> QED
    BY <1>2, <2>2
<1> QED
  BY <1>1, <1>3

\* ppti_peek lexes ahead and leaves the order as it is.
LEMMA PeekReads ==
  ASSUME NEW s \in Stacks, NEW count \in Nat
  PROVE  /\ Peeked(s, count) \in Stacks
         /\ Rest(Peeked(s, count)) = Rest(s)
         /\ \A i \in 1..Len(Peeked(s, count)) : Peeked(s, count)[i].rest # <<>> =>
              \E j \in 1..i : Len(Peeked(s, count)[j].list) >= count + 1
  BY PeekedStack, PeekedOrder DEF Stacks, Rest

\* A token is eaten after a peek: the first one goes.
LEMMA BiteReads ==
  ASSUME NEW s \in Stacks
  PROVE  Bite(s) \in Stacks /\ Rest(Bite(s)) = Behind(Rest(s), 1)
<1> DEFINE p == Peeked(s, 0)
<1>1. /\ p \in Stacks /\ Rest(p) = Rest(s)
      /\ \A i \in 1..Len(p) : p[i].rest # <<>> => \E j \in 1..i : Len(p[j].list) >= 1
  <2>1. 0 \in Nat /\ 0 + 1 = 1
    OBVIOUS
  <2> QED
    BY <2>1, PeekReads
<1> HIDE DEF p
<1>2. Eat(p) \in Stacks /\ Rest(Eat(p)) = Behind(Rest(p), 1)
  <2>1. 1 \in Nat /\ 1 > 0
    OBVIOUS
  <2> QED
    BY <1>1, <2>1, EatReads
<1> QED
  BY <1>1, <1>2 DEF p, Bite

\* Two tokens are eaten after a lookahead of one: the first two go.
LEMMA TwoReads ==
  ASSUME NEW s \in Stacks
  PROVE  /\ Eat(Eat(Peeked(s, 1))) \in Stacks
         /\ Rest(Eat(Eat(Peeked(s, 1)))) = Behind(Rest(s), 2)
<1> DEFINE p == Peeked(s, 1)
           q == Eat(p)
<1>1. /\ p \in Stacks /\ Rest(p) = Rest(s)
      /\ \A i \in 1..Len(p) : p[i].rest # <<>> => \E j \in 1..i : Len(p[j].list) >= 2
  <2>1. 1 \in Nat /\ 1 + 1 = 2
    OBVIOUS
  <2> QED
    BY <2>1, PeekReads
<1> HIDE DEF p
<1>2. /\ q \in Stacks /\ Rest(q) = Behind(Rest(p), 1)
      /\ \A i \in 1..Len(q) : q[i].rest # <<>> => \E j \in 1..i : Len(q[j].list) >= 1
  <2>1. 2 \in Nat /\ 2 > 0 /\ 2 - 1 > 0 /\ 2 - 1 = 1
    OBVIOUS
  <2> QED
    BY <1>1, <2>1, EatReads
<1> HIDE DEF q
<1>3. Eat(q) \in Stacks /\ Rest(Eat(q)) = Behind(Rest(q), 1)
  <2>1. 1 \in Nat /\ 1 > 0
    OBVIOUS
  <2> QED
    BY <1>2, <2>1, EatReads
<1>4. Behind(Behind(Rest(s), 1), 1) = Behind(Rest(s), 2)
  <2>1. Rest(s) \in Seq(PpToken) /\ 1 \in Nat /\ 1 + 1 = 2
    BY RestIsSeq DEF Toks
  <2> QED
    BY <2>1, BehindBehind
<1>5. Eat(q) \in Stacks /\ Rest(Eat(q)) = Behind(Rest(s), 2)
  BY <1>1, <1>2, <1>3, <1>4
<1> QED
  BY <1>5 DEF p, q

\* Nothing read, another token read, two tokens read at once.
LEMMA ReadsSteps ==
  ASSUME NEW s \in Stacks
  PROVE  /\ Reads(s, s, 0)
         /\ Reads(s, Peeked(s, 1), 0) /\ Peeked(s, 1) \in Stacks
         /\ Reads(s, Bite(s), 1) /\ Bite(s) \in Stacks
         /\ Reads(s, Eat(Eat(Peeked(s, 1))), 2) /\ Eat(Eat(Peeked(s, 1))) \in Stacks
<1>1. Rest(s) = Behind(Rest(s), 0)
  BY RestIsSeq, BehindIs DEF Toks
<1>2. /\ Peeked(s, 1) \in Stacks /\ Rest(Peeked(s, 1)) = Rest(s)
  <2>1. 1 \in Nat
    OBVIOUS
  <2> QED
    BY <2>1, PeekReads
<1>3. 0 \in 0..0 /\ 1 \in 0..1 /\ 2 \in 0..2
  OBVIOUS
<1> QED
  BY <1>1, <1>2, <1>3, BiteReads, TwoReads DEF Reads

\* A further token read.
LEMMA ReadsOn ==
  ASSUME NEW s \in Stacks, NEW t \in Stacks, NEW n \in Nat, Reads(s, t, n)
  PROVE  Bite(t) \in Stacks /\ Reads(s, Bite(t), n + 1)
<1>1. PICK m \in 0..n : Rest(t) = Behind(Rest(s), m)
  BY DEF Reads
<1>2. Bite(t) \in Stacks /\ Rest(Bite(t)) = Behind(Rest(t), 1)
  BY BiteReads
<1>3. Behind(Behind(Rest(s), m), 1) = Behind(Rest(s), m + 1)
  <2>1. Rest(s) \in Seq(PpToken) /\ m \in Nat /\ 1 \in Nat
    BY RestIsSeq DEF Toks
  <2> QED
    BY <2>1, BehindBehind
<1>4. Rest(Bite(t)) = Behind(Rest(s), m + 1) /\ m + 1 \in 0..(n + 1)
  BY <1>1, <1>2, <1>3
<1> QED
  BY <1>2, <1>4 DEF Reads

\* What has been read is gone from the front, and tokens can be put there.
LEMMA ReadsLeaves ==
  ASSUME NEW s \in Stacks, NEW t \in Stacks, NEW n \in Nat, Reads(s, t, n)
  PROVE  /\ Leaves(s, t, n)
         /\ \A c \in Toks : /\ IncludeFile(t, c) \in Stacks /\ Leaves(s, IncludeFile(t, c), n)
                            /\ Inserted(t, c) \in Stacks /\ Leaves(s, Inserted(t, c), n)
<1>1. PICK m \in 0..n : Rest(t) = Behind(Rest(s), m)
  BY DEF Reads
<1>2. Rest(t) \in Seq(PpToken)
  BY RestIsSeq DEF Toks
<1>3. Leaves(s, t, n)
  <2>1. Behind(Rest(t), 0) = Behind(Rest(s), m) /\ 0 \in 0..Len(Rest(t))
    BY <1>1, <1>2, BehindIs, LenProperties
  <2> QED
    BY <2>1 DEF Leaves
<1>4. ASSUME NEW c \in Toks, NEW u \in Stacks, Rest(u) = c \o Rest(t)
      PROVE  Leaves(s, u, n)
  <2>1. c \in Seq(PpToken) /\ Len(c) \in Nat
    BY LenProperties DEF Toks
  <2>2. Behind(c \o Rest(t), Len(c)) = Rest(t)
    BY <1>2, <2>1, BehindIs
  <2>3. Len(c) \in 0..Len(Rest(u))
    <3>1. Len(c \o Rest(t)) = Len(c) + Len(Rest(t)) /\ Len(Rest(t)) \in Nat
      BY <1>2, <2>1, ConcatProperties, LenProperties
    <3> QED
      BY <1>4, <2>1, <3>1
  <2>4. Behind(Rest(u), Len(c)) = Behind(Rest(s), m)
    BY <1>1, <1>4, <2>2
  <2> QED
    BY <2>3, <2>4 DEF Leaves
<1>5. ASSUME NEW c \in Toks
      PROVE  /\ IncludeFile(t, c) \in Stacks /\ Leaves(s, IncludeFile(t, c), n)
             /\ Inserted(t, c) \in Stacks /\ Leaves(s, Inserted(t, c), n)
  <2>1. c \in Seq(PpToken) /\ t \in Seq(Entry(PpToken))
    BY DEF Toks, Stacks
  <2>2. IncludeFile(t, c) \in Stacks /\ InsertTokList(t, c) \in Stacks
    BY <2>1, PastedStack DEF Stacks
  <2>3. Rest(IncludeFile(t, c)) = c \o Rest(t) /\ Rest(InsertTokList(t, c)) = c \o Rest(t)
    BY <2>1, PastedOrder DEF Rest
  <2>4. Leaves(s, IncludeFile(t, c), n) /\ Leaves(s, InsertTokList(t, c), n)
    BY <1>4, <2>2, <2>3
  <2> QED
    BY <1>3, <2>2, <2>4 DEF Inserted
<1> QED
  BY <1>3, <1>5

\* Fewer tokens eaten are no more than more.
LEMMA LeavesMore ==
  ASSUME NEW s, NEW t, NEW n \in Nat, NEW k \in Nat, n <= k, Leaves(s, t, n)
  PROVE  Leaves(s, t, k)
  BY DEF Leaves

-----------------------------------------------------------------------------
(* The two iterators. *)

Iters == [{"main", "expr"} -> Stacks]

\* A step eats at most n tokens of the main iterator.
ItStep(n) == it' \in Iters /\ Leaves(it["main"], it'["main"], n)

\* The ways the iterators are written.
LEMMA ItWritten ==
  ASSUME it \in Iters
  PROVE  /\ UNCHANGED it => ItStep(0)
         /\ \A i \in {"main", "expr"} : EatTok(i) => ItStep(1)
         /\ \A s \in Stacks : it' = [it EXCEPT !["expr"] = s] => ItStep(0)
         /\ \A s \in Stacks, n \in Nat :
              Leaves(it["main"], s, n) /\ it' = [it EXCEPT !["main"] = s] => ItStep(n)
<1>1. it["main"] \in Stacks /\ it["expr"] \in Stacks
  BY DEF Iters
<1>2. Leaves(it["main"], it["main"], 0) /\ Leaves(it["main"], Bite(it["main"]), 1)
  <2>1. 0 \in Nat /\ 1 \in Nat
    OBVIOUS
  <2> QED
    BY <1>1, <2>1, ReadsSteps, ReadsLeaves
<1>3. UNCHANGED it => ItStep(0)
  BY <1>2 DEF ItStep
<1>4. ASSUME NEW s \in Stacks, it' = [it EXCEPT !["expr"] = s] PROVE ItStep(0)
  BY <1>2, <1>4 DEF ItStep, Iters
<1>5. ASSUME NEW s \in Stacks, NEW n \in Nat,
             Leaves(it["main"], s, n), it' = [it EXCEPT !["main"] = s]
      PROVE  ItStep(n)
  BY <1>5 DEF ItStep, Iters
<1>6. ASSUME NEW i \in {"main", "expr"}, EatTok(i) PROVE ItStep(1)
  <2>1. it' = [it EXCEPT ![i] = Bite(it[i])] /\ Bite(it[i]) \in Stacks
    BY <1>1, <1>6, ReadsSteps DEF EatTok, Ate
  <2>2. 0 \in Nat /\ 1 \in Nat /\ 0 <= 1
    OBVIOUS
  <2>3. CASE i = "main"
    BY <1>2, <1>5, <2>1, <2>2, <2>3
  <2>4. CASE i = "expr"
    <3>1. ItStep(0)
      BY <1>4, <2>1, <2>4
    <3> QED
      BY <2>2, <3>1, LeavesMore DEF ItStep
  <2> QED
    BY <2>3, <2>4
<1> QED
  BY <1>3, <1>4, <1>5, <1>6

-----------------------------------------------------------------------------
(* Tokens. *)

\* The tokens the preprocessor makes itself.
LEMMA MadeTokens ==
  /\ EofTok \in PpToken /\ NullTok \in PpToken /\ StringTok \in PpToken
  /\ NumTok("0") \in PpToken /\ NumTok("1") \in PpToken
  /\ "__VA_ARGS__" \in Spellings /\ "" \in Spellings
BY PpAssumption DEF EofTok, NullTok, StringTok, NumTok, PpToken, Kinds

\* ppti_peek of a stack gives a token.
LEMMA PeekedToken ==
  ASSUME NEW s \in Stacks, NEW i
  PROVE  NextTok(i, s) \in PpToken
<1>1. EofOf(i) \in PpToken
  BY MadeTokens DEF EofOf
<1>2. 0 \in Nat /\ s \in Seq(Entry(PpToken))
  BY DEF Stacks
<1>3. PeekForward(s, 0, EofOf(i)) \in PpToken \cup {EofOf(i)}
  BY <1>2, PeekForwardType
<1> QED
  BY <1>1, <1>3 DEF NextTok

\* ppti_peek and ppti_peek_forward(1) of the two iterators give tokens.
LEMMA Lookahead ==
  ASSUME it \in Iters, NEW i \in {"main", "expr"}
  PROVE  Tok(i) \in PpToken /\ SecondTok(i) \in PpToken
<1>1. EofOf(i) \in PpToken
  BY MadeTokens DEF EofOf
<1>2. it[i] \in Stacks
  BY DEF Iters
<1>3. 1 \in Nat /\ it[i] \in Seq(Entry(PpToken))
  BY <1>2 DEF Stacks
<1>4. PeekForward(it[i], 1, EofOf(i)) \in PpToken \cup {EofOf(i)}
  BY <1>3, PeekForwardType
<1> QED
  BY <1>1, <1>2, <1>4, PeekedToken DEF Tok, SecondTok

\* The name of a token is a spelling.
LEMMA NameOfToken ==
  ASSUME NEW t \in PpToken
  PROVE  MacroName(t) \in Spellings /\ t.s \in Spellings /\ t.loc \in BOOLEAN
  BY MadeTokens DEF MacroName, PpToken

\* Tokens that have been moved elsewhere.
LEMMA RelocatedTokens ==
  ASSUME NEW toks \in Toks, NEW loc \in BOOLEAN
  PROVE  Relocated(toks, loc) \in Toks
<1>1. toks \in Seq(PpToken) /\ DOMAIN toks = 1..Len(toks) /\ Len(toks) \in Nat
  BY LenProperties DEF Toks
<1>2. \A j \in 1..Len(toks) : [toks[j] EXCEPT !.loc = loc] \in PpToken
  <2>1. \A j \in 1..Len(toks) : toks[j] \in PpToken
    BY <1>1, ElementOfSeq
  <2> QED
    BY <2>1 DEF PpToken
<1>3. Relocated(toks, loc) = [j \in 1..Len(toks) |-> [toks[j] EXCEPT !.loc = loc]]
  BY <1>1 DEF Relocated
<1>4. Relocated(toks, loc) \in Seq(PpToken)
  <2> HIDE DEF PpToken
  <2> QED
    BY <1>1, <1>2, <1>3
<1> QED
  BY <1>4 DEF Toks

-----------------------------------------------------------------------------
(* Frames. *)

Calls == {"call", "args", "close", "subst"}

\* A frame with a macro open has it in the table; one that waits for the value of an
\* #elif has a conditional to decide; the line an #if is prepared from ends in EOF.
Placed(f, names, incls) ==
  /\ f.in \in {"params", "paramsend", "body"} \cup Calls => f.macro \in names
  /\ f.in \in {"copy", "convert", "defined"} /\ f.for = "elif" => incls # <<>>
  /\ f.in = "defined" /\ f.line # <<>> => f.line[Len(f.line)] = EofTok

\* What fn may be: a call goes back to a loop that expands macros.
Frame(f, names, incls) ==
  /\ f \in Loops \cup CallLoops
  /\ Placed(f, names, incls)
  /\ f.in \in Calls => f.ret.in \in {"parse", "convert"} /\ Placed(f.ret, names, incls)

PpInv == TypeOK /\ Frame(fn, DOMAIN macros, cond)

\* The locals of a loop, by its name.
LEMMA FrameKinds ==
  ASSUME NEW f \in Loops \cup CallLoops
  PROVE  /\ f.in \in {"params", "paramsend"} => f \in ParamLoops
         /\ f.in = "body" => f \in BodyLoops
         /\ f.in \in {"copy", "convert"} => f \in IfLoops
         /\ f.in = "defined" => f \in DefinedLoops
         /\ f.in \in {"skip", "stale"} => f \in SkipLoops
         /\ f.in = "message" => f \in MessageLoops
         /\ f.in = "angle" => f \in AngleLoops
         /\ f.in \in Calls => f \in CallLoops
         /\ f.in \in {"parse", "tail", "abort", "spin", "done", "directive", "name", "drop"}
              => f \in BareLoops
BY DEF Loops, CallLoops, ParamLoops, BodyLoops, IfLoops, DefinedLoops, SkipLoops,
       MessageLoops, AngleLoops, BareLoops, Calls

\* A loop without locals needs nothing.
LEMMA BareFrame ==
  ASSUME NEW f \in BareLoops, NEW names, NEW incls
  PROVE  Frame(f, names, incls)
BY DEF Frame, Placed, Loops, BareLoops, Calls

\* The loops without locals.
LEMMA BareFrames ==
  ASSUME NEW names, NEW incls
  PROVE  /\ Frame(Parse, names, incls) /\ Frame(Tail_, names, incls)
         /\ Frame(Abort, names, incls) /\ Frame(Spin, names, incls)
         /\ Frame(Done, names, incls)
         /\ Frame([in |-> "directive"], names, incls)
         /\ Frame([in |-> "name"], names, incls)
         /\ Frame([in |-> "drop"], names, incls)
<1>1. /\ Parse \in BareLoops /\ Tail_ \in BareLoops /\ Abort \in BareLoops
      /\ Spin \in BareLoops /\ Done \in BareLoops
      /\ [in |-> "directive"] \in BareLoops /\ [in |-> "name"] \in BareLoops
      /\ [in |-> "drop"] \in BareLoops
  BY DEF BareLoops, Parse, Tail_, Abort, Spin, Done
<1> QED
  BY <1>1, BareFrame

\* A report leaves the frame it goes on with, or none.
LEMMA GoesTo ==
  ASSUME NEW t, NEW msgs, NEW f, NEW names, NEW incls, Frame(f, names, incls)
  PROVE  /\ GoTo(f) => Frame(fn', names, incls)
         /\ ReportAndGo(t, msgs, f) => Frame(fn', names, incls)
  BY BareFrames DEF GoTo, ReportAndGo

\* More macros and another conditional do no harm.
LEMMA FrameStays ==
  ASSUME NEW f, NEW names, NEW incls, NEW names2, NEW incls2, Frame(f, names, incls),
         names \subseteq names2, incls # <<>> => incls2 # <<>>
  PROVE  Frame(f, names2, incls2)
  BY DEF Frame, Placed

-----------------------------------------------------------------------------
(* Steps. *)

Conds == Seq([included : BOOLEAN, afterElse : BOOLEAN])

Table(ms) == DOMAIN ms \subseteq Spellings /\ \A n \in DOMAIN ms : ms[n] \in Macros

\* No step eats more than two tokens, but where a name is read, or a freed token.
ItNext ==
  /\ it' \in Iters
  /\ \/ In("stale")
     \/ \E n \in 0..(IF In("name") THEN 3 ELSE 2) : Leaves(it["main"], it'["main"], n)

\* A step that eats so many tokens.
LEMMA ItSteps ==
  /\ ItStep(0) => ItNext
  /\ ItStep(1) => ItNext
  /\ ItStep(2) => ItNext
  /\ In("name") /\ ItStep(3) => ItNext
  /\ In("stale") /\ it' \in Iters => ItNext
<1>1. \A n \in 0..2 : n \in 0..(IF In("name") THEN 3 ELSE 2)
  OBVIOUS
<1>2. 0 \in 0..2 /\ 1 \in 0..2 /\ 2 \in 0..2 /\ 3 \in 0..3
  OBVIOUS
<1> QED
  BY <1>1, <1>2 DEF ItStep, ItNext

\* The parts of the invariant.
LEMMA Parts ==
  ASSUME PpInv
  PROVE  /\ it \in Iters /\ Table(macros) /\ cond \in Conds /\ out \in Toks /\ src \in Toks
         /\ fn \in Loops \cup CallLoops /\ Frame(fn, DOMAIN macros, cond)
  BY DEF PpInv, TypeOK, Iters, Table, Conds

\* The invariant and the bound on what is eaten, from their parts.
LEMMA Built ==
  ASSUME ItNext, Table(macros'), cond' \in Conds, out' \in Toks, src' \in Toks,
         Frame(fn', DOMAIN macros', cond')
  PROVE  PpInv' /\ ItNext
  BY DEF PpInv, TypeOK, ItNext, Iters, Table, Conds, Frame

\* A step that only reads and goes on.
LEMMA BuiltPlain ==
  ASSUME PpInv, ItNext, UNCHANGED <<macros, cond, out, src>>, Frame(fn', DOMAIN macros, cond)
  PROVE  PpInv' /\ ItNext
  BY Parts, Built

-----------------------------------------------------------------------------
(* #define and #undef. *)

\* GET_MACRO and the record a definition starts from.
LEMMA MacroType ==
  ASSUME Table(macros), NEW n
  PROVE  /\ Macro(n).kind \in {"none", "obj", "func"}
         /\ \A k \in {"obj", "func"} : [Macro(n) EXCEPT !.kind = k] \in Macros
         /\ n \in DOMAIN macros => Macro(n) = macros[n] /\ macros[n] \in Macros
         /\ Macro(n).body \in Toks
<1>1. NoMacro = [kind |-> "none", variadic |-> FALSE, count |-> 0, params |-> <<>>, body |-> <<>>]
  BY DEF NoMacro
<1>2. <<>> \in Params /\ <<>> \in Toks
  BY EmptySeq DEF Params, Toks
<1>3. CASE n \in DOMAIN macros
  <2>1. Macro(n) = macros[n] /\ macros[n] \in Macros
    BY <1>3 DEF Macro, Table
  <2> QED
    BY <1>3, <2>1 DEF Macros
<1>4. CASE n \notin DOMAIN macros
  <2>1. Macro(n) = NoMacro
    BY <1>4 DEF Macro
  <2>2. Macro(n) \in [kind : {"none"}, variadic : BOOLEAN, count : Nat, params : Params, body : Toks]
    BY <1>1, <1>2, <2>1
  <2> QED
    BY <1>4, <2>2 DEF Macros
<1> QED
  BY <1>3, <1>4

\* A macro written, changed in place, removed.
LEMMA TableWritten ==
  ASSUME Table(macros)
  PROVE  /\ \A n \in Spellings, m \in Macros : SetMacro(n, m) =>
              Table(macros') /\ DOMAIN macros' = DOMAIN macros \cup {n}
         /\ \A n \in DOMAIN macros, m \in Macros : macros' = [macros EXCEPT ![n] = m] =>
              Table(macros') /\ DOMAIN macros' = DOMAIN macros
         /\ \A n \in Spellings : DropMacro(n) =>
              Table(macros') /\ DOMAIN macros' = DOMAIN macros \ {n}
  BY DEF Table, SetMacro, DropMacro

\* #define up to the parameters or the body: three tokens at most.
LEMMA DefineNameStep ==
  ASSUME PpInv, DefineName
  PROVE  PpInv' /\ ItNext
<1> DEFINE t     == Tok("main")
           n     == MacroName(t)
           s     == Ate("main")
           paren == NextTok("main", s)
           call  == IsPunct(paren, "(") /\ ~paren.ws
           s2    == IF call THEN Bite(s) ELSE s
           empty == call /\ IsPunct(NextTok("main", s2), ")")
           kind  == IF call THEN "func" ELSE "obj"
           stack == IF empty THEN Bite(s2) ELSE s2
           frame == IF call /\ ~empty THEN [in |-> "params", macro |-> n, params |-> <<>>]
                                      ELSE [in |-> "body", macro |-> n, toks |-> <<>>]
           msgs  == Msg(t.k # "id", "Expected identifier after #define")
                      \cup Msg(IsDefined(t), "#define on already defined macro")
<1>1. /\ In("name") /\ SetMacro(n, [Macro(n) EXCEPT !.kind = kind])
      /\ it' = [it EXCEPT !["main"] = stack]
      /\ ReportAndGo(t, msgs, frame)
      /\ UNCHANGED <<cond, out, src>>
  BY DEF DefineName
<1>2. it["main"] \in Stacks /\ t \in PpToken /\ n \in Spellings
  BY Parts, Lookahead, NameOfToken DEF Iters
<1>3. s \in Stacks /\ Reads(it["main"], s, 1)
  BY <1>2, ReadsSteps DEF Ate
<1> HIDE DEF t, n, s
<1>4. s2 \in Stacks /\ (s2 = s \/ Reads(it["main"], s2, 2))
  <2>1. 1 \in Nat /\ 1 + 1 = 2
    OBVIOUS
  <2>2. Bite(s) \in Stacks /\ Reads(it["main"], Bite(s), 2)
    BY <1>2, <1>3, <2>1, ReadsOn
  <2> QED
    BY <1>3, <2>2
<1>5. stack \in Stacks /\ Leaves(it["main"], stack, 3)
  <2> HIDE DEF s2
  <2>0. 1 \in Nat /\ 2 \in Nat /\ 3 \in Nat /\ 1 + 1 = 2 /\ 2 + 1 = 3 /\ 1 <= 3 /\ 2 <= 3
    OBVIOUS
  <2>1. CASE s2 = s
    <3>1. Bite(s2) \in Stacks /\ Reads(it["main"], Bite(s2), 2) /\ Reads(it["main"], s2, 1)
      BY <1>2, <1>3, <2>0, <2>1, ReadsOn
    <3>2. Leaves(it["main"], Bite(s2), 2) /\ Leaves(it["main"], s2, 1)
      BY <1>2, <1>4, <2>0, <3>1, ReadsLeaves
    <3> QED
      BY <1>4, <2>0, <3>1, <3>2, LeavesMore
  <2>2. CASE Reads(it["main"], s2, 2)
    <3>1. Bite(s2) \in Stacks /\ Reads(it["main"], Bite(s2), 3)
      BY <1>2, <1>4, <2>0, <2>2, ReadsOn
    <3>2. Leaves(it["main"], Bite(s2), 3) /\ Leaves(it["main"], s2, 2)
      BY <1>2, <1>4, <2>0, <2>2, <3>1, ReadsLeaves
    <3> QED
      BY <1>4, <2>0, <3>1, <3>2, LeavesMore
  <2> QED
    BY <1>4, <2>1, <2>2
<1>6. ItNext
  <2> HIDE DEF stack
  <2>1. 3 \in Nat /\ it \in Iters
    BY Parts
  <2>2. ItStep(3)
    BY <1>1, <1>5, <2>1, ItWritten
  <2> QED
    BY <1>1, <2>2, ItSteps
<1>7. Table(macros') /\ DOMAIN macros' = DOMAIN macros \cup {n}
  <2>1. [Macro(n) EXCEPT !.kind = kind] \in Macros
    BY Parts, MacroType
  <2> QED
    BY <1>1, <1>2, <2>1, Parts, TableWritten
<1>8. Frame(fn', DOMAIN macros', cond)
  <2>1. <<>> \in Params /\ <<>> \in Toks
    BY EmptySeq DEF Params, Toks
  <2>2. Frame([in |-> "params", macro |-> n, params |-> <<>>], DOMAIN macros', cond)
    BY <1>2, <1>7, <2>1 DEF Frame, Placed, Calls, Loops, ParamLoops
  <2>3. Frame([in |-> "body", macro |-> n, toks |-> <<>>], DOMAIN macros', cond)
    BY <1>2, <1>7, <2>1 DEF Frame, Placed, Calls, Loops, BodyLoops
  <2>4. Frame(frame, DOMAIN macros', cond)
    BY <2>2, <2>3
  <2> HIDE DEF frame, msgs
  <2> QED
    BY <1>1, <2>4, GoesTo
<1> QED
  BY <1>1, <1>6, <1>7, <1>8, Parts, Built

\* The loops over parameters and bodies have their macro in the table.
LEMMA OpenMacro ==
  ASSUME PpInv, fn.in \in {"params", "paramsend", "body"}
  PROVE  /\ fn.macro \in DOMAIN macros /\ fn.macro \in Spellings /\ macros[fn.macro] \in Macros
         /\ fn.in = "body" => fn.toks \in Toks
         /\ fn.in # "body" => fn.params \in Params
<1>1. fn.macro \in DOMAIN macros
  BY Parts DEF Frame, Placed
<1>2. fn.in = "body" => fn \in BodyLoops
  BY Parts, FrameKinds
<1>3. fn.in # "body" => fn \in ParamLoops
  BY Parts, FrameKinds
<1> QED
  BY <1>1, <1>2, <1>3, Parts DEF Table, BodyLoops, ParamLoops

\* A parameter and the comma behind it: two tokens at most.
LEMMA NextParam ==
  ASSUME PpInv, AtParam, NEW msgs, NEW name \in Spellings,
         AfterParam(msgs, Append(fn.params, Param(name))),
         Table(macros'), DOMAIN macros' = DOMAIN macros, UNCHANGED <<cond, out, src>>
  PROVE  PpInv' /\ ItNext
<1> DEFINE s    == Ate("main")
           c    == NextTok("main", s)
           more == ~c.bol /\ IsPunct(c, ",")
           params == Append(fn.params, Param(name))
           f    == [in |-> IF more THEN "params" ELSE "paramsend",
                    macro |-> fn.macro, params |-> params]
<1>1. /\ it' = [it EXCEPT !["main"] = IF more THEN Bite(s) ELSE s]
      /\ ReportAndGo(Tok("main"), msgs, f)
  BY DEF AfterParam
<1>2. In("params") /\ fn.macro \in DOMAIN macros /\ fn.macro \in Spellings /\ fn.params \in Params
  BY OpenMacro DEF AtParam, In
<1>3. ItNext
  <2>1. s \in Stacks /\ Reads(it["main"], s, 1) /\ it["main"] \in Stacks /\ it \in Iters
    BY Parts, ReadsSteps DEF Iters, Ate
  <2> HIDE DEF s
  <2>2. 0 \in Nat /\ 1 \in Nat /\ 2 \in Nat /\ 1 + 1 = 2
    OBVIOUS
  <2>3. Bite(s) \in Stacks /\ Reads(it["main"], Bite(s), 2)
    BY <2>1, <2>2, ReadsOn
  <2>4. Leaves(it["main"], s, 1) /\ Leaves(it["main"], Bite(s), 2)
    BY <2>1, <2>2, <2>3, ReadsLeaves
  <2>5. ItStep(1) \/ ItStep(2)
    <3>1. CASE more
      BY <1>1, <2>1, <2>2, <2>3, <2>4, <3>1, ItWritten
    <3>2. CASE ~more
      BY <1>1, <2>1, <2>2, <2>3, <2>4, <3>2, ItWritten
    <3> QED
      BY <3>1, <3>2
  <2> QED
    BY <2>5, ItSteps
<1>4. Frame(fn', DOMAIN macros', cond)
  <2>1. params \in Params
    <3>1. Param(name) \in [name : Spellings, set : BOOLEAN, toks : Toks]
      BY EmptySeq DEF Param, Toks
    <3> QED
      BY <1>2, <3>1 DEF Params
  <2> HIDE DEF params, more
  <2>2. Frame(f, DOMAIN macros, cond)
    BY <1>2, <2>1 DEF Frame, Placed, Calls, Loops, ParamLoops
  <2> HIDE DEF f
  <2> QED
    BY <1>1, <2>2, GoesTo
<1> QED
  BY <1>3, <1>4, Parts, Built

\* "..." in a parameter list.
LEMMA ParamVarargsStep ==
  ASSUME PpInv, ParamVarargs
  PROVE  PpInv' /\ ItNext
<1>1. /\ AtParam /\ macros' = [macros EXCEPT ![fn.macro] = [@ EXCEPT !.variadic = TRUE]]
      /\ UNCHANGED <<cond, out, src>>
  BY DEF ParamVarargs
<1>2. fn.macro \in DOMAIN macros /\ macros[fn.macro] \in Macros
  BY <1>1, OpenMacro DEF AtParam, In
<1>3. [macros[fn.macro] EXCEPT !.variadic = TRUE] \in Macros
  BY <1>2 DEF Macros
<1>4. Table(macros') /\ DOMAIN macros' = DOMAIN macros
  BY <1>1, <1>2, <1>3, Parts, TableWritten
<1>5. PICK msgs : AfterParam(msgs, Append(fn.params, Param("__VA_ARGS__")))
  BY DEF ParamVarargs
<1> QED
  BY <1>1, <1>4, <1>5, MadeTokens, NextParam

\* A name in a parameter list.
LEMMA ParamNameStep ==
  ASSUME PpInv, ParamName
  PROVE  PpInv' /\ ItNext
<1>1. /\ AtParam
      /\ macros' = [macros EXCEPT ![fn.macro] =
                      [macros[fn.macro] EXCEPT !.count = macros[fn.macro].count + 1]]
      /\ UNCHANGED <<cond, out, src>>
  BY DEF ParamName
<1>2. fn.macro \in DOMAIN macros /\ macros[fn.macro] \in Macros
  BY <1>1, OpenMacro DEF AtParam, In
<1>3. [macros[fn.macro] EXCEPT !.count = macros[fn.macro].count + 1] \in Macros
  BY <1>2 DEF Macros
<1>4. Table(macros') /\ DOMAIN macros' = DOMAIN macros
  BY <1>1, <1>2, <1>3, Parts, TableWritten
<1>5. PICK msgs : AfterParam(msgs, Append(fn.params, Param(Tok("main").s)))
  BY DEF ParamName
<1>6. Tok("main").s \in Spellings
  BY Parts, Lookahead, NameOfToken
<1> QED
  BY <1>1, <1>4, <1>5, <1>6, NextParam

\* The end of a parameter list.
LEMMA ParamsEndStep ==
  ASSUME PpInv, ParamsEnd
  PROVE  PpInv' /\ ItNext
<1> DEFINE body == [in |-> "body", macro |-> fn.macro, toks |-> <<>>]
<1>1. /\ fn.in \in {"params", "paramsend"}
      /\ \/ UNCHANGED macros
         \/ macros' = [macros EXCEPT ![fn.macro] = [@ EXCEPT !.params = fn.params]]
      /\ UNCHANGED it \/ EatTok("main")
      /\ \E t, msgs : ReportAndGo(t, msgs, body)
      /\ UNCHANGED <<cond, out, src>>
  BY DEF ParamsEnd, In, EatTok
<1>2. /\ fn.macro \in DOMAIN macros /\ fn.macro \in Spellings /\ macros[fn.macro] \in Macros
      /\ fn.params \in Params
  BY <1>1, OpenMacro
<1>3. [macros[fn.macro] EXCEPT !.params = fn.params] \in Macros
  BY <1>2 DEF Macros
<1>4. Table(macros') /\ DOMAIN macros' = DOMAIN macros
  BY <1>1, <1>2, <1>3, Parts, TableWritten
<1>5. ItNext
  BY <1>1, Parts, ItWritten, ItSteps
<1>6. Frame(fn', DOMAIN macros', cond)
  <2>1. <<>> \in Toks
    BY EmptySeq DEF Toks
  <2>2. Frame(body, DOMAIN macros', cond)
    BY <1>2, <1>4, <2>1 DEF Frame, Placed, Calls, Loops, BodyLoops
  <2> HIDE DEF body
  <2> QED
    BY <1>1, <2>2, GoesTo
<1> QED
  BY <1>1, <1>4, <1>5, <1>6, Parts, Built

\* Every step of #define and #undef.
LEMMA DefineStep ==
  ASSUME PpInv, Define
  PROVE  PpInv' /\ ItNext
<1>0. it \in Iters /\ Table(macros) /\ Tok("main") \in PpToken
  BY Parts, Lookahead
<1>1. CASE DefineDirective
  <2>1. EatTok("main") /\ GoTo([in |-> "name"]) /\ UNCHANGED <<macros, cond, out, src>>
    BY <1>1 DEF DefineDirective
  <2>2. ItNext
    BY <1>0, <2>1, ItWritten, ItSteps
  <2>3. Frame(fn', DOMAIN macros, cond)
    BY <2>1, BareFrames, GoesTo
  <2> QED
    BY <2>1, <2>2, <2>3, BuiltPlain
<1>2. CASE BodyToken
  <2> DEFINE f == [fn EXCEPT !.toks = Append(@, Tok("main"))]
  <2>1. /\ In("body") /\ EatTok("main") /\ GoTo(IF IsEof(Tok("main")) THEN Spin ELSE f)
        /\ UNCHANGED <<macros, cond, out, src>>
    BY <1>2 DEF BodyToken
  <2>2. ItNext
    BY <1>0, <2>1, ItWritten, ItSteps
  <2>3. Frame(f, DOMAIN macros, cond)
    <3>1. fn \in BodyLoops /\ fn.macro \in DOMAIN macros
      BY <2>1, Parts, OpenMacro, FrameKinds DEF In
    <3>2. Append(fn.toks, Tok("main")) \in Toks
      BY <1>0, <3>1 DEF BodyLoops, Toks
    <3>3. f \in BodyLoops /\ f.macro = fn.macro /\ f.in = "body"
      BY <3>1, <3>2 DEF BodyLoops
    <3> HIDE DEF f
    <3> QED
      BY <3>1, <3>3 DEF Frame, Placed, Calls, Loops
  <2>4. Frame(fn', DOMAIN macros, cond)
    <3> HIDE DEF f
    <3> QED
      BY <2>1, <2>3, BareFrames, GoesTo
  <2> QED
    BY <2>1, <2>2, <2>4, BuiltPlain
<1>3. CASE BodyEnd
  <2>1. /\ In("body") /\ macros' = [macros EXCEPT ![fn.macro] = [@ EXCEPT !.body = fn.toks]]
        /\ GoTo(Tail_) /\ UNCHANGED <<it, cond, out, src>>
    BY <1>3 DEF BodyEnd
  <2>2. fn.macro \in DOMAIN macros /\ macros[fn.macro] \in Macros /\ fn.toks \in Toks
    BY <2>1, OpenMacro DEF In
  <2>3. [macros[fn.macro] EXCEPT !.body = fn.toks] \in Macros
    BY <2>2 DEF Macros
  <2>4. Table(macros')
    BY <1>0, <2>1, <2>2, <2>3, TableWritten
  <2>5. ItNext
    BY <1>0, <2>1, ItWritten, ItSteps
  <2>6. Frame(fn', DOMAIN macros', cond)
    BY <2>1, BareFrames, GoesTo
  <2> QED
    BY <2>1, <2>4, <2>5, <2>6, Parts, Built
<1>4. CASE UndefDirective
  <2> DEFINE s == Ate("main")
             t == NextTok("main", s)
  <2>1. /\ it' = [it EXCEPT !["main"] = s] /\ DropMacro(MacroName(t))
        /\ \E msgs : ReportAndGo(t, msgs, Tail_)
        /\ UNCHANGED <<cond, out, src>>
    BY <1>4 DEF UndefDirective
  <2>2. s \in Stacks /\ t \in PpToken
    BY <1>0, ReadsSteps, PeekedToken DEF Iters, Ate
  <2>3. ItNext
    BY <1>0, <2>1, ItWritten, ItSteps DEF EatTok
  <2>4. Table(macros')
    BY <1>0, <2>1, <2>2, NameOfToken, TableWritten
  <2>5. Frame(fn', DOMAIN macros', cond)
    BY <2>1, BareFrames, GoesTo
  <2> QED
    BY <2>1, <2>3, <2>4, <2>5, Parts, Built
<1> QED
  BY <1>1, <1>2, <1>3, <1>4, DefineNameStep, ParamVarargsStep, ParamNameStep, ParamsEndStep
  DEF Define
-----------------------------------------------------------------------------
(* Macro expansion. *)

\* The locals of a call.
LEMMA OpenCall ==
  ASSUME PpInv, fn.in \in Calls
  PROVE  /\ fn \in CallLoops /\ fn.on \in {"main", "expr"}
         /\ fn.macro \in DOMAIN macros /\ Callee \in Macros
         /\ fn.toks \in Toks /\ fn.left \in Toks /\ fn.arg \in Nat \ {0}
         /\ fn.depth \in Nat /\ fn.loc \in BOOLEAN
         /\ Arg \in PpToken
         /\ Frame(fn.ret, DOMAIN macros, cond)
<1>1. fn \in CallLoops
  BY Parts, FrameKinds
<1>2. fn.macro \in DOMAIN macros
  BY Parts DEF Frame, Placed
<1>3. fn.ret \in Loops /\ fn.ret.in \in {"parse", "convert"}
      /\ Placed(fn.ret, DOMAIN macros, cond)
  BY <1>1, Parts DEF Frame, CallLoops
<1>4. Frame(fn.ret, DOMAIN macros, cond)
  BY <1>3 DEF Frame, Calls
<1>5. Callee \in Macros
  BY <1>2, Parts DEF Callee, Table
<1>6. /\ fn.on \in {"main", "expr"} /\ fn.toks \in Toks /\ fn.left \in Toks
      /\ fn.arg \in Nat \ {0} /\ fn.depth \in Nat /\ fn.loc \in BOOLEAN
  BY <1>1 DEF CallLoops
<1>7. Arg \in PpToken
  BY <1>6, Parts, Lookahead DEF Arg
<1> QED
  BY <1>1, <1>2, <1>4, <1>5, <1>6, <1>7

\* Another frame of the same call, and the changes of one that are made.
LEMMA SameCall ==
  ASSUME PpInv, fn.in \in Calls, NEW f \in CallLoops, f.macro = fn.macro, f.ret = fn.ret
  PROVE  Frame(f, DOMAIN macros, cond)
<1>1. f.in \in Calls /\ f.in \notin {"copy", "convert", "defined"}
  BY DEF CallLoops, Calls
<1>2. fn.macro \in DOMAIN macros
  BY OpenCall
<1>3. fn.ret.in \in {"parse", "convert"} /\ Placed(fn.ret, DOMAIN macros, cond)
  BY Parts DEF Frame
<1> QED
  BY <1>1, <1>2, <1>3 DEF Frame, Placed

\* The changes a call makes to its locals.
LEMMA CallFrames ==
  ASSUME PpInv, fn.in \in Calls
  PROVE  /\ \A s \in {"call", "args", "close", "subst"} :
              /\ Frame([fn EXCEPT !.in = s], DOMAIN macros, cond)
              /\ Frame([fn EXCEPT !.in = s, !.toks = <<>>], DOMAIN macros, cond)
         /\ \A toks \in Toks, d \in Nat :
              /\ Frame([fn EXCEPT !.toks = toks], DOMAIN macros, cond)
              /\ Frame([fn EXCEPT !.toks = toks, !.depth = d], DOMAIN macros, cond)
         /\ \A toks \in Toks, left \in Toks :
              Frame([fn EXCEPT !.left = left, !.toks = toks], DOMAIN macros, cond)
         /\ Frame([fn EXCEPT !.arg = fn.arg + 1, !.toks = <<>>, !.depth = 0],
                  DOMAIN macros, cond)
<1>1. fn \in CallLoops
  BY OpenCall
<1>2. <<>> \in Toks
  BY EmptySeq DEF Toks
<1>3. ASSUME NEW s \in {"call", "args", "close", "subst"}
      PROVE  /\ Frame([fn EXCEPT !.in = s], DOMAIN macros, cond)
             /\ Frame([fn EXCEPT !.in = s, !.toks = <<>>], DOMAIN macros, cond)
  <2> DEFINE f == [fn EXCEPT !.in = s]
             g == [fn EXCEPT !.in = s, !.toks = <<>>]
  <2>1. /\ f \in CallLoops /\ f.macro = fn.macro /\ f.ret = fn.ret
        /\ g \in CallLoops /\ g.macro = fn.macro /\ g.ret = fn.ret
    BY <1>1, <1>2 DEF CallLoops
  <2> HIDE DEF f, g
  <2>2. Frame(f, DOMAIN macros, cond) /\ Frame(g, DOMAIN macros, cond)
    BY <2>1, SameCall
  <2> QED
    BY <2>2 DEF f, g
<1>4. ASSUME NEW toks \in Toks, NEW d \in Nat
      PROVE  /\ Frame([fn EXCEPT !.toks = toks], DOMAIN macros, cond)
             /\ Frame([fn EXCEPT !.toks = toks, !.depth = d], DOMAIN macros, cond)
  <2> DEFINE f == [fn EXCEPT !.toks = toks]
             g == [fn EXCEPT !.toks = toks, !.depth = d]
  <2>1. /\ f \in CallLoops /\ f.macro = fn.macro /\ f.ret = fn.ret
        /\ g \in CallLoops /\ g.macro = fn.macro /\ g.ret = fn.ret
    BY <1>1 DEF CallLoops
  <2> HIDE DEF f, g
  <2>2. Frame(f, DOMAIN macros, cond) /\ Frame(g, DOMAIN macros, cond)
    BY <2>1, SameCall
  <2> QED
    BY <2>2 DEF f, g
<1>5. ASSUME NEW toks \in Toks, NEW left \in Toks
      PROVE  Frame([fn EXCEPT !.left = left, !.toks = toks], DOMAIN macros, cond)
  <2> DEFINE f == [fn EXCEPT !.left = left, !.toks = toks]
  <2>1. f \in CallLoops /\ f.macro = fn.macro /\ f.ret = fn.ret
    BY <1>1 DEF CallLoops
  <2> HIDE DEF f
  <2>2. Frame(f, DOMAIN macros, cond)
    BY <2>1, SameCall
  <2> QED
    BY <2>2 DEF f
<1>6. Frame([fn EXCEPT !.arg = fn.arg + 1, !.toks = <<>>, !.depth = 0], DOMAIN macros, cond)
  <2> DEFINE f == [fn EXCEPT !.arg = fn.arg + 1, !.toks = <<>>, !.depth = 0]
  <2>1. f \in CallLoops /\ f.macro = fn.macro /\ f.ret = fn.ret
    <3>1. fn.arg + 1 \in Nat \ {0} /\ 0 \in Nat
      BY OpenCall
    <3> QED
      BY <1>1, <1>2, <3>1 DEF CallLoops
  <2> HIDE DEF f
  <2>2. Frame(f, DOMAIN macros, cond)
    BY <2>1, SameCall
  <2> QED
    BY <2>2 DEF f
<1> QED
  BY <1>3, <1>4, <1>5, <1>6

\* What can be done to an iterator by its name.
LEMMA OneRead ==
  ASSUME PpInv, NEW i \in {"main", "expr"}
  PROVE  /\ it[i] \in Stacks
         /\ \A s \in Stacks, n \in 0..2 :
              /\ Reads(it[i], s, n) /\ it' = [it EXCEPT ![i] = s] => ItNext
              /\ \A c \in Toks : Reads(it[i], s, n) /\ it' = [it EXCEPT ![i] = Inserted(s, c)]
                                  => ItNext
<1>1. it \in Iters /\ it[i] \in Stacks
  BY Parts DEF Iters
<1>2. ASSUME NEW s \in Stacks, NEW n \in 0..2, Leaves(it[i], s, n), it' = [it EXCEPT ![i] = s]
      PROVE  ItNext
  <2>1. n \in Nat
    OBVIOUS
  <2>2. CASE i = "main"
    <3>1. ItStep(n)
      BY <1>1, <1>2, <2>1, <2>2, ItWritten
    <3> QED
      BY <3>1 DEF ItStep, ItNext
  <2>3. CASE i = "expr"
    BY <1>1, <1>2, <2>3, ItWritten, ItSteps
  <2> QED
    BY <2>2, <2>3
<1>3. ASSUME NEW s \in Stacks, NEW n \in 0..2, Reads(it[i], s, n)
      PROVE  /\ Leaves(it[i], s, n)
             /\ \A c \in Toks : Inserted(s, c) \in Stacks /\ Leaves(it[i], Inserted(s, c), n)
  <2>1. n \in Nat
    OBVIOUS
  <2> QED
    BY <1>1, <1>3, <2>1, ReadsLeaves
<1> QED
  BY <1>1, <1>2, <1>3

\* A macro without parameters is replaced by its body.
LEMMA ExpandObjectStep ==
  ASSUME PpInv, NEW i \in {"main", "expr"}, ExpandObject(i)
  PROVE  PpInv' /\ ItNext
<1> DEFINE c == Relocated(Named(i).body, Tok(i).loc)
<1>1. it' = [it EXCEPT ![i] = Inserted(Ate(i), c)] /\ UNCHANGED <<macros, cond, fn, out, diags, src>>
  BY DEF ExpandObject
<1>2. c \in Toks
  <2>1. Tok(i) \in PpToken /\ Tok(i).loc \in BOOLEAN
    BY Parts, Lookahead, NameOfToken
  <2>2. Named(i).body \in Toks
    <3>1. <<>> \in Toks
      BY EmptySeq DEF Toks
    <3> QED
      BY <3>1, Parts, MacroType DEF Named, NoMacro
  <2> QED
    BY <2>1, <2>2, RelocatedTokens
<1>3. Ate(i) \in Stacks /\ Reads(it[i], Ate(i), 1)
  BY OneRead, ReadsSteps DEF Ate
<1> HIDE DEF c
<1>4. ItNext
  <2>1. 1 \in 0..2
    OBVIOUS
  <2> QED
    BY <1>1, <1>2, <1>3, <2>1, OneRead
<1>5. Frame(fn', DOMAIN macros, cond)
  BY <1>1, Parts
<1> QED
  BY <1>1, <1>4, <1>5, BuiltPlain

\* The name and the parenthesis of a call.
LEMMA CallFunctionStep ==
  ASSUME PpInv, NEW i \in {"main", "expr"}, CallFunction(i)
  PROVE  PpInv' /\ ItNext
<1> DEFINE f == [in |-> "call", on |-> i, ret |-> fn, macro |-> Tok(i).s,
                 loc |-> Tok(i).loc, left |-> Named(i).body,
                 arg |-> 1, depth |-> 0, toks |-> <<>>]
<1>1. /\ Expanding(i) /\ Named(i).kind = "func"
      /\ it' = [it EXCEPT ![i] = AteTwo(i)] /\ GoTo(f)
      /\ UNCHANGED <<macros, cond, out, src>>
  BY DEF CallFunction
<1>2. AteTwo(i) \in Stacks /\ Reads(it[i], AteTwo(i), 2)
  BY OneRead, ReadsSteps DEF AteTwo
<1>3. ItNext
  <2>1. 2 \in 0..2
    OBVIOUS
  <2> QED
    BY <1>1, <1>2, <2>1, OneRead
<1>4. Frame(f, DOMAIN macros, cond)
  <2>1. fn.in \in {"parse", "convert"} /\ fn \in Loops
    <3>1. fn.in \in {"parse", "convert"}
      BY <1>1 DEF Expanding, In
    <3>2. fn \notin CallLoops
      BY <3>1 DEF CallLoops
    <3> QED
      BY <3>1, <3>2, Parts
  <2>2. Named(i) = Macro(Tok(i).s) /\ Tok(i).s \in DOMAIN macros
    BY <1>1 DEF Named, NoMacro, Macro
  <2>3. Tok(i).s \in Spellings /\ Tok(i).loc \in BOOLEAN
    BY Parts, Lookahead, NameOfToken
  <2>4. Named(i).body \in Toks /\ <<>> \in Toks
    BY <2>2, Parts, MacroType, EmptySeq DEF Toks
  <2>5. f \in CallLoops
    <3>1. 1 \in Nat \ {0} /\ 0 \in Nat
      OBVIOUS
    <3> HIDE DEF Toks, Loops
    <3> QED
      BY <2>1, <2>3, <2>4, <3>1 DEF CallLoops
  <2>6. Placed(fn, DOMAIN macros, cond)
    BY Parts DEF Frame
  <2>7. f.in = "call" /\ f.macro = Tok(i).s /\ f.ret = fn
    OBVIOUS
  <2> HIDE DEF f
  <2> QED
    BY <2>1, <2>2, <2>5, <2>6, <2>7 DEF Frame, Placed, Calls
<1> HIDE DEF f
<1>5. Frame(fn', DOMAIN macros, cond)
  BY <1>1, <1>4, GoesTo
<1> QED
  BY <1>1, <1>3, <1>5, BuiltPlain

\* The steps that collect arguments.
LEMMA ArgumentStep ==
  ASSUME PpInv, StartArguments \/ ArgumentToken \/ VariadicComma \/ CloseCall \/ NullToken
  PROVE  PpInv' /\ ItNext
<1>0. it \in Iters
  BY Parts
<1>1. CASE StartArguments
  <2> DEFINE g == [fn EXCEPT !.in = "args"]
             f == [fn EXCEPT !.in = "close"]
  <2>1. /\ fn.in \in Calls /\ UNCHANGED <<it, macros, cond, out, src>>
        /\ (\E t, msgs : ReportAndGo(t, msgs, f)) \/ GoTo(f) \/ GoTo(g)
    BY <1>1 DEF StartArguments, ToClose, In, Calls
  <2>2. Frame(f, DOMAIN macros, cond) /\ Frame(g, DOMAIN macros, cond)
    BY <2>1, CallFrames
  <2> HIDE DEF f, g
  <2>3. Frame(fn', DOMAIN macros, cond)
    BY <2>1, <2>2, GoesTo
  <2>4. ItNext
    BY <1>0, <2>1, ItWritten, ItSteps
  <2> QED
    BY <2>1, <2>3, <2>4, BuiltPlain
<1>2. CASE ArgumentToken
  <2> DEFINE d == IF IsPunct(Arg, "(") THEN fn.depth + 1
                  ELSE IF IsPunct(Arg, ")") THEN fn.depth - 1 ELSE fn.depth
             toks == Append(fn.toks, Arg)
             f == [fn EXCEPT !.toks = toks, !.depth = d]
  <2>1. /\ In("args") /\ ~Closes /\ EatTok(fn.on) /\ GoTo(f)
        /\ UNCHANGED <<macros, cond, out, src>>
    BY <1>2 DEF ArgumentToken
  <2>2. fn.in \in Calls
    BY <2>1 DEF In, Calls
  <2>3. toks \in Toks
    BY <2>2, OpenCall DEF Toks
  <2>4. d \in Nat
    <3>1. fn.depth \in Nat
      BY <2>2, OpenCall
    <3>2. IsPunct(Arg, ")") => fn.depth # 0
      BY <2>1 DEF Closes
    <3> QED
      BY <3>1, <3>2
  <2> HIDE DEF d, toks
  <2>5. Frame(f, DOMAIN macros, cond)
    BY <2>2, <2>3, <2>4, CallFrames
  <2> HIDE DEF f
  <2>6. Frame(fn', DOMAIN macros, cond)
    BY <2>1, <2>5, GoesTo
  <2>7. ItNext
    BY <1>0, <2>1, <2>2, OpenCall, ItWritten, ItSteps
  <2> QED
    BY <2>1, <2>6, <2>7, BuiltPlain
<1>3. CASE VariadicComma
  <2> DEFINE s == Ate(fn.on)
             t == NextTok(fn.on, s)
             toks == Append(fn.toks, t)
             f == [fn EXCEPT !.toks = toks]
  <2>1. /\ In("args") /\ it' = [it EXCEPT ![fn.on] = Bite(s)]
        /\ GoTo(Abort) \/ GoTo(fn) \/ GoTo(f)
        /\ UNCHANGED <<macros, cond, out, src>>
    BY <1>3 DEF VariadicComma
  <2>2. fn.in \in Calls /\ fn.on \in {"main", "expr"} /\ fn.toks \in Toks
    BY <2>1, OpenCall DEF In, Calls
  <2>3. s \in Stacks /\ Reads(it[fn.on], s, 1) /\ it[fn.on] \in Stacks
    BY <2>2, OneRead, ReadsSteps DEF Ate
  <2> HIDE DEF s
  <2>4. toks \in Toks
    BY <2>2, <2>3, PeekedToken DEF Toks
  <2>5. ItNext
    <3>1. 1 \in Nat /\ 1 + 1 = 2 /\ 2 \in 0..2
      OBVIOUS
    <3>2. Bite(s) \in Stacks /\ Reads(it[fn.on], Bite(s), 2)
      BY <2>3, <3>1, ReadsOn
    <3> QED
      BY <2>1, <2>2, <3>1, <3>2, OneRead
  <2> HIDE DEF toks
  <2>6. Frame(f, DOMAIN macros, cond)
    BY <2>2, <2>4, CallFrames
  <2> HIDE DEF f
  <2>7. Frame(fn', DOMAIN macros, cond)
    BY <2>1, <2>6, Parts, BareFrames, GoesTo
  <2> QED
    BY <2>1, <2>5, <2>7, BuiltPlain
<1>4. CASE CloseCall
  <2> DEFINE f == [fn EXCEPT !.in = "subst", !.toks = <<>>]
  <2>1. /\ In("close") /\ (EatTok(fn.on) \/ UNCHANGED it)
        /\ (\E t, msgs : ReportAndGo(t, msgs, f)) \/ GoTo(f)
        /\ UNCHANGED <<macros, cond, out, src>>
    BY <1>4 DEF CloseCall
  <2>2. fn.in \in Calls
    BY <2>1 DEF In, Calls
  <2>3. Frame(f, DOMAIN macros, cond)
    BY <2>2, CallFrames
  <2> HIDE DEF f
  <2>4. Frame(fn', DOMAIN macros, cond)
    BY <2>1, <2>3, GoesTo
  <2>5. ItNext
    BY <1>0, <2>1, <2>2, OpenCall, ItWritten, ItSteps
  <2> QED
    BY <2>1, <2>4, <2>5, BuiltPlain
<1>5. CASE NullToken
  <2>1. GoTo(Abort) /\ UNCHANGED <<it, macros, cond, out, src>>
    BY <1>5 DEF NullToken
  <2>2. Frame(fn', DOMAIN macros, cond)
    BY <2>1, BareFrames, GoesTo
  <2>3. ItNext
    BY <1>0, <2>1, ItWritten, ItSteps
  <2> QED
    BY <2>1, <2>2, <2>3, BuiltPlain
<1> QED
  BY <1>1, <1>2, <1>3, <1>4, <1>5

\* A parameter given its argument, in the macro's list.
LEMMA ArgumentSet ==
  ASSUME NEW m \in Macros, NEW toks \in Toks, NEW j \in DOMAIN m.params
  PROVE  LET q == [m EXCEPT !.params[j] = [@ EXCEPT !.set = TRUE, !.toks = toks]]
         IN  /\ q \in Macros /\ Len(q.params) = Len(m.params)
             /\ q.kind = m.kind /\ q.count = m.count /\ q.variadic = m.variadic
<1> DEFINE p == [m.params[j] EXCEPT !.set = TRUE, !.toks = toks]
           ps == [m.params EXCEPT ![j] = p]
<1>1. m.params \in Params
  BY DEF Macros
<1>2. m.params[j] \in [name : Spellings, set : BOOLEAN, toks : Toks]
  <2>1. j \in 1..Len(m.params)
    BY <1>1 DEF Params
  <2> QED
    BY <1>1, <2>1, ElementOfSeq DEF Params
<1>3. p \in [name : Spellings, set : BOOLEAN, toks : Toks]
  BY <1>2
<1>4. ps \in Params /\ Len(ps) = Len(m.params)
  <2> HIDE DEF p
  <2> QED
    BY <1>1, <1>3, ExceptSeq DEF Params
<1>5. [m EXCEPT !.params = ps] \in Macros
  <2> HIDE DEF ps
  <2> QED
    BY <1>4 DEF Macros
<1> QED
  BY <1>4, <1>5 DEF Macros

\* An argument is stored.
LEMMA EndArgumentStep ==
  ASSUME PpInv, EndArgument
  PROVE  PpInv' /\ ItNext
<1>1. /\ In("args") /\ (StoreArgument(it[fn.on]) \/ StoreArgument(Ate(fn.on)))
      /\ UNCHANGED <<cond, out, src>>
  BY DEF EndArgument
<1>2. /\ fn.in \in Calls /\ fn.on \in {"main", "expr"} /\ fn.toks \in Toks /\ fn.arg \in Nat \ {0}
      /\ fn.macro \in DOMAIN macros /\ macros[fn.macro] \in Macros
  BY <1>1, OpenCall DEF In, Calls, Callee
<1>3. PICK s : StoreArgument(s) /\ s \in {it[fn.on], Ate(fn.on)}
  BY <1>1
<1> DEFINE f == [fn EXCEPT !.in = "close"]
           g == [fn EXCEPT !.arg = fn.arg + 1, !.toks = <<>>, !.depth = 0]
           m == [macros[fn.macro] EXCEPT !.params[fn.arg] = [@ EXCEPT !.set = TRUE, !.toks = fn.toks]]
<1>4. /\ it' = [it EXCEPT ![fn.on] = s]
      /\ \/ GoTo(Abort) /\ UNCHANGED macros
         \/ /\ ~(fn.arg > Len(macros[fn.macro].params))
            /\ macros' = [macros EXCEPT ![fn.macro] = m]
            /\ (\E t, msgs : ReportAndGo(t, msgs, f)) \/ GoTo(f) \/ GoTo(g)
  BY <1>3 DEF StoreArgument, ToClose, Callee
<1>5. ItNext
  <2>1. 0 \in 0..2 /\ 1 \in 0..2 /\ it[fn.on] \in Stacks
    BY <1>2, OneRead
  <2>2. s \in Stacks /\ (Reads(it[fn.on], s, 0) \/ Reads(it[fn.on], s, 1))
    BY <1>3, <2>1, ReadsSteps DEF Ate
  <2> QED
    BY <1>2, <1>4, <2>1, <2>2, OneRead
<1>6. Frame(f, DOMAIN macros, cond) /\ Frame(g, DOMAIN macros, cond)
  BY <1>2, CallFrames
<1>7. Table(macros') /\ DOMAIN macros' = DOMAIN macros
  <2>1. CASE UNCHANGED macros
    BY <2>1, Parts
  <2>2. CASE ~(fn.arg > Len(macros[fn.macro].params)) /\ macros' = [macros EXCEPT ![fn.macro] = m]
    <3>1. fn.arg \in DOMAIN macros[fn.macro].params
      <4>1. macros[fn.macro].params \in Params
        BY <1>2 DEF Macros
      <4> QED
        BY <1>2, <2>2, <4>1, LenProperties DEF Params
    <3>2. m \in Macros
      BY <1>2, <3>1, ArgumentSet
    <3> HIDE DEF m
    <3> QED
      BY <1>2, <2>2, <3>2, Parts, TableWritten
  <2> QED
    BY <1>4, <2>1, <2>2
<1>8. Frame(fn', DOMAIN macros', cond)
  <2> HIDE DEF f, g, m
  <2> QED
    BY <1>4, <1>6, <1>7, BareFrames, GoesTo
<1> QED
  BY <1>1, <1>5, <1>7, <1>8, Parts, Built

\* The part of a sequence of tokens behind its first ones, and two in a row.
LEMMA PartsOfToks ==
  ASSUME NEW a \in Toks, NEW b \in Toks, NEW n \in Nat
  PROVE  /\ SubSeq(a, n + 1, Len(a)) \in Toks /\ a \o b \in Toks
         /\ a # <<>> => Head(a) \in PpToken /\ <<Head(a)>> \in Toks
<1>1. a \in Seq(PpToken) /\ b \in Seq(PpToken)
  BY DEF Toks
<1>2. Behind(a, n) \in Seq(PpToken)
  BY <1>1, BehindIs
<1>3. a \o b \in Seq(PpToken)
  BY <1>1, ConcatProperties
<1>4. a # <<>> => Head(a) \in PpToken
  BY <1>1
<1> HIDE DEF PpToken
<1>5. \A t \in PpToken : <<t>> \in Seq(PpToken)
  OBVIOUS
<1> QED
  BY <1>2, <1>3, <1>4, <1>5 DEF Toks, Behind

\* The parameter a token names is one of the macro's.
LEMMA ParamFound ==
  ASSUME PpInv, fn.in \in Calls, NEW t, ParamOf(t) # 0
  PROVE  Callee.params[ParamOf(t)] \in [name : Spellings, set : BOOLEAN, toks : Toks]
<1> DEFINE S == {j \in DOMAIN Callee.params : Callee.params[j].name = MacroName(t)}
<1>1. Callee.params \in Params
  BY OpenCall DEF Macros
<1>2. DOMAIN Callee.params = 1..Len(Callee.params) /\ Len(Callee.params) \in Nat
  BY <1>1, LenProperties DEF Params
<1>3. ParamOf(t) \in S
  <2>1. S # {} /\ ParamOf(t) = LeastOf(S)
    BY DEF ParamOf
  <2>2. S \subseteq Nat
    BY <1>2
  <2> HIDE DEF S
  <2> QED
    BY <2>1, <2>2, LeastOfIsLeast
<1>4. ParamOf(t) \in 1..Len(Callee.params)
  BY <1>2, <1>3
<1> HIDE DEF S
<1> QED
  BY <1>1, <1>4, ElementOfSeq DEF Params

\* Tokens of the body replaced.
LEMMA SubstitutedFrame ==
  ASSUME PpInv, fn.in \in Calls, NEW n \in Nat, NEW toks \in Toks
  PROVE  Frame(Substituted(n, toks), DOMAIN macros, cond)
<1> DEFINE left == SubSeq(fn.left, n + 1, Len(fn.left))
           more == fn.toks \o toks
<1>1. left \in Toks /\ more \in Toks
  BY OpenCall, PartsOfToks
<1>2. Substituted(n, toks) = [fn EXCEPT !.left = left, !.toks = more]
  BY DEF Substituted
<1> HIDE DEF left, more
<1>3. Frame([fn EXCEPT !.left = left, !.toks = more], DOMAIN macros, cond)
  BY <1>1, CallFrames
<1> QED
  BY <1>2, <1>3

\* The steps that substitute the arguments.
LEMMA SubstStep ==
  ASSUME PpInv, SubstParam \/ Stringize \/ StringizeOther \/ SubstCopy
  PROVE  PpInv' /\ ItNext
<1>1. InBody /\ UNCHANGED <<it, macros, cond, out, src>>
  BY DEF SubstParam, Stringize, StringizeOther, SubstCopy
<1>2. fn.in \in Calls /\ fn.left \in Toks /\ fn.left # <<>> /\ fn.loc \in BOOLEAN
  BY <1>1, OpenCall DEF InBody, In, Calls
<1>3. fn' = Abort \/ \E n \in Nat, toks \in Toks : fn' = Substituted(n, toks)
  <2>0. 1 \in Nat /\ 2 \in Nat
    OBVIOUS
  <2>1. CASE SubstParam
    <3> DEFINE p == Callee.params[ParamOf(Body1)]
               toks == Relocated(p.toks, fn.loc)
    <3>1. ParamOf(Body1) # 0 /\ (fn' = Abort \/ fn' = Substituted(1, toks))
      BY <2>1 DEF SubstParam, GoTo
    <3>2. p \in [name : Spellings, set : BOOLEAN, toks : Toks]
      BY <1>2, <3>1, ParamFound
    <3>3. toks \in Toks
      <4>1. p.toks \in Toks
        BY <3>2
      <4> HIDE DEF p
      <4> QED
        BY <1>2, <4>1, RelocatedTokens
    <3> HIDE DEF toks
    <3> QED
      BY <2>0, <3>1, <3>3
  <2>2. CASE Stringize
    <3>1. fn' = Abort \/ fn' = Substituted(2, <<StringTok>>)
      BY <2>2 DEF Stringize, GoTo
    <3>2. <<StringTok>> \in Toks
      <4>1. StringTok \in PpToken
        BY MadeTokens
      <4> QED
        BY <4>1 DEF Toks
    <3> QED
      BY <2>0, <3>1, <3>2
  <2>3. CASE StringizeOther
    <3>1. fn' = Abort \/ fn' = Substituted(2, <<>>)
      BY <2>3 DEF StringizeOther
    <3>2. <<>> \in Toks
      BY EmptySeq DEF Toks
    <3> QED
      BY <2>0, <3>1, <3>2
  <2>4. CASE SubstCopy
    <3>1. fn' = Substituted(1, Relocated(<<Body1>>, fn.loc))
      BY <2>4 DEF SubstCopy, GoTo
    <3>2. Relocated(<<Body1>>, fn.loc) \in Toks
      BY <1>2, <2>0, PartsOfToks, RelocatedTokens DEF Body1
    <3> QED
      BY <2>0, <3>1, <3>2
  <2> QED
    BY <2>1, <2>2, <2>3, <2>4
<1>4. Frame(fn', DOMAIN macros, cond)
  BY <1>2, <1>3, BareFrames, SubstitutedFrame
<1>5. ItNext
  BY <1>1, Parts, ItWritten, ItSteps
<1> QED
  BY <1>1, <1>4, <1>5, BuiltPlain

\* The expansion of a call is put in front.
LEMMA SubstEndStep ==
  ASSUME PpInv, SubstEnd
  PROVE  PpInv' /\ ItNext
<1>1. /\ In("subst") /\ it' = [it EXCEPT ![fn.on] = Inserted(it[fn.on], fn.toks)]
      /\ GoTo(fn.ret) /\ UNCHANGED <<macros, cond, out, src>>
  BY DEF SubstEnd
<1>2. /\ fn.on \in {"main", "expr"} /\ fn.toks \in Toks
      /\ Frame(fn.ret, DOMAIN macros, cond)
  BY <1>1, OpenCall DEF In, Calls
<1>3. ItNext
  <2>1. it[fn.on] \in Stacks /\ Reads(it[fn.on], it[fn.on], 0) /\ 0 \in 0..2
    BY <1>2, OneRead, ReadsSteps
  <2> QED
    BY <1>1, <1>2, <2>1, OneRead
<1>4. Frame(fn', DOMAIN macros, cond)
  BY <1>1, <1>2, GoesTo
<1> QED
  BY <1>1, <1>3, <1>4, BuiltPlain

\* Every step of macro expansion.
LEMMA ExpandStep ==
  ASSUME PpInv, Expand
  PROVE  PpInv' /\ ItNext
BY ExpandObjectStep, CallFunctionStep, ArgumentStep, EndArgumentStep, SubstStep, SubstEndStep
DEF Expand

-----------------------------------------------------------------------------
(* Conditional inclusion. *)

\* The loops of skip_cond_incl and eval_pp_expr.
LEMMA CondFrames ==
  ASSUME NEW names, NEW incls
  PROVE  /\ \A d \in Nat : /\ Frame([in |-> "skip", depth |-> d], names, incls)
                           /\ Frame([in |-> "stale", depth |-> d], names, incls)
         /\ \A toks \in Toks, s \in {"if", "elif"} : (s = "elif" => incls # <<>>) =>
              /\ Frame([in |-> "copy", for |-> s, toks |-> toks], names, incls)
              /\ Frame([in |-> "convert", for |-> s, toks |-> toks], names, incls)
              /\ \A line \in Toks : (line # <<>> => line[Len(line)] = EofTok) =>
                   Frame([in |-> "defined", for |-> s, toks |-> toks, line |-> line], names, incls)
<1>1. ASSUME NEW d \in Nat, NEW w \in {"skip", "stale"}
      PROVE  Frame([in |-> w, depth |-> d], names, incls)
  BY DEF Frame, Placed, Calls, Loops, SkipLoops
<1>2. ASSUME NEW toks \in Toks, NEW s \in {"if", "elif"}, s = "elif" => incls # <<>>,
             NEW w \in {"copy", "convert"}
      PROVE  Frame([in |-> w, for |-> s, toks |-> toks], names, incls)
  BY <1>2 DEF Frame, Placed, Calls, Loops, IfLoops
<1>3. ASSUME NEW toks \in Toks, NEW s \in {"if", "elif"}, s = "elif" => incls # <<>>,
             NEW line \in Toks, line # <<>> => line[Len(line)] = EofTok
      PROVE  Frame([in |-> "defined", for |-> s, toks |-> toks, line |-> line], names, incls)
  BY <1>3 DEF Frame, Placed, Calls, Loops, DefinedLoops
<1> QED
  BY <1>1, <1>2, <1>3

\* The locals of eval_pp_expr.
LEMMA OpenExpr ==
  ASSUME PpInv, fn.in \in {"copy", "convert", "defined"}
  PROVE  /\ fn.for \in {"if", "elif"} /\ fn.toks \in Toks
         /\ fn.for = "elif" => cond # <<>>
         /\ fn.in = "defined" => /\ fn.line \in Toks
                                 /\ fn.line # <<>> => fn.line[Len(fn.line)] = EofTok
         /\ fn.in # "defined" => fn = [in |-> fn.in, for |-> fn.for, toks |-> fn.toks]
         /\ fn.in = "defined" =>
              fn = [in |-> "defined", for |-> fn.for, toks |-> fn.toks, line |-> fn.line]
<1>1. fn.in # "defined" => fn \in IfLoops
  BY Parts, FrameKinds
<1>2. fn.in = "defined" => fn \in DefinedLoops
  BY Parts, FrameKinds
<1>3. Placed(fn, DOMAIN macros, cond)
  BY Parts DEF Frame
<1> QED
  BY <1>1, <1>2, <1>3 DEF IfLoops, DefinedLoops, Placed

\* The conditionals, with one more, one less, or a changed one.
LEMMA CondWritten ==
  ASSUME cond \in Conds
  PROVE  /\ \A b \in BOOLEAN : Push(b) => cond' \in Conds /\ cond' # <<>>
         /\ cond # <<>> => /\ Tail(cond) \in Conds
                           /\ [cond EXCEPT ![1].afterElse = TRUE] \in Conds
                           /\ \A b \in BOOLEAN : [cond EXCEPT ![1].included = b] \in Conds
<1> DEFINE C == [included : BOOLEAN, afterElse : BOOLEAN]
<1>1. ASSUME NEW b \in BOOLEAN, Push(b) PROVE cond' \in Conds /\ cond' # <<>>
  <2> DEFINE c == [included |-> b, afterElse |-> FALSE]
  <2>1. c \in C /\ cond' = <<c>> \o cond
    BY <1>1 DEF Push
  <2> HIDE DEF c, C
  <2>2. <<c>> \in Seq(C) /\ Len(<<c>>) = 1
    BY <2>1
  <2>3. cond \in Seq(C)
    BY DEF Conds, C
  <2>4. cond' \in Seq(C) /\ Len(cond') = 1 + Len(cond) /\ Len(cond) \in Nat
    BY <2>1, <2>2, <2>3, ConcatProperties, LenProperties
  <2>5. cond' # <<>>
    BY <2>4
  <2> QED
    BY <2>4, <2>5 DEF Conds, C
<1>2. ASSUME cond # <<>>
      PROVE  /\ Tail(cond) \in Conds
             /\ [cond EXCEPT ![1].afterElse = TRUE] \in Conds
             /\ \A b \in BOOLEAN : [cond EXCEPT ![1].included = b] \in Conds
  <2>1. cond \in Seq(C) /\ 1 \in 1..Len(cond) /\ cond[1] \in C
    <3>1. cond \in Seq(C)
      BY DEF Conds
    <3> HIDE DEF C
    <3>2. Len(cond) \in Nat \ {0}
      BY <1>2, <3>1, EmptySeq
    <3>3. 1 \in 1..Len(cond)
      BY <3>2
    <3> QED
      BY <3>1, <3>3, ElementOfSeq
  <2>2. Tail(cond) \in Conds
    BY <1>2 DEF Conds
  <2>3. \A c \in C : [cond EXCEPT ![1] = c] \in Seq(C)
    <3> HIDE DEF C
    <3> QED
      BY <2>1, ExceptSeq
  <2>4. [cond[1] EXCEPT !.afterElse = TRUE] \in C
        /\ \A b \in BOOLEAN : [cond[1] EXCEPT !.included = b] \in C
    BY <2>1
  <2> QED
    BY <2>2, <2>3, <2>4 DEF Conds
<1> QED
  BY <1>1, <1>2

\* A step that eats the next token of the main input, or none, and goes on.
LEMMA OneStep ==
  ASSUME PpInv, UNCHANGED it \/ EatTok("main"), UNCHANGED <<macros, out, src>>,
         cond' \in Conds, Frame(fn', DOMAIN macros, cond')
  PROVE  PpInv' /\ ItNext
<1>1. ItNext
  BY Parts, ItWritten, ItSteps
<1> QED
  BY <1>1, Parts, Built

\* #if, #elif, #else and #endif.
LEMMA IfStep ==
  ASSUME PpInv, \/ IfDirective \/ Elif \/ Else \/ Endif
                \/ Stray("elif") \/ Stray("else") \/ Stray("endif")
  PROVE  PpInv' /\ ItNext
<1>0. EatTok("main") /\ UNCHANGED <<macros, out, src>> /\ cond \in Conds /\ <<>> \in Toks /\ 0 \in Nat
  BY Parts, EmptySeq DEF IfDirective, Elif, Else, Endif, Stray, Toks
<1>1. CASE IfDirective
  BY <1>0, <1>1, CondFrames, GoesTo, OneStep DEF IfDirective
<1>2. CASE Elif
  <2> DEFINE f == [in |-> "copy", for |-> "elif", toks |-> <<>>]
  <2>1. /\ cond # <<>> /\ UNCHANGED cond
        /\ \E t, msgs : ReportAndGo(t, msgs, Skip) \/ ReportAndGo(t, msgs, f)
    BY <1>2 DEF Elif
  <2>2. Frame(Skip, DOMAIN macros, cond) /\ Frame(f, DOMAIN macros, cond)
    BY <1>0, <2>1, CondFrames DEF Skip
  <2> HIDE DEF f
  <2>3. Frame(fn', DOMAIN macros, cond)
    BY <2>1, <2>2, GoesTo
  <2> QED
    BY <1>0, <2>1, <2>3, OneStep
<1>3. CASE Else
  <2>1. /\ cond # <<>> /\ cond' = [cond EXCEPT ![1].afterElse = TRUE]
        /\ \E t, msgs : ReportAndGo(t, msgs, Skip) \/ ReportAndGo(t, msgs, Tail_)
    BY <1>3 DEF Else
  <2>2. Frame(Skip, DOMAIN macros, cond')
    BY <1>0, CondFrames DEF Skip
  <2>3. Frame(fn', DOMAIN macros, cond')
    BY <2>1, <2>2, BareFrames, GoesTo
  <2>4. cond' \in Conds
    BY <1>0, <2>1, CondWritten
  <2> QED
    BY <1>0, <2>3, <2>4, OneStep
<1>4. CASE Endif
  <2>1. cond # <<>> /\ cond' = Tail(cond) /\ GoTo(Tail_)
    BY <1>4 DEF Endif
  <2>2. cond' \in Conds
    BY <1>0, <2>1, CondWritten
  <2>3. Frame(fn', DOMAIN macros, cond')
    BY <2>1, BareFrames, GoesTo
  <2> QED
    BY <1>0, <2>2, <2>3, OneStep
<1>5. CASE Stray("elif") \/ Stray("else") \/ Stray("endif")
  <2>1. UNCHANGED cond /\ \E t, msgs : ReportAndGo(t, msgs, Tail_)
    BY <1>5 DEF Stray
  <2>2. Frame(fn', DOMAIN macros, cond)
    BY <2>1, BareFrames, GoesTo
  <2> QED
    BY <1>0, <2>1, <2>2, OneStep
<1> QED
  BY <1>1, <1>2, <1>3, <1>4, <1>5

\* #ifdef and #ifndef: the directive and the name are eaten.
LEMMA IfDefinedStep ==
  ASSUME PpInv, IfDefined("ifdef", TRUE) \/ IfDefined("ifndef", FALSE)
  PROVE  PpInv' /\ ItNext
<1> DEFINE s == Ate("main")
<1>1. /\ it' = [it EXCEPT !["main"] = Bite(s)] /\ UNCHANGED <<macros, out, src>>
      /\ \E b \in BOOLEAN : Push(b)
      /\ \E t, msgs : ReportAndGo(t, msgs, Tail_) \/ ReportAndGo(t, msgs, Skip)
  BY DEF IfDefined
<1>2. it["main"] \in Stacks /\ s \in Stacks /\ Reads(it["main"], s, 1)
  BY OneRead, ReadsSteps DEF Ate
<1> HIDE DEF s
<1>3. ItNext
  <2>1. 1 \in Nat /\ 1 + 1 = 2 /\ 2 \in 0..2
    OBVIOUS
  <2>2. Bite(s) \in Stacks /\ Reads(it["main"], Bite(s), 2)
    BY <1>2, <2>1, ReadsOn
  <2> QED
    BY <1>1, <2>1, <2>2, OneRead
<1>4. cond' \in Conds
  BY <1>1, Parts, CondWritten
<1>5. Frame(fn', DOMAIN macros, cond')
  <2>1. 0 \in Nat
    OBVIOUS
  <2>2. Frame(Skip, DOMAIN macros, cond')
    BY <2>1, CondFrames DEF Skip
  <2> QED
    BY <1>1, <2>2, BareFrames, GoesTo
<1> QED
  BY <1>1, <1>3, <1>4, <1>5, Parts, Built

\* The steps of eval_pp_expr that prepare the line.
LEMMA PrepareStep ==
  ASSUME PpInv, CopyToken \/ CopyEnd \/ KeepToken \/ ReplaceDefined
  PROVE  PpInv' /\ ItNext
<1>0. UNCHANGED <<macros, cond, out, src>> /\ (UNCHANGED it \/ EatTok("main")) /\ cond' \in Conds
  BY Parts DEF CopyToken, CopyEnd, KeepToken, ReplaceDefined
<1>1. CASE CopyToken
  <2> DEFINE toks == Append(fn.toks, Tok("main"))
             f == [in |-> "copy", for |-> fn.for, toks |-> toks]
  <2>1. fn.in = "copy" /\ fn = [in |-> "copy", for |-> fn.for, toks |-> fn.toks]
    BY <1>1, OpenExpr DEF CopyToken, In
  <2>2. toks \in Toks
    BY <2>1, OpenExpr, Parts, Lookahead DEF Toks
  <2>3. [fn EXCEPT !.toks = toks] = f
    BY <2>1
  <2>4. GoTo(Spin) \/ GoTo(f)
    BY <1>1, <2>3 DEF CopyToken
  <2> HIDE DEF toks
  <2>5. Frame(f, DOMAIN macros, cond)
    BY <2>1, <2>2, OpenExpr, CondFrames
  <2> HIDE DEF f
  <2>6. Frame(fn', DOMAIN macros, cond')
    BY <1>0, <2>4, <2>5, BareFrames, GoesTo
  <2> QED
    BY <1>0, <2>6, OneStep
<1>2. CASE CopyEnd
  <2> DEFINE line == Append(fn.toks, EofTok)
             f == [in |-> "defined", for |-> fn.for, toks |-> <<>>, line |-> line]
  <2>1. In("copy") /\ GoTo(f) /\ fn.in \in {"copy", "convert", "defined"}
    BY <1>2 DEF CopyEnd, In
  <2>2. fn.toks \in Seq(PpToken) /\ EofTok \in PpToken /\ <<>> \in Toks
    BY <2>1, OpenExpr, MadeTokens, EmptySeq DEF Toks
  <2>3. line \in Toks /\ line[Len(line)] = EofTok
    <3> HIDE DEF PpToken, EofTok
    <3> QED
      BY <2>2 DEF Toks
  <2> HIDE DEF line
  <2>4. Frame(f, DOMAIN macros, cond)
    BY <2>1, <2>2, <2>3, OpenExpr, CondFrames
  <2> HIDE DEF f
  <2>5. Frame(fn', DOMAIN macros, cond')
    BY <1>0, <2>1, <2>4, GoesTo
  <2> QED
    BY <1>0, <2>5, OneStep
<1>3. ASSUME Replacing, NEW n \in Nat, NEW t \in PpToken PROVE Frame(Replaced(n, <<t>>), DOMAIN macros, cond)
  <2> DEFINE line == SubSeq(fn.line, n + 1, Len(fn.line))
             toks == fn.toks \o <<t>>
             f == [in |-> "defined", for |-> fn.for, toks |-> toks, line |-> line]
  <2>1. /\ fn.in = "defined" /\ fn.line # <<>>
        /\ fn = [in |-> "defined", for |-> fn.for, toks |-> fn.toks, line |-> fn.line]
        /\ fn.toks \in Toks /\ fn.line \in Toks /\ fn.line[Len(fn.line)] = EofTok
    BY <1>3, OpenExpr DEF Replacing, In
  <2>2. toks \in Toks
    <3>1. <<t>> \in Toks
      BY <1>3 DEF Toks
    <3> QED
      BY <2>1, <3>1, PartsOfToks
  <2>3. line \in Toks
    BY <2>1, PartsOfToks
  <2>4. line # <<>> => line[Len(line)] = EofTok
    <3>1. fn.line \in Seq(PpToken) /\ Len(fn.line) \in Nat
      BY <2>1, LenProperties DEF Toks
    <3>2. fn.line[Len(fn.line)] = EofTok
      BY <2>1
    <3> HIDE DEF PpToken, EofTok
    <3>3. n + 1 <= Len(fn.line) => /\ Len(line) = Len(fn.line) - n
                                   /\ \A i \in 1..Len(line) : line[i] = fn.line[i + n]
      BY <3>1
    <3>4. n + 1 > Len(fn.line) => line = <<>>
      BY <3>1
    <3> HIDE DEF line
    <3> QED
      BY <3>1, <3>2, <3>3, <3>4
  <2>5. Replaced(n, <<t>>) = f
    <3>1. Replaced(n, <<t>>) = [fn EXCEPT !.line = line, !.toks = toks]
      BY DEF Replaced
    <3> HIDE DEF line, toks
    <3> QED
      BY <2>1, <3>1
  <2> HIDE DEF toks, line
  <2>6. Frame(f, DOMAIN macros, cond)
    BY <2>1, <2>2, <2>3, <2>4, OpenExpr, CondFrames
  <2> QED
    BY <2>5, <2>6
<1>4. CASE KeepToken
  <2>1. Replacing /\ GoTo(Replaced(1, <<Head(fn.line)>>)) /\ 1 \in Nat
    BY <1>4 DEF KeepToken
  <2>2. Head(fn.line) \in PpToken
    <3>1. fn.line \in Toks /\ fn.line # <<>>
      BY <2>1, OpenExpr DEF Replacing, In
    <3> QED
      BY <3>1, PartsOfToks
  <2>3. Frame(fn', DOMAIN macros, cond')
    BY <1>0, <1>3, <2>1, <2>2, GoesTo
  <2> QED
    BY <1>0, <2>3, OneStep
<1>5. CASE ReplaceDefined
  <2> DEFINE f == [fn EXCEPT !.line = <<>>]
  <2>0. 2 \in Nat /\ 4 \in Nat /\ <<>> \in Toks
    BY EmptySeq DEF Toks
  <2>1. Replacing
    BY <1>5 DEF ReplaceDefined
  <2>2. \E t \in {NumTok("0"), NumTok("1")} : \E u, msgs :
          ReportAndGo(u, msgs, f) \/ ReportAndGo(u, msgs, Replaced(4, <<t>>))
            \/ GoTo(Replaced(2, <<t>>))
    BY <1>5 DEF ReplaceDefined
  <2>3. Frame(f, DOMAIN macros, cond)
    <3>1. /\ fn.in = "defined" /\ fn.toks \in Toks
          /\ fn = [in |-> "defined", for |-> fn.for, toks |-> fn.toks, line |-> fn.line]
      BY <2>1, OpenExpr DEF Replacing, In
    <3>2. f = [in |-> "defined", for |-> fn.for, toks |-> fn.toks, line |-> <<>>]
      BY <3>1
    <3>3. Frame([in |-> "defined", for |-> fn.for, toks |-> fn.toks, line |-> <<>>], DOMAIN macros, cond)
      BY <2>0, <3>1, OpenExpr, CondFrames
    <3> QED
      BY <3>2, <3>3
  <2> HIDE DEF f
  <2>4. Frame(fn', DOMAIN macros, cond')
    <3>1. \A t \in {NumTok("0"), NumTok("1")} :
            Frame(Replaced(4, <<t>>), DOMAIN macros, cond) /\ Frame(Replaced(2, <<t>>), DOMAIN macros, cond)
      BY <1>3, <2>0, <2>1, MadeTokens
    <3> QED
      BY <1>0, <2>2, <2>3, <3>1, GoesTo
  <2> QED
    BY <1>0, <2>4, OneStep
<1> QED
  BY <1>1, <1>2, <1>4, <1>5

\* The steps of eval_pp_expr that convert the tokens and evaluate.
LEMMA ConvertStep ==
  ASSUME PpInv, ReplacedAll \/ ConvertToken \/ ConvertFails \/ Evaluate
  PROVE  PpInv' /\ ItNext
<1>0. /\ it \in Iters /\ cond \in Conds /\ <<>> \in Toks /\ <<>> \in Stacks /\ 0 \in Nat
      /\ UNCHANGED <<macros, out, src>>
  BY Parts, EmptySeq DEF Toks, Stacks, ReplacedAll, ConvertToken, ConvertFails, Evaluate
<1>1. ASSUME NEW s \in Stacks, it' = [it EXCEPT !["expr"] = s] PROVE ItNext
  BY <1>0, <1>1, ItWritten, ItSteps
<1>2. CASE ReplacedAll
  <2> DEFINE f == [in |-> "convert", for |-> fn.for, toks |-> <<>>]
  <2>1. /\ In("defined") /\ UNCHANGED cond
        /\ \/ GoTo(Abort) /\ UNCHANGED it
           \/ it' = [it EXCEPT !["expr"] = Inserted(<<>>, fn.toks)] /\ GoTo(f)
    BY <1>2 DEF ReplacedAll
  <2>2. Inserted(<<>>, fn.toks) \in Stacks
    <3>1. fn.toks \in Toks
      BY <2>1, OpenExpr DEF In
    <3> QED
      BY <1>0, <3>1, ReadsSteps, ReadsLeaves
  <2>3. Frame(f, DOMAIN macros, cond)
    BY <1>0, <2>1, OpenExpr, CondFrames DEF In
  <2> HIDE DEF f
  <2>4. Frame(fn', DOMAIN macros, cond)
    BY <2>1, <2>3, BareFrames, GoesTo
  <2>5. ItNext
    BY <1>0, <1>1, <2>1, <2>2, ItWritten, ItSteps
  <2> QED
    BY <1>0, <2>1, <2>4, <2>5, BuiltPlain
<1>3. CASE ConvertToken
  <2> DEFINE u == IF Tok("expr").k = "id" THEN NumTok("0") ELSE Tok("expr")
             toks == Append(fn.toks, u)
             f == [in |-> "convert", for |-> fn.for, toks |-> toks]
  <2>1. /\ In("convert") /\ UNCHANGED cond /\ it' = [it EXCEPT !["expr"] = Ate("expr")]
        /\ GoTo([fn EXCEPT !.toks = toks])
    BY <1>3 DEF ConvertToken, Converting
  <2>2. toks \in Toks
    <3>1. u \in PpToken /\ fn.toks \in Toks
      BY <2>1, Parts, Lookahead, MadeTokens, OpenExpr DEF In
    <3> HIDE DEF u
    <3> QED
      BY <3>1 DEF Toks
  <2> HIDE DEF toks
  <2>3. [fn EXCEPT !.toks = toks] = f
    BY <2>1, OpenExpr DEF In
  <2>4. Frame(f, DOMAIN macros, cond)
    BY <2>1, <2>2, OpenExpr, CondFrames DEF In
  <2> HIDE DEF f
  <2>5. Frame(fn', DOMAIN macros, cond)
    BY <2>1, <2>3, <2>4, GoesTo
  <2>6. ItNext
    BY <1>1, <2>1, OneRead, ReadsSteps DEF Ate
  <2> QED
    BY <1>0, <2>1, <2>5, <2>6, BuiltPlain
<1>4. CASE ConvertFails
  <2>1. /\ UNCHANGED cond /\ it' = [it EXCEPT !["expr"] = <<>>]
        /\ GoTo(Abort) \/ \E t, msgs : ReportAndGo(t, msgs, fn)
    BY <1>4 DEF ConvertFails
  <2>2. Frame(fn', DOMAIN macros, cond)
    BY <2>1, Parts, BareFrames, GoesTo
  <2> QED
    BY <1>0, <1>1, <2>1, <2>2, BuiltPlain
<1>5. CASE Evaluate
  <2>1. /\ In("convert") /\ it' = [it EXCEPT !["expr"] = <<>>]
        /\ \/ GoTo(Abort) /\ UNCHANGED cond
           \/ /\ GoTo(Tail_) \/ GoTo(Skip)
              /\ \/ \E b \in BOOLEAN : Push(b)
                 \/ fn.for = "elif" /\ \E b \in BOOLEAN : cond' = [cond EXCEPT ![1].included = b]
    BY <1>5 DEF Evaluate
  <2>2. fn.for = "elif" => cond # <<>>
    BY <2>1, OpenExpr DEF In
  <2>3. cond' \in Conds
    BY <1>0, <2>1, <2>2, CondWritten
  <2>4. Frame(fn', DOMAIN macros, cond')
    <3>1. Frame(Skip, DOMAIN macros, cond')
      BY <1>0, CondFrames DEF Skip
    <3> QED
      BY <2>1, <3>1, BareFrames, GoesTo
  <2> QED
    BY <1>0, <1>1, <2>1, <2>3, <2>4, Parts, Built
<1> QED
  BY <1>2, <1>3, <1>4, <1>5

\* The steps of skip_cond_incl.
LEMMA SkipStep ==
  ASSUME PpInv, SkipToken \/ SkipNameless \/ SkipStale \/ SkipDirective \/ SkipEnd
  PROVE  PpInv' /\ ItNext
<1>0. /\ fn.in \in {"skip", "stale"} /\ UNCHANGED <<macros, cond, out, src>>
      /\ it \in Iters /\ cond \in Conds
  BY Parts DEF SkipToken, SkipNameless, SkipStale, SkipDirective, SkipEnd, In
<1>1. fn.depth \in Nat /\ fn = [in |-> fn.in, depth |-> fn.depth]
  <2>1. fn \in SkipLoops
    BY <1>0, Parts, FrameKinds
  <2> QED
    BY <2>1 DEF SkipLoops
<1>2. \A d \in Nat : /\ Frame([in |-> "skip", depth |-> d], DOMAIN macros, cond)
                     /\ Frame([in |-> "stale", depth |-> d], DOMAIN macros, cond)
  BY CondFrames
<1>3. /\ it["main"] \in Stacks /\ 0 \in 0..2 /\ 2 \in 0..2
      /\ AteTwo("main") \in Stacks /\ Reads(it["main"], AteTwo("main"), 2)
      /\ Peeked(it["main"], 1) \in Stacks /\ Reads(it["main"], Peeked(it["main"], 1), 0)
  BY OneRead, ReadsSteps DEF AteTwo
<1>4. it' = [it EXCEPT !["main"] = AteTwo("main")] => ItNext
  BY <1>3, OneRead
<1>5. CASE SkipToken
  <2>1. EatTok("main") /\ fn' = fn
    BY <1>5 DEF SkipToken
  <2>2. Frame(fn', DOMAIN macros, cond')
    BY <1>0, <2>1, Parts
  <2> QED
    BY <1>0, <2>1, <2>2, OneStep
<1>6. CASE SkipNameless
  <2>1. it' = [it EXCEPT !["main"] = AteTwo("main")] /\ GoTo([fn EXCEPT !.in = "stale"])
    BY <1>6 DEF SkipNameless
  <2>2. [fn EXCEPT !.in = "stale"] = [in |-> "stale", depth |-> fn.depth]
    BY <1>1
  <2>3. Frame(fn', DOMAIN macros, cond)
    BY <1>1, <1>2, <2>1, <2>2, GoesTo
  <2> QED
    BY <1>0, <1>4, <2>1, <2>3, BuiltPlain
<1>7. CASE SkipStale
  <2>1. /\ In("stale")
        /\ \/ it' = [it EXCEPT !["main"] = Eat(it["main"])] /\ GoTo([fn EXCEPT !.in = "skip"])
           \/ it' = [it EXCEPT !["main"] = AteTwo("main")] /\ (GoTo(Spin) \/ GoTo(fn))
    BY <1>7 DEF SkipStale
  <2>2. [fn EXCEPT !.in = "skip"] = [in |-> "skip", depth |-> fn.depth]
    BY <1>1
  <2>3. Frame(fn', DOMAIN macros, cond)
    BY <1>1, <1>2, <2>1, <2>2, Parts, BareFrames, GoesTo
  <2>4. Eat(it["main"]) \in Stacks
    BY <1>3, EatType DEF Stacks
  <2>5. it' \in Iters
    BY <1>0, <1>3, <2>1, <2>4 DEF Iters
  <2>6. ItNext
    BY <2>1, <2>5, ItSteps
  <2> QED
    BY <1>0, <2>3, <2>6, BuiltPlain
<1>8. CASE SkipDirective
  <2> DEFINE t    == SecondTok("main")
             exit == fn.depth = 0 /\ (Divides(t) \/ Ends(t))
             f    == [in |-> "skip", depth |-> Deeper(t)]
  <2>1. /\ GoTo(IF exit THEN Tail_ ELSE f)
        /\ \/ it' = [it EXCEPT !["main"] = Peeked(it["main"], 1)]
           \/ it' = [it EXCEPT !["main"] = AteTwo("main")]
    BY <1>8 DEF SkipDirective
  <2>2. ~exit => Deeper(t) \in Nat
    BY <1>1 DEF Deeper
  <2>3. Frame(fn', DOMAIN macros, cond)
    <3>1. CASE exit
      BY <2>1, <3>1, BareFrames, GoesTo
    <3>2. CASE ~exit
      <4>1. Deeper(t) \in Nat /\ GoTo(f)
        BY <2>1, <2>2, <3>2
      <4> HIDE DEF exit
      <4> QED
        BY <1>2, <4>1, GoesTo
    <3> QED
      BY <3>1, <3>2
  <2>4. ItNext
    BY <1>3, <1>4, <2>1, OneRead
  <2> QED
    BY <1>0, <2>3, <2>4, BuiltPlain
<1>9. CASE SkipEnd
  <2>1. UNCHANGED it /\ (GoTo(Abort) \/ GoTo(Tail_))
    BY <1>9 DEF SkipEnd
  <2>2. Frame(fn', DOMAIN macros, cond')
    BY <1>0, <2>1, BareFrames, GoesTo
  <2> QED
    BY <1>0, <2>1, <2>2, OneStep
<1> QED
  BY <1>5, <1>6, <1>7, <1>8, <1>9

\* Every step of conditional inclusion.
LEMMA CondInclStep ==
  ASSUME PpInv, CondIncl
  PROVE  PpInv' /\ ItNext
BY IfStep, IfDefinedStep, PrepareStep, ConvertStep, SkipStep
DEF CondIncl

-----------------------------------------------------------------------------
(* The other directives, and text. *)

\* The directives that only report, and the end of a directive.
LEMMA PlainDirectiveStep ==
  ASSUME PpInv, \/ Hash \/ LineDirective \/ PragmaDirective \/ UnknownDirective
                \/ MessageDirective \/ MessageToken \/ MessageEnd \/ CheckTail
  PROVE  PpInv' /\ ItNext
<1>0. UNCHANGED <<macros, out, src>> /\ UNCHANGED cond /\ (UNCHANGED it \/ EatTok("main")) /\ cond \in Conds
  BY Parts DEF Hash, LineDirective, PragmaDirective, UnknownDirective, MessageDirective,
               MessageToken, MessageEnd, CheckTail
<1>1. Frame(fn', DOMAIN macros, cond)
  <2>1. CASE Hash
    BY <2>1, BareFrames, GoesTo DEF Hash
  <2>2. CASE LineDirective
    BY <2>2, BareFrames, GoesTo DEF LineDirective
  <2>3. CASE PragmaDirective
    BY <2>3, BareFrames, GoesTo DEF PragmaDirective
  <2>4. CASE UnknownDirective
    BY <2>4, BareFrames, GoesTo DEF UnknownDirective
  <2>5. CASE MessageDirective
    <3> DEFINE f == [in |-> "message", text |-> Tok("main").s]
    <3>1. GoTo(f) /\ Tok("main").s \in {"error", "warning"}
      BY <2>5 DEF MessageDirective, Directive, IsId
    <3>2. Frame(f, DOMAIN macros, cond)
      BY <3>1 DEF Frame, Placed, Calls, Loops, MessageLoops
    <3> HIDE DEF f
    <3> QED
      BY <3>1, <3>2, GoesTo
  <2>6. CASE MessageToken
    BY <2>6, Parts, BareFrames, GoesTo DEF MessageToken
  <2>7. CASE MessageEnd
    BY <2>7, BareFrames DEF MessageEnd
  <2>8. CASE CheckTail
    BY <2>8, BareFrames, GoesTo DEF CheckTail
  <2> QED
    BY <2>1, <2>2, <2>3, <2>4, <2>5, <2>6, <2>7, <2>8
<1> QED
  BY <1>0, <1>1, OneStep

\* ppti_include_file after some tokens have been read.
LEMMA OpenFileStep ==
  ASSUME PpInv, NEW s \in Stacks, NEW n \in 0..2, Reads(it["main"], s, n), NEW name,
         OpenFile(name, s)
  PROVE  ItNext /\ Frame(fn', DOMAIN macros, cond)
<1>1. \/ UNCHANGED it /\ fn' = Abort
      \/ /\ name \in DOMAIN Headers /\ fn' = Tail_
         /\ it' = [it EXCEPT !["main"] = IncludeFile(s, Headers[name])]
  BY DEF OpenFile
<1>2. Frame(fn', DOMAIN macros, cond)
  BY <1>1, BareFrames
<1>3. CASE UNCHANGED it
  <2>1. it \in Iters
    BY Parts
  <2>2. ItStep(0)
    BY <1>3, <2>1, ItWritten
  <2> QED
    BY <1>2, <2>2, ItSteps
<1>4. CASE name \in DOMAIN Headers /\ it' = [it EXCEPT !["main"] = IncludeFile(s, Headers[name])]
  <2> DEFINE u == IncludeFile(s, Headers[name])
  <2>1. Headers[name] \in Toks
    BY <1>4, PpAssumption DEF Toks
  <2>2. n \in Nat /\ it["main"] \in Stacks /\ it \in Iters
    BY Parts, OneRead
  <2>3. u \in Stacks /\ Leaves(it["main"], u, n)
    BY <2>1, <2>2, ReadsLeaves
  <2> HIDE DEF u
  <2>4. ItStep(n)
    BY <1>4, <2>2, <2>3, ItWritten DEF u
  <2>5. n \in 0..(IF In("name") THEN 3 ELSE 2)
    OBVIOUS
  <2> QED
    BY <1>2, <2>4, <2>5 DEF ItStep, ItNext
<1> QED
  BY <1>1, <1>2, <1>3, <1>4

\* #include: its tokens are eaten, those of the file come in front.
LEMMA IncludeStep ==
  ASSUME PpInv, IncludeDirective \/ AngleToken \/ AngleEnd
  PROVE  PpInv' /\ ItNext
<1> DEFINE s == Ate("main")
<1>0. UNCHANGED <<macros, cond, out, src>> /\ Tok("main") \in PpToken /\ cond \in Conds
  BY Parts, Lookahead DEF IncludeDirective, AngleToken, AngleEnd
<1>1. it["main"] \in Stacks /\ s \in Stacks /\ Reads(it["main"], s, 1)
      /\ Reads(it["main"], it["main"], 0) /\ 0 \in 0..2 /\ 1 \in 0..2 /\ 2 \in 0..2
  BY OneRead, ReadsSteps DEF Ate
<1> HIDE DEF s
<1>2. Bite(s) \in Stacks /\ Reads(it["main"], Bite(s), 2)
  <2>1. 1 \in Nat /\ 1 + 1 = 2
    OBVIOUS
  <2> QED
    BY <1>1, <2>1, ReadsOn
<1>3. CASE IncludeDirective
  <2> DEFINE t == NextTok("main", s)
             f == [in |-> "angle", name |-> <<>>]
  <2>1. \/ GoTo(Abort) /\ UNCHANGED it
        \/ it' = [it EXCEPT !["main"] = Bite(s)] /\ GoTo(f)
        \/ OpenFile(<<t.s>>, Bite(s))
        \/ /\ it' = [it EXCEPT !["main"] = s]
           /\ \E u, msgs : ReportAndGo(u, msgs, Tail_)
    BY <1>3 DEF IncludeDirective, s
  <2>2. Frame(f, DOMAIN macros, cond)
    BY EmptySeq DEF Frame, Placed, Calls, Loops, AngleLoops
  <2> HIDE DEF f, t
  <2>3. ItNext /\ Frame(fn', DOMAIN macros, cond)
    <3>1. CASE GoTo(Abort) /\ UNCHANGED it
      BY <3>1, Parts, ItWritten, ItSteps, BareFrames, GoesTo
    <3>2. CASE it' = [it EXCEPT !["main"] = Bite(s)] /\ GoTo(f)
      BY <1>1, <1>2, <2>2, <3>2, OneRead, GoesTo
    <3>3. CASE OpenFile(<<t.s>>, Bite(s))
      BY <1>1, <1>2, <3>3, OpenFileStep
    <3>4. CASE it' = [it EXCEPT !["main"] = s] /\ \E u, msgs : ReportAndGo(u, msgs, Tail_)
      BY <1>1, <3>4, OneRead, BareFrames, GoesTo
    <3> QED
      BY <2>1, <3>1, <3>2, <3>3, <3>4
  <2> QED
    BY <1>0, <2>3, BuiltPlain
<1>4. CASE AngleToken
  <2> DEFINE name == Append(fn.name, Tok("main").s)
             f == [in |-> "angle", name |-> name]
  <2>1. In("angle") /\ EatTok("main") /\ (GoTo(Spin) \/ GoTo([fn EXCEPT !.name = name]))
    BY <1>4 DEF AngleToken
  <2>2. fn \in AngleLoops
    BY <2>1, Parts, FrameKinds DEF In
  <2>3. name \in Seq(Spellings)
    BY <1>0, <2>2, NameOfToken DEF AngleLoops
  <2> HIDE DEF name
  <2>4. [fn EXCEPT !.name = name] = f
    BY <2>2 DEF AngleLoops
  <2>5. Frame(f, DOMAIN macros, cond)
    BY <2>3 DEF Frame, Placed, Calls, Loops, AngleLoops
  <2> HIDE DEF f
  <2>6. Frame(fn', DOMAIN macros, cond')
    BY <1>0, <2>1, <2>4, <2>5, BareFrames, GoesTo
  <2> QED
    BY <1>0, <2>1, <2>6, OneStep
<1>5. CASE AngleEnd
  <2>1. OpenFile(fn.name, s) \/ OpenFile(fn.name, it["main"])
    BY <1>5 DEF AngleEnd, s
  <2>2. ItNext /\ Frame(fn', DOMAIN macros, cond)
    BY <1>1, <2>1, OpenFileStep
  <2> QED
    BY <1>0, <2>2, BuiltPlain
<1> QED
  BY <1>3, <1>4, <1>5

\* Text goes out token by token.
LEMMA TextStep ==
  ASSUME PpInv, DropToken \/ EmitToken \/ EmitEof \/ RejectToken \/ Stay
  PROVE  PpInv' /\ ItNext
<1>0. /\ UNCHANGED <<macros, cond, src>> /\ (UNCHANGED it \/ EatTok("main"))
      /\ it \in Iters /\ cond \in Conds /\ Table(macros) /\ src \in Toks
  BY Parts DEF DropToken, EmitToken, EmitEof, RejectToken, Stay, vars
<1>1. out' \in Toks
  <2>1. out \in Toks /\ Tok("main") \in PpToken
    BY Parts, Lookahead
  <2>2. out' = out \/ out' = Append(out, Tok("main"))
    BY DEF DropToken, EmitToken, EmitEof, RejectToken, Stay, vars
  <2> QED
    BY <2>1, <2>2 DEF Toks
<1>2. Frame(fn', DOMAIN macros, cond)
  <2>1. \/ fn' = fn \/ GoTo(Parse) \/ GoTo(Done) \/ GoTo(Abort)
        \/ \E t, msgs : ReportAndGo(t, msgs, fn)
    BY DEF DropToken, EmitToken, EmitEof, RejectToken, Stay, vars
  <2> QED
    BY <2>1, Parts, BareFrames, GoesTo
<1>3. ItNext
  BY <1>0, ItWritten, ItSteps
<1> QED
  BY <1>0, <1>1, <1>2, <1>3, Built

-----------------------------------------------------------------------------
(* The preprocessor. *)

\* Every step keeps the invariant and eats no more than it may.
LEMMA PpStep ==
  ASSUME PpInv, Next
  PROVE  PpInv' /\ ItNext
BY DefineStep, ExpandStep, CondInclStep, PlainDirectiveStep, IncludeStep, TextStep
DEF Next

\* The invariant holds at the start.
LEMMA PpStarts ==
  ASSUME Init
  PROVE  PpInv
<1>1. /\ src \in Programs /\ it = [main |-> IncludeFile(<<>>, src), expr |-> <<>>]
      /\ macros = [n \in DOMAIN Predefined |-> ObjMacro(Predefined[n])]
      /\ cond = <<>> /\ fn = Parse /\ out = <<>>
  BY DEF Init
<1>2. <<>> \in Stacks /\ <<>> \in Toks /\ <<>> \in Params /\ <<>> \in Conds
  BY EmptySeq DEF Stacks, Toks, Params, Conds
<1>3. src \in Toks
  BY <1>1, PpAssumption DEF Toks
<1>4. it \in Iters
  <2> DEFINE s == IncludeFile(<<>>, src)
  <2>1. Reads(<<>>, <<>>, 0) /\ 0 \in Nat
    BY <1>2, ReadsSteps
  <2>2. s \in Stacks
    BY <1>2, <1>3, <2>1, ReadsLeaves
  <2> HIDE DEF s
  <2> QED
    BY <1>1, <1>2, <2>2 DEF Iters, s
<1>5. Table(macros)
  <2>1. ASSUME NEW n \in DOMAIN Predefined PROVE ObjMacro(Predefined[n]) \in Macros
    <3>1. Predefined[n] \in Toks
      BY PpAssumption DEF Toks
    <3>2. NoMacro \in [kind : {"none"}, variadic : BOOLEAN, count : Nat, params : Params, body : Toks]
      BY <1>2 DEF NoMacro
    <3> QED
      BY <3>1, <3>2 DEF ObjMacro, Macros
  <2> QED
    BY <1>1, <2>1, PpAssumption DEF Table
<1>6. Frame(fn, DOMAIN macros, cond)
  BY <1>1, BareFrames
<1> QED
  BY <1>1, <1>2, <1>3, <1>4, <1>5, <1>6 DEF PpInv, TypeOK, Iters, Table, Conds, Frame

\* Every state is one the invariant describes.
THEOREM PpInvariant == Spec => []PpInv
<1>1. Init => PpInv
  BY PpStarts
<1>2. PpInv /\ [Next]_vars => PpInv'
  <2>1. ASSUME PpInv, UNCHANGED vars PROVE PpInv'
    BY <2>1 DEF vars, PpInv, TypeOK, Frame, Placed
  <2> QED
    BY <2>1, PpStep
<1> QED
  BY <1>1, <1>2, PTL DEF Spec

\* The preprocessor's state keeps its type: no nesting counter goes below zero, a call
\* has its macro, what it inserts are tokens (preprocessor.h).
THEOREM PpTypeOK == Spec => []TypeOK
<1>1. PpInv => TypeOK
  BY DEF PpInv
<1> QED
  BY <1>1, PpInvariant, PTL

\* No step of the preprocessor loses a token that was still to be read
\* (pp_token_iter.h:4-5), but where its loop goes on with a freed one.
THEOREM PpNothingDropped == Spec => NoUnreadDropped
<1> DEFINE Kept == In("stale") \/
                     \E k \in 0..Len(Ahead'), n \in 0..(IF In("name") THEN 3 ELSE 2) :
                       SubSeq(Ahead', k + 1, Len(Ahead')) = SubSeq(Ahead, n + 1, Len(Ahead))
<1>1. PpInv /\ [Next]_vars => [Kept]_vars
  <2>1. ASSUME PpInv, Next PROVE Kept
    <3>1. ItNext /\ it \in Iters
      BY <2>1, PpStep, Parts
    <3>2. Ahead = Rest(it["main"]) /\ Ahead' = Rest(it'["main"])
      BY DEF Ahead, Rest
    <3>3. CASE In("stale")
      BY <3>3
    <3>4. CASE ~In("stale")
      <4>1. PICK n \in 0..(IF In("name") THEN 3 ELSE 2) : Leaves(it["main"], it'["main"], n)
        BY <3>1, <3>4 DEF ItNext
      <4>2. PICK k \in 0..Len(Rest(it'["main"])), m \in 0..n :
              Behind(Rest(it'["main"]), k) = Behind(Rest(it["main"]), m)
        BY <4>1 DEF Leaves
      <4>3. m \in 0..(IF In("name") THEN 3 ELSE 2)
        BY <4>1, <4>2
      <4> QED
        BY <3>2, <4>2, <4>3 DEF Behind
    <3> QED
      BY <3>3, <3>4
  <2> QED
    BY <2>1
<1>2. NoUnreadDropped <=> [][Kept]_vars
  BY DEF NoUnreadDropped
<1> HIDE DEF Kept
<1> QED
  BY <1>1, <1>2, PpInvariant, PTL DEF Spec

-----------------------------------------------------------------------------
(* Definitions of function-like macros. *)

InParams(f) == f.in \in {"params", "paramsend"}

Matches(m, k) == k = m.count + (IF m.variadic THEN 1 ELSE 0)

\* As long as nothing has been reported, every function-like macro has the parameters
\* it counts; the one that is being defined has counted those read so far.
Matching ==
  diags = {} =>
    /\ \A n \in DOMAIN macros :
         macros[n].kind = "func" /\ ~(InParams(fn) /\ n = fn.macro) =>
           Matches(macros[n], Len(macros[n].params))
    /\ InParams(fn) => Matches(macros[fn.macro], Len(fn.params))

\* Every frame says which loop it is of.
LEMMA FrameNamed ==
  ASSUME PpInv
  PROVE  "in" \in DOMAIN fn
<1>1. fn \in Loops \cup CallLoops
  BY Parts
<1> QED
  BY <1>1 DEF Loops, CallLoops, BareLoops, ParamLoops, BodyLoops, IfLoops, DefinedLoops,
              SkipLoops, MessageLoops, AngleLoops

\* A step outside the parameter lists that leaves the counts of all macros alone.
LEMMA StaysMatching ==
  ASSUME Matching, diags \subseteq diags', ~InParams(fn'), ~InParams(fn),
         \A n \in DOMAIN macros' : macros'[n].kind = "func" =>
           /\ n \in DOMAIN macros /\ macros[n].kind = "func"
           /\ macros'[n].count = macros[n].count /\ macros'[n].variadic = macros[n].variadic
           /\ Len(macros'[n].params) = Len(macros[n].params)
  PROVE  Matching'
BY DEF Matching, Matches

\* What goes on outside a parameter list stays there; no report is taken back.
LEMMA GoesOutside ==
  ASSUME NEW t, NEW msgs, NEW f, ~InParams(f)
  PROVE  /\ GoTo(f) => ~InParams(fn') /\ diags \subseteq diags'
         /\ ReportAndGo(t, msgs, f) => ~InParams(fn') /\ diags \subseteq diags'
         /\ ~InParams(Parse) /\ ~InParams(Tail_) /\ ~InParams(Abort)
         /\ ~InParams(Spin) /\ ~InParams(Done)
BY DEF GoTo, ReportAndGo, InParams, Parse, Tail_, Abort, Spin, Done

\* Macros are expanded outside parameter lists.
LEMMA ExpandOutside ==
  ASSUME PpInv, Expand
  PROVE  ~InParams(fn) /\ ~InParams(fn') /\ diags \subseteq diags'
<1>0. "in" \in DOMAIN fn
  BY FrameNamed
<1>1. ASSUME NEW i, ExpandObject(i) PROVE ~InParams(fn) /\ ~InParams(fn') /\ diags \subseteq diags'
  BY <1>1 DEF ExpandObject, Expanding, In, InParams
<1>2. ASSUME NEW i, CallFunction(i) PROVE ~InParams(fn) /\ ~InParams(fn') /\ diags \subseteq diags'
  BY <1>2 DEF CallFunction, Expanding, In, InParams, GoTo
<1>3. CASE StartArguments
  <2> DEFINE f == [fn EXCEPT !.in = "close"]
             g == [fn EXCEPT !.in = "args"]
  <2>1. In("call") /\ (GoTo(f) \/ GoTo(g) \/ \E t, msgs : ReportAndGo(t, msgs, f))
    BY <1>3 DEF StartArguments, ToClose
  <2>2. ~InParams(f) /\ ~InParams(g)
    BY <1>0 DEF InParams
  <2> HIDE DEF f, g
  <2>3. ~InParams(fn') /\ diags \subseteq diags'
    BY <2>1, <2>2, GoesOutside
  <2> QED
    BY <2>1, <2>3 DEF In, InParams
<1>4. CASE ArgumentToken
  BY <1>0, <1>4 DEF ArgumentToken, GoTo, In, InParams
<1>5. CASE VariadicComma
  BY <1>0, <1>5 DEF VariadicComma, GoTo, Abort, In, InParams
<1>6. CASE EndArgument
  <2>1. In("args") /\ \E s : StoreArgument(s)
    BY <1>6 DEF EndArgument
  <2> DEFINE f == [fn EXCEPT !.in = "close"]
             g == [fn EXCEPT !.arg = fn.arg + 1, !.toks = <<>>, !.depth = 0]
  <2>2. GoTo(Abort) \/ GoTo(f) \/ GoTo(g) \/ \E t, msgs : ReportAndGo(t, msgs, f)
    BY <2>1 DEF StoreArgument, ToClose
  <2>3. ~InParams(f) /\ ~InParams(g)
    BY <1>0, <2>1 DEF In, InParams
  <2> HIDE DEF f, g
  <2>4. ~InParams(fn') /\ diags \subseteq diags'
    BY <2>2, <2>3, GoesOutside
  <2> QED
    BY <2>1, <2>4 DEF In, InParams
<1>7. CASE CloseCall
  <2> DEFINE f == [fn EXCEPT !.in = "subst", !.toks = <<>>]
  <2>1. In("close") /\ (GoTo(f) \/ \E t, msgs : ReportAndGo(t, msgs, f))
    BY <1>7 DEF CloseCall
  <2>2. ~InParams(f)
    BY <1>0 DEF InParams
  <2> HIDE DEF f
  <2>3. ~InParams(fn') /\ diags \subseteq diags'
    BY <2>1, <2>2, GoesOutside
  <2> QED
    BY <2>1, <2>3 DEF In, InParams
<1>8. CASE NullToken
  BY <1>0, <1>8 DEF NullToken, GoTo, Abort, In, InParams
<1>9. CASE SubstParam \/ Stringize \/ StringizeOther \/ SubstCopy
  <2>1. In("subst") /\ diags \subseteq diags'
    BY <1>9 DEF SubstParam, Stringize, StringizeOther, SubstCopy, InBody, GoTo
  <2>2. fn' = Abort \/ \E n, toks : fn' = Substituted(n, toks)
    BY <1>9 DEF SubstParam, Stringize, StringizeOther, SubstCopy, GoTo
  <2>3. ~InParams(fn')
    <3>1. \A n, toks : Substituted(n, toks).in = fn.in
      BY <1>0 DEF Substituted
    <3>2. fn'.in = "abort" \/ fn'.in = fn.in
      BY <2>2, <3>1 DEF Abort
    <3> QED
      BY <2>1, <3>2 DEF In, InParams
  <2> QED
    BY <2>1, <2>3 DEF In, InParams
<1>10. CASE SubstEnd
  <2>1. In("subst") /\ fn' = fn.ret /\ diags' = diags
    BY <1>10 DEF SubstEnd, GoTo
  <2>2. fn.ret.in \in {"parse", "convert"}
    BY <2>1, Parts DEF Frame, In, Calls
  <2> QED
    BY <2>1, <2>2 DEF In, InParams
<1> QED
  BY <1>1, <1>2, <1>3, <1>4, <1>5, <1>6, <1>7, <1>8, <1>9, <1>10 DEF Expand

\* So are conditionals handled,
LEMMA CondInclOutside ==
  ASSUME PpInv, CondIncl
  PROVE  ~InParams(fn) /\ ~InParams(fn') /\ diags \subseteq diags'
<1>0. "in" \in DOMAIN fn
  BY FrameNamed
<1>1. CASE IfDirective
  BY <1>0, <1>1 DEF IfDirective, Directive, GoTo, In, InParams
<1>2. CASE Elif
  BY <1>0, <1>2 DEF Elif, Directive, Skip, ReportAndGo, Abort, In, InParams
<1>3. CASE Else
  BY <1>0, <1>3 DEF Else, Directive, Skip, Tail_, ReportAndGo, Abort, In, InParams
<1>4. CASE Endif
  BY <1>0, <1>4 DEF Endif, Directive, Tail_, GoTo, In, InParams
<1>5. CASE Stray("elif") \/ Stray("else") \/ Stray("endif")
  <2>1. In("directive") /\ \E t, msgs : ReportAndGo(t, msgs, Tail_)
    BY <1>5 DEF Stray, Directive
  <2>2. ~InParams(fn') /\ diags \subseteq diags'
    <3>1. ~InParams(Tail_)
      BY DEF InParams, Tail_
    <3> QED
      BY <2>1, <3>1, GoesOutside
  <2> QED
    BY <2>1, <2>2 DEF In, InParams
<1>6. CASE IfDefined("ifdef", TRUE) \/ IfDefined("ifndef", FALSE)
  <2>1. In("directive") /\ \E t, msgs : ReportAndGo(t, msgs, Tail_) \/ ReportAndGo(t, msgs, Skip)
    BY <1>6 DEF IfDefined, Directive
  <2> QED
    BY <2>1 DEF Skip, Tail_, ReportAndGo, Abort, In, InParams
<1>7. CASE CopyToken
  BY <1>0, <1>7 DEF CopyToken, GoTo, Spin, In, InParams
<1>8. CASE CopyEnd
  BY <1>0, <1>8 DEF CopyEnd, GoTo, In, InParams
<1>9. CASE KeepToken
  BY <1>0, <1>9 DEF KeepToken, Replacing, Replaced, GoTo, In, InParams
<1>10. CASE ReplaceDefined
  <2>1. In("defined") /\ \E t, msgs, n, toks :
          \/ ReportAndGo(t, msgs, [fn EXCEPT !.line = <<>>])
          \/ ReportAndGo(t, msgs, Replaced(n, toks)) \/ GoTo(Replaced(n, toks))
    BY <1>10 DEF ReplaceDefined, Replacing
  <2>2. ~InParams([fn EXCEPT !.line = <<>>]) /\ \A n, toks : ~InParams(Replaced(n, toks))
    BY <1>0, <2>1 DEF Replaced, In, InParams
  <2>3. ~InParams(fn') /\ diags \subseteq diags'
    BY <2>1, <2>2, GoesOutside
  <2> QED
    BY <2>1, <2>3 DEF In, InParams
<1>11. CASE ReplacedAll
  BY <1>0, <1>11 DEF ReplacedAll, GoTo, Abort, In, InParams
<1>12. CASE ConvertToken
  BY <1>0, <1>12 DEF ConvertToken, Converting, GoTo, In, InParams
<1>13. CASE ConvertFails
  <2>1. In("convert") /\ (GoTo(Abort) \/ \E t, msgs : ReportAndGo(t, msgs, fn))
    BY <1>13 DEF ConvertFails, Converting
  <2>2. ~InParams(fn)
    BY <2>1 DEF In, InParams
  <2>3. ~InParams(fn') /\ diags \subseteq diags'
    BY <2>1, <2>2, GoesOutside
  <2> QED
    BY <2>2, <2>3
<1>14. CASE Evaluate
  BY <1>0, <1>14 DEF Evaluate, Skip, Tail_, GoTo, Abort, In, InParams
<1>15. CASE SkipToken
  BY <1>0, <1>15 DEF SkipToken, In, InParams
<1>16. CASE SkipNameless
  BY <1>0, <1>16 DEF SkipNameless, GoTo, In, InParams
<1>17. CASE SkipStale
  BY <1>0, <1>17 DEF SkipStale, Spin, GoTo, In, InParams
<1>18. CASE SkipDirective
  BY <1>0, <1>18 DEF SkipDirective, Tail_, GoTo, In, InParams
<1>19. CASE SkipEnd
  BY <1>0, <1>19 DEF SkipEnd, Tail_, GoTo, Abort, In, InParams
<1> QED
  BY <1>1, <1>2, <1>3, <1>4, <1>5, <1>6, <1>7, <1>8, <1>9, <1>10,
     <1>11, <1>12, <1>13, <1>14, <1>15, <1>16, <1>17, <1>18, <1>19 DEF CondIncl

Others == \/ Hash \/ LineDirective \/ PragmaDirective \/ UnknownDirective
          \/ MessageDirective \/ MessageToken \/ MessageEnd
          \/ IncludeDirective \/ AngleToken \/ AngleEnd
          \/ CheckTail \/ DropToken \/ EmitToken \/ EmitEof \/ RejectToken \/ Stay

\* and everything else.
LEMMA OthersOutside ==
  ASSUME PpInv, Others
  PROVE  ~InParams(fn) /\ ~InParams(fn') /\ diags \subseteq diags'
<1>0. "in" \in DOMAIN fn
  BY FrameNamed
<1>1. CASE Hash
  BY <1>0, <1>1 DEF Hash, GoTo, Abort, In, InParams
<1>2. CASE LineDirective
  BY <1>0, <1>2 DEF LineDirective, Directive, Tail_, GoTo, In, InParams
<1>3. CASE PragmaDirective
  BY <1>0, <1>3 DEF PragmaDirective, Directive, Abort, GoTo, In, InParams
<1>4. CASE UnknownDirective
  BY <1>0, <1>4 DEF UnknownDirective, Tail_, ReportAndGo, Abort, In, InParams
<1>5. CASE MessageDirective
  BY <1>0, <1>5 DEF MessageDirective, Directive, GoTo, In, InParams
<1>6. CASE MessageToken
  BY <1>0, <1>6 DEF MessageToken, Spin, GoTo, In, InParams
<1>7. CASE MessageEnd
  BY <1>0, <1>7 DEF MessageEnd, Tail_, In, InParams
<1>8. CASE IncludeDirective
  <2>1. In("directive") /\ diags \subseteq diags'
    BY <1>8 DEF IncludeDirective, Directive, GoTo, ReportAndGo
  <2>2. \/ fn' = Abort \/ fn' = [in |-> "angle", name |-> <<>>] \/ fn' = Tail_
    BY <1>8 DEF IncludeDirective, OpenFile, GoTo, ReportAndGo
  <2> QED
    BY <2>1, <2>2 DEF Tail_, Abort, In, InParams
<1>9. CASE AngleToken
  BY <1>0, <1>9 DEF AngleToken, Spin, GoTo, In, InParams
<1>10. CASE AngleEnd
  <2>1. In("angle") /\ diags \subseteq diags' /\ fn' \in {Tail_, Abort}
    BY <1>10 DEF AngleEnd, OpenFile
  <2> QED
    BY <2>1 DEF Tail_, Abort, In, InParams
<1>11. CASE CheckTail
  <2> DEFINE f == [in |-> "drop"]
  <2>1. In("tail") /\ (GoTo(Parse) \/ \E t, msgs : ReportAndGo(t, msgs, f))
    BY <1>11 DEF CheckTail
  <2>2. ~InParams(f)
    BY DEF InParams
  <2> HIDE DEF f
  <2>3. ~InParams(fn') /\ diags \subseteq diags'
    BY <2>1, <2>2, GoesOutside
  <2> QED
    BY <2>1, <2>3 DEF In, InParams
<1>12. CASE DropToken
  BY <1>0, <1>12 DEF DropToken, Parse, GoTo, In, InParams
<1>13. CASE EmitToken
  BY <1>0, <1>13 DEF EmitToken, Text, In, InParams
<1>14. CASE EmitEof
  BY <1>0, <1>14 DEF EmitEof, Text, Done, GoTo, In, InParams
<1>15. CASE RejectToken
  <2>1. In("parse") /\ (GoTo(Abort) \/ \E t, msgs : ReportAndGo(t, msgs, fn))
    BY <1>15 DEF RejectToken, Text
  <2>2. ~InParams(fn)
    BY <2>1 DEF In, InParams
  <2>3. ~InParams(fn') /\ diags \subseteq diags'
    BY <2>1, <2>2, GoesOutside
  <2> QED
    BY <2>2, <2>3
<1>16. CASE Stay
  BY <1>0, <1>16 DEF Stay, Halted, Done, Abort, Spin, vars, In, InParams
<1> QED
  BY <1>1, <1>2, <1>3, <1>4, <1>5, <1>6, <1>7, <1>8, <1>9, <1>10,
     <1>11, <1>12, <1>13, <1>14, <1>15, <1>16 DEF Others

\* A definition's name is read: a new macro has counted nothing.
LEMMA NameMatches ==
  ASSUME PpInv, Matching, DefineName
  PROVE  Matching'
<1> DEFINE t     == Tok("main")
           n     == MacroName(t)
           frame == [in |-> "params", macro |-> n, params |-> <<>>]
           body  == [in |-> "body", macro |-> n, toks |-> <<>>]
<1>1. PICK kind \in {"func", "obj"} :
        /\ In("name") /\ SetMacro(n, [Macro(n) EXCEPT !.kind = kind])
        /\ \E msgs : /\ IsDefined(t) => msgs # {}
                     /\ ReportAndGo(t, msgs, frame) \/ ReportAndGo(t, msgs, body)
  <2>1. \A x : Msg(TRUE, x) # {}
    BY DEF Msg
  <2> QED
    BY <2>1 DEF DefineName
<1> SUFFICES ASSUME diags' = {} PROVE Matching'
  BY DEF Matching
<1>2. diags = {} /\ ~IsDefined(t) /\ fn' \in {frame, body}
  BY <1>1 DEF ReportAndGo
<1>3. n \notin DOMAIN macros /\ Macro(n) = NoMacro
  BY <1>2 DEF IsDefined, Macro
<1> HIDE DEF n
<1>4. macros' = [x \in DOMAIN macros \cup {n} |->
                  IF x = n THEN [NoMacro EXCEPT !.kind = kind] ELSE macros[x]]
  BY <1>1, <1>3 DEF SetMacro
<1>5. Matches([NoMacro EXCEPT !.kind = kind], Len(<<>>)) /\ [NoMacro EXCEPT !.kind = kind].params = <<>>
  BY DEF NoMacro, Matches
<1>6. ~InParams(fn)
  BY <1>1 DEF In, InParams
<1>7. \A x \in DOMAIN macros' : macros'[x].kind = "func" => Matches(macros'[x], Len(macros'[x].params))
  BY <1>2, <1>4, <1>5, <1>6 DEF Matching
<1>8. InParams(fn') => fn'.macro = n /\ fn'.params = <<>>
  BY <1>2 DEF InParams
<1>9. Matches(macros'[n], Len(<<>>))
  BY <1>4, <1>5
<1> QED
  BY <1>7, <1>8, <1>9 DEF Matching

\* A parameter is read and counted.
LEMMA ParamMatches ==
  ASSUME PpInv, Matching, AtParam, NEW msgs, NEW p,
         AfterParam(msgs, Append(fn.params, p)), NEW m,
         macros' = [macros EXCEPT ![fn.macro] = m],
         msgs = {} => \A k \in Nat : Matches(macros[fn.macro], k) => Matches(m, k + 1)
  PROVE  Matching'
<1> SUFFICES ASSUME diags' = {} PROVE Matching'
  BY DEF Matching
<1>1. In("params") /\ fn.macro \in DOMAIN macros /\ fn.params \in Params
  BY OpenMacro DEF AtParam, In
<1>2. /\ diags = {} /\ msgs = {} /\ fn'.macro = fn.macro
      /\ fn'.params = Append(fn.params, p)
      /\ InParams(fn')
  BY DEF AfterParam, ReportAndGo, InParams
<1>3. Len(fn'.params) = Len(fn.params) + 1 /\ Len(fn.params) \in Nat
  BY <1>1, <1>2, LenProperties DEF Params
<1>4. Matches(macros[fn.macro], Len(fn.params))
  BY <1>1, <1>2 DEF Matching, InParams, In
<1>5. Matches(macros'[fn'.macro], Len(fn'.params))
  BY <1>1, <1>2, <1>3, <1>4
<1>6. \A n \in DOMAIN macros' : macros'[n].kind = "func" /\ ~(InParams(fn') /\ n = fn'.macro) =>
        Matches(macros'[n], Len(macros'[n].params))
  BY <1>1, <1>2 DEF Matching
<1> QED
  BY <1>5, <1>6 DEF Matching

\* A definition keeps the counts right until it is reported.
LEMMA DefineMatches ==
  ASSUME PpInv, Matching, Define
  PROVE  Matching'
<1>1. CASE ParamVarargs
  <2> DEFINE m == [macros[fn.macro] EXCEPT !.variadic = TRUE]
             msgs == Msg(macros[fn.macro].variadic, "Multiple varargs")
  <2>1. /\ AtParam /\ AfterParam(msgs, Append(fn.params, Param("__VA_ARGS__")))
        /\ macros' = [macros EXCEPT ![fn.macro] = m]
    BY <1>1 DEF ParamVarargs
  <2>2. macros[fn.macro] \in Macros
    BY <2>1, OpenMacro DEF AtParam, In
  <2>3. msgs = {} => \A k \in Nat : Matches(macros[fn.macro], k) => Matches(m, k + 1)
    <3>1. msgs = {} => ~macros[fn.macro].variadic
      BY DEF Msg
    <3>2. m.variadic = TRUE /\ m.count = macros[fn.macro].count /\ m.count \in Nat
      BY <2>2 DEF Macros
    <3> HIDE DEF m, msgs
    <3> QED
      BY <3>1, <3>2 DEF Matches
  <2> HIDE DEF m, msgs
  <2> QED
    BY <2>1, <2>3, ParamMatches
<1>2. CASE ParamName
  <2> DEFINE m == [macros[fn.macro] EXCEPT !.count = macros[fn.macro].count + 1]
             msgs == Msg(macros[fn.macro].variadic, "Argument after varargs")
  <2>1. /\ AtParam /\ AfterParam(msgs, Append(fn.params, Param(Tok("main").s)))
        /\ macros' = [macros EXCEPT ![fn.macro] = m]
    BY <1>2 DEF ParamName
  <2>2. macros[fn.macro] \in Macros
    BY <2>1, OpenMacro DEF AtParam, In
  <2>3. msgs = {} => \A k \in Nat : Matches(macros[fn.macro], k) => Matches(m, k + 1)
    <3>1. /\ m.variadic = macros[fn.macro].variadic /\ m.count = macros[fn.macro].count + 1
          /\ macros[fn.macro].count \in Nat /\ macros[fn.macro].variadic \in BOOLEAN
      BY <2>2 DEF Macros
    <3> HIDE DEF m, msgs
    <3> QED
      BY <3>1 DEF Matches
  <2> HIDE DEF m, msgs
  <2> QED
    BY <2>1, <2>3, ParamMatches
<1>3. CASE ParamsEnd
  <2> DEFINE body == [in |-> "body", macro |-> fn.macro, toks |-> <<>>]
             m == [macros[fn.macro] EXCEPT !.params = fn.params]
  <2> SUFFICES ASSUME diags' = {} PROVE Matching'
    BY DEF Matching
  <2>1. /\ InParams(fn) /\ diags = {} /\ fn' = body
        /\ macros' = [macros EXCEPT ![fn.macro] = m]
    <3>1. \A x : Msg(TRUE, x) # {}
      BY DEF Msg
    <3> QED
      BY <1>3, <3>1 DEF ParamsEnd, ReportAndGo, In, InParams
  <2>2. /\ fn.macro \in DOMAIN macros /\ macros[fn.macro] \in Macros
    BY <2>1, OpenMacro DEF InParams
  <2>3. Matches(m, Len(m.params))
    <3>1. Matches(macros[fn.macro], Len(fn.params))
      BY <2>1 DEF Matching
    <3>2. /\ m.params = fn.params /\ m.count = macros[fn.macro].count
          /\ m.variadic = macros[fn.macro].variadic
      BY <2>2 DEF Macros
    <3> QED
      BY <3>1, <3>2 DEF Matches
  <2>4. ~InParams(fn')
    BY <2>1 DEF InParams
  <2> HIDE DEF m
  <2>5. \A n \in DOMAIN macros' : macros'[n].kind = "func" => Matches(macros'[n], Len(macros'[n].params))
    BY <2>1, <2>2, <2>3 DEF Matching
  <2> QED
    BY <2>4, <2>5 DEF Matching
<1>4. CASE DefineDirective \/ BodyToken
  <2>1. UNCHANGED <<macros, diags>> /\ fn.in \in {"directive", "body"}
    BY <1>4 DEF DefineDirective, BodyToken, GoTo, In
  <2>2. "in" \in DOMAIN fn
    BY FrameNamed
  <2>3. ~InParams(fn) /\ ~InParams(fn')
    BY <1>4, <2>1, <2>2 DEF DefineDirective, BodyToken, GoTo, Spin, In, InParams
  <2> QED
    BY <2>1, <2>3, StaysMatching
<1>5. CASE BodyEnd
  <2> DEFINE m == [macros[fn.macro] EXCEPT !.body = fn.toks]
  <2>1. /\ In("body") /\ fn' = Tail_ /\ diags' = diags
        /\ macros' = [macros EXCEPT ![fn.macro] = m]
    BY <1>5 DEF BodyEnd, GoTo
  <2>2. fn.macro \in DOMAIN macros /\ macros[fn.macro] \in Macros
    BY <2>1, OpenMacro DEF In
  <2>3. /\ m.kind = macros[fn.macro].kind /\ m.count = macros[fn.macro].count
        /\ m.variadic = macros[fn.macro].variadic /\ m.params = macros[fn.macro].params
    BY <2>2 DEF Macros
  <2>4. ~InParams(fn) /\ ~InParams(fn')
    BY <2>1 DEF In, InParams, Tail_
  <2> HIDE DEF m
  <2> QED
    BY <2>1, <2>2, <2>3, <2>4, StaysMatching
<1>6. CASE UndefDirective
  <2>1. /\ In("directive") /\ \E n : DropMacro(n)
        /\ \E t, msgs : ReportAndGo(t, msgs, Tail_)
    BY <1>6 DEF UndefDirective
  <2>2. ~InParams(fn) /\ ~InParams(Tail_)
    BY <2>1 DEF In, InParams, Tail_
  <2>3. ~InParams(fn') /\ diags \subseteq diags'
    BY <2>1, <2>2, GoesOutside
  <2>4. \A n \in DOMAIN macros' : n \in DOMAIN macros /\ macros'[n] = macros[n]
    BY <2>1 DEF DropMacro
  <2> QED
    BY <2>2, <2>3, <2>4, StaysMatching
<1> QED
  BY <1>1, <1>2, <1>3, <1>4, <1>5, <1>6, NameMatches DEF Define

\* And so does every other step.
LEMMA MatchStep ==
  ASSUME PpInv, Matching, Next
  PROVE  Matching'
<1>1. CASE Define
  BY <1>1, DefineMatches
<1>2. CASE Expand \/ CondIncl \/ Others
  <2>1. ~InParams(fn) /\ ~InParams(fn') /\ diags \subseteq diags'
    BY <1>2, ExpandOutside, CondInclOutside, OthersOutside
  <2>2. UNCHANGED macros \/ EndArgument
    <3>1. CASE Expand
      BY <3>1 DEF Expand, ExpandObject, CallFunction, StartArguments, ArgumentToken, VariadicComma,
                  CloseCall, NullToken, SubstParam, Stringize, StringizeOther, SubstCopy, SubstEnd
    <3>2. CASE CondIncl
      BY <3>2 DEF CondIncl, IfDirective, Elif, Else, Endif, Stray, IfDefined, CopyToken, CopyEnd,
                  KeepToken, ReplaceDefined, ReplacedAll, ConvertToken, ConvertFails, Evaluate,
                  SkipToken, SkipNameless, SkipStale, SkipDirective, SkipEnd
    <3>3. CASE Others
      BY <3>3 DEF Others, Hash, LineDirective, PragmaDirective, UnknownDirective, MessageDirective,
                  MessageToken, MessageEnd, IncludeDirective, AngleToken, AngleEnd, CheckTail,
                  DropToken, EmitToken, EmitEof, RejectToken, Stay, vars
    <3> QED
      BY <1>2, <3>1, <3>2, <3>3
  <2>3. CASE UNCHANGED macros
    BY <2>1, <2>3, StaysMatching
  <2>4. CASE EndArgument
    <3> DEFINE m == [macros[fn.macro] EXCEPT !.params[fn.arg] = [@ EXCEPT !.set = TRUE, !.toks = fn.toks]]
    <3>1. In("args") /\ \/ UNCHANGED macros
                        \/ /\ ~(fn.arg > Len(macros[fn.macro].params))
                           /\ macros' = [macros EXCEPT ![fn.macro] = m]
      BY <2>4 DEF EndArgument, StoreArgument, Callee
    <3>2. /\ fn.toks \in Toks /\ fn.arg \in Nat \ {0}
          /\ fn.macro \in DOMAIN macros /\ macros[fn.macro] \in Macros
      BY <3>1, OpenCall DEF In, Calls, Callee
    <3>3. CASE UNCHANGED macros
      BY <2>1, <3>3, StaysMatching
    <3>4. CASE ~(fn.arg > Len(macros[fn.macro].params)) /\ macros' = [macros EXCEPT ![fn.macro] = m]
      <4>1. fn.arg \in DOMAIN macros[fn.macro].params
        <5>1. macros[fn.macro].params \in Params
          BY <3>2 DEF Macros
        <5> QED
          BY <3>2, <3>4, <5>1, LenProperties DEF Params
      <4>2. /\ Len(m.params) = Len(macros[fn.macro].params) /\ m.kind = macros[fn.macro].kind
            /\ m.count = macros[fn.macro].count /\ m.variadic = macros[fn.macro].variadic
        BY <3>2, <4>1, ArgumentSet
      <4> HIDE DEF m
      <4> QED
        BY <2>1, <3>2, <3>4, <4>2, StaysMatching
    <3> QED
      BY <3>1, <3>3, <3>4
  <2> QED
    BY <2>2, <2>3, <2>4
<1> QED
  BY <1>1, <1>2 DEF Next, Others

\* Once its definition is read without a report, a function-like macro has the
\* parameters it counts: a call with the right number of arguments finds one for each
\* (define_macro_function_like_args, get_function_like_macro_arguments).
THEOREM PpParamsMatch == Spec => []ParamsMatchCount
<1>1. Init => Matching
  <2>1. \A body : ObjMacro(body).kind = "obj"
    BY DEF ObjMacro, NoMacro
  <2> QED
    BY <2>1 DEF Init, Matching, Parse, InParams
<1>2. PpInv /\ Matching /\ [Next]_vars => Matching'
  <2>1. ASSUME Matching, UNCHANGED vars PROVE Matching'
    BY <2>1 DEF vars, Matching
  <2> QED
    BY <2>1, MatchStep
<1>3. Matching => ParamsMatchCount
  BY DEF Matching, ParamsMatchCount, Matches, InParams
<1> QED
  BY <1>1, <1>2, <1>3, PpInvariant, PTL DEF Spec
=============================================================================
