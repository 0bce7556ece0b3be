------------------------------- MODULE PpGroups -------------------------------
(***************************************************************************)
(* Which groups of a conditional are read, said without an interpreter: in *)
(* terms of the lines of the whole text, the main file with the files it   *)
(* includes put in, and how they nest.  Conditionals nest in that text and *)
(* not file by file: the program has one stack of them for all files, so   *)
(* that one opened in a file may be closed in another.                     *)
(***************************************************************************)
EXTENDS Preprocessor

\* The directive that starts at position p of the text u; "" for none.
Name(u, p) == IF u[p].bol /\ IsPunct(u[p], "#") THEN u[p + 1].s ELSE ""

Opener(u, p)  == Name(u, p) \in {"if", "ifdef", "ifndef"}
Divider(u, p) == Name(u, p) \in {"elif", "else"}
Closer(u, p)  == Name(u, p) = "endif"

\* How many conditionals are open before p.
Level(u, p) == Cardinality({q \in 1..(p - 1) : Opener(u, q)})
                 - Cardinality({q \in 1..(p - 1) : Closer(u, q)})

Latest(S) == CHOOSE p \in S : \A q \in S : q <= p

\* The conditional around p at level d, and the directives that start its groups
\* up to p.
OpenerAt(u, p, d) ==
  Latest({q \in 1..(p - 1) : Opener(u, q) /\ Level(u, q) = d - 1})
HeadsAt(u, p, d) ==
  LET o == OpenerAt(u, p, d)
  IN  {o} \cup {q \in o..(p - 1) : Divider(u, q) /\ Level(u, q) = d}

\* Does the condition of the group that starts at p hold?  (Macros are not
\* redefined in the sources this is used on.)
Holds(u, p) ==
  LET a == u[p + 2] IN
  CASE Name(u, p) = "else"   -> TRUE
    [] Name(u, p) = "ifdef"  -> a.s \in DOMAIN Predefined
    [] Name(u, p) = "ifndef" -> a.s \notin DOMAIN Predefined
    [] OTHER -> IF ~IsId(a, "defined") THEN a.s # "0"
                ELSE u[IF IsPunct(u[p + 3], "(") THEN p + 4 ELSE p + 3].s
                       \in DOMAIN Predefined

\* The first group whose condition holds is read, in every conditional around p.
Selected(u, p) ==
  \A d \in 1..Level(u, p) :
    LET H == HeadsAt(u, p, d)
    IN  Holds(u, Latest(H)) /\ \A q \in H \ {Latest(H)} : ~Holds(u, q)

\* The whole text: after each #include "..." of a group that is read stands the
\* file.  (The files of the sources this is used on include no others.)
IncludeName(p) == p > 2 /\ src[p].k = "str" /\ Name(src, p - 2) = "include"
Whole ==
  LET to[p \in 0..Len(src)] ==
        IF p = 0 THEN <<>>
        ELSE LET u == Append(to[p - 1], src[p])
             IN  IF IncludeName(p) /\ Selected(u, Len(u)) THEN u \o Headers[<<src[p].s>>]
                                                    ELSE u
  IN  to[Len(src)]

\* Conditionals are closed, and #else is the last group of its conditional; all
\* directives have names.
WellFormed(u) ==
  /\ \A p \in DOMAIN u :
       u[p].bol /\ IsPunct(u[p], "#") => u[p + 1].k = "id"
  /\ \A p \in DOMAIN u :
       Divider(u, p) \/ Closer(u, p) =>
         /\ Level(u, p) > 0
         /\ Divider(u, p) =>
              \A q \in HeadsAt(u, p, Level(u, p)) : Name(u, q) # "else"
  /\ Level(u, Len(u) + 1) = 0

Texts(t) == t.k = "id" /\ t.bol

\* A well-formed text is read to its end without a failure, every conditional
\* closed, and what comes out is the text of the selected groups, in order -- also
\* where a conditional is opened, divided or closed by an included file.
SelectsGroups ==
  /\ In("abort") => ~WellFormed(Whole)
  /\ In("done") =>
       LET u == Whole
           kept[p \in 0..Len(u)] ==
             IF p = 0 THEN <<>>
             ELSE IF Texts(u[p]) /\ Selected(u, p) THEN Append(kept[p - 1], u[p])
             ELSE kept[p - 1]
       IN  WellFormed(u) => /\ cond = <<>>
                            /\ SelectSeq(out, Texts) = kept[Len(u)]
=============================================================================
