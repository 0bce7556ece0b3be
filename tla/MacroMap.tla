------------------------------- MODULE MacroMap -------------------------------
(***************************************************************************)
(* What the table of macros is for the rest of the preprocessor: a map     *)
(* from the hash of a name to the record of the macro that has it.  A      *)
(* definition writes over the record it finds; #undef takes the record     *)
(* away, and the next definition begins with a new one.                    *)
(***************************************************************************)
EXTENDS MacroRecord

CONSTANTS Keys, Names, Definitions

VARIABLE map

Init == map = [k \in Keys |-> NoRecord]

Define(k, n, d) == map' = [map EXCEPT ![k] = Defined(@, n, d)]

Undef(k) == map' = [map EXCEPT ![k] = NoRecord]

Next ==
  \E k \in Keys :
    \/ \E n \in Names, d \in Definitions : Define(k, n, d)
    \/ Undef(k)

Spec == Init /\ [][Next]_map
=============================================================================
