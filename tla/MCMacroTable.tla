----------------------------- MODULE MCMacroTable -----------------------------
(* Four names in one chain, two of them with one hash.                         *)
EXTENDS MacroTable, TLC

MCHash == "a" :> 2 @@ "b" :> 4 @@ "c" :> 4 @@ "d" :> 6

\* What pp_init defines before the source is read.
MCPredefined == <<"a", "d">>

MCDefinitions ==
  {Object, [kind |-> "func", variadic |-> TRUE, params |-> 1, body |-> "f"]}
=============================================================================
