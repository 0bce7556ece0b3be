------------------------------- MODULE PpCalls -------------------------------
(* Properties of macro definitions and calls. *)
EXTENDS Preprocessor

CONSTANT Meaning  \* what the sources that are one call should expand to, by source

Called == DOMAIN Meaning

\* Expanding a call gives its body with the expansions of its arguments in place
\* of the parameters, however the calls nest and whatever the arguments hold,
\* although the code inserts unexpanded arguments, rescans them, and keeps them
\* in the macro's one argument list (preprocessor.c:132-135).
ExpandsByValue ==
  /\ In("abort") => src \notin Called
  /\ In("done") /\ src \in Called =>
       [j \in DOMAIN out |-> out[j].s] = Meaning[src]

\* Once a definition is read, a function-like macro has as many parameters as it
\* counts, and one more for "...": a call with the right number of arguments
\* finds a parameter for each.  (Not after a redefinition, which goes on counting
\* where the last one stopped.)
ParamsMatchCount ==
  fn.in \in {"name", "params", "paramsend"} \/ diags # {} \/
    \A n \in DOMAIN macros :
      macros[n].kind = "func" =>
        Len(macros[n].params)
          = macros[n].count + (IF macros[n].variadic THEN 1 ELSE 0)
=============================================================================
