------------------------------ MODULE MacroRecord ------------------------------
(* The record of a macro (pp_macro, preprocessor.h) and what a #define makes   *)
(* of it.                                                                      *)
EXTENDS Naturals

\* What follows the name in a #define.
Definition == [kind : {"obj", "func"}, variadic : BOOLEAN, params : Nat, body : STRING]

\* What a name without a macro has; also what calloc gives for a new record.
NoRecord == [name |-> "", kind |-> "none", variadic |-> FALSE, count |-> 0,
             body |-> ""]

\* Plausible bug: the kind is set for a list of parameters only.
DefinedKindless(r, n, d) ==
  [name |-> n, kind |-> IF d.kind = "func" THEN d.kind ELSE r.kind,
   variadic |-> IF d.variadic THEN TRUE ELSE r.variadic,
   count |-> r.count + d.params, body |-> d.body]

\* Record r after definition d of name n.  Kind and body are replaced; a list of
\* parameters is counted on top of what is there (++arg_count), and is_variadic
\* is only ever set.
Defined(r, n, d) ==
  [name |-> n, kind |-> d.kind,
   variadic |-> IF d.variadic THEN TRUE ELSE r.variadic,
   count |-> r.count + d.params, body |-> d.body]

=============================================================================
