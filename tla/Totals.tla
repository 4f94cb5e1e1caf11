-------------------------------- MODULE Totals --------------------------------
(***************************************************************************)
(* The sum of the values of a function, by counting: Total(f) is the       *)
(* number of tokens when every x in its domain has f[x] of them.  Unlike a *)
(* fold, it can be reasoned about with the theorems about cardinalities.   *)
(***************************************************************************)
EXTENDS Integers, FiniteSets

Tokens(f) == UNION {{x} \X (1..f[x]) : x \in DOMAIN f}
Total(f) == Cardinality(Tokens(f))

=============================================================================
