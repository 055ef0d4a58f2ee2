-------------------------------- MODULE Wei --------------------------------
(***************************************************************************)
(* Sums of amounts.  An amount of n wei held by x is the set of n units    *)
(* {x} \X (1..n), and a sum over a function of amounts is the number of    *)
(* all its units.  TLC evaluates it on small amounts, and the theorems of  *)
(* FiniteSetTheorems on cardinalities make it possible to prove about.     *)
(***************************************************************************)
EXTENDS Integers, FiniteSets

Units(f) == UNION {{x} \X (1..f[x]) : x \in DOMAIN f}

Total(f) == Cardinality(Units(f))
=============================================================================
