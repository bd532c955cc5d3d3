------------------------------- MODULE Totals -------------------------------
(* The sum of a function to the natural numbers, as the number of its units:  *)
(* what the code adds up with SUM(...) or iter().sum().                       *)
EXTENDS Naturals, FiniteSets

Units(f) == UNION {{x} \X (1..f[x]) : x \in DOMAIN f}
Total(f) == Cardinality(Units(f))
=============================================================================
