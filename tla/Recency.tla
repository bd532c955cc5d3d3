------------------------------ MODULE Recency ------------------------------
(* The order in which the members of a set were written or used last, as the  *)
(* pairs <<x, y>> of which x was before y: updated_at and last_accessed_at.   *)
EXTENDS Totals

\* x and y are in the order when both are members; each comes before the other or after.
IsOrder(older, S) ==
    /\ older \subseteq S \X S
    /\ \A x, y \in S : x # y => <<x, y>> \in older \/ <<y, x>> \in older
    /\ \A x, y \in S : ~(<<x, y>> \in older /\ <<y, x>> \in older)
    /\ \A x, y, z \in S : <<x, y>> \in older /\ <<y, z>> \in older => <<x, z>> \in older

Without(older, x) == {pair \in older : x \notin {pair[1], pair[2]}}

\* x is the last now.
Touched(older, S, x) == Without(older, x) \cup (S \ {x}) \X {x}

\* What is left of S when the oldest go until the sizes fit the limit.
Since(older, S, x) == {y \in S : y = x \/ <<x, y>> \in older}
Newest(older, S, size, limit) ==
    {x \in S : Total([y \in Since(older, S, x) |-> size[y]]) <= limit}
=============================================================================
