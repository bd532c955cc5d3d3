---------------------------- MODULE MCSearchIndex ----------------------------
(* Bounds under which TLC checks the search index: see README.md. *)
EXTENDS SearchIndex, TLC

CONSTANTS b1, b2, s1, s2, t1, t2

MCBook == {b1, b2}
MCSeries == {s1, s2}
MCTask == {t1, t2}

Symmetry == Permutations(MCBook) \cup Permutations(MCSeries) \cup Permutations(MCTask)

\* The second version is shorter than the first; a mixed text is as long as either.
MCChapters == <<2, 1, 1>>
=============================================================================
