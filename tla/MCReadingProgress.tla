-------------------------- MODULE MCReadingProgress --------------------------
(* Bounds under which TLC checks the reader store: see README.md. *)
EXTENDS ReadingProgress, TLC

CONSTANTS A, B

MCBook == {A, B}
MCOneBook == {A}
Symmetry == Permutations(MCBook)
=============================================================================
