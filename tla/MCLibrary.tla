------------------------------ MODULE MCLibrary ------------------------------
(* Bounds under which TLC checks the library: see README.md. *)
EXTENDS Library, TLC

CONSTANTS b1, b2, l1, l2, l3, first, moved, other, broken

MCBook == {b1, b2}
MCLocator == {l1, l2, l3}

Symmetry == Permutations(MCBook) \cup Permutations(MCLocator)

\* Two copies of a work, one from a provider that reports neither size nor time; another
\* work with the larger cover, from such a provider too; and a file that is no EPUB.
MCContent == {first, moved, other, broken}
MCStamp == (first :> 1) @@ (moved :> 0) @@ (other :> 0) @@ (broken :> 2)
MCPackage == (first :> "p") @@ (moved :> "p") @@ (other :> "q") @@ (broken :> NoPackage)
MCInitial == {first, other}
MCParses == {first, moved, other}
MCCoverSize == (first :> 1) @@ (moved :> 0) @@ (other :> 3) @@ (broken :> 0)
MCWork == (first :> 1) @@ (moved :> 1) @@ (other :> 2) @@ (broken :> 3)
=============================================================================
