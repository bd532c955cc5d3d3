---------------------------- MODULE MCSourceCache ----------------------------
(* Bounds under which TLC checks the source cache: see README.md. *)
EXTENDS SourceCache, TLC

CONSTANTS b1, b2, r1, r2

MCBook == {b1, b2}
MCRequest == {r1, r2}

\* The second version is shorter than the first.
MCLength == <<2, 1>>

\* A book that both requests may ask for, and one of the second's.
MCServes == (r1 :> {b1}) @@ (r2 :> {b1, b2})

\* Only the first's source reports a size and a time.
MCKnown == {b1}

\* Two requests for the one book there is: a page that is read while it is indexed.
MCSameBook == {b1}
MCTogether == (r1 :> {b1}) @@ (r2 :> {b1})
=============================================================================
